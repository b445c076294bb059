-------------------------------- MODULE MCRouter --------------------------------
(* Model checking of RouterEngine: processes, threads and runners. *)
EXTENDS RouterEngine, TLC

CONSTANTS e1, e2, t1, t2, n1, n2, n3

(* Two processes of one thread each; the first one may start twice. *)
TwoProcesses == t1 :> e1 @@ t2 :> e2
ThreeRunners == n1 :> t1 @@ n2 :> t1 @@ n3 :> t2
=============================================================================
