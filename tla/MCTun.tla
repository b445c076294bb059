--------------------------------- MODULE MCTun ---------------------------------
(***************************************************************************)
(* Two connections, the second of which gets the local port of the first   *)
(* after it.                                                               *)
(***************************************************************************)
EXTENDS TunHandler, TLC

CONSTANTS c1, c2, p1

OnePort == c1 :> p1 @@ c2 :> p1
TargetLast == c1 :> Kinds @@ c2 :> {"target"}
=============================================================================
