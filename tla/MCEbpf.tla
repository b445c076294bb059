-------------------------------- MODULE MCEbpf --------------------------------
(***************************************************************************)
(* Model checking of EbpfManager: two connections to an ordinary server,   *)
(* the first of which the kernel may refuse calls, and one to the DoH      *)
(* server, which closes without a word.                                    *)
(***************************************************************************)
EXTENDS EbpfManager, TLC
CONSTANTS c1, c2, c3, web, doh, https
MCRemoteIp4  == c1 :> web @@ c2 :> doh @@ c3 :> web
MCRemotePort == c1 :> https @@ c2 :> https @@ c3 :> https
WebSends     == c1 :> 2 @@ c2 :> 0 @@ c3 :> 2
=============================================================================
