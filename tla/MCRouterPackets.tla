--------------------------- MODULE MCRouterPackets ---------------------------
(***************************************************************************)
(* Four connections: three TLS clients, more than the flow table holds,    *)
(* and c2, which uses the port of c1 after it for what ParsePacket         *)
(* refuses.                                                                *)
(***************************************************************************)
EXTENDS RouterPackets, TLC

CONSTANTS c1, c2, c3, c4, k1, k3, k4

PortReused == (c1 :> k1) @@ (c2 :> k1) @@ (c3 :> k3) @@ (c4 :> k4)
OneGarbled == (c1 :> "hello") @@ (c2 :> "garbled") @@ (c3 :> "hello") @@ (c4 :> "hello")
OnlyOneAgain == (c1 :> 2) @@ (c2 :> 1) @@ (c3 :> 1) @@ (c4 :> 1)

=============================================================================
