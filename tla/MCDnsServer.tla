------------------------------ MODULE MCDnsServer ------------------------------
(***************************************************************************)
(* Two programs look up two names with the same two addresses, through a   *)
(* named upstream and one that is given by its address.                    *)
(***************************************************************************)
EXTENDS DnsServer, TLC

CONSTANTS a1, a2, d1, d2, l1, l2, x, y

TwoNames == (a1 :> d1) @@ (a2 :> d2)
SameAddresses == (d1 :> IPs) @@ (d2 :> IPs)

=============================================================================
