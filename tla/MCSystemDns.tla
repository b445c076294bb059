------------------------------ MODULE MCSystemDns ------------------------------
(* Two services, settings of at most two servers. *)
EXTENDS SystemDns, FiniteSets

CONSTANTS wifi, eth, a, b, lease

MCServices == {wifi, eth}
MCAddrs == {a, b, lease}
DhcpOnly == {<<>>}
MCHostSettings == {<<>>, <<a>>, <<a, b>>}
(* At most 2 accidents in a behaviour. *)
FewAccidents == Cardinality(accidents) <= 2
(* Behaviours in which a run gets as far as a Stop. *)
StartSucceeds == MgrStartTun => routes'

=============================================================================
