--------------------------------- MODULE MCHost ---------------------------------
(***************************************************************************)
(* A host and its name servers: LinuxRun with two runs and a user's        *)
(* cleanup, and SystemDns on macOS or Windows.  The two share no state: a  *)
(* behaviour is about one of them while the other stays as it was first.   *)
(***************************************************************************)
EXTENDS MCLinuxRun, MCSystemDns

LinuxRest == Init
DnsRest ==
    /\ platform = "darwin" /\ active = DefaultService
    /\ own = [s \in Services |-> <<>>]
    /\ DnsInit

HostInit == Init /\ DnsInit

HostNext ==
    \/ DnsRest /\ Next /\ UNCHANGED dnsVars
    \/ LinuxRest /\ DnsNext /\ UNCHANGED vars

HostSpec == HostInit /\ [][HostNext]_<<vars, dnsVars>>
=============================================================================
