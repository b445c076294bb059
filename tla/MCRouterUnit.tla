----------------------------- MODULE MCRouterUnit -----------------------------
(***************************************************************************)
(* The router engine with the processes, threads and runners of MCRouter   *)
(* and, beside it, one run of LinuxRun that is started by the systemd unit *)
(* on a host that rewrites its file.  The two share no state: a behaviour  *)
(* is about one of them while the other rests.                             *)
(***************************************************************************)
EXTENDS MCRouter

CONSTANTS Local, Fallback, isp, u1
VARIABLES uFile, uWanted, uPort, uPc, uDoh, uBpf, uSeen, uScars
unitVars == <<uFile, uWanted, uPort, uPc, uDoh, uBpf, uSeen, uScars>>

Unit == INSTANCE LinuxRun WITH
    Servers <- {Local, Fallback, isp}, HostServers <- {{isp}, {isp, Fallback}},
    Insts <- {u1}, Unit <- {u1}, Cleaners <- {},
    Events <- {"kill", "tear", "interrupt", "host"},
    file <- uFile, wanted <- uWanted, port <- uPort, pc <- uPc, doh <- uDoh,
    bpf <- uBpf, seen <- uSeen, scars <- uScars

(***************************************************************************)
(* What LinuxRun says of a run that systemd starts: SetSystemDNS never     *)
(* finds gecit's own file, and an outage of the host's lookups ends.       *)
(***************************************************************************)
NeverStacked == Unit!NeverStacked
OutageEnds == Unit!OutageEnds

BothInit == Init /\ Unit!Init

BothNext ==
    \/ Next /\ Unit!Init /\ uWanted = {isp} /\ UNCHANGED unitVars
    \/ Unit!Next /\ Init /\ UNCHANGED vars

BothSpec ==
    /\ BothInit /\ [][BothNext]_<<vars, unitVars>>
    /\ EngineFairness /\ Unit!Fairness
=============================================================================
