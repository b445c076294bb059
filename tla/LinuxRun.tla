------------------------------- MODULE LinuxRun -------------------------------
(***************************************************************************)
(* The life of `gecit run` and `gecit cleanup` on a Linux host: runEngine  *)
(* (cmd/gecit/app/run.go), the ebpfEngine it starts and stops              *)
(* (run_linux.go), the DNS server's hold on 127.0.0.1:53                   *)
(* (pkg/dns/server.go), the rewriting of /etc/resolv.conf                  *)
(* (pkg/dns/system_linux.go) and the systemd unit of scripts/install.sh.   *)
(*                                                                         *)
(* Any number of runs and cleanups share one file and one port.  Every     *)
(* read, truncation and write of the file is a step of its own, as nothing *)
(* locks it.  Processes die at any step, the file is rewritten by the host *)
(* (a DHCP client, NetworkManager), calls fail.                            *)
(***************************************************************************)
EXTENDS ResolvConf

CONSTANTS
    Insts,      \* processes `gecit run`
    Unit,       \* those of Insts that are started by the systemd unit
    Cleaners,   \* processes `gecit cleanup` started by a user
    None,       \* no process
    HostServers,\* the sets of name servers the host may write
    Events      \* the disturbances that may happen, see EventsAssumption

Procs == Insts \cup Cleaners

ASSUME ProcsAssumption ==
    /\ Unit \subseteq Insts
    /\ Insts \cap Cleaners = {}
    /\ None \notin Procs

ASSUME HostServersAssumption ==
    HostServers \subseteq (SUBSET (Servers \ {Local})) \ {{}}

ASSUME EventsAssumption ==
    Events \subseteq
        { "kill",       \* SIGKILL, a panic, the OOM killer: a process dies
          "tear",       \* ... even between WriteFile's truncation and write
          "interrupt",  \* Ctrl+C before signal.Notify has been called
          "killpost",   \* the unit's ExecStopPost process is killed too
          "power",      \* the host goes down and comes back
          "io",         \* a read, an open or a write of the file fails
          "server",     \* ListenAndServe fails after the server has started
          "host" }      \* the host rewrites resolv.conf

VARIABLES
    file,         \* /etc/resolv.conf
    wanted,       \* the name servers the host put there last
    port,         \* the run listening on 127.0.0.1:53, or None
    pc,           \* the call each process is in
    doh,          \* per run: DoH enabled (it is unless --doh=false)
    bpf,          \* per run: the sock_ops program is attached
    seen,         \* per process: the file as os.ReadFile returned it
    scars         \* history: what has gone wrong with the file, see Scars

vars == <<file, wanted, port, pc, doh, bpf, seen, scars>>

(***************************************************************************)
(* The scars are not in the program: they record the accidents that excuse *)
(* a loss.  torn: a WriteFile got as far as its truncation only.           *)
(* clobbered: the file was written over contents its writer had not read.  *)
(* stacked: SetSystemDNS ran on a file that was in gecit's state already.  *)
(* orphaned: a run went away and left the file pointing to it.  deaf: a    *)
(* run lost its DNS server and did not notice.                             *)
(***************************************************************************)
Scars == {"torn", "clobbered", "stacked", "orphaned", "deaf"}

SetPcs   == {"setRead", "setTrunc", "setWrite"}
RstPcs   == {"rstRead", "rstTrunc", "rstWrite"}
StartPcs == {"bind", "attach", "ready"} \cup SetPcs
StopPcs  == RstPcs \cup {"dnsStop", "mgrStop"}
CleanPcs == {"clnCheck", "clnRead", "clnTrunc", "clnWrite"}
RunPcs   == StartPcs \cup {"running"} \cup StopPcs
Pcs      == {"off"} \cup RunPcs \cup CleanPcs

Window     == {"setWrite", "rstWrite", "clnWrite"}      \* inside os.WriteFile
BeforeOpen == {"setRead", "setTrunc", "rstRead", "rstTrunc",
               "clnCheck", "clnRead", "clnTrunc"}

TypeOK ==
    /\ file \in Files
    /\ wanted \in HostServers
    /\ port \in Insts \cup {None}
    /\ pc \in [Procs -> Pcs]
    /\ \A c \in Cleaners : pc[c] \in {"off"} \cup CleanPcs
    /\ doh \in [Insts -> BOOLEAN]
    /\ bpf \in [Insts -> BOOLEAN]
    /\ seen \in [Procs -> Files]
    /\ scars \subseteq Scars

Init ==
    /\ wanted \in HostServers
    /\ file = Plain(wanted)
    /\ port = None
    /\ pc = [p \in Procs |-> "off"]
    /\ doh = [i \in Insts |-> TRUE]
    /\ bpf = [i \in Insts |-> FALSE]
    /\ seen = [p \in Procs |-> Truncated]
    /\ scars = {}

-----------------------------------------------------------------------------
Goto(p, l) == pc' = [pc EXCEPT ![p] = l]

(* A process returns; of the unit's, systemd then runs ExecStopPost. *)
AfterExitNoPost(p) == "off"      \* mutant: a unit without ExecStopPost
AfterExit(p) == IF p \in Unit THEN "clnCheck" ELSE "off"
Exit(p) == Goto(p, AfterExit(p))

Mark(b, scar) == IF b THEN {scar} ELSE {}

(***************************************************************************)
(* Reading and rewriting the file.  The contents are computed from what    *)
(* was read; seen is dropped once they are written.                        *)
(***************************************************************************)
Read(p) == seen' = [seen EXCEPT ![p] = file]
Drop(p) == seen' = [seen EXCEPT ![p] = Truncated]

Contended(p) ==
    \/ file # seen[p]
    \/ \E q \in Procs \ {p} : pc[q] \in Window

Truncate(p) ==
    /\ file' = Truncated
    /\ scars' = scars \cup Mark(Contended(p), "clobbered")
                      \cup Mark(pc[p] = "setTrunc" /\ hasGecitDNSState(seen[p]), "stacked")
    /\ UNCHANGED <<wanted, port, doh, bpf, seen>>

Write(p, contents) ==
    /\ file' = contents
    /\ Drop(p)
    /\ scars' = (scars \cup Mark(file # Truncated, "clobbered"))
                \ Mark(pc[p] # "setWrite", "orphaned")
    /\ UNCHANGED <<wanted, port, doh, bpf>>

-----------------------------------------------------------------------------
(***************************************************************************)
(* `gecit run` up to dns.Start or, without DoH, mgr.Start.                 *)
(***************************************************************************)
Launch(i) ==
    /\ pc[i] = "off"
    /\ \E d \in BOOLEAN :
        /\ doh' = [doh EXCEPT ![i] = d]
        /\ Goto(i, IF d THEN "bind" ELSE "attach")
    /\ UNCHANGED <<file, wanted, port, bpf, seen, scars>>

(* Mutant: the server shares its port (SO_REUSEPORT). *)
BindShared(i) ==
    /\ pc[i] = "bind"
    /\ port' = i
    /\ Goto(i, "setRead")
    /\ UNCHANGED <<file, wanted, doh, bpf, seen, scars>>

(* dns.Start returns once the socket is bound: two runs cannot both get it. *)
Bind(i) ==
    /\ pc[i] = "bind"
    /\ port = None
    /\ port' = i
    /\ Goto(i, "setRead")
    /\ UNCHANGED <<file, wanted, doh, bpf, seen, scars>>

BindFails(i) ==
    /\ pc[i] = "bind"
    /\ Exit(i)
    /\ UNCHANGED <<file, wanted, port, doh, bpf, seen, scars>>

SetRead(i) ==
    /\ pc[i] = "setRead"
    /\ Read(i)
    /\ Goto(i, "setTrunc")
    /\ UNCHANGED <<file, wanted, port, doh, bpf, scars>>

SetTruncate(i) ==
    /\ pc[i] = "setTrunc"
    /\ Truncate(i)
    /\ Goto(i, "setWrite")

SetWrite(i) ==
    /\ pc[i] = "setWrite"
    /\ Write(i, SetSystemDNS(seen[i]))
    /\ Goto(i, "attach")

(* mgr.Start: detailed in EbpfManager; here it attaches the program or not. *)
Attach(i) ==
    /\ pc[i] = "attach"
    /\ bpf' = [bpf EXCEPT ![i] = TRUE]
    /\ Goto(i, "ready")
    /\ UNCHANGED <<file, wanted, port, doh, seen, scars>>

AttachFailsForgets(i) ==    \* mutant: Start returns the error without RestoreSystemDNS
    /\ pc[i] = "attach"
    /\ IF doh[i] THEN Goto(i, "dnsStop") ELSE Exit(i)
    /\ UNCHANGED <<file, wanted, port, doh, bpf, seen, scars>>

AttachFails(i) ==
    /\ pc[i] = "attach"
    /\ IF doh[i] THEN Goto(i, "rstRead") ELSE Exit(i)
    /\ UNCHANGED <<file, wanted, port, doh, bpf, seen, scars>>

(* Start has returned; from signal.Notify on, a signal is received. *)
Notify(i) ==
    /\ pc[i] = "ready"
    /\ Goto(i, "running")
    /\ UNCHANGED <<file, wanted, port, doh, bpf, seen, scars>>

(* Mutant: Stop closes the server without restoring the system's DNS. *)
SignalNoRestore(i) ==
    /\ pc[i] = "running"
    /\ Goto(i, IF doh[i] THEN "dnsStop" ELSE "mgrStop")
    /\ UNCHANGED <<file, wanted, port, doh, bpf, seen, scars>>

(* SIGINT or SIGTERM in the running state: eng.Stop begins. *)
Signal(i) ==
    /\ pc[i] = "running"
    /\ Goto(i, IF doh[i] THEN "rstRead" ELSE "mgrStop")
    /\ UNCHANGED <<file, wanted, port, doh, bpf, seen, scars>>

(* RestoreSystemDNS, in Stop and on the failure path of Start. *)
RestoreRead(i) ==
    /\ pc[i] = "rstRead"
    /\ IF hasGecitDNSState(file)
       THEN Read(i) /\ Goto(i, "rstTrunc")
       ELSE Goto(i, "dnsStop") /\ UNCHANGED seen
    /\ UNCHANGED <<file, wanted, port, doh, bpf, scars>>

RestoreTruncate(i) ==
    /\ pc[i] = "rstTrunc"
    /\ Truncate(i)
    /\ Goto(i, "rstWrite")

RestoreWrite(i) ==
    /\ pc[i] = "rstWrite"
    /\ Write(i, RestoreSystemDNS(seen[i]))
    /\ Goto(i, "dnsStop")

(* dns.Stop; a run whose Start failed has no program to detach. *)
DnsStop(i) ==
    /\ pc[i] = "dnsStop"
    /\ port' = IF port = i THEN None ELSE port
    /\ IF bpf[i] THEN Goto(i, "mgrStop") ELSE Exit(i)
    /\ UNCHANGED <<file, wanted, doh, bpf, seen, scars>>

MgrStop(i) ==
    /\ pc[i] = "mgrStop"
    /\ bpf' = [bpf EXCEPT ![i] = FALSE]
    /\ Exit(i)
    /\ UNCHANGED <<file, wanted, port, doh, seen, scars>>

-----------------------------------------------------------------------------
(***************************************************************************)
(* `gecit cleanup`, by a user or as the unit's ExecStopPost:               *)
(* SystemDNSNeedsRestore reads the file, then RestoreSystemDNS again.      *)
(***************************************************************************)
StartCleanup(c) ==
    /\ pc[c] = "off"
    /\ Goto(c, "clnCheck")
    /\ UNCHANGED <<file, wanted, port, doh, bpf, seen, scars>>

CleanCheck(p) ==
    /\ pc[p] = "clnCheck"
    /\ Goto(p, IF hasGecitDNSState(file) THEN "clnRead" ELSE "off")
    /\ UNCHANGED <<file, wanted, port, doh, bpf, seen, scars>>

CleanRead(p) ==
    /\ pc[p] = "clnRead"
    /\ IF hasGecitDNSState(file)
       THEN Read(p) /\ Goto(p, "clnTrunc")
       ELSE Goto(p, "off") /\ UNCHANGED seen
    /\ UNCHANGED <<file, wanted, port, doh, bpf, scars>>

CleanTruncate(p) ==
    /\ pc[p] = "clnTrunc"
    /\ Truncate(p)
    /\ Goto(p, "clnWrite")

CleanWrite(p) ==
    /\ pc[p] = "clnWrite"
    /\ Write(p, RestoreSystemDNS(seen[p]))
    /\ Goto(p, "off")

-----------------------------------------------------------------------------
(***************************************************************************)
(* Failures.  A process that cannot read or open the file leaves it as it  *)
(* is, one whose write fails leaves it truncated; a run goes on with       *)
(* dns.Stop in both, as Start's failure path and Stop do.                  *)
(***************************************************************************)
GiveUp(p) ==
    /\ Drop(p)
    /\ Goto(p, IF pc[p] \in CleanPcs THEN "off" ELSE "dnsStop")
    /\ UNCHANGED <<file, wanted, port, doh, bpf>>

OpenFails(p) ==
    /\ "io" \in Events
    /\ pc[p] \in BeforeOpen
    /\ GiveUp(p)
    /\ scars' = scars \cup Mark(pc[p] \in RstPcs /\ Hijacked(file), "orphaned")

WriteFails(p) ==
    /\ "io" \in Events
    /\ pc[p] \in Window
    /\ GiveUp(p)
    /\ scars' = scars \cup {"torn"}

(* The error of ListenAndServe is logged and nothing else happens. *)
ServerFails(i) ==
    /\ "server" \in Events
    /\ port = i
    /\ port' = None
    /\ scars' = scars \cup {"deaf"}
    /\ UNCHANGED <<file, wanted, pc, doh, bpf, seen>>

(* A process dies: the kernel closes its socket and its cgroup link. *)
Die(p) ==
    /\ scars' = scars \cup Mark(pc[p] \in Window, "torn")
                      \cup Mark(port = p /\ Hijacked(file), "orphaned")
    /\ port' = IF port = p THEN None ELSE port
    /\ bpf' = [i \in Insts |-> bpf[i] /\ i # p]
    /\ Drop(p)
    /\ UNCHANGED <<file, wanted, doh>>

Kill(p) ==
    /\ "kill" \in Events
    /\ pc[p] # "off"
    /\ pc[p] \in Window => "tear" \in Events
    /\ pc[p] \in CleanPcs => "killpost" \in Events
    /\ Die(p)
    /\ IF pc[p] \in CleanPcs THEN Goto(p, "off") ELSE Exit(p)

Interrupt(i) ==
    /\ "interrupt" \in Events
    /\ pc[i] \in StartPcs
    /\ pc[i] \in Window => "tear" \in Events
    /\ Die(i)
    /\ Exit(i)

PowerLoss ==
    /\ "power" \in Events
    /\ scars' = scars \cup Mark(\E p \in Procs : pc[p] \in Window, "torn")
                      \cup Mark(Hijacked(file), "orphaned")
    /\ pc' = [p \in Procs |-> "off"]
    /\ port' = None
    /\ bpf' = [i \in Insts |-> FALSE]
    /\ seen' = [p \in Procs |-> Truncated]
    /\ UNCHANGED <<file, wanted, doh>>

(* The host writes new name servers, and repairs what was lost before. *)
HostRewrites(S) ==
    /\ "host" \in Events
    /\ wanted' = S
    /\ file' = Plain(S)
    /\ scars' = scars \ {"torn", "stacked", "orphaned"}
    /\ UNCHANGED <<port, pc, doh, bpf, seen>>

-----------------------------------------------------------------------------
RunStep(i) ==
    \/ Bind(i) \/ BindFails(i)
    \/ SetRead(i) \/ SetTruncate(i) \/ SetWrite(i)
    \/ Attach(i) \/ AttachFails(i) \/ Notify(i)
    \/ RestoreRead(i) \/ RestoreTruncate(i) \/ RestoreWrite(i)
    \/ DnsStop(i) \/ MgrStop(i)

CleanStep(p) ==
    CleanCheck(p) \/ CleanRead(p) \/ CleanTruncate(p) \/ CleanWrite(p)

Fault(p) == OpenFails(p) \/ WriteFails(p) \/ Kill(p)

Next ==
    \/ \E i \in Insts : \/ Launch(i) \/ Signal(i) \/ RunStep(i)
                        \/ ServerFails(i) \/ Interrupt(i)
    \/ \E c \in Cleaners : StartCleanup(c)
    \/ \E p \in Procs : CleanStep(p) \/ Fault(p)
    \/ PowerLoss
    \/ \E S \in HostServers : HostRewrites(S)

Spec == Init /\ [][Next]_vars

(***************************************************************************)
(* A process that is in a call of its own code gets on with it; nothing    *)
(* obliges anybody to launch a run, to signal it or to run a cleanup.      *)
(***************************************************************************)
Fairness ==
    /\ \A i \in Insts : WF_vars(RunStep(i))
    /\ \A p \in Procs : WF_vars(CleanStep(p))

FairSpec == Spec /\ Fairness

-----------------------------------------------------------------------------
(* The run is between dns.Start and dns.Stop. *)
Holds(i) ==
    /\ doh[i]
    /\ pc[i] \in SetPcs \cup {"attach", "ready", "running"} \cup RstPcs \cup {"dnsStop"}

Writing == \E p \in Procs : pc[p] \in Window

(***************************************************************************)
(* The socket on 127.0.0.1:53 is the lock of resolv.conf among runs: Start *)
(* takes it before SetSystemDNS and every path of Stop and Start gives it  *)
(* up after RestoreSystemDNS, so two runs never edit the file together.    *)
(* Only a run whose server has failed without telling is out of the lock.  *)
(***************************************************************************)
PortIsLock ==
    "deaf" \notin scars => \A i \in Insts : Holds(i) <=> port = i

(***************************************************************************)
(* Whatever runs, cleanups, crashes and failures do, the host's own name   *)
(* servers are what `gecit cleanup` would put back, unless a write was     *)
(* torn, another process's write was overwritten, or SetSystemDNS ran on   *)
(* its own output: there is no other way to lose them.                     *)
(***************************************************************************)
OnlyKnownLosses ==
    scars \cap {"torn", "clobbered", "stacked"} = {} /\ ~Writing
        => Recovered(file).active = wanted

(***************************************************************************)
(* The host's lookups are sent to 127.0.0.1 only while a run listens       *)
(* there: Start binds before it redirects, and the failure path of Start   *)
(* and Stop redirect back before they close the socket.                    *)
(***************************************************************************)
HijackServed ==
    scars = {} /\ Hijacked(file) => port # None

(***************************************************************************)
(* With one run, started by systemd, every end of it is followed by a      *)
(* cleanup before the next start, so SetSystemDNS never finds the file in  *)
(* gecit's state and never forgets the saved name servers.                 *)
(***************************************************************************)
NeverStacked == "stacked" \notin scars

(***************************************************************************)
(* Under systemd a host whose lookups are sent to a port where nobody      *)
(* listens gets its own name servers back without anybody's help, and some *)
(* name server if a torn or overwritten write had lost its own             *)
(* (install.sh:206).  A file without any server is another outage, which   *)
(* this does not speak of: when the run dies between WriteFile's           *)
(* truncation and write the marker is gone too, and no cleanup sees that   *)
(* anything is to be restored.                                             *)
(***************************************************************************)
OutageEnds ==
    (Hijacked(file) /\ port = None)
        ~> /\ ~Hijacked(file)
           /\ IF scars \cap {"torn", "clobbered"} = {}
              THEN file.active = wanted
              ELSE file.active # {}

(***************************************************************************)
(* system_linux.go:11-13 of SetSystemDNS: the original lines are preserved *)
(* so that they survive a crash, and RestoreSystemDNS can recover them.    *)
(***************************************************************************)
SurvivesCrash == ~Writing => Recovered(file).active = wanted

(***************************************************************************)
(* The runs and cleanups of a host keep what DnsRedirection promises of    *)
(* resolv.conf: every step of them, of a crash or of a failure is one the  *)
(* promise allows, until an accident with the file has voided it.  While a *)
(* process rewrites the file, what was in it is in that process's hands.   *)
(***************************************************************************)
Promise == INSTANCE DnsRedirection WITH
    Services <- {"resolv.conf"},
    served <- port # None,
    redirected <- {s \in {"resolv.conf"} : Hijacked(file)},
    saved <- {s \in {"resolv.conf"} : Writing \/ Recovered(file).active = wanted},
    orphaned <- {s \in {"resolv.conf"} :
                     Hijacked(file) /\ (port = None \/ "orphaned" \in scars)},
    intact <- scars \cap {"torn", "clobbered", "stacked", "deaf"} = {}

PromiseKept == Promise!Spec

-----------------------------------------------------------------------------
(***************************************************************************)
(* The inductive invariants behind PortIsLock, OnlyKnownLosses,            *)
(* HijackServed and NeverStacked (LinuxRun_proofs).                        *)
(***************************************************************************)
LockInv ==
    /\ \A i \in Insts :
          pc[i] \in {"bind", "dnsStop"} \cup SetPcs \cup RstPcs => doh[i]
    /\ PortIsLock

(* What process p is about to write. *)
Contents(p) ==
    IF pc[p] \in SetPcs THEN SetSystemDNS(seen[p]) ELSE RestoreSystemDNS(seen[p])

LossInv ==
    /\ \A p \in Procs :
          pc[p] \in {"rstTrunc", "clnTrunc"} => hasGecitDNSState(seen[p])
    /\ "clobbered" \notin scars
          => \A p, q \in Procs : pc[p] \in Window /\ pc[q] \in Window => p = q
    /\ scars \cap {"torn", "clobbered", "stacked"} = {} =>
          /\ ~Writing => Recovered(file) = Plain(wanted)
          /\ \A p \in Procs : pc[p] \in Window /\ file = Truncated
                                => Recovered(Contents(p)) = Plain(wanted)

ServedInv ==
    scars = {} /\ Hijacked(file)
        => \E i \in Insts : /\ port = i
                            /\ pc[i] \in {"attach", "ready", "running"} \cup RstPcs

(* One run, started by systemd, and no accident in its cleanup. *)
Supervised ==
    /\ Insts = Unit
    /\ Cleaners = {}
    /\ \A i, j \in Insts : i = j
    /\ Events \cap {"killpost", "power", "io"} = {}

StackInv ==
    /\ "stacked" \notin scars
    /\ \A i \in Insts :
          /\ pc[i] \in {"off", "bind", "setRead", "setTrunc"} => ~hasGecitDNSState(file)
          /\ pc[i] = "setTrunc" => ~hasGecitDNSState(seen[i])
=============================================================================
