---------------------------- MODULE LinuxRun_proofs ----------------------------
(***************************************************************************)
(* Proofs about LinuxRun for every set of runs, cleanups and name servers, *)
(* and every combination of disturbances.                                  *)
(***************************************************************************)
EXTENDS LinuxRun, TLAPS

(* The contents RestoreSystemDNS and SetSystemDNS write are files. *)
LEMMA ContentsTyped ==
    /\ Truncated \in Files
    /\ \A f \in Files : SetSystemDNS(f) \in Files /\ RestoreSystemDNS(f) \in Files
BY ServersAssumption DEF Files, SetSystemDNS, RestoreSystemDNS, Truncated

LEMMA PlainTyped == \A S \in HostServers : Plain(S) \in Files
BY HostServersAssumption DEF Files, Plain

LEMMA MarkTyped == \A b, scar : scar \in Scars => Mark(b, scar) \subseteq Scars
BY DEF Mark

(* The two halves of os.WriteFile and giving up keep the types they touch. *)
LEMMA RewriteTyped ==
    ASSUME TypeOK, NEW p \in Procs
    PROVE  /\ Truncate(p) => /\ file' \in Files
                             /\ scars' \subseteq Scars
                             /\ seen' = seen
           /\ \A contents \in Files :
                Write(p, contents) => /\ file' \in Files
                                      /\ scars' \subseteq Scars
                                      /\ seen' \in [Procs -> Files]
<1>1. scars \subseteq Scars /\ seen \in [Procs -> Files]
    BY DEF TypeOK
<1>2. \A a, b : Mark(a, "clobbered") \cup Mark(b, "stacked") \subseteq Scars
    BY MarkTyped DEF Scars
<1>3. ASSUME Truncate(p)
      PROVE  file' \in Files /\ scars' \subseteq Scars /\ seen' = seen
    BY <1>1, <1>2, <1>3, ContentsTyped DEF Truncate
<1>4. ASSUME NEW contents \in Files, Write(p, contents)
      PROVE  file' \in Files /\ scars' \subseteq Scars /\ seen' \in [Procs -> Files]
    BY <1>1, <1>2, <1>4, ContentsTyped DEF Write, Drop
<1>5. QED BY <1>3, <1>4

(***************************************************************************)
(* Every step keeps the types of the variables.                            *)
(***************************************************************************)
LEMMA Typing == TypeOK /\ [Next]_vars => TypeOK'
<1> SUFFICES ASSUME TypeOK, [Next]_vars PROVE TypeOK'
    OBVIOUS
<1> USE ProcsAssumption DEF Procs
<1> USE DEF Pcs, RunPcs, StartPcs, StopPcs, SetPcs, RstPcs, CleanPcs
<1>1. ASSUME NEW i \in Insts, Launch(i) PROVE TypeOK'
    BY <1>1 DEF TypeOK, Launch, Goto
<1>2. ASSUME NEW i \in Insts, Signal(i) PROVE TypeOK'
    BY <1>2 DEF TypeOK, Signal, Goto
<1>3. ASSUME NEW i \in Insts, RunStep(i) PROVE TypeOK'
    <2>1. CASE Bind(i) \/ BindFails(i)
        BY <2>1 DEF TypeOK, Bind, BindFails, Goto, Exit, AfterExit
    <2>2. CASE SetRead(i)
        BY <2>2 DEF TypeOK, SetRead, Read, Goto
    <2>3. CASE SetTruncate(i) \/ RestoreTruncate(i)
        BY <2>3, RewriteTyped
        DEF TypeOK, SetTruncate, RestoreTruncate, Truncate, Goto
    <2>4. CASE SetWrite(i) \/ RestoreWrite(i)
        <3>1. SetSystemDNS(seen[i]) \in Files /\ RestoreSystemDNS(seen[i]) \in Files
            BY ContentsTyped DEF TypeOK
        <3>2. QED
            BY <2>4, <3>1, RewriteTyped DEF TypeOK, SetWrite, RestoreWrite, Write, Goto
    <2>5. CASE Attach(i) \/ AttachFails(i) \/ Notify(i)
        BY <2>5 DEF TypeOK, Attach, AttachFails, Notify, Goto, Exit, AfterExit
    <2>6. CASE RestoreRead(i)
        BY <2>6 DEF TypeOK, RestoreRead, Read, Goto
    <2>7. CASE DnsStop(i) \/ MgrStop(i)
        BY <2>7 DEF TypeOK, DnsStop, MgrStop, Goto, Exit, AfterExit
    <2>8. QED BY <1>3, <2>1, <2>2, <2>3, <2>4, <2>5, <2>6, <2>7 DEF RunStep
<1>4. ASSUME NEW i \in Insts, ServerFails(i) PROVE TypeOK'
    BY <1>4 DEF TypeOK, ServerFails, Scars
<1>5. ASSUME NEW p \in Procs, Die(p)
      PROVE  scars' \subseteq Scars /\ seen' \in [Procs -> Files]
    <2>1. \A a, b : Mark(a, "torn") \cup Mark(b, "orphaned") \subseteq Scars
        BY MarkTyped DEF Scars
    <2>2. QED BY <1>5, <2>1, ContentsTyped DEF TypeOK, Die, Drop
<1>6. ASSUME NEW i \in Insts, Interrupt(i) PROVE TypeOK'
    BY <1>5, <1>6 DEF TypeOK, Interrupt, Die, Goto, Exit, AfterExit
<1>7. ASSUME NEW c \in Cleaners, StartCleanup(c) PROVE TypeOK'
    BY <1>7 DEF TypeOK, StartCleanup, Goto
<1>8. ASSUME NEW p \in Procs, CleanStep(p) PROVE TypeOK'
    <2>1. CASE CleanCheck(p)
        BY <2>1 DEF TypeOK, CleanCheck, Goto
    <2>2. CASE CleanRead(p)
        BY <2>2 DEF TypeOK, CleanRead, Read, Goto
    <2>3. CASE CleanTruncate(p)
        BY <2>3, RewriteTyped DEF TypeOK, CleanTruncate, Truncate, Goto
    <2>4. CASE CleanWrite(p)
        <3>1. RestoreSystemDNS(seen[p]) \in Files
            BY ContentsTyped DEF TypeOK
        <3>2. QED BY <2>4, <3>1, RewriteTyped DEF TypeOK, CleanWrite, Write, Goto
    <2>5. QED BY <1>8, <2>1, <2>2, <2>3, <2>4 DEF CleanStep
<1>9. ASSUME NEW p \in Procs, Fault(p) PROVE TypeOK'
    <2>1. CASE OpenFails(p) \/ WriteFails(p)
        <3>1. GiveUp(p)
            BY <2>1 DEF OpenFails, WriteFails
        <3>2. scars' \subseteq Scars
            BY <2>1, MarkTyped DEF TypeOK, OpenFails, WriteFails, Scars
        <3>3. p \in Cleaners => pc[p] \in CleanPcs
            BY <2>1 DEF TypeOK, OpenFails, WriteFails, BeforeOpen, Window
        <3>4. QED BY <3>1, <3>2, <3>3, ContentsTyped DEF TypeOK, GiveUp, Drop, Goto
    <2>2. CASE Kill(p)
        BY <1>5, <2>2 DEF TypeOK, Kill, Die, Goto, Exit, AfterExit
    <2>3. QED BY <1>9, <2>1, <2>2 DEF Fault
<1>10. ASSUME PowerLoss PROVE TypeOK'
    <2>1. \A a, b : Mark(a, "torn") \cup Mark(b, "orphaned") \subseteq Scars
        BY MarkTyped DEF Scars
    <2>2. QED BY <1>10, <2>1, ContentsTyped DEF TypeOK, PowerLoss
<1>11. ASSUME NEW S \in HostServers, HostRewrites(S) PROVE TypeOK'
    BY <1>11, PlainTyped DEF TypeOK, HostRewrites
<1>12. CASE UNCHANGED vars
    BY <1>12 DEF TypeOK, vars
<1>13. QED
    BY <1>1, <1>2, <1>3, <1>4, <1>6, <1>7, <1>8, <1>9, <1>10, <1>11, <1>12 DEF Next

(***************************************************************************)
(* The variables of every reachable state have their types.                *)
(***************************************************************************)
THEOREM TypeCorrect == Spec => []TypeOK
<1>1. Init => TypeOK
    BY ProcsAssumption, PlainTyped, ContentsTyped, HostServersAssumption
    DEF Init, TypeOK, Procs, Pcs, Truncated, Files
<1>2. QED BY <1>1, Typing, PTL DEF Spec

-----------------------------------------------------------------------------
(***************************************************************************)
(* The lock.  A step of a process changes its own pc only; the port is     *)
(* taken when it is free and given up by the run that has it.              *)
(***************************************************************************)
LEMMA LockStep == TypeOK /\ LockInv /\ [Next]_vars => LockInv'
<1> SUFFICES ASSUME TypeOK, LockInv, [Next]_vars PROVE LockInv'
    OBVIOUS
<1> USE ProcsAssumption DEF Procs, TypeOK, LockInv, PortIsLock, Holds
<1> USE DEF SetPcs, RstPcs, StartPcs, StopPcs, CleanPcs, BeforeOpen, Window, Mark, Goto
<1>1. ASSUME NEW i \in Insts, Launch(i) PROVE LockInv'
    BY <1>1 DEF Launch
<1>2. ASSUME NEW i \in Insts, Signal(i) PROVE LockInv'
    BY <1>2 DEF Signal
<1>3. ASSUME NEW i \in Insts, RunStep(i) PROVE LockInv'
    <2>1. CASE Bind(i)
        BY <2>1 DEF Bind
    <2>2. CASE BindFails(i)
        BY <2>2 DEF BindFails, Exit, AfterExit
    <2>3. CASE SetRead(i)
        BY <2>3 DEF SetRead
    <2>4. CASE SetTruncate(i) \/ RestoreTruncate(i)
        BY <2>4 DEF SetTruncate, RestoreTruncate, Truncate
    <2>5. CASE SetWrite(i) \/ RestoreWrite(i)
        BY <2>5 DEF SetWrite, RestoreWrite, Write
    <2>6. CASE Attach(i) \/ AttachFails(i) \/ Notify(i)
        BY <2>6 DEF Attach, AttachFails, Notify, Exit, AfterExit
    <2>7. CASE RestoreRead(i)
        BY <2>7 DEF RestoreRead
    <2>8. CASE DnsStop(i)
        BY <2>8 DEF DnsStop, Exit, AfterExit
    <2>9. CASE MgrStop(i)
        BY <2>9 DEF MgrStop, Exit, AfterExit
    <2>10. QED
        BY <1>3, <2>1, <2>2, <2>3, <2>4, <2>5, <2>6, <2>7, <2>8, <2>9 DEF RunStep
<1>4. ASSUME NEW i \in Insts, ServerFails(i) PROVE LockInv'
    BY <1>4 DEF ServerFails
<1>5. ASSUME NEW i \in Insts, Interrupt(i) PROVE LockInv'
    BY <1>5 DEF Interrupt, Die, Exit, AfterExit
<1>6. ASSUME NEW c \in Cleaners, StartCleanup(c) PROVE LockInv'
    BY <1>6 DEF StartCleanup
<1>7. ASSUME NEW p \in Procs, CleanStep(p) PROVE LockInv'
    BY <1>7 DEF CleanStep, CleanCheck, CleanRead, CleanTruncate, CleanWrite, Truncate, Write
<1>8. ASSUME NEW p \in Procs, Fault(p) PROVE LockInv'
    <2>1. CASE OpenFails(p) \/ WriteFails(p)
        BY <2>1 DEF OpenFails, WriteFails, GiveUp
    <2>2. CASE Kill(p)
        BY <2>2 DEF Kill, Die, Exit, AfterExit
    <2>3. QED BY <1>8, <2>1, <2>2 DEF Fault
<1>9. ASSUME PowerLoss PROVE LockInv'
    BY <1>9 DEF PowerLoss
<1>10. ASSUME NEW S \in HostServers, HostRewrites(S) PROVE LockInv'
    BY <1>10 DEF HostRewrites
<1>11. CASE UNCHANGED vars
    BY <1>11 DEF vars
<1>12. QED
    BY <1>1, <1>2, <1>3, <1>4, <1>5, <1>6, <1>7, <1>8, <1>9, <1>10, <1>11 DEF Next

(***************************************************************************)
(* The port of the DNS server is a lock: a run is between dns.Start and    *)
(* dns.Stop exactly when it is the run that listens on 127.0.0.1:53.       *)
(***************************************************************************)
THEOREM PortIsLockAlways == Spec => []PortIsLock
<1>1. Init => LockInv
    BY ProcsAssumption
    DEF Init, LockInv, PortIsLock, Holds, Procs, SetPcs, RstPcs, CleanPcs
<1>2. LockInv => PortIsLock
    BY DEF LockInv
<1>3. QED BY <1>1, <1>2, LockStep, TypeCorrect, PTL DEF Spec

-----------------------------------------------------------------------------
(***************************************************************************)
(* What SetSystemDNS and RestoreSystemDNS do to a file that can be         *)
(* recovered: the file they write can be recovered too, to the same one.   *)
(***************************************************************************)
LEMMA SetKeeps ==
    \A S \in HostServers : Recovered(SetSystemDNS(Plain(S))) = Plain(S)
BY HostServersAssumption
DEF Recovered, hasGecitDNSState, SetSystemDNS, RestoreSystemDNS, Plain

LEMMA RecoveredPlain ==
    ASSUME NEW f \in Files, NEW S \in HostServers, Recovered(f) = Plain(S)
    PROVE  /\ ~hasGecitDNSState(f) => Recovered(SetSystemDNS(f)) = Plain(S)
           /\ hasGecitDNSState(f) => Recovered(RestoreSystemDNS(f)) = Plain(S)
<1>1. Recovered(Plain(S)) = Plain(S)
    BY DEF Recovered, hasGecitDNSState, Plain
<1>2. QED BY <1>1, SetKeeps DEF Recovered

LEMMA PlainNotTruncated == \A S \in HostServers : Plain(S) # Truncated
BY DEF Plain, Truncated

(* A truncation that does not scar finds the file as its process read it.  *)
LEMMA TruncateKeeps ==
    ASSUME TypeOK, LossInv, NEW p \in Procs, Truncate(p),
           pc[p] \in {"setTrunc", "rstTrunc", "clnTrunc"},
           scars' \cap {"torn", "clobbered", "stacked"} = {}
    PROVE  /\ scars \cap {"torn", "clobbered", "stacked"} = {}
           /\ \A q \in Procs : pc[q] \notin Window
           /\ pc[p] = "setTrunc"
                 => Recovered(SetSystemDNS(seen[p])) = Plain(wanted)
           /\ pc[p] # "setTrunc"
                 => Recovered(RestoreSystemDNS(seen[p])) = Plain(wanted)
<1>1. scars \cap {"torn", "clobbered", "stacked"} = {}
    BY DEF Truncate
<1>2. ~Contended(p) /\ ~(pc[p] = "setTrunc" /\ hasGecitDNSState(seen[p]))
    BY DEF Truncate, Mark
<1>3. file = seen[p] /\ \A q \in Procs : pc[q] \notin Window
    BY <1>2 DEF Contended, Window
<1>4. Recovered(seen[p]) = Plain(wanted)
    BY <1>1, <1>3 DEF LossInv, Writing
<1>5. seen[p] \in Files /\ wanted \in HostServers
    BY DEF TypeOK
<1>6. pc[p] # "setTrunc" => hasGecitDNSState(seen[p])
    BY DEF LossInv
<1>7. QED BY <1>1, <1>2, <1>3, <1>4, <1>5, <1>6, RecoveredPlain

(* Neither function writes an empty file. *)
LEMMA ContentsNotEmpty ==
    \A f \in Files : SetSystemDNS(f) # Truncated /\ RestoreSystemDNS(f) # Truncated
BY DEF Files, SetSystemDNS, RestoreSystemDNS, Truncated

(***************************************************************************)
(* Steps outside of os.WriteFile: the file stays as it is, and so do the   *)
(* processes that are inside and what they have read.                      *)
(***************************************************************************)
LEMMA OutsideKeeps ==
    ASSUME TypeOK, LossInv,
           UNCHANGED <<file, wanted>>,
           scars \subseteq scars', scars' \cap {"clobbered", "torn", "stacked"}
                                    = scars \cap {"clobbered", "torn", "stacked"},
           pc' \in [Procs -> Pcs],
           \A p \in Procs :
              /\ pc[p] \in Window \/ pc'[p] \in Window
                    => pc'[p] = pc[p] /\ seen'[p] = seen[p]
              /\ pc'[p] \in {"rstTrunc", "clnTrunc"} => hasGecitDNSState(seen'[p])
    PROVE  LossInv'
<1>1. \A p \in Procs : (pc'[p] \in Window) <=> (pc[p] \in Window)
    OBVIOUS
<1>2. Writing' <=> Writing
    BY <1>1 DEF Writing
<1>3. \A p \in Procs : pc[p] \in Window => Contents(p)' = Contents(p)
    BY DEF Contents
<1>4. (Recovered(file) = Plain(wanted))' <=> (Recovered(file) = Plain(wanted))
    OBVIOUS
<1>5. \A p \in Procs : pc[p] \in Window =>
         (Recovered(Contents(p)) = Plain(wanted))' <=> (Recovered(Contents(p)) = Plain(wanted))
    BY <1>3
<1>6. QED BY <1>1, <1>2, <1>4, <1>5 DEF LossInv

(* Entering os.WriteFile. *)
LEMMA TruncateStep ==
    ASSUME TypeOK, LossInv, NEW p \in Procs, Truncate(p),
           NEW from, NEW to, pc[p] = from, pc' = [pc EXCEPT ![p] = to],
           <<from, to>> \in {<<"setTrunc", "setWrite">>, <<"rstTrunc", "rstWrite">>,
                            <<"clnTrunc", "clnWrite">>}
    PROVE  LossInv'
<1>1. pc' \in [Procs -> Pcs] /\ pc'[p] = to /\ to \in Window
    BY DEF TypeOK, Pcs, RunPcs, StartPcs, StopPcs, SetPcs, RstPcs, CleanPcs, Window
<1>2. \A q \in Procs : q # p => pc'[q] = pc[q]
    BY DEF TypeOK
<1>3. file' = Truncated /\ wanted' = wanted /\ seen' = seen
    BY DEF Truncate
<1>4. \A q \in Procs :
         pc'[q] \in {"rstTrunc", "clnTrunc"} => hasGecitDNSState(seen'[q])
    BY <1>1, <1>2, <1>3 DEF LossInv, Window
<1>5. "clobbered" \notin scars'
        => /\ "clobbered" \notin scars
           /\ \A q \in Procs \ {p} : pc[q] \notin Window
    BY DEF Truncate, Contended, Mark
<1>6. "clobbered" \notin scars'
        => \A q, r \in Procs : pc'[q] \in Window /\ pc'[r] \in Window => q = r
    BY <1>2, <1>5
<1>7. ASSUME scars' \cap {"torn", "clobbered", "stacked"} = {}
      PROVE  /\ Writing'
             /\ \A q \in Procs : pc'[q] \in Window
                                    => Recovered(Contents(q)')= Plain(wanted)
    <2>1. /\ \A q \in Procs : pc[q] \notin Window
          /\ from = "setTrunc" => Recovered(SetSystemDNS(seen[p])) = Plain(wanted)
          /\ from # "setTrunc" => Recovered(RestoreSystemDNS(seen[p])) = Plain(wanted)
        BY <1>7, TruncateKeeps
    <2>2. Contents(p)' = IF from = "setTrunc" THEN SetSystemDNS(seen[p])
                                              ELSE RestoreSystemDNS(seen[p])
        BY <1>1, <1>3 DEF Contents, SetPcs
    <2>3. \A q \in Procs : pc'[q] \in Window => q = p
        BY <1>2, <2>1
    <2>4. QED BY <1>1, <2>1, <2>2, <2>3 DEF Writing
<1>8. QED BY <1>3, <1>4, <1>6, <1>7 DEF LossInv

(* Leaving os.WriteFile with everything written. *)
LEMMA WriteStep ==
    ASSUME TypeOK, LossInv, NEW p \in Procs, Write(p, Contents(p)),
           pc[p] \in Window,
           NEW to \in {"attach", "dnsStop", "off"}, pc' = [pc EXCEPT ![p] = to]
    PROVE  LossInv'
<1>1. pc'[p] = to /\ \A q \in Procs : q # p => pc'[q] = pc[q]
    BY DEF TypeOK
<1>2. /\ file' = Contents(p) /\ wanted' = wanted
      /\ \A q \in Procs : q # p => seen'[q] = seen[q]
    BY DEF Write, Drop, TypeOK
<1>3. \A q \in Procs :
         pc'[q] \in {"rstTrunc", "clnTrunc"} => hasGecitDNSState(seen'[q])
    BY <1>1, <1>2 DEF LossInv
<1>4. "clobbered" \notin scars' => "clobbered" \notin scars /\ file = Truncated
    BY DEF Write, Mark
<1>5. "clobbered" \notin scars'
        => \A q, r \in Procs : pc'[q] \in Window /\ pc'[r] \in Window => q = r
    BY <1>1, <1>4 DEF LossInv, Window
<1>6. ASSUME scars' \cap {"torn", "clobbered", "stacked"} = {}
      PROVE  /\ Recovered(file') = Plain(wanted')
             /\ \A q \in Procs : pc'[q] \notin Window
    <2>1. scars \cap {"torn", "clobbered", "stacked"} = {} /\ file = Truncated
        BY <1>4, <1>6 DEF Write, Mark
    <2>2. Recovered(Contents(p)) = Plain(wanted)
        BY <2>1 DEF LossInv
    <2>3. \A q \in Procs : pc'[q] \notin Window
        BY <1>1, <1>4, <1>6 DEF LossInv, Window
    <2>4. QED BY <1>2, <2>2, <2>3
<1>7. QED BY <1>3, <1>5, <1>6 DEF LossInv, Writing

LEMMA LossStep == TypeOK /\ TypeOK' /\ LossInv /\ [Next]_vars => LossInv'
<1> SUFFICES ASSUME TypeOK, TypeOK', LossInv, [Next]_vars PROVE LossInv'
    OBVIOUS
<1>0. /\ pc \in [Procs -> Pcs] /\ pc' \in [Procs -> Pcs]
      /\ seen \in [Procs -> Files] /\ seen' \in [Procs -> Files]
      /\ Insts \subseteq Procs /\ Cleaners \subseteq Procs
    BY DEF TypeOK, Procs
<1> DEFINE Frame == /\ UNCHANGED <<file, wanted, scars>>
                    /\ \A p \in Procs :
                          /\ pc[p] \in Window \/ pc'[p] \in Window
                                => pc'[p] = pc[p] /\ seen'[p] = seen[p]
                          /\ pc'[p] \in {"rstTrunc", "clnTrunc"}
                                => hasGecitDNSState(seen'[p])
<1>1. Frame => LossInv'
    BY <1>0, OutsideKeeps
<1>2. ASSUME NEW i \in Insts, Launch(i) PROVE LossInv'
    BY <1>0, <1>1, <1>2 DEF Launch, Goto, LossInv, Window
<1>3. ASSUME NEW i \in Insts, Signal(i) PROVE LossInv'
    BY <1>0, <1>1, <1>3 DEF Signal, Goto, LossInv, Window
<1>4. ASSUME NEW i \in Insts, RunStep(i) PROVE LossInv'
    <2>1. CASE Bind(i) \/ BindFails(i)
        BY <1>0, <1>1, <2>1 DEF Bind, BindFails, Goto, Exit, AfterExit, LossInv, Window
    <2>2. CASE SetRead(i)
        BY <1>0, <1>1, <2>2 DEF SetRead, Read, Goto, LossInv, Window
    <2>3. CASE SetTruncate(i)
        BY <1>0, <2>3, TruncateStep DEF SetTruncate, Goto
    <2>4. CASE SetWrite(i)
        BY <1>0, <2>4, WriteStep DEF SetWrite, Goto, Contents, Window, SetPcs
    <2>5. CASE Attach(i) \/ AttachFails(i) \/ Notify(i)
        BY <1>0, <1>1, <2>5
        DEF Attach, AttachFails, Notify, Goto, Exit, AfterExit, LossInv, Window
    <2>6. CASE RestoreRead(i)
        BY <1>0, <1>1, <2>6 DEF RestoreRead, Read, Goto, LossInv, Window
    <2>7. CASE RestoreTruncate(i)
        BY <1>0, <2>7, TruncateStep DEF RestoreTruncate, Goto
    <2>8. CASE RestoreWrite(i)
        BY <1>0, <2>8, WriteStep DEF RestoreWrite, Goto, Contents, Window, SetPcs
    <2>9. CASE DnsStop(i) \/ MgrStop(i)
        BY <1>0, <1>1, <2>9 DEF DnsStop, MgrStop, Goto, Exit, AfterExit, LossInv, Window
    <2>10. QED
        BY <1>4, <2>1, <2>2, <2>3, <2>4, <2>5, <2>6, <2>7, <2>8, <2>9 DEF RunStep
<1>5. ASSUME NEW i \in Insts, ServerFails(i) PROVE LossInv'
    BY <1>0, <1>5, OutsideKeeps DEF ServerFails, LossInv, Window
<1>6. ASSUME NEW p \in Procs, Die(p), NEW to \in {"off", "clnCheck"},
             pc' = [pc EXCEPT ![p] = to]
      PROVE  LossInv'
    (* Dying inside of os.WriteFile leaves the scar torn. *)
    <2>1. /\ \A q \in Procs : q # p => pc'[q] = pc[q] /\ seen'[q] = seen[q]
          /\ pc'[p] = to /\ UNCHANGED <<file, wanted>>
        BY <1>0, <1>6 DEF Die, Drop
    <2>2. CASE pc[p] \in Window
        <3>1. "torn" \in scars'
            BY <1>6, <2>2 DEF Die, Mark
        <3>2. "clobbered" \notin scars' => "clobbered" \notin scars
            BY <1>6 DEF Die
        <3>3. QED BY <2>1, <3>1, <3>2 DEF LossInv, Window
    <2>3. CASE pc[p] \notin Window
        <3>1. scars \subseteq scars' /\ scars' \cap {"clobbered", "torn", "stacked"}
                                         = scars \cap {"clobbered", "torn", "stacked"}
            BY <1>6, <2>3 DEF Die, Mark
        <3>2. QED BY <1>0, <2>1, <2>3, <3>1, OutsideKeeps DEF LossInv, Window
    <2>4. QED BY <2>2, <2>3
<1>7. ASSUME NEW i \in Insts, Interrupt(i) PROVE LossInv'
    BY <1>0, <1>6, <1>7 DEF Interrupt, Goto, Exit, AfterExit
<1>8. ASSUME NEW c \in Cleaners, StartCleanup(c) PROVE LossInv'
    BY <1>0, <1>1, <1>8 DEF StartCleanup, Goto, LossInv, Window
<1>9. ASSUME NEW p \in Procs, CleanStep(p) PROVE LossInv'
    <2>1. CASE CleanCheck(p)
        BY <1>0, <1>1, <2>1 DEF CleanCheck, Goto, LossInv, Window
    <2>2. CASE CleanRead(p)
        BY <1>0, <1>1, <2>2 DEF CleanRead, Read, Goto, LossInv, Window
    <2>3. CASE CleanTruncate(p)
        BY <1>0, <2>3, TruncateStep DEF CleanTruncate, Goto
    <2>4. CASE CleanWrite(p)
        BY <1>0, <2>4, WriteStep DEF CleanWrite, Goto, Contents, Window, SetPcs
    <2>5. QED BY <1>9, <2>1, <2>2, <2>3, <2>4 DEF CleanStep
<1>10. ASSUME NEW p \in Procs, Fault(p) PROVE LossInv'
    <2>1. CASE OpenFails(p)
        <3>1. /\ \A q \in Procs : q # p => pc'[q] = pc[q] /\ seen'[q] = seen[q]
              /\ pc'[p] \in {"off", "dnsStop"} /\ pc[p] \notin Window
              /\ UNCHANGED <<file, wanted>>
            BY <1>0, <2>1 DEF OpenFails, GiveUp, Drop, Goto, BeforeOpen, Window
        <3>2. scars \subseteq scars' /\ scars' \cap {"clobbered", "torn", "stacked"}
                                         = scars \cap {"clobbered", "torn", "stacked"}
            BY <2>1 DEF OpenFails, Mark
        <3>3. QED BY <1>0, <3>1, <3>2, OutsideKeeps DEF LossInv, Window
    <2>2. CASE WriteFails(p)
        <3>1. /\ \A q \in Procs : q # p => pc'[q] = pc[q] /\ seen'[q] = seen[q]
              /\ pc'[p] \in {"off", "dnsStop"} /\ scars' = scars \cup {"torn"}
            BY <1>0, <2>2 DEF WriteFails, GiveUp, Drop, Goto
        <3>2. QED BY <3>1 DEF LossInv, Window
    <2>3. CASE Kill(p)
        BY <1>0, <1>6, <2>3 DEF Kill, Goto, Exit, AfterExit
    <2>4. QED BY <1>10, <2>1, <2>2, <2>3 DEF Fault
<1>11. ASSUME PowerLoss PROVE LossInv'
    <2>1. /\ \A p \in Procs : pc'[p] = "off"
          /\ UNCHANGED <<file, wanted>>
          /\ Writing => "torn" \in scars'
          /\ scars \subseteq scars'
        BY <1>11 DEF PowerLoss, Mark, Writing
    <2>2. QED BY <2>1 DEF LossInv, Writing, Window
<1>12. ASSUME NEW S \in HostServers, HostRewrites(S) PROVE LossInv'
    <2>1. Recovered(file') = Plain(wanted') /\ file' # Truncated
        BY <1>12, PlainNotTruncated DEF HostRewrites, Recovered, hasGecitDNSState, Plain
    <2>2. /\ UNCHANGED <<pc, seen>>
          /\ "clobbered" \notin scars' => "clobbered" \notin scars
        BY <1>12 DEF HostRewrites
    <2>3. QED BY <2>1, <2>2 DEF LossInv, Writing
<1>13. CASE UNCHANGED vars
    BY <1>13 DEF vars, LossInv, Writing, Contents
<1>14. QED
    BY <1>2, <1>3, <1>4, <1>5, <1>7, <1>8, <1>9, <1>10, <1>11, <1>12, <1>13 DEF Next

(***************************************************************************)
(* For any number of runs and cleanups and any accidents: while no write   *)
(* has been torn, no other process's contents have been overwritten and    *)
(* SetSystemDNS has not run on its own output, the host's name servers are *)
(* in the file or can be put back from it.                                 *)
(***************************************************************************)
THEOREM OnlyKnownLossesAlways == Spec => []OnlyKnownLosses
<1>1. Init => LossInv
    <2> SUFFICES ASSUME Init PROVE LossInv
        OBVIOUS
    <2>1. Recovered(file) = Plain(wanted) /\ ~Writing
        BY DEF Init, Recovered, hasGecitDNSState, Plain, Writing, Window
    <2>2. QED BY <2>1 DEF Init, LossInv, Writing, Window
<1>2. LossInv => OnlyKnownLosses
    BY DEF LossInv, OnlyKnownLosses, Plain
<1>3. QED BY <1>1, <1>2, LossStep, TypeCorrect, PTL DEF Spec

-----------------------------------------------------------------------------
(***************************************************************************)
(* HijackServed.  While the file points to 127.0.0.1 the run that holds    *)
(* the port is between SetSystemDNS and the end of RestoreSystemDNS.       *)
(***************************************************************************)
LEMMA RestoreNotHijacked ==
    /\ \A f : ~Hijacked(RestoreSystemDNS(f))
    /\ \A S : ~Hijacked(Plain(S))
    /\ ~Hijacked(Truncated)
BY DEF Hijacked, RestoreSystemDNS, Plain, Truncated

LEMMA ServedStep == TypeOK /\ LockInv /\ ServedInv /\ [Next]_vars => ServedInv'
<1> SUFFICES ASSUME TypeOK, LockInv, ServedInv, [Next]_vars,
                    scars' = {}, Hijacked(file')
             PROVE  \E i \in Insts :
                       /\ port' = i
                       /\ pc'[i] \in {"attach", "ready", "running"} \cup RstPcs
    BY DEF ServedInv
<1> DEFINE Serving == \E i \in Insts :
                         /\ port' = i
                         /\ pc'[i] \in {"attach", "ready", "running"} \cup RstPcs
<1> USE ProcsAssumption DEF Procs, TypeOK, SetPcs, RstPcs
<1>0. /\ scars = {} => \A i \in Insts : Holds(i) <=> port = i
      /\ Hijacked(file) => hasGecitDNSState(file)
    BY DEF LockInv, PortIsLock, Hijacked, hasGecitDNSState
<1>1. ASSUME NEW i \in Insts, Launch(i) PROVE Serving
    BY <1>0, <1>1 DEF Launch, Goto, ServedInv
<1>2. ASSUME NEW i \in Insts, Signal(i) PROVE Serving
    BY <1>0, <1>2 DEF Signal, Goto, ServedInv, Holds
<1>3. ASSUME NEW i \in Insts, RunStep(i) PROVE Serving
    <2>1. CASE Bind(i)
        BY <1>0, <2>1 DEF Bind, Goto, ServedInv
    <2>2. CASE BindFails(i)
        BY <1>0, <2>2 DEF BindFails, Goto, Exit, AfterExit, ServedInv
    <2>3. CASE SetRead(i)
        BY <1>0, <2>3 DEF SetRead, Goto, ServedInv
    <2>4. CASE SetTruncate(i) \/ RestoreTruncate(i)
        BY <2>4, RestoreNotHijacked DEF SetTruncate, RestoreTruncate, Truncate
    <2>5. CASE SetWrite(i)
        BY <1>0, <2>5 DEF SetWrite, Write, Mark, Goto, LockInv, Holds
    <2>6. CASE RestoreWrite(i)
        BY <2>6, RestoreNotHijacked DEF RestoreWrite, Write
    <2>7. CASE Attach(i) \/ Notify(i)
        BY <1>0, <2>7 DEF Attach, Notify, Goto, ServedInv
    <2>8. CASE AttachFails(i)
        BY <1>0, <2>8 DEF AttachFails, Goto, Exit, AfterExit, ServedInv, Holds
    <2>9. CASE RestoreRead(i)
        BY <1>0, <2>9 DEF RestoreRead, Goto, ServedInv
    <2>10. CASE DnsStop(i)
        BY <1>0, <2>10 DEF DnsStop, Goto, Exit, AfterExit, ServedInv
    <2>11. CASE MgrStop(i)
        BY <1>0, <2>11 DEF MgrStop, Goto, Exit, AfterExit, ServedInv
    <2>12. QED
        BY <1>3, <2>1, <2>2, <2>3, <2>4, <2>5, <2>6, <2>7, <2>8, <2>9, <2>10, <2>11
        DEF RunStep
<1>4. ASSUME NEW i \in Insts, ServerFails(i) PROVE Serving
    BY <1>4 DEF ServerFails
<1>5. ASSUME NEW i \in Insts, Interrupt(i) PROVE Serving
    BY <1>0, <1>5 DEF Interrupt, Die, Mark, Goto, Exit, AfterExit, ServedInv
<1>6. ASSUME NEW c \in Cleaners, StartCleanup(c) PROVE Serving
    BY <1>0, <1>6 DEF StartCleanup, Goto, ServedInv
<1>7. ASSUME NEW p \in Procs, CleanStep(p) PROVE Serving
    <2>1. CASE CleanCheck(p) \/ CleanRead(p)
        BY <1>0, <2>1 DEF CleanCheck, CleanRead, Goto, ServedInv
    <2>2. CASE CleanTruncate(p) \/ CleanWrite(p)
        BY <2>2, RestoreNotHijacked DEF CleanTruncate, CleanWrite, Truncate, Write
    <2>3. QED BY <1>7, <2>1, <2>2 DEF CleanStep
<1>8. ASSUME NEW p \in Procs, Fault(p) PROVE Serving
    <2>1. CASE OpenFails(p)
        BY <1>0, <2>1
        DEF OpenFails, GiveUp, Mark, Goto, BeforeOpen, CleanPcs, ServedInv
    <2>2. CASE WriteFails(p)
        BY <2>2 DEF WriteFails
    <2>3. CASE Kill(p)
        BY <1>0, <2>3 DEF Kill, Die, Mark, Goto, Exit, AfterExit, ServedInv
    <2>4. QED BY <1>8, <2>1, <2>2, <2>3 DEF Fault
<1>9. ASSUME PowerLoss PROVE Serving
    BY <1>9 DEF PowerLoss, Mark
<1>10. ASSUME NEW S \in HostServers, HostRewrites(S) PROVE Serving
    BY <1>10, RestoreNotHijacked DEF HostRewrites
<1>11. CASE UNCHANGED vars
    BY <1>11 DEF vars, ServedInv
<1>12. QED
    BY <1>1, <1>2, <1>3, <1>4, <1>5, <1>6, <1>7, <1>8, <1>9, <1>10, <1>11 DEF Next

(***************************************************************************)
(* The host's lookups go to gecit's server only while a run listens, in    *)
(* every behaviour without an accident that is recorded as a scar.         *)
(***************************************************************************)
THEOREM HijackServedAlways == Spec => []HijackServed
<1>1. Init => LockInv /\ ServedInv
    BY ProcsAssumption, RestoreNotHijacked
    DEF Init, LockInv, PortIsLock, Holds, ServedInv, Procs, SetPcs, RstPcs
<1>2. ServedInv => HijackServed
    BY ProcsAssumption DEF ServedInv, HijackServed, Procs
<1>3. QED BY <1>1, <1>2, LockStep, ServedStep, TypeCorrect, PTL DEF Spec

-----------------------------------------------------------------------------
(***************************************************************************)
(* NeverStacked.  With one supervised run, the file carries no gecit state *)
(* whenever the run is about to read it in SetSystemDNS.                   *)
(***************************************************************************)
LEMMA RestoreClean ==
    /\ \A f : ~hasGecitDNSState(RestoreSystemDNS(f))
    /\ \A S : ~hasGecitDNSState(Plain(S))
    /\ ~hasGecitDNSState(Truncated)
BY DEF hasGecitDNSState, RestoreSystemDNS, Plain, Truncated

LEMMA StackStep ==
    Supervised /\ TypeOK /\ StackInv /\ [Next]_vars => StackInv'
<1> SUFFICES ASSUME Supervised, TypeOK, StackInv, [Next]_vars PROVE StackInv'
    OBVIOUS
<1> USE ProcsAssumption, RestoreClean DEF Procs, TypeOK, Supervised, StackInv, Mark, Goto
<1>1. ASSUME NEW i \in Insts, Launch(i) PROVE StackInv'
    BY <1>1 DEF Launch
<1>2. ASSUME NEW i \in Insts, Signal(i) PROVE StackInv'
    BY <1>2 DEF Signal
<1>3. ASSUME NEW i \in Insts, RunStep(i) PROVE StackInv'
    <2>1. CASE Bind(i) \/ BindFails(i)
        BY <2>1 DEF Bind, BindFails, Exit, AfterExit
    <2>2. CASE SetRead(i)
        BY <2>2 DEF SetRead, Read
    <2>3. CASE SetTruncate(i) \/ RestoreTruncate(i)
        BY <2>3 DEF SetTruncate, RestoreTruncate, Truncate
    <2>4. CASE SetWrite(i) \/ RestoreWrite(i)
        BY <2>4 DEF SetWrite, RestoreWrite, Write, Drop
    <2>5. CASE Attach(i) \/ AttachFails(i) \/ Notify(i)
        BY <2>5 DEF Attach, AttachFails, Notify, Exit, AfterExit
    <2>6. CASE RestoreRead(i)
        BY <2>6 DEF RestoreRead, Read
    <2>7. CASE DnsStop(i) \/ MgrStop(i)
        BY <2>7 DEF DnsStop, MgrStop, Exit, AfterExit
    <2>8. QED BY <1>3, <2>1, <2>2, <2>3, <2>4, <2>5, <2>6, <2>7 DEF RunStep
<1>4. ASSUME NEW i \in Insts, ServerFails(i) PROVE StackInv'
    BY <1>4 DEF ServerFails
<1>5. ASSUME NEW i \in Insts, Interrupt(i) PROVE StackInv'
    BY <1>5 DEF Interrupt, Die, Drop, Exit, AfterExit
<1>6. ASSUME NEW p \in Procs, CleanStep(p) PROVE StackInv'
    BY <1>6 DEF CleanStep, CleanCheck, CleanRead, CleanTruncate, CleanWrite,
                Read, Drop, Truncate, Write
<1>7. ASSUME NEW p \in Procs, Fault(p) PROVE StackInv'
    BY <1>7 DEF Fault, OpenFails, WriteFails, Kill, Die, Drop, Exit, AfterExit
<1>8. CASE PowerLoss
    BY <1>8 DEF PowerLoss
<1>9. ASSUME NEW S \in HostServers, HostRewrites(S) PROVE StackInv'
    BY <1>9 DEF HostRewrites
<1>10. CASE UNCHANGED vars
    BY <1>10 DEF vars
<1>11. QED
    BY <1>1, <1>2, <1>3, <1>4, <1>5, <1>6, <1>7, <1>8, <1>9, <1>10 DEF Next

(***************************************************************************)
(* Under the systemd unit, a crash or an early Ctrl+C at any step, even in *)
(* the middle of a write, never makes SetSystemDNS forget saved servers.   *)
(***************************************************************************)
THEOREM NeverStackedSupervised == ASSUME Supervised PROVE Spec => []NeverStacked
<1>1. Init => StackInv
    BY RestoreClean DEF Init, StackInv, Procs
<1>2. StackInv => NeverStacked
    BY DEF StackInv, NeverStacked
<1>3. TypeOK /\ StackInv /\ [Next]_vars => StackInv'
    BY StackStep
<1>4. QED BY <1>1, <1>2, <1>3, TypeCorrect, PTL DEF Spec

-----------------------------------------------------------------------------
(***************************************************************************)
(* LinuxRun implements DnsRedirection for any number of runs and cleanups  *)
(* and all accidents, on a host that does not rewrite the file itself: a   *)
(* rewrite by the host would repair what had voided the promise.           *)
(***************************************************************************)

Intact == scars \cap {"torn", "clobbered", "stacked", "deaf"} = {}
Served == port # None
Orphaned == Hijacked(file) /\ (port = None \/ "orphaned" \in scars)

(* A redirection that was left behind is in the file or being undone. *)
OrphanInv ==
    Intact /\ "orphaned" \in scars
        => Hijacked(file) \/ \E p \in Procs : pc[p] \in {"rstWrite", "clnWrite"}

(* The steps of DnsRedirection, with the setting saved throughout. *)
Same == (Hijacked(file)' <=> Hijacked(file)) /\ (Orphaned' <=> Orphaned)

Stutters == (Served' <=> Served) /\ Same
Serves == ~Served /\ Served' /\ Same
Redirects == Served /\ Served' /\ Hijacked(file)' /\ ~Orphaned'
Undoes == (Served' <=> Served) /\ ~Hijacked(file)'
Abandons == (Served' <=> Served) /\ Hijacked(file) /\ Hijacked(file)' /\ Orphaned'
Leaves ==
    /\ Served /\ ~Served'
    /\ Hijacked(file)' <=> Hijacked(file)
    /\ Orphaned' <=> Hijacked(file)

Allowed == Stutters \/ Serves \/ Redirects \/ Undoes \/ Abandons \/ Leaves

-----------------------------------------------------------------------------
(***************************************************************************)
(* As long as the promise stands the host's setting is saved, and each     *)
(* allowed step is one of DnsRedirection.                                  *)
(***************************************************************************)
LEMMA AllowedMaps ==
    ASSUME LossInv, LossInv', Intact, Intact', Allowed
    PROVE  [Promise!Next]_(Promise!vars)
<1> DEFINE Conf == {"resolv.conf"}
           redirected == {s \in Conf : Hijacked(file)}
           saved == {s \in Conf : Writing \/ Recovered(file).active = wanted}
           orphaned == {s \in Conf : Hijacked(file) /\ (port = None \/ "orphaned" \in scars)}
           intact == scars \cap {"torn", "clobbered", "stacked", "deaf"} = {}
           name == "resolv.conf"
<1>1. saved = Conf /\ saved' = Conf /\ name \in Conf
    BY DEF LossInv, Intact, Plain
<1>2. /\ redirected = IF Hijacked(file) THEN Conf ELSE {}
      /\ redirected' = IF Hijacked(file)' THEN Conf ELSE {}
      /\ orphaned = IF Orphaned THEN Conf ELSE {}
      /\ orphaned' = IF Orphaned' THEN Conf ELSE {}
    BY DEF Orphaned
<1>3. intact /\ intact' = TRUE
    BY DEF Intact
<1>4. /\ Orphaned => Hijacked(file)
      /\ Orphaned' => Hijacked(file)'
      /\ Served <=> port # None
      /\ Served' <=> (port # None)'
      /\ Conf \ {name} = {} /\ Conf \cup {name} = Conf /\ {} \ {name} = {}
      /\ {} \cup {name} = Conf
    BY DEF Orphaned, Served
<1>5. CASE Stutters
    BY <1>1, <1>2, <1>3, <1>4, <1>5 DEF Promise!vars, Stutters, Same
<1>6. CASE Serves
    BY <1>1, <1>2, <1>3, <1>4, <1>6
    DEF Promise!Next, Promise!Promised, Promise!Serve, Serves, Same
<1>7. CASE Redirects
    BY <1>1, <1>2, <1>3, <1>4, <1>7
    DEF Promise!Next, Promise!Promised, Promise!Redirect, Redirects
<1>8. CASE Undoes
    BY <1>1, <1>2, <1>3, <1>4, <1>8
    DEF Promise!Next, Promise!Promised, Promise!Undo, Undoes
<1>9. CASE Abandons
    BY <1>1, <1>2, <1>3, <1>4, <1>9
    DEF Promise!Next, Promise!Promised, Promise!Abandon, Abandons
<1>10. CASE Leaves
    BY <1>1, <1>2, <1>3, <1>4, <1>10
    DEF Promise!Next, Promise!Promised, Promise!Die, Leaves
<1>11. QED
    BY <1>5, <1>6, <1>7, <1>8, <1>9, <1>10 DEF Allowed

-----------------------------------------------------------------------------
LEMMA ScarsStay ==
    "host" \notin Events /\ [Next]_vars /\ Intact' => Intact
<1> SUFFICES ASSUME "host" \notin Events, [Next]_vars, Intact' PROVE Intact
    OBVIOUS
<1> DEFINE Void == {"torn", "clobbered", "stacked", "deaf"}
           Grows == scars \cap Void \subseteq scars'
<1>1. ASSUME NEW p \in Procs, Truncate(p) PROVE Grows
    BY <1>1 DEF Truncate
<1>2. ASSUME NEW p \in Procs, NEW c, Write(p, c) PROVE Grows
    BY <1>2 DEF Write, Mark
<1>3. ASSUME NEW p \in Procs, Die(p) PROVE Grows
    BY <1>3 DEF Die
<1>4. ASSUME NEW i \in Insts, RunStep(i) PROVE Grows
    BY <1>1, <1>2, <1>4
    DEF RunStep, Bind, BindFails, SetRead, SetTruncate, SetWrite, Attach, AttachFails,
        Notify, RestoreRead, RestoreTruncate, RestoreWrite, DnsStop, MgrStop, Procs
<1>5. ASSUME NEW p \in Procs, CleanStep(p) \/ Fault(p) PROVE Grows
    BY <1>1, <1>2, <1>3, <1>5
    DEF CleanStep, CleanCheck, CleanRead, CleanTruncate, CleanWrite, Fault, OpenFails,
        WriteFails, Kill
<1>6. ASSUME NEW i \in Insts, Launch(i) \/ Signal(i) \/ ServerFails(i) \/ Interrupt(i)
      PROVE  Grows
    BY <1>3, <1>6 DEF Launch, Signal, ServerFails, Interrupt, Procs
<1>7. Grows
    BY <1>4, <1>5, <1>6
    DEF Next, StartCleanup, PowerLoss, HostRewrites, vars
<1>8. QED BY <1>7 DEF Intact

(***************************************************************************)
(* What each step does to the file, the port and the scars, of which       *)
(* Allowed and OrphanInv follow.                                           *)
(***************************************************************************)
LEMMA QuietStep ==
    ASSUME TypeOK, OrphanInv, UNCHANGED <<file, port, scars>>,
           \A p \in Procs : pc[p] \in {"rstWrite", "clnWrite"} => pc'[p] = pc[p]
    PROVE  Stutters /\ OrphanInv'
BY DEF Stutters, Same, Served, Orphaned, Hijacked, OrphanInv, Intact

LEMMA TruncateAllowed ==
    ASSUME TypeOK, OrphanInv, NEW p \in Procs, Truncate(p), Intact, Intact',
           pc[p] \in {"setTrunc", "rstTrunc", "clnTrunc"},
           pc' = [pc EXCEPT ![p] = CASE pc[p] = "setTrunc" -> "setWrite"
                                     [] pc[p] = "rstTrunc" -> "rstWrite"
                                     [] OTHER -> "clnWrite"]
    PROVE  Undoes /\ OrphanInv'
<1>1. ~Hijacked(file)' /\ UNCHANGED port
    BY RestoreNotHijacked DEF Truncate, Hijacked, Truncated
<1>2. /\ file = seen[p]
      /\ \A q \in Procs \ {p} : pc[q] \notin Window
      /\ pc[p] = "setTrunc" => ~hasGecitDNSState(seen[p])
    BY DEF Intact, Truncate, Mark, Contended
<1>3. ASSUME pc[p] = "setTrunc" PROVE "orphaned" \notin scars'
    <2>1. ~Hijacked(file)
        BY <1>2, <1>3 DEF Hijacked, hasGecitDNSState
    <2>2. \A q \in Procs : pc[q] \notin {"rstWrite", "clnWrite"}
        BY <1>2, <1>3 DEF Window
    <2>3. QED BY <2>1, <2>2 DEF OrphanInv, Truncate, Mark
<1>4. pc[p] # "setTrunc" => pc'[p] \in {"rstWrite", "clnWrite"}
    BY DEF TypeOK
<1>5. QED BY <1>1, <1>3, <1>4 DEF Undoes, Served, OrphanInv

LEMMA WriteAllowed ==
    ASSUME TypeOK, LockInv, LossInv, OrphanInv, NEW p \in Procs, Write(p, Contents(p)),
           pc[p] \in Window, pc[p] = "setWrite" => p \in Insts, Intact, Intact'
    PROVE  Allowed /\ OrphanInv'
<1>1. file = Truncated /\ "clobbered" \notin scars /\ UNCHANGED port
    BY DEF Intact, Write, Mark
<1>2. CASE pc[p] = "setWrite"
    <2>1. Hijacked(file)'
        BY <1>2 DEF Write, Contents, SetPcs, SetSystemDNS, Hijacked
    <2>2. Served
        BY <1>2, ProcsAssumption
        DEF LockInv, PortIsLock, Holds, SetPcs, Intact, Served, Procs
    <2>3. "orphaned" \notin scars
        BY <1>1, <1>2, RestoreNotHijacked DEF OrphanInv, LossInv, Window
    <2>4. Redirects
        BY <1>1, <2>1, <2>2, <2>3 DEF Redirects, Served, Orphaned, Write, Mark
    <2>5. QED BY <2>1, <2>4 DEF Allowed, OrphanInv
<1>3. CASE pc[p] # "setWrite"
    <2>1. ~Hijacked(file)' /\ "orphaned" \notin scars'
        BY <1>3, RestoreNotHijacked DEF Write, Contents, SetPcs, Window, Hijacked, Mark
    <2>2. QED BY <1>1, <2>1 DEF Undoes, Served, Allowed, OrphanInv
<1>4. QED BY <1>2, <1>3

LEMMA DieAllowed ==
    ASSUME TypeOK, OrphanInv, NEW p \in Procs, Die(p), NEW to \in {"off", "clnCheck"},
           pc' = [pc EXCEPT ![p] = to], Intact, Intact'
    PROVE  (Stutters \/ Leaves) /\ OrphanInv'
<1>1. pc[p] \notin Window /\ UNCHANGED file
    BY DEF Die, Mark, Intact
<1>2. Hijacked(file)' <=> Hijacked(file)
    BY <1>1 DEF Hijacked
<1>3. CASE port = p
    <2>1. Served /\ port' = None
        BY <1>3, ProcsAssumption DEF Served, Die
    <2>2. Leaves
        BY <1>2, <2>1 DEF Leaves, Served, Orphaned
    <2>3. scars' = scars \cup Mark(Hijacked(file), "orphaned")
        BY <1>1, <1>3 DEF Die, Mark
    <2>4. OrphanInv'
        <3>1. CASE Hijacked(file)
            BY <1>2, <3>1 DEF OrphanInv
        <3>2. CASE ~Hijacked(file)
            BY <1>1, <2>3, <3>2 DEF OrphanInv, Mark, Window, TypeOK
        <3>3. QED BY <3>1, <3>2
    <2>5. QED BY <2>2, <2>4
<1>4. CASE port # p
    BY <1>1, <1>2, <1>4
    DEF Die, Mark, Stutters, Same, Served, Orphaned, OrphanInv, Window, TypeOK
<1>5. QED BY <1>3, <1>4

-----------------------------------------------------------------------------
LEMMA AllowedStep ==
    ASSUME TypeOK, LockInv, LossInv, ServedInv, OrphanInv, [Next]_vars,
           "host" \notin Events, Intact, Intact'
    PROVE  Allowed /\ OrphanInv'
<1> DEFINE Fine == Allowed /\ OrphanInv'
<1>1. ASSUME UNCHANGED <<file, port, scars>>,
             \A p \in Procs : pc[p] \in {"rstWrite", "clnWrite"} => pc'[p] = pc[p]
      PROVE  Fine
    BY <1>1, QuietStep DEF Allowed
<1>2. /\ Insts \subseteq Procs /\ Cleaners \subseteq Procs
      /\ pc \in [Procs -> Pcs]
      /\ Hijacked(file) /\ port = None => "orphaned" \in scars
      /\ Hijacked(file) /\ "orphaned" \notin scars =>
             \E i \in Insts : port = i /\ pc[i] # "dnsStop"
    BY ProcsAssumption DEF Procs, TypeOK, Scars, ServedInv, Intact, RstPcs
<1>3. ASSUME NEW i \in Insts, Launch(i) \/ Signal(i) PROVE Fine
    BY <1>1, <1>2, <1>3 DEF Launch, Signal, Goto
<1>4. ASSUME NEW i \in Insts, RunStep(i) PROVE Fine
    <2>1. CASE Bind(i)
        <3>1. /\ Serves
              /\ \A p \in Procs : pc[p] \in {"rstWrite", "clnWrite"} => pc'[p] = pc[p]
              /\ UNCHANGED <<file, scars>>
            BY <1>2, <2>1, ProcsAssumption
            DEF Bind, Goto, Serves, Same, Served, Orphaned, Hijacked
        <3>2. OrphanInv'
            BY <3>1 DEF OrphanInv, Hijacked, Intact
        <3>3. QED BY <3>1, <3>2 DEF Allowed
    <2>2. CASE BindFails(i) \/ SetRead(i) \/ Attach(i) \/ AttachFails(i) \/ Notify(i)
        BY <1>1, <1>2, <2>2
        DEF BindFails, SetRead, Attach, AttachFails, Notify, Goto, Exit
    <2>3. CASE SetTruncate(i) \/ RestoreTruncate(i)
        BY <1>2, <2>3, TruncateAllowed DEF SetTruncate, RestoreTruncate, Goto, Allowed
    <2>4. CASE SetWrite(i) \/ RestoreWrite(i)
        BY <1>2, <2>4, WriteAllowed
        DEF SetWrite, RestoreWrite, Contents, SetPcs, Window
    <2>5. CASE RestoreRead(i) \/ MgrStop(i)
        BY <1>1, <1>2, <2>5 DEF RestoreRead, MgrStop, Goto, Exit
    <2>6. CASE DnsStop(i)
        <3>1. /\ UNCHANGED <<file, scars>>
              /\ port' = IF port = i THEN None ELSE port
              /\ \A p \in Procs : pc[p] \in {"rstWrite", "clnWrite"} => pc'[p] = pc[p]
            BY <1>2, <2>6 DEF DnsStop, Goto, Exit
        <3>2. CASE port # i
            BY <1>1, <3>1, <3>2
        <3>3. CASE port = i
            <4>1. Hijacked(file) => Orphaned
                BY <1>2, <2>6, <3>3 DEF DnsStop, Orphaned
            <4>2. Leaves
                BY <1>2, <3>1, <3>3, <4>1, ProcsAssumption
                DEF Leaves, Served, Orphaned, Hijacked
            <4>3. OrphanInv'
                BY <3>1 DEF OrphanInv, Hijacked, Intact
            <4>4. QED BY <4>2, <4>3 DEF Allowed
        <3>4. QED BY <3>2, <3>3
    <2>7. QED BY <1>4, <2>1, <2>2, <2>3, <2>4, <2>5, <2>6 DEF RunStep
<1>5. ASSUME NEW i \in Insts, ServerFails(i) PROVE Fine
    BY <1>5 DEF ServerFails, Intact
<1>6. ASSUME NEW i \in Insts, Interrupt(i) PROVE Fine
    BY <1>2, <1>6, DieAllowed DEF Interrupt, Exit, AfterExit, Goto, Allowed
<1>7. ASSUME NEW c \in Cleaners, StartCleanup(c) PROVE Fine
    BY <1>1, <1>2, <1>7 DEF StartCleanup, Goto
<1>8. ASSUME NEW p \in Procs, CleanStep(p) PROVE Fine
    <2>1. CASE CleanCheck(p) \/ CleanRead(p)
        BY <1>1, <1>2, <2>1 DEF CleanCheck, CleanRead, Goto
    <2>2. CASE CleanTruncate(p)
        BY <2>2, TruncateAllowed DEF CleanTruncate, Goto, Allowed
    <2>3. CASE CleanWrite(p)
        BY <2>3, WriteAllowed DEF CleanWrite, Contents, SetPcs, Window
    <2>4. QED BY <1>8, <2>1, <2>2, <2>3 DEF CleanStep
<1>9. ASSUME NEW p \in Procs, Fault(p) PROVE Fine
    <2>1. CASE OpenFails(p)
        <3>1. /\ UNCHANGED <<file, port>>
              /\ \A q \in Procs : pc[q] \in {"rstWrite", "clnWrite"} => pc'[q] = pc[q]
              /\ scars' = scars \cup Mark(pc[p] \in RstPcs /\ Hijacked(file), "orphaned")
            BY <1>2, <2>1 DEF OpenFails, GiveUp, Goto, BeforeOpen
        <3>2. CASE pc[p] \in RstPcs /\ Hijacked(file)
            BY <3>1, <3>2
            DEF Mark, Abandons, Served, Orphaned, Hijacked, Allowed, OrphanInv
        <3>3. CASE ~(pc[p] \in RstPcs /\ Hijacked(file))
            BY <1>1, <3>1, <3>3 DEF Mark
        <3>4. QED BY <3>2, <3>3
    <2>2. CASE WriteFails(p)
        BY <2>2 DEF WriteFails, Intact
    <2>3. CASE Kill(p)
        BY <1>2, <2>3, DieAllowed DEF Kill, Exit, AfterExit, Goto, Allowed
    <2>4. QED BY <1>9, <2>1, <2>2, <2>3 DEF Fault
<1>10. ASSUME PowerLoss PROVE Fine
    <2>1. /\ \A p \in Procs : pc[p] \notin Window
          /\ scars' = scars \cup Mark(Hijacked(file), "orphaned")
          /\ port' = None /\ UNCHANGED file
        BY <1>10 DEF PowerLoss, Mark, Intact
    <2>2. OrphanInv'
        <3>1. Hijacked(file)' <=> Hijacked(file)
            BY <2>1 DEF Hijacked
        <3>2. CASE Hijacked(file)
            BY <3>1, <3>2 DEF OrphanInv
        <3>3. CASE ~Hijacked(file)
            BY <2>1, <3>3 DEF OrphanInv, Mark, Window
        <3>4. QED BY <3>2, <3>3
    <2>3. Stutters \/ Leaves
        BY <1>2, <2>1
        DEF Stutters, Same, Leaves, Served, Orphaned, Hijacked, Mark
    <2>4. QED BY <2>2, <2>3 DEF Allowed
<1>11. CASE UNCHANGED vars
    BY <1>1, <1>11 DEF vars
<1>12. QED
    BY <1>3, <1>4, <1>5, <1>6, <1>7, <1>8, <1>9, <1>10, <1>11 DEF Next, HostRewrites

(***************************************************************************)
(* Every step of the runs and cleanups of a host, of their crashes and of  *)
(* their failures is one that DnsRedirection promises, until an accident   *)
(* with resolv.conf has voided the promise, which no later step restores.  *)
(***************************************************************************)
THEOREM PromiseKeptAlways ==
    ASSUME "host" \notin Events
    PROVE  Spec => PromiseKept
<1> DEFINE IInv == TypeOK /\ LockInv /\ LossInv /\ ServedInv /\ OrphanInv
<1>1. Init => IInv
    <2> SUFFICES ASSUME Init PROVE IInv
        OBVIOUS
    <2>1. file \in Files /\ ~Hijacked(file) /\ Recovered(file) = Plain(wanted) /\ ~Writing
        BY PlainTyped
        DEF Init, Recovered, hasGecitDNSState, Plain, Writing, Window, Hijacked
    <2>2. TypeOK
        BY <2>1, ProcsAssumption, ContentsTyped DEF Init, TypeOK, Procs, Pcs
    <2>3. LockInv
        BY ProcsAssumption DEF Init, LockInv, PortIsLock, Holds, Procs, SetPcs, RstPcs
    <2>4. QED
        BY <2>1, <2>2, <2>3 DEF Init, LossInv, ServedInv, OrphanInv, Writing, Window
<1>2. IInv /\ [Next]_vars => IInv'
    <2> SUFFICES ASSUME IInv, [Next]_vars PROVE IInv'
        OBVIOUS
    <2>1. TypeOK' /\ LockInv' /\ ServedInv'
        BY Typing, LockStep, ServedStep
    <2>2. LossInv'
        BY <2>1, LossStep
    <2>3. CASE Intact'
        BY <2>1, <2>2, <2>3, ScarsStay, AllowedStep
    <2>4. CASE ~Intact'
        BY <2>1, <2>2, <2>4 DEF OrphanInv
    <2>5. QED BY <2>3, <2>4
<1>3. Init => Promise!Init
    <2> SUFFICES ASSUME Init PROVE Promise!Init
        OBVIOUS
    <2>1. ~Hijacked(file)
        BY DEF Init, Hijacked, Plain
    <2>2. QED BY <2>1 DEF Init, Promise!Init
<1>4. IInv /\ IInv' /\ [Next]_vars => [Promise!Next]_(Promise!vars)
    <2> SUFFICES ASSUME IInv, IInv', [Next]_vars
                 PROVE  [Promise!Next]_(Promise!vars)
        OBVIOUS
    <2>1. CASE Intact'
        <3>1. Intact
            BY <2>1, ScarsStay
        <3>2. Allowed
            BY <2>1, <3>1, AllowedStep
        <3>3. QED BY <2>1, <3>1, <3>2, AllowedMaps
    <2>2. CASE ~Intact'
        BY <2>2 DEF Intact, Promise!Next
    <2>3. QED BY <2>1, <2>2
<1>5. QED
    BY <1>1, <1>2, <1>3, <1>4, PTL DEF Spec, PromiseKept, Promise!Spec
=============================================================================
