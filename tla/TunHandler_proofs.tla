--------------------------- MODULE TunHandler_proofs ---------------------------
(***************************************************************************)
(* The safety of the TUN engine for any number of connections and ports.   *)
(***************************************************************************)
EXTENDS TunHandler, FiniteSetTheorems, TLAPS

FailPcs == UndoPcs \cup {"failed"}
ServedPcs == {"up", "closeStack"}
RoutedPcs == ServedPcs \cup {"startStack", "closeDevice"}

(***************************************************************************)
(* The steps before which each handle can be open: every failure of Start  *)
(* and every step of Stop closes what it must, and a stack that stays was  *)
(* created after the monitors.                                             *)
(***************************************************************************)
HandleInv ==
    /\ "served" \in open => pc \in ServedPcs
    /\ "routes" \in open => pc \in RoutedPcs
    /\ "device" \in open => pc \in RoutedPcs \cup {"stack", "startDevice"}
    /\ "stack" \in open => pc \in ServedPcs \cup {"startDevice", "startStack"} \cup FailPcs
    /\ "raw" \in open => pc \in RoutedPcs \cup (StartPcs \ {"redirect", "raw"}) \cup {"closeRaw"}
    /\ "ifmon" \in open => pc \notin {"stopped", "dead", "closeNet", "untrack", "restore", "unlisten"}
    /\ "netmon" \in open => pc \notin {"stopped", "dead", "untrack", "restore", "unlisten"}
    /\ pc \in {"device", "stack", "startDevice", "startStack"} => "ifmon" \in open
    /\ pc \in FailPcs /\ "stack" \in open => "ifmon" \in open

\* The redirection and the server it leads to.
DnsInv ==
    /\ pc = "redirect" => dohEnabled
    /\ redirected => \/ unrestored
                     \/ /\ dohEnabled
                        /\ pc \notin {"down", "redirect", "undoListen", "failed", "unlisten", "stopped"}
    /\ listening => dohEnabled /\ pc \notin {"down", "failed", "stopped"}

\* A handler between its check and its call has seen the tracker.
CallInv ==
    (\E c \in Conns : hpc[c] = "call") /\ ~tracker => pc \in {"restore", "unlisten", "stopped"}

\* Numbers stay on the port of their connection; who gets a stranger's finds him closed.
NumbersInv ==
    /\ \A c, e \in Conns : c # e /\ PortOf[c] = PortOf[e] => ~Dialled(c) \/ ~Dialled(e)
    /\ \A c \in Conns : hpc[c] \in {"none", "dial"} =>
          /\ \A p \in Ports : entries[p] # c
          /\ \A e \in Conns : numbers[e] # c
    /\ \A p \in Ports, c \in Conns : entries[p] = c => PortOf[c] = p
    /\ \A c, e \in Conns : numbers[c] = e =>
          /\ PortOf[c] = PortOf[e]
          /\ c # e => hpc[e] = "closed"

\* Each SYN-ACK is in the entry, in use, used up or overwritten.
Waiting(e) == IF entries[PortOf[e]] = e THEN 1 ELSE 0
SupplyInv == \A e \in Conns : Cardinality(Users(e)) + Waiting(e) <= synAcks[e]

\* A direction that has ended has set all deadlines of its pipe.
PastInv ==
    \A c \in Conns, d \in Dirs :
        /\ dpc[c][d] \notin {"idle", "done"} => hpc[c] = "pipe"
        /\ kind[c] # "udp" /\ hpc[c] = "pipe" =>
              /\ dpc[c][d] = "pastServer" => "app" \in writePast[c]
              /\ dpc[c][d] = "done" => Sides \subseteq writePast[c]

-----------------------------------------------------------------------------
(***************************************************************************)
(* A step belongs to Start and Stop, or to a connection, or to both: the   *)
(* end of the stack, and the end of the process.                           *)
(***************************************************************************)
ManagerOnly ==
    /\ \/ StartSteps \/ CloseDevice \/ CloseRaw \/ CloseMonitors \/ Untrack
       \/ Restore \/ Unlisten \/ Cancel
    /\ UNCHANGED connVars

LEMMA StepKinds ==
    ASSUME Next
    PROVE  \/ ManagerOnly
           \/ StopStack
           \/ \E c \in Conns : NilTracker(c)
           \/ UNCHANGED managerVars
  BY DEF Next, ManagerStep, ManagerOnly, HandlerStep, DirStep, Arrive, Dial, DialFails,
         Capture, ReadHello, NoHello, CheckTracker, CallTracker, PollFinds, PollTimeout,
         SendFakes, WriteHello, WriteHelloFails, SetReadDeadline, ReadChunk, ReadFails,
         WriteChunk, WriteFails, SetAppPast, SetServerPast, SetPast, Close, Send, HangUp, trackVars, pipeVars

LEMMA TypeInit == Init => TypeOK
  <1> SUFFICES ASSUME Init PROVE TypeOK
    OBVIOUS
  <1>1. ManagerTypeOK
    BY DEF Init, ManagerInit, ManagerTypeOK, Pcs
  <1>2. kind \in [Conns -> Kinds]
    BY DEF Init
  <1> QED
    BY <1>1, <1>2, HandlerAssumption DEF Init, TypeOK, HandlerPcs, DirPcs

\* Start and Stop keep their types; the capture stays while there is a tracker.
LEMMA ManagerType ==
    ASSUME ManagerTypeOK, StartSteps \/ StopSteps \/ Cancel \/ Die \/ UNCHANGED managerVars
    PROVE  ManagerTypeOK'
  <1> USE DEF ManagerTypeOK, dnsVars, managerVars, StartUnchanged, RestoreSystemDNS, Closes
  <1>a. /\ {"raw", "redirect", "track", "monitors", "netmon", "ifmon", "device", "stack"} \subseteq Pcs
        /\ {"startDevice", "startStack", "up", "undoRestore", "undoListen"} \subseteq Pcs
        /\ {"closeStack", "closeDevice", "closeRaw", "closeIf", "closeNet"} \subseteq Pcs
        /\ {"untrack", "restore", "unlisten", "stopped", "failed", "dead"} \subseteq Pcs
    BY DEF Pcs, StartPcs, StopPcs, UndoPcs
  <1>b. /\ {"raw", "capture", "netmon", "ifmon", "device"} \subseteq Handles
        /\ {"routes", "stack", "served"} \subseteq Handles
    BY DEF Handles
  <1>c. ASSUME NEW closed \in SUBSET {"raw", "netmon", "device", "stack", "routes"}, Fail(closed)
        PROVE  /\ open' \subseteq Handles /\ pc' \in Pcs
               /\ "capture" \in open => "capture" \in open'
    BY <1>a, <1>c DEF Fail
  <1>1. CASE StartPlain BY <1>1, <1>a DEF StartPlain
  <1>2. CASE Listen BY <1>2, <1>a DEF Listen
  <1>3. CASE Redirect BY <1>3, <1>a DEF Redirect
  <1>4. CASE OpenRaw
    BY <1>4, <1>a, <1>b, <1>c DEF OpenRaw
  <1>5. CASE StartSeqTracker
    <2>1. CASE open' = open \cup {"capture"} /\ tracker' = TRUE
      BY <1>5, <1>a, <1>b, <2>1 DEF StartSeqTracker
    <2>2. CASE UNCHANGED <<open, tracker>>
      BY <1>5, <1>a, <2>2 DEF StartSeqTracker
    <2> QED
      BY <1>5, <2>1, <2>2 DEF StartSeqTracker
  <1>6. CASE CreateMonitors
    BY <1>6, <1>a, <1>b, <1>c DEF CreateMonitors
  <1>7. CASE StartNetworkMonitor
    BY <1>7, <1>a, <1>b, <1>c DEF StartNetworkMonitor
  <1>8. CASE StartInterfaceMonitor
    BY <1>8, <1>a, <1>b, <1>c DEF StartInterfaceMonitor
  <1>9. CASE OpenDevice
    BY <1>9, <1>a, <1>b, <1>c DEF OpenDevice
  <1>10. CASE NewStack
    BY <1>10, <1>a, <1>b, <1>c DEF NewStack
  <1>11. CASE StartDevice
    BY <1>11, <1>a, <1>b, <1>c DEF StartDevice
  <1>12. CASE StartStack
    BY <1>12, <1>a, <1>b, <1>c DEF StartStack
  <1>13. CASE UndoRestore BY <1>13, <1>a DEF UndoRestore
  <1>14. CASE UndoListen BY <1>14, <1>a DEF UndoListen
  <1>15. CASE CloseStack BY <1>15, <1>a DEF CloseStack
  <1>16. CASE CloseDevice BY <1>16, <1>a DEF CloseDevice
  <1>17. CASE CloseRaw BY <1>17, <1>a DEF CloseRaw
  <1>18. CASE CloseMonitors
    <2>1. CASE Closes("closeIf", {"ifmon"}, "closeNet")
      BY <1>a, <2>1
    <2>2. CASE Closes("closeNet", {"netmon"}, "untrack")
      BY <1>a, <2>2
    <2> QED
      BY <1>18, <2>1, <2>2 DEF CloseMonitors
  <1>19. CASE Untrack BY <1>19, <1>a DEF Untrack
  <1>20. CASE Restore BY <1>20, <1>a DEF Restore
  <1>21. CASE Unlisten BY <1>21, <1>a DEF Unlisten
  <1>22. CASE Cancel BY <1>22, <1>a DEF Cancel
  <1>23. CASE Die BY <1>23, <1>a DEF Die
  <1>24. CASE UNCHANGED managerVars BY <1>24
  <1> QED
    BY <1>1, <1>2, <1>3, <1>4, <1>5, <1>6, <1>7, <1>8, <1>9, <1>10, <1>11, <1>12, <1>13,
       <1>14, <1>15, <1>16, <1>17, <1>18, <1>19, <1>20, <1>21, <1>22, <1>23, <1>24
       DEF StartSteps, StopSteps

\* Handles and the DNS setting, step by step.
LEMMA ManagerInv ==
    ASSUME ManagerTypeOK, HandleInv, DnsInv,
           StartSteps \/ StopSteps \/ Cancel \/ Die \/ UNCHANGED managerVars
    PROVE  HandleInv' /\ DnsInv'
  <1> USE DEF ManagerTypeOK, HandleInv, DnsInv, FailPcs, ServedPcs, RoutedPcs, Pcs, StartPcs,
              StopPcs, UndoPcs, Handles, dnsVars, managerVars, StartUnchanged, Fail,
              RestoreSystemDNS, Closes
  <1>1. CASE StartPlain BY <1>1 DEF StartPlain
  <1>2. CASE Listen BY <1>2 DEF Listen
  <1>3. CASE Redirect BY <1>3 DEF Redirect
  <1>4. CASE OpenRaw BY <1>4 DEF OpenRaw
  <1>5. CASE StartSeqTracker BY <1>5 DEF StartSeqTracker
  <1>6. CASE CreateMonitors BY <1>6 DEF CreateMonitors
  <1>7. CASE StartNetworkMonitor BY <1>7 DEF StartNetworkMonitor
  <1>8. CASE StartInterfaceMonitor BY <1>8 DEF StartInterfaceMonitor
  <1>9. CASE OpenDevice BY <1>9 DEF OpenDevice
  <1>10. CASE NewStack BY <1>10 DEF NewStack
  <1>11. CASE StartDevice BY <1>11 DEF StartDevice
  <1>12. CASE StartStack BY <1>12 DEF StartStack
  <1>13. CASE UndoRestore BY <1>13 DEF UndoRestore
  <1>14. CASE UndoListen BY <1>14 DEF UndoListen
  <1>15. CASE CloseStack BY <1>15 DEF CloseStack
  <1>16. CASE CloseDevice BY <1>16 DEF CloseDevice
  <1>17. CASE CloseRaw BY <1>17 DEF CloseRaw
  <1>18. CASE CloseMonitors BY <1>18 DEF CloseMonitors
  <1>19. CASE Untrack BY <1>19 DEF Untrack
  <1>20. CASE Restore BY <1>20 DEF Restore
  <1>21. CASE Unlisten BY <1>21 DEF Unlisten
  <1>22. CASE Cancel BY <1>22 DEF Cancel
  <1>23. CASE Die BY <1>23 DEF Die
  <1>24. CASE UNCHANGED managerVars BY <1>24
  <1> QED
    BY <1>1, <1>2, <1>3, <1>4, <1>5, <1>6, <1>7, <1>8, <1>9, <1>10, <1>11, <1>12, <1>13,
       <1>14, <1>15, <1>16, <1>17, <1>18, <1>19, <1>20, <1>21, <1>22, <1>23, <1>24
       DEF StartSteps, StopSteps

-----------------------------------------------------------------------------
(***************************************************************************)
(* The steps of a connection.  Every lemma below has one case for each.    *)
(***************************************************************************)
ConnStep(c) ==
    \/ Arrive(c) \/ Dial(c) \/ Capture(c) \/ WriteHelloFails(c) \/ HandlerStep(c)
    \/ \E d \in Dirs : DirStep(c, d) \/ WriteChunk(c, d)
    \/ \E s \in Sides : Send(c, s) \/ HangUp(c, s)

LEMMA NextCases ==
    ASSUME Next
    PROVE  ManagerOnly \/ StopStack \/ \E c \in Conns : ConnStep(c)
  BY DEF Next, ManagerStep, ManagerOnly, ConnStep

\* What a Dial changes, whatever is dialled.
DialEffect(c) ==
    /\ hpc[c] = "dial"
    /\ \/ hpc' = [hpc EXCEPT ![c] = "hello"] /\ dpc' = dpc
       \/ /\ hpc' = [hpc EXCEPT ![c] = "pipe"]
          /\ dpc' = [dpc EXCEPT ![c] = [d \in Dirs |-> "set"]]
    /\ \A e \in Conns \ {c} : PortOf[e] = PortOf[c] => ~Dialled(e)
    /\ UNCHANGED <<kind, entries, synAcks, numbers, readPast, writePast, avail>>

LEMMA DialEffects ==
    ASSUME NEW c \in Conns, Dial(c)
    PROVE  DialEffect(c)
  <1>1. /\ hpc[c] = "dial"
        /\ UNCHANGED <<kind, entries, synAcks, numbers, readPast, writePast, avail>>
    BY DEF Dial, trackVars
  <1>2. \/ hpc' = [hpc EXCEPT ![c] = "hello"] /\ dpc' = dpc
        \/ /\ hpc' = [hpc EXCEPT ![c] = "pipe"]
           /\ dpc' = [dpc EXCEPT ![c] = [d \in Dirs |-> "set"]]
    BY Zenon DEF Dial, Goto
  <1>3. \A e \in Conns \ {c} : PortOf[e] = PortOf[c] => ~Dialled(e)
    BY Zenon DEF Dial
  <1> QED
    BY <1>1, <1>2, <1>3 DEF DialEffect

LEMMA ConnType ==
    ASSUME TypeOK, NEW c \in Conns, ConnStep(c), ManagerTypeOK'
    PROVE  TypeOK'
  <1> USE DEF TypeOK, HandlerPcs, DirPcs, Goto, GotoDir, trackVars, pipeVars
  <1>1. CASE Arrive(c) BY <1>1 DEF Arrive
  <1>2. CASE Dial(c)
    <2>1. DialEffect(c)
      BY <1>2, DialEffects
    <2>2. UNCHANGED <<kind, entries, synAcks, numbers, readPast, writePast, avail>>
      BY <2>1, Zenon DEF DialEffect
    <2>3. CASE hpc' = [hpc EXCEPT ![c] = "hello"] /\ dpc' = dpc
      BY <2>2, <2>3
    <2>4. CASE /\ hpc' = [hpc EXCEPT ![c] = "pipe"]
               /\ dpc' = [dpc EXCEPT ![c] = [d \in Dirs |-> "set"]]
      BY <2>2, <2>4
    <2> QED
      BY <2>1, <2>3, <2>4, Zenon DEF DialEffect
  <1>3. CASE DialFails(c) BY <1>3 DEF DialFails
  <1>4. CASE Capture(c) BY HandlerAssumption, <1>4 DEF Capture
  <1>5. CASE ReadHello(c) BY <1>5 DEF ReadHello
  <1>6. CASE NoHello(c) BY <1>6 DEF NoHello
  <1>7. CASE CheckTracker(c) BY <1>7 DEF CheckTracker
  <1>8. CASE CallTracker(c) BY <1>8 DEF CallTracker
  <1>9. CASE NilTracker(c) BY <1>9 DEF NilTracker
  <1>10. CASE PollFinds(c) BY HandlerAssumption, <1>10 DEF PollFinds
  <1>11. CASE PollTimeout(c) BY <1>11 DEF PollTimeout
  <1>12. CASE SendFakes(c) BY <1>12 DEF SendFakes
  <1>13. CASE WriteHello(c) BY <1>13 DEF WriteHello
  <1>14. CASE WriteHelloFails(c) BY <1>14 DEF WriteHelloFails
  <1>15. CASE Close(c) BY <1>15 DEF Close
  <1>16. ASSUME NEW d \in Dirs, SetReadDeadline(c, d) PROVE TypeOK' BY <1>16 DEF SetReadDeadline
  <1>17. ASSUME NEW d \in Dirs, ReadChunk(c, d) PROVE TypeOK' BY <1>17 DEF ReadChunk
  <1>18. ASSUME NEW d \in Dirs, ReadFails(c, d) PROVE TypeOK' BY <1>18 DEF ReadFails, Leave
  <1>19. ASSUME NEW d \in Dirs, WriteChunk(c, d) PROVE TypeOK' BY <1>19 DEF WriteChunk
  <1>20. ASSUME NEW d \in Dirs, WriteFails(c, d) PROVE TypeOK' BY <1>20 DEF WriteFails, Leave
  <1>21. ASSUME NEW d \in Dirs, SetAppPast(c, d) PROVE TypeOK' BY <1>21 DEF SetAppPast, SetPast, Sides
  <1>22. ASSUME NEW d \in Dirs, SetServerPast(c, d) PROVE TypeOK' BY <1>22 DEF SetServerPast, SetPast, Sides
  <1>23. ASSUME NEW s \in Sides, Send(c, s) PROVE TypeOK' BY <1>23 DEF Send
  <1>24. ASSUME NEW s \in Sides, HangUp(c, s) PROVE TypeOK' BY <1>24 DEF HangUp
  <1> HIDE DEF TypeOK, CallInv, NumbersInv, PastInv
  <1> QED
    BY <1>1, <1>2, <1>3, <1>4, <1>5, <1>6, <1>7, <1>8, <1>9, <1>10, <1>11, <1>12, <1>13, <1>14, <1>15, <1>16, <1>17, <1>18, <1>19, <1>20, <1>21, <1>22, <1>23, <1>24, SMTT(20)
       DEF ConnStep, HandlerStep, DirStep

\* A handler calls the tracker only after it has seen it.
LEMMA ConnCall ==
    ASSUME TypeOK, CallInv, NEW c \in Conns, ConnStep(c)
    PROVE  CallInv'
  <1> USE DEF TypeOK, CallInv, HandlerPcs, Goto, managerVars, Die
  <1>1. CASE Arrive(c) BY <1>1 DEF Arrive
  <1>2. CASE Dial(c) BY <1>2 DEF Dial
  <1>3. CASE DialFails(c) BY <1>3 DEF DialFails
  <1>4. CASE Capture(c) BY <1>4 DEF Capture
  <1>5. CASE ReadHello(c) BY <1>5 DEF ReadHello
  <1>6. CASE NoHello(c) BY <1>6 DEF NoHello
  <1>7. CASE CheckTracker(c) BY <1>7 DEF CheckTracker
  <1>8. CASE CallTracker(c) BY <1>8 DEF CallTracker
  <1>9. CASE NilTracker(c) BY <1>9 DEF NilTracker
  <1>10. CASE PollFinds(c) BY <1>10 DEF PollFinds
  <1>11. CASE PollTimeout(c) BY <1>11 DEF PollTimeout
  <1>12. CASE SendFakes(c) BY <1>12 DEF SendFakes
  <1>13. CASE WriteHello(c) BY <1>13 DEF WriteHello
  <1>14. CASE WriteHelloFails(c) BY <1>14 DEF WriteHelloFails
  <1>15. CASE Close(c) BY <1>15 DEF Close
  <1>16. ASSUME NEW d \in Dirs, SetReadDeadline(c, d) PROVE CallInv' BY <1>16 DEF SetReadDeadline
  <1>17. ASSUME NEW d \in Dirs, ReadChunk(c, d) PROVE CallInv' BY <1>17 DEF ReadChunk
  <1>18. ASSUME NEW d \in Dirs, ReadFails(c, d) PROVE CallInv' BY <1>18 DEF ReadFails, Leave
  <1>19. ASSUME NEW d \in Dirs, WriteChunk(c, d) PROVE CallInv' BY <1>19 DEF WriteChunk
  <1>20. ASSUME NEW d \in Dirs, WriteFails(c, d) PROVE CallInv' BY <1>20 DEF WriteFails, Leave
  <1>21. ASSUME NEW d \in Dirs, SetAppPast(c, d) PROVE CallInv' BY <1>21 DEF SetAppPast, SetPast
  <1>22. ASSUME NEW d \in Dirs, SetServerPast(c, d) PROVE CallInv' BY <1>22 DEF SetServerPast, SetPast
  <1>23. ASSUME NEW s \in Sides, Send(c, s) PROVE CallInv' BY <1>23 DEF Send
  <1>24. ASSUME NEW s \in Sides, HangUp(c, s) PROVE CallInv' BY <1>24 DEF HangUp
  <1> HIDE DEF TypeOK, CallInv, NumbersInv, PastInv
  <1> QED
    BY <1>1, <1>2, <1>3, <1>4, <1>5, <1>6, <1>7, <1>8, <1>9, <1>10, <1>11, <1>12, <1>13, <1>14, <1>15, <1>16, <1>17, <1>18, <1>19, <1>20, <1>21, <1>22, <1>23, <1>24, SMTT(20)
       DEF ConnStep, HandlerStep, DirStep

\* The numbers of a connection go from the capture by the entry to one handler.
LEMMA ConnNumbers ==
    ASSUME TypeOK, NumbersInv, NEW c \in Conns, ConnStep(c)
    PROVE  NumbersInv'
  <1> USE DEF TypeOK, NumbersInv, HandlerPcs, Dialled, Goto, trackVars
  <1>1. CASE Arrive(c) BY <1>1 DEF Arrive
  <1>2. CASE Dial(c)
    <2>1. DialEffect(c)
      BY <1>2, DialEffects
    <2>2. /\ hpc[c] = "dial" /\ hpc'[c] \notin {"none", "dial", "closed"}
          /\ \A e \in Conns \ {c} : hpc'[e] = hpc[e]
      BY <2>1 DEF DialEffect
    <2>3. /\ \A e \in Conns \ {c} : PortOf[e] = PortOf[c] => hpc[e] \in {"none", "dial", "closed"}
          /\ entries' = entries /\ numbers' = numbers
      BY <2>1 DEF DialEffect
    <2>4. ASSUME NEW e \in Conns, NEW f \in Conns, e # f, PortOf[e] = PortOf[f]
          PROVE  hpc'[e] \in {"none", "dial", "closed"} \/ hpc'[f] \in {"none", "dial", "closed"}
      <3>1. hpc[e] \in {"none", "dial", "closed"} \/ hpc[f] \in {"none", "dial", "closed"}
        BY <2>4
      <3> HIDE DEF TypeOK, NumbersInv
      <3>2. CASE e = c
        BY <2>2, <2>3, <2>4, <3>2
      <3>3. CASE f = c
        BY <2>2, <2>3, <2>4, <3>3
      <3>4. CASE e # c /\ f # c
        BY <2>2, <3>1, <3>4
      <3> QED
        BY <3>2, <3>3, <3>4
    <2>5. ASSUME NEW e \in Conns, hpc'[e] \in {"none", "dial"}
          PROVE  /\ \A p \in Ports : entries'[p] # e
                 /\ \A f \in Conns : numbers'[f] # e
      <3>1. CASE e = c
        BY <2>2, <2>3, <3>1
      <3>2. CASE e # c
        BY <2>2, <2>3, <2>5, <3>2
      <3> QED
        BY <3>1, <3>2
    <2>6. \A e \in Conns : hpc[e] = "closed" => hpc'[e] = "closed"
      BY <2>2
    <2> QED
      BY <2>3, <2>4, <2>5, <2>6
  <1>3. CASE DialFails(c) BY <1>3 DEF DialFails
  <1>4. CASE Capture(c) BY HandlerAssumption, <1>4 DEF Capture, Captured
  <1>5. CASE ReadHello(c) BY <1>5 DEF ReadHello
  <1>6. CASE NoHello(c) BY <1>6 DEF NoHello
  <1>7. CASE CheckTracker(c) BY <1>7 DEF CheckTracker
  <1>8. CASE CallTracker(c) BY <1>8 DEF CallTracker
  <1>9. CASE NilTracker(c) BY <1>9 DEF NilTracker
  <1>10. CASE PollFinds(c)
    <2> DEFINE e == entries[PortOf[c]]
    <2>1. /\ PortOf[c] \in Ports /\ e \in Conns /\ hpc[c] = "poll"
          /\ hpc' = [hpc EXCEPT ![c] = "fake"]
          /\ numbers' = [numbers EXCEPT ![c] = e]
          /\ entries' = [entries EXCEPT ![PortOf[c]] = None]
      BY HandlerAssumption, <1>10 DEF PollFinds
    <2>2. PortOf[e] = PortOf[c] /\ hpc[e] \notin {"none", "dial"}
      BY <2>1
    <2>3. c # e => hpc[e] = "closed"
      BY <2>1, <2>2
    <2> HIDE DEF e
    <2>4. \A b \in Conns : (Dialled(b))' <=> Dialled(b)
      BY <2>1
    <2>5. \A b \in Conns : hpc'[b] \in {"none", "dial"} => hpc[b] \in {"none", "dial"}
      BY <2>1
    <2>6. \A b \in Conns : hpc[b] = "closed" => hpc'[b] = "closed"
      BY <2>1
    <2>7. \A b \in Conns : numbers'[b] = IF b = c THEN e ELSE numbers[b]
      BY <2>1
    <2>8. \A q \in Ports : entries'[q] = IF q = PortOf[c] THEN None ELSE entries[q]
      BY <2>1
    <2>9. None \notin Conns
      BY HandlerAssumption
    <2> QED
      BY <2>1, <2>2, <2>3, <2>4, <2>5, <2>6, <2>7, <2>8, <2>9
  <1>11. CASE PollTimeout(c) BY <1>11 DEF PollTimeout
  <1>12. CASE SendFakes(c) BY <1>12 DEF SendFakes
  <1>13. CASE WriteHello(c) BY <1>13 DEF WriteHello
  <1>14. CASE WriteHelloFails(c) BY <1>14 DEF WriteHelloFails
  <1>15. CASE Close(c) BY <1>15 DEF Close
  <1>16. ASSUME NEW d \in Dirs, SetReadDeadline(c, d) PROVE NumbersInv' BY <1>16 DEF SetReadDeadline
  <1>17. ASSUME NEW d \in Dirs, ReadChunk(c, d) PROVE NumbersInv' BY <1>17 DEF ReadChunk
  <1>18. ASSUME NEW d \in Dirs, ReadFails(c, d) PROVE NumbersInv' BY <1>18 DEF ReadFails, Leave
  <1>19. ASSUME NEW d \in Dirs, WriteChunk(c, d) PROVE NumbersInv' BY <1>19 DEF WriteChunk
  <1>20. ASSUME NEW d \in Dirs, WriteFails(c, d) PROVE NumbersInv' BY <1>20 DEF WriteFails, Leave
  <1>21. ASSUME NEW d \in Dirs, SetAppPast(c, d) PROVE NumbersInv' BY <1>21 DEF SetAppPast, SetPast
  <1>22. ASSUME NEW d \in Dirs, SetServerPast(c, d) PROVE NumbersInv' BY <1>22 DEF SetServerPast, SetPast
  <1>23. ASSUME NEW s \in Sides, Send(c, s) PROVE NumbersInv' BY <1>23 DEF Send
  <1>24. ASSUME NEW s \in Sides, HangUp(c, s) PROVE NumbersInv' BY <1>24 DEF HangUp
  <1> HIDE DEF TypeOK, CallInv, NumbersInv, PastInv
  <1> QED
    BY <1>1, <1>2, <1>3, <1>4, <1>5, <1>6, <1>7, <1>8, <1>9, <1>10, <1>11, <1>12, <1>13, <1>14, <1>15, <1>16, <1>17, <1>18, <1>19, <1>20, <1>21, <1>22, <1>23, <1>24, SMTT(20)
       DEF ConnStep, HandlerStep, DirStep

\* Only the capture and a handler that finds an entry touch the tracker's records.
LEMMA TrackSteps ==
    ASSUME NEW c \in Conns, ConnStep(c)
    PROVE  Capture(c) \/ PollFinds(c) \/ UNCHANGED <<entries, synAcks, numbers>>
  BY DEF ConnStep, HandlerStep, DirStep, Arrive, Dial, DialFails, ReadHello, NoHello,
         CheckTracker, CallTracker, NilTracker, PollTimeout, SendFakes, WriteHello,
         WriteHelloFails, SetReadDeadline, ReadChunk, ReadFails, WriteChunk, WriteFails,
         SetAppPast, SetServerPast, SetPast, Close, Send, HangUp, trackVars

LEMMA UsersFinite ==
    ASSUME NEW e
    PROVE  IsFiniteSet(Users(e)) /\ Cardinality(Users(e)) \in Nat
  BY HandlerAssumption, FS_Subset, FS_CardinalityType DEF Users

\* A capture adds a SYN-ACK for the entry it writes; a handler takes the entry it uses.
LEMMA ConnSupply ==
    ASSUME TypeOK, NumbersInv, SupplyInv, NEW c \in Conns, ConnStep(c)
    PROVE  SupplyInv'
  <1> SUFFICES ASSUME NEW e \in Conns
               PROVE  Cardinality(Users(e))' + Waiting(e)' <= synAcks'[e]
    BY DEF SupplyInv
  <1>1. Cardinality(Users(e)) + Waiting(e) <= synAcks[e]
    BY DEF SupplyInv
  <1>2. Cardinality(Users(e)) \in Nat /\ synAcks[e] \in Nat /\ PortOf[e] \in Ports
    BY UsersFinite, HandlerAssumption DEF TypeOK
  <1>3. CASE Capture(c)
    <2>1. Users(e)' = Users(e)
      BY <1>3 DEF Capture, Users
    <2>2. CASE e = c
      <3>1. synAcks'[e] = synAcks[e] + 1
        BY <1>3, <2>2 DEF Capture, TypeOK
      <3> QED
        BY <1>1, <1>2, <2>1, <3>1 DEF Waiting
    <2>3. CASE e # c
      <3>1. synAcks'[e] = synAcks[e] /\ (entries'[PortOf[e]] = e => entries[PortOf[e]] = e)
        BY <1>2, <1>3, <2>3 DEF Capture, TypeOK
      <3> QED
        BY <1>1, <1>2, <2>1, <3>1 DEF Waiting
    <2> QED
      BY <2>2, <2>3
  <1>4. CASE PollFinds(c)
    <2> DEFINE p == PortOf[c]
    <2>1. /\ p \in Ports /\ entries[p] # None /\ synAcks' = synAcks
          /\ numbers' = [numbers EXCEPT ![c] = entries[p]]
          /\ entries' = [entries EXCEPT ![p] = None]
      BY <1>4, HandlerAssumption DEF PollFinds
    <2>2. CASE e = entries[p]
      <3>1. PortOf[e] = p
        BY <2>1, <2>2 DEF NumbersInv
      <3>2. Waiting(e) = 1 /\ Waiting(e)' = 0
        BY <2>1, <2>2, <3>1 DEF Waiting, TypeOK
      <3>3. Users(e)' = Users(e) \cup {c}
        BY <2>1, <2>2 DEF Users, TypeOK
      <3>4. Cardinality(Users(e)') <= Cardinality(Users(e)) + 1
        <4>1. IsFiniteSet(Users(e)) /\ Cardinality(Users(e)) \in Nat
          BY UsersFinite
        <4>2. \/ Cardinality(Users(e) \cup {c}) = Cardinality(Users(e))
              \/ Cardinality(Users(e) \cup {c}) = Cardinality(Users(e)) + 1
          BY <4>1, FS_AddElement
        <4> QED
          BY <3>3, <4>1, <4>2
      <3>5. Cardinality(Users(e)') \in Nat
        BY <3>3, UsersFinite, FS_AddElement, FS_CardinalityType
      <3> QED
        BY <1>1, <1>2, <2>1, <3>2, <3>4, <3>5
    <2>3. CASE e # entries[p]
      <3>1. Users(e)' \subseteq Users(e)
        BY <2>1, <2>3 DEF Users, TypeOK
      <3>2. Cardinality(Users(e)') <= Cardinality(Users(e)) /\ Cardinality(Users(e)') \in Nat
        BY <3>1, UsersFinite, FS_Subset, FS_CardinalityType
      <3>3. entries'[PortOf[e]] = e => entries[PortOf[e]] = e
        BY <1>2, <2>1, HandlerAssumption DEF TypeOK
      <3>4. Waiting(e)' <= Waiting(e) /\ Waiting(e) \in Nat /\ Waiting(e)' \in Nat
        BY <3>3 DEF Waiting
      <3> QED
        BY <1>1, <1>2, <2>1, <3>2, <3>4
    <2> QED
      BY <2>2, <2>3
  <1>5. CASE UNCHANGED <<entries, synAcks, numbers>>
    BY <1>1, <1>5 DEF Users, Waiting
  <1> QED
    BY <1>3, <1>4, <1>5, TrackSteps

\* The deadlines that a direction has set stay as long as its pipe.
LEMMA ConnPast ==
    ASSUME TypeOK, PastInv, NEW c \in Conns, ConnStep(c)
    PROVE  PastInv'
  <1> USE DEF TypeOK, PastInv, HandlerPcs, DirPcs, Dirs, Sides, Goto, GotoDir, pipeVars
  <1>1. CASE Arrive(c) BY <1>1 DEF Arrive
  <1>2. CASE Dial(c) BY <1>2 DEF Dial
  <1>3. CASE DialFails(c) BY <1>3 DEF DialFails
  <1>4. CASE Capture(c) BY <1>4 DEF Capture
  <1>5. CASE ReadHello(c) BY <1>5 DEF ReadHello
  <1>6. CASE NoHello(c) BY <1>6 DEF NoHello
  <1>7. CASE CheckTracker(c) BY <1>7 DEF CheckTracker
  <1>8. CASE CallTracker(c) BY <1>8 DEF CallTracker
  <1>9. CASE NilTracker(c) BY <1>9 DEF NilTracker
  <1>10. CASE PollFinds(c) BY <1>10 DEF PollFinds
  <1>11. CASE PollTimeout(c) BY <1>11 DEF PollTimeout
  <1>12. CASE SendFakes(c) BY <1>12 DEF SendFakes
  <1>13. CASE WriteHello(c) BY <1>13 DEF WriteHello
  <1>14. CASE WriteHelloFails(c) BY <1>14 DEF WriteHelloFails
  <1>15. CASE Close(c) BY <1>15 DEF Close
  <1>16. ASSUME NEW d \in Dirs, SetReadDeadline(c, d) PROVE PastInv' BY <1>16 DEF SetReadDeadline
  <1>17. ASSUME NEW d \in Dirs, ReadChunk(c, d) PROVE PastInv' BY <1>17 DEF ReadChunk
  <1>18. ASSUME NEW d \in Dirs, ReadFails(c, d) PROVE PastInv' BY <1>18 DEF ReadFails, Leave
  <1>19. ASSUME NEW d \in Dirs, WriteChunk(c, d) PROVE PastInv' BY <1>19 DEF WriteChunk
  <1>20. ASSUME NEW d \in Dirs, WriteFails(c, d) PROVE PastInv' BY <1>20 DEF WriteFails, Leave
  <1>21. ASSUME NEW d \in Dirs, SetAppPast(c, d) PROVE PastInv' BY <1>21 DEF SetAppPast, SetPast
  <1>22. ASSUME NEW d \in Dirs, SetServerPast(c, d) PROVE PastInv' BY <1>22 DEF SetServerPast, SetPast
  <1>23. ASSUME NEW s \in Sides, Send(c, s) PROVE PastInv' BY <1>23 DEF Send
  <1>24. ASSUME NEW s \in Sides, HangUp(c, s) PROVE PastInv' BY <1>24 DEF HangUp
  <1> HIDE DEF TypeOK, CallInv, NumbersInv, PastInv
  <1> QED
    BY <1>1, <1>2, <1>3, <1>4, <1>5, <1>6, <1>7, <1>8, <1>9, <1>10, <1>11, <1>12, <1>13, <1>14, <1>15, <1>16, <1>17, <1>18, <1>19, <1>20, <1>21, <1>22, <1>23, <1>24, SMTT(20)
       DEF ConnStep, HandlerStep, DirStep

\* A direction that would forward a chunk finds the deadlines of the other one.
LEMMA ConnCutOff ==
    ASSUME TypeOK, PastInv, NEW c \in Conns, ConnStep(c),
           NEW b \in Conns, NEW e \in Dirs, kind[b] # "udp", Ended(b), dpc[b][e] = "write"
    PROVE  dpc'[b][e] # "set"
  <1>1. hpc[b] = "pipe" /\ Sides \subseteq writePast[b]
    BY DEF PastInv, Ended
  <1> USE DEF TypeOK, HandlerPcs, DirPcs, Dirs, Sides, Dst, Goto, GotoDir, pipeVars
  <1>2. CASE Arrive(c) BY <1>1, <1>2 DEF Arrive
  <1>3. CASE Dial(c) BY <1>1, <1>3 DEF Dial
  <1>4. CASE DialFails(c) BY <1>1, <1>4 DEF DialFails
  <1>5. CASE Capture(c) BY <1>1, <1>5 DEF Capture
  <1>6. CASE ReadHello(c) BY <1>1, <1>6 DEF ReadHello
  <1>7. CASE NoHello(c) BY <1>1, <1>7 DEF NoHello
  <1>8. CASE CheckTracker(c) BY <1>1, <1>8 DEF CheckTracker
  <1>9. CASE CallTracker(c) BY <1>1, <1>9 DEF CallTracker
  <1>10. CASE NilTracker(c) BY <1>1, <1>10 DEF NilTracker
  <1>11. CASE PollFinds(c) BY <1>1, <1>11 DEF PollFinds
  <1>12. CASE PollTimeout(c) BY <1>1, <1>12 DEF PollTimeout
  <1>13. CASE SendFakes(c) BY <1>1, <1>13 DEF SendFakes
  <1>14. CASE WriteHello(c) BY <1>1, <1>14 DEF WriteHello
  <1>15. CASE WriteHelloFails(c) BY <1>1, <1>15 DEF WriteHelloFails
  <1>16. CASE Close(c) BY <1>1, <1>16 DEF Close
  <1>17. ASSUME NEW d \in Dirs, SetReadDeadline(c, d) PROVE dpc'[b][e] # "set" BY <1>1, <1>17 DEF SetReadDeadline
  <1>18. ASSUME NEW d \in Dirs, ReadChunk(c, d) PROVE dpc'[b][e] # "set" BY <1>1, <1>18 DEF ReadChunk
  <1>19. ASSUME NEW d \in Dirs, ReadFails(c, d) PROVE dpc'[b][e] # "set" BY <1>1, <1>19 DEF ReadFails, Leave
  <1>20. ASSUME NEW d \in Dirs, WriteChunk(c, d) PROVE dpc'[b][e] # "set" BY <1>1, <1>20 DEF WriteChunk, Unwritable
  <1>21. ASSUME NEW d \in Dirs, WriteFails(c, d) PROVE dpc'[b][e] # "set" BY <1>1, <1>21 DEF WriteFails, Leave, Unwritable
  <1>22. ASSUME NEW d \in Dirs, SetAppPast(c, d) PROVE dpc'[b][e] # "set" BY <1>1, <1>22 DEF SetAppPast, SetPast
  <1>23. ASSUME NEW d \in Dirs, SetServerPast(c, d) PROVE dpc'[b][e] # "set" BY <1>1, <1>23 DEF SetServerPast, SetPast
  <1>24. ASSUME NEW s \in Sides, Send(c, s) PROVE dpc'[b][e] # "set" BY <1>24 DEF Send
  <1>25. ASSUME NEW s \in Sides, HangUp(c, s) PROVE dpc'[b][e] # "set" BY <1>25 DEF HangUp
  <1> HIDE DEF TypeOK, CallInv, NumbersInv, PastInv
  <1> QED
    BY <1>2, <1>3, <1>4, <1>5, <1>6, <1>7, <1>8, <1>9, <1>10, <1>11, <1>12, <1>13, <1>14, <1>15, <1>16, <1>17, <1>18, <1>19, <1>20, <1>21, <1>22, <1>23, <1>24, <1>25, SMTT(20)
       DEF ConnStep, HandlerStep, DirStep

-----------------------------------------------------------------------------
Manages == StartSteps \/ StopSteps \/ Cancel \/ Die \/ UNCHANGED managerVars

LEMMA NextManages == ASSUME Next PROVE Manages
  BY StepKinds DEF Manages, ManagerOnly, StopSteps, StopStack, NilTracker

\* Start and Stop never make the process die, nor take the tracker before its step.
LEMMA ManagerCall ==
    ASSUME StartSteps \/ StopSteps \/ Cancel, pc # "dead"
    PROVE  /\ pc' # "dead" /\ diedAt' = diedAt
           /\ (tracker \/ pc \in {"restore", "unlisten", "stopped"}) /\ ~tracker'
                => pc' \in {"restore", "unlisten", "stopped"}
  <1>1. CASE StartSteps
    BY <1>1 DEF StartSteps, StartPlain, Listen, Redirect, OpenRaw, StartSeqTracker,
       CreateMonitors, StartNetworkMonitor, StartInterfaceMonitor, OpenDevice, NewStack,
       StartDevice, StartStack, UndoRestore, UndoListen, Fail, StartUnchanged
  <1>2. CASE StopSteps
    BY <1>2 DEF StopSteps, CloseStack, CloseDevice, CloseRaw, CloseMonitors, Untrack,
       Restore, Unlisten, Closes
  <1>3. CASE Cancel
    BY <1>3 DEF Cancel
  <1> QED
    BY <1>1, <1>2, <1>3

\* The process does nothing after its death.
LEMMA DeadStops == ASSUME StartSteps \/ StopSteps \/ Cancel PROVE pc # "dead"
  BY DEF StartSteps, StartPlain, Listen, Redirect, OpenRaw, StartSeqTracker,
     CreateMonitors, StartNetworkMonitor, StartInterfaceMonitor, OpenDevice, NewStack,
     StartDevice, StartStack, UndoRestore, UndoListen, StopSteps, CloseStack, CloseDevice,
     CloseRaw, CloseMonitors, Untrack, Restore, Unlisten, Closes, Cancel

LEMMA ManagerCases ==
    ASSUME ManagerOnly \/ StopStack
    PROVE  /\ StartSteps \/ StopSteps \/ Cancel
           /\ UNCHANGED <<kind, hpc, entries, synAcks, numbers, dpc, writePast>>
  BY DEF ManagerOnly, StopStack, StopSteps, connVars, trackVars, pipeVars

(***************************************************************************)
(* Types: of the handles, the tracker's entries, the handlers and pipes.   *)
(***************************************************************************)
THEOREM TypeCorrect == Spec => []TypeOK
  <1>1. ASSUME TypeOK, [Next]_vars PROVE TypeOK'
    <2>1. CASE UNCHANGED vars
      BY <1>1, <2>1 DEF TypeOK, ManagerTypeOK, vars, managerVars, connVars
    <2>2. CASE Next
      <3>1. ManagerTypeOK'
        BY <1>1, <2>2, NextManages, ManagerType DEF TypeOK, Manages
      <3>2. CASE ManagerOnly
        BY <1>1, <3>1, <3>2 DEF TypeOK, ManagerOnly, connVars
      <3>3. CASE StopStack
        BY <1>1, <3>1, <3>3 DEF TypeOK, StopStack, trackVars, pipeVars, Sides
      <3> QED
        BY <1>1, <2>2, <3>1, <3>2, <3>3, NextCases, ConnType
    <2> QED
      BY <1>1, <2>1, <2>2
  <1> QED
    BY <1>1, TypeInit, PTL DEF Spec

(***************************************************************************)
(* For every failure of Start and every Stop: no device, route, socket or  *)
(* redirection stays behind (HostReleased).                                *)
(***************************************************************************)
THEOREM HostReleasedAlways == Spec => []HostReleased
  <1>1. Init => HandleInv /\ DnsInv
    BY DEF Init, ManagerInit, HandleInv, DnsInv, FailPcs, ServedPcs, RoutedPcs, UndoPcs
  <1>2. ASSUME TypeOK, HandleInv, DnsInv, [Next]_vars PROVE HandleInv' /\ DnsInv'
    <2>1. Manages
      BY <1>2, NextManages DEF vars, Manages
    <2> QED
      BY <1>2, <2>1, ManagerInv DEF TypeOK, Manages
  <1>3. TypeOK /\ HandleInv /\ DnsInv => HostReleased
    BY DEF TypeOK, ManagerTypeOK, HandleInv, DnsInv, HostReleased, Handles, FailPcs, ServedPcs,
       RoutedPcs, UndoPcs, StartPcs
  <1> QED
    BY <1>1, <1>2, <1>3, TypeCorrect, PTL DEF Spec

(***************************************************************************)
(* For any number of handlers: the nil tracker is met only in Stop.        *)
(***************************************************************************)
THEOREM NilOnlyInStopAlways == Spec => []NilOnlyInStop
  <1>1. Init => CallInv /\ NilOnlyInStop
    BY DEF Init, ManagerInit, CallInv, NilOnlyInStop
  <1>2. ASSUME TypeOK, CallInv, NilOnlyInStop, [Next]_vars PROVE CallInv' /\ NilOnlyInStop'
    <2>1. CASE UNCHANGED vars
      BY <1>2, <2>1 DEF CallInv, NilOnlyInStop, vars, managerVars, connVars
    <2>2. CASE ManagerOnly \/ StopStack
      <3>1. StartSteps \/ StopSteps \/ Cancel
        BY <2>2, ManagerCases
      <3>2. hpc' = hpc
        BY <2>2, ManagerCases
      <3> QED
        BY <1>2, <3>1, <3>2, ManagerCall, DeadStops DEF CallInv, NilOnlyInStop
    <2>3. ASSUME NEW c \in Conns, ConnStep(c), Next PROVE CallInv' /\ NilOnlyInStop'
      <3>1. CallInv'
        BY <1>2, <2>3, ConnCall
      <3>2. CASE \E e \in Conns : NilTracker(e)
        BY <1>2, <3>2 DEF NilTracker, CallInv, NilOnlyInStop, Die
      <3>3. CASE UNCHANGED managerVars
        BY <1>2, <3>1, <3>3 DEF NilOnlyInStop, managerVars
      <3> QED
        BY <2>2, <2>3, <3>1, <3>2, <3>3, StepKinds
    <2> QED
      BY <1>2, <2>1, <2>2, <2>3, NextCases
  <1> QED
    BY <1>1, <1>2, TypeCorrect, PTL DEF Spec

(***************************************************************************)
(* For any connections, any reuse of ports and any number of SYN-ACKs: one *)
(* SYN-ACK gives its numbers to one connection, which has their port and   *)
(* is their own or finds it closed (seqtracker_darwin.go:36).              *)
(***************************************************************************)
THEOREM SynAckUsedOnceAlways == Spec => []SynAckUsedOnce
  <1>1. Init => NumbersInv /\ SupplyInv
    <2> SUFFICES ASSUME Init PROVE NumbersInv /\ SupplyInv
      OBVIOUS
    <2>1. NumbersInv
      BY HandlerAssumption DEF Init, NumbersInv, Dialled
    <2>2. ASSUME NEW e \in Conns PROVE Cardinality(Users(e)) + Waiting(e) <= synAcks[e]
      <3>1. Users(e) = {}
        BY <2>2, HandlerAssumption DEF Init, Users
      <3>2. Waiting(e) = 0 /\ synAcks[e] = 0
        BY <2>2, HandlerAssumption DEF Init, Waiting
      <3> QED
        BY <3>1, <3>2, FS_EmptySet
    <2> QED
      BY <2>1, <2>2 DEF SupplyInv
  <1>2. ASSUME TypeOK, NumbersInv, SupplyInv, [Next]_vars PROVE NumbersInv' /\ SupplyInv'
    <2>1. CASE UNCHANGED vars \/ ManagerOnly \/ StopStack
      <3>1. UNCHANGED <<hpc, entries, synAcks, numbers>>
        BY <2>1, ManagerCases DEF vars, connVars
      <3>2. NumbersInv'
        BY <1>2, <3>1 DEF NumbersInv, Dialled
      <3> QED
        BY <1>2, <3>1, <3>2 DEF SupplyInv, Users, Waiting
    <2> QED
      BY <1>2, <2>1, NextCases, ConnNumbers, ConnSupply
  <1>3. ASSUME TypeOK, NumbersInv, SupplyInv PROVE SynAckUsedOnce
    <2> SUFFICES ASSUME NEW e \in Conns
                 PROVE  /\ Cardinality(Users(e)) <= synAcks[e]
                        /\ \A c \in Users(e) : PortOf[e] = PortOf[c] /\ (c # e => ~Dialled(e))
      BY DEF SynAckUsedOnce
    <2>1. Cardinality(Users(e)) + Waiting(e) <= synAcks[e] /\ Waiting(e) \in {0, 1}
      BY <1>3 DEF SupplyInv, Waiting
    <2>2. Cardinality(Users(e)) \in Nat /\ synAcks[e] \in Nat
      BY <1>3, UsersFinite DEF TypeOK
    <2>3. \A c \in Users(e) : PortOf[e] = PortOf[c] /\ (c # e => ~Dialled(e))
      BY <1>3 DEF NumbersInv, Users, Dialled
    <2> QED
      BY <2>1, <2>2, <2>3
  <1> QED
    BY <1>1, <1>2, <1>3, TypeCorrect, PTL DEF Spec

(***************************************************************************)
(* A direction of a pipe forwards nothing once the other one has ended.    *)
(***************************************************************************)
THEOREM CutOffAlways == Spec => CutOff
  <1>1. Init => PastInv
    BY DEF Init, PastInv
  <1>2. ASSUME TypeOK, PastInv, [Next]_vars PROVE PastInv'
    <2>1. CASE UNCHANGED vars \/ ManagerOnly \/ StopStack
      <3>1. UNCHANGED <<kind, hpc, dpc, writePast>>
        BY <2>1, ManagerCases DEF vars, connVars
      <3> QED
        BY <1>2, <3>1 DEF PastInv
    <2> QED
      BY <1>2, <2>1, NextCases, ConnPast
  <1>3. ASSUME TypeOK, PastInv, [Next]_vars,
               NEW b \in Conns, NEW e \in Dirs, kind[b] # "udp", Ended(b), dpc[b][e] = "write"
        PROVE  dpc'[b][e] # "set"
    <2>1. CASE UNCHANGED vars \/ ManagerOnly \/ StopStack
      <3>1. UNCHANGED dpc
        BY <2>1, ManagerCases DEF vars, connVars
      <3> QED
        BY <1>3, <3>1
    <2> QED
      BY <1>3, <2>1, NextCases, ConnCutOff
  <1>4. TypeOK /\ PastInv /\ [Next]_vars =>
            [\A c \in Conns, d \in Dirs :
                kind[c] # "udp" /\ Ended(c) /\ dpc[c][d] = "write" => dpc'[c][d] # "set"]_vars
    BY <1>3
  <1> QED
    BY <1>1, <1>2, <1>4, TypeCorrect, PTL DEF Spec, CutOff
=============================================================================
