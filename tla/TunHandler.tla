------------------------------- MODULE TunHandler -------------------------------
(***************************************************************************)
(* Connections of the TUN engine: the handler (pkg/tun/handler.go) that    *)
(* dials the server, sends fakes ahead of a ClientHello and pipes the two  *)
(* connections together, and the sequence tracker with its capture         *)
(* (pkg/seqtrack, pkg/capture) it gets TCP numbers from.  Each connection  *)
(* has a goroutine, its pipe one per direction; they meet Start and Stop   *)
(* of TunManager in the handles and in the global tracker.                 *)
(*                                                                         *)
(* A deadline is ahead or past, and may pass whenever a Read has nothing   *)
(* to return; how long that takes is left out.                             *)
(***************************************************************************)
EXTENDS TunManager, Naturals

CONSTANTS
    Conns,
    Ports,
    PortOf,         \* [Conns -> Ports]: local port of the connection to the server
    Capturable,     \* connections whose SYN-ACK passes the filter of the capture
    KindsOf,        \* [Conns -> SUBSET Kinds]: what a connection may be
    MaxSynAcks,     \* bound: SYN-ACKs of a connection that the capture sees
    None

\* target: TCP to a port of targetPorts.  other: TCP to another port.  udp: packets
Kinds == {"target", "other", "udp"}

ASSUME HandlerAssumption ==
    /\ IsFiniteSet(Conns)
    /\ PortOf \in [Conns -> Ports]
    /\ Capturable \subseteq Conns
    /\ KindsOf \in [Conns -> SUBSET Kinds]
    /\ MaxSynAcks \in Nat
    /\ None \notin Conns

Sides == {"app", "server"}
Dirs == {"up", "down"}
Src(d) == IF d = "up" THEN "app" ELSE "server"
Dst(d) == IF d = "up" THEN "server" ELSE "app"

VARIABLES
    kind,       \* per connection
    hpc,        \* per connection: the step of its handler
    entries,    \* st.conns: per local port the connection of the entry, or None
    synAcks,    \* per connection: how many of its SYN-ACKs the capture has processed
    numbers,    \* per connection: whose numbers GetSeqAck gave it, None: placeholders
    dpc,        \* per connection and direction of its pipe: the step
    readPast,   \* per connection: sides whose read deadline is set to a past time
    writePast,  \* per connection: sides whose write deadline is
    avail       \* per connection and side: what a Read of it finds

connVars == <<kind, hpc, entries, synAcks, numbers, dpc, readPast, writePast, avail>>
vars == <<managerVars, connVars>>
pipeVars == <<dpc, readPast, writePast>>
trackVars == <<entries, synAcks, numbers>>

HandlerPcs == {"none", "dial", "hello", "check", "call", "poll", "fake", "write",
               "pipe", "closed"}
DirPcs == {"idle", "set", "read", "write", "pastApp", "pastServer", "done"}

TypeOK ==
    /\ ManagerTypeOK
    /\ kind \in [Conns -> Kinds]
    /\ hpc \in [Conns -> HandlerPcs]
    /\ entries \in [Ports -> Conns \cup {None}]
    /\ synAcks \in [Conns -> 0 .. MaxSynAcks]
    /\ numbers \in [Conns -> Conns \cup {None}]
    /\ dpc \in [Conns -> [Dirs -> DirPcs]]
    /\ \A c \in Conns : hpc[c] = "pipe" => \A d \in Dirs : dpc[c][d] # "idle"
    /\ readPast \in [Conns -> SUBSET Sides]
    /\ writePast \in [Conns -> SUBSET Sides]
    /\ avail \in [Conns -> [Sides -> {"quiet", "data", "end"}]]

Init ==
    /\ ManagerInit
    /\ kind \in {k \in [Conns -> Kinds] : \A c \in Conns : k[c] \in KindsOf[c]}
    /\ hpc = [c \in Conns |-> "none"]
    /\ entries = [p \in Ports |-> None]
    /\ synAcks = [c \in Conns |-> 0]
    /\ numbers = [c \in Conns |-> None]
    /\ dpc = [c \in Conns |-> [d \in Dirs |-> "idle"]]
    /\ readPast = [c \in Conns |-> {}]
    /\ writePast = [c \in Conns |-> {}]
    /\ avail = [c \in Conns |-> [s \in Sides |-> "quiet"]]

-----------------------------------------------------------------------------
Goto(c, l) == hpc' = [hpc EXCEPT ![c] = l]
GotoDir(c, d, l) == dpc' = [dpc EXCEPT ![c][d] = l]

Dialled(c) == hpc[c] \notin {"none", "dial", "closed"}

(* A program opens a connection, which the routes lead into the stack. *)
Arrive(c) ==
    /\ hpc[c] = "none"
    /\ "served" \in open
    /\ Goto(c, "dial")
    /\ UNCHANGED <<managerVars, kind, trackVars, pipeVars, avail>>

(***************************************************************************)
(* dialServer.  The kernel gives a local port to one connection at a time  *)
(* (here also to only one of TCP and UDP, which makes them take turns).    *)
(***************************************************************************)
Dial(c) ==
    /\ hpc[c] = "dial"
    /\ ~Cancelled
    /\ \A e \in Conns \ {c} : PortOf[e] = PortOf[c] => ~Dialled(e)
    /\ IF kind[c] = "target"
       THEN Goto(c, "hello") /\ UNCHANGED dpc
       ELSE Goto(c, "pipe") /\ dpc' = [dpc EXCEPT ![c] = [d \in Dirs |-> "set"]]
    /\ UNCHANGED <<managerVars, kind, trackVars, readPast, writePast, avail>>

DialFails(c) ==
    /\ hpc[c] = "dial"
    /\ Goto(c, "closed")
    /\ UNCHANGED <<managerVars, kind, trackVars, pipeVars, avail>>

(***************************************************************************)
(* The capture's goroutine: processPacket and the callback's Store, for    *)
(* each SYN-ACK of a connection, the first one and its retransmissions:    *)
(* at any time from the dial on, also when the dialer has given up, when   *)
(* the entry has been used and when the port belongs to somebody else.     *)
(***************************************************************************)
Captured(c) == c \in Capturable /\ kind[c] = "target" /\ hpc[c] \notin {"none", "dial"}

Capture(c) ==
    /\ Captured(c)
    /\ "capture" \in open
    /\ synAcks[c] < MaxSynAcks
    /\ synAcks' = [synAcks EXCEPT ![c] = @ + 1]
    /\ entries' = [entries EXCEPT ![PortOf[c]] = c]
    /\ UNCHANGED <<managerVars, kind, hpc, numbers, pipeVars, avail>>

-----------------------------------------------------------------------------
(***************************************************************************)
(* injectAndForward.  The first Read ends by data, end of stream, or after *)
(* 5 seconds.                                                              *)
(***************************************************************************)
ReadHello(c) ==
    /\ hpc[c] = "hello"
    /\ avail[c]["app"] = "data"
    /\ avail' = [avail EXCEPT ![c]["app"] = "quiet"]
    /\ Goto(c, "check")
    /\ UNCHANGED <<managerVars, kind, trackVars, pipeVars>>

NoHello(c) ==
    /\ hpc[c] = "hello"
    /\ avail[c]["app"] # "data"
    /\ Goto(c, "closed")
    /\ UNCHANGED <<managerVars, kind, trackVars, pipeVars, avail>>

CheckNothing(c) ==          \* mutant: a nil tracker is not noticed
    /\ hpc[c] = "check"
    /\ Goto(c, "call")
    /\ UNCHANGED <<managerVars, kind, trackVars, pipeVars, avail>>

(* GetSeqAck looks at globalSeqTracker, and reads it again for the call. *)
CheckTracker(c) ==
    /\ hpc[c] = "check"
    /\ Goto(c, IF tracker THEN "call" ELSE "fake")
    /\ UNCHANGED <<managerVars, kind, trackVars, pipeVars, avail>>

CallTracker(c) ==
    /\ hpc[c] = "call"
    /\ tracker
    /\ Goto(c, "poll")
    /\ UNCHANGED <<managerVars, kind, trackVars, pipeVars, avail>>

(* All goroutines die with the process. *)
NilTracker(c) ==
    /\ hpc[c] = "call"
    /\ ~tracker
    /\ Die
    /\ hpc' = [e \in Conns |-> IF hpc[e] = "none" THEN "none" ELSE "closed"]
    /\ dpc' = [e \in Conns |-> [d \in Dirs |->
                    IF dpc[e][d] = "idle" THEN "idle" ELSE "done"]]
    /\ UNCHANGED <<kind, trackVars, readPast, writePast, avail>>

PollKeeps(c) ==             \* mutant: Load in place of LoadAndDelete
    /\ hpc[c] = "poll"
    /\ entries[PortOf[c]] # None
    /\ numbers' = [numbers EXCEPT ![c] = entries[PortOf[c]]]
    /\ Goto(c, "fake")
    /\ UNCHANGED <<managerVars, kind, entries, synAcks, pipeVars, avail>>

(* WaitForSeqAck finds an entry for the local port, or none in 500 ms. *)
PollFinds(c) ==
    /\ hpc[c] = "poll"
    /\ entries[PortOf[c]] # None
    /\ numbers' = [numbers EXCEPT ![c] = entries[PortOf[c]]]
    /\ entries' = [entries EXCEPT ![PortOf[c]] = None]
    /\ Goto(c, "fake")
    /\ UNCHANGED <<managerVars, kind, synAcks, pipeVars, avail>>

PollTimeout(c) ==
    /\ hpc[c] = "poll"
    /\ entries[PortOf[c]] = None
    /\ Goto(c, "fake")
    /\ UNCHANGED <<managerVars, kind, trackVars, pipeVars, avail>>

(* Up to three fakes, until one fails, which ends nothing else. *)
SendFakes(c) ==
    /\ hpc[c] = "fake"
    /\ Goto(c, "write")
    /\ UNCHANGED <<managerVars, kind, trackVars, pipeVars, avail>>

WriteHello(c) ==
    /\ hpc[c] = "write"
    /\ Goto(c, "pipe")
    /\ dpc' = [dpc EXCEPT ![c] = [d \in Dirs |-> "set"]]
    /\ UNCHANGED <<managerVars, kind, trackVars, readPast, writePast, avail>>

WriteHelloFails(c) ==
    /\ hpc[c] = "write"
    /\ avail[c]["server"] = "end"
    /\ Goto(c, "closed")
    /\ UNCHANGED <<managerVars, kind, trackVars, pipeVars, avail>>

-----------------------------------------------------------------------------
(***************************************************************************)
(* pipe, one goroutine per direction; the loops of NewPacketConnectionEx   *)
(* are the same without the deadlines at their end.                        *)
(***************************************************************************)
SetReadDeadline(c, d) ==
    /\ dpc[c][d] = "set"
    /\ readPast' = [readPast EXCEPT ![c] = @ \ {Src(d)}]
    /\ GotoDir(c, d, "read")
    /\ UNCHANGED <<managerVars, kind, hpc, trackVars, writePast, avail>>

ReadChunk(c, d) ==
    /\ dpc[c][d] = "read"
    /\ Src(d) \notin readPast[c]
    /\ avail[c][Src(d)] = "data"
    /\ avail' = [avail EXCEPT ![c][Src(d)] = "quiet"]
    /\ GotoDir(c, d, "write")
    /\ UNCHANGED <<managerVars, kind, hpc, trackVars, readPast, writePast>>

Leave(c, d) == GotoDir(c, d, IF kind[c] = "udp" THEN "done" ELSE "pastApp")

ReadUnlimited(c, d) ==      \* mutant: reads have no deadline of their own
    /\ dpc[c][d] = "read"
    /\ Src(d) \in readPast[c] \/ avail[c][Src(d)] = "end"
    /\ Leave(c, d)
    /\ UNCHANGED <<managerVars, kind, hpc, trackVars, readPast, writePast, avail>>

ReadFails(c, d) ==
    /\ dpc[c][d] = "read"
    /\ Src(d) \in readPast[c] \/ avail[c][Src(d)] # "data"
    /\ Leave(c, d)
    /\ UNCHANGED <<managerVars, kind, hpc, trackVars, readPast, writePast, avail>>

(* The app's connections are gone when the stack has been closed. *)
Unwritable(c, d) ==
    \/ Dst(d) \in writePast[c]
    \/ Dst(d) = "app" /\ "served" \notin open

WriteChunk(c, d) ==
    /\ dpc[c][d] = "write"
    /\ ~Unwritable(c, d)
    /\ GotoDir(c, d, "set")
    /\ UNCHANGED <<managerVars, kind, hpc, trackVars, readPast, writePast, avail>>

WriteFails(c, d) ==
    /\ dpc[c][d] = "write"
    /\ Unwritable(c, d) \/ avail[c][Dst(d)] = "end"
    /\ Leave(c, d)
    /\ UNCHANGED <<managerVars, kind, hpc, trackVars, readPast, writePast, avail>>

PastReadsOnly(c, d, from, side, to) ==      \* mutant: SetReadDeadline in place of SetDeadline
    /\ dpc[c][d] = from
    /\ readPast' = [readPast EXCEPT ![c] = @ \cup {side}]
    /\ GotoDir(c, d, to)
    /\ UNCHANGED <<managerVars, kind, hpc, trackVars, writePast, avail>>

SetPast(c, d, from, side, to) ==
    /\ dpc[c][d] = from
    /\ readPast' = [readPast EXCEPT ![c] = @ \cup {side}]
    /\ writePast' = [writePast EXCEPT ![c] = @ \cup {side}]
    /\ GotoDir(c, d, to)
    /\ UNCHANGED <<managerVars, kind, hpc, trackVars, avail>>

SetAppPast(c, d) == SetPast(c, d, "pastApp", "app", "pastServer")
SetServerPast(c, d) == SetPast(c, d, "pastServer", "server", "done")

Ended(c) == \E d \in Dirs : dpc[c][d] = "done"

(* wg.Wait or <-done, then the deferred Close of both connections. *)
Close(c) ==
    /\ hpc[c] = "pipe"
    /\ \A d \in Dirs : dpc[c][d] = "done"
    /\ Goto(c, "closed")
    /\ readPast' = [readPast EXCEPT ![c] = {}]
    /\ writePast' = [writePast EXCEPT ![c] = {}]
    /\ avail' = [avail EXCEPT ![c] = [s \in Sides |-> "end"]]
    /\ UNCHANGED <<managerVars, kind, trackVars, dpc>>

-----------------------------------------------------------------------------
(***************************************************************************)
(* The two ends.  Closing the stack ends the app's side of every           *)
(* connection.                                                             *)
(***************************************************************************)
Send(c, s) ==
    /\ Dialled(c)
    /\ avail[c][s] = "quiet"
    /\ avail' = [avail EXCEPT ![c][s] = "data"]
    /\ UNCHANGED <<managerVars, kind, hpc, trackVars, pipeVars>>

HangUp(c, s) ==
    /\ Dialled(c)
    /\ avail[c][s] = "quiet"
    /\ avail' = [avail EXCEPT ![c][s] = "end"]
    /\ UNCHANGED <<managerVars, kind, hpc, trackVars, pipeVars>>

StopStack ==
    /\ CloseStack
    /\ avail' = [c \in Conns |-> [avail[c] EXCEPT !["app"] = "end"]]
    /\ UNCHANGED <<kind, hpc, trackVars, pipeVars>>

ManagerStep ==
    \/ StopStack
    \/ /\ StartSteps \/ CloseDevice \/ CloseRaw \/ CloseMonitors \/ Untrack
          \/ Restore \/ Unlisten
       /\ UNCHANGED connVars

DirStep(c, d) ==
    \/ SetReadDeadline(c, d) \/ ReadChunk(c, d) \/ ReadFails(c, d)
    \/ WriteFails(c, d) \/ SetAppPast(c, d) \/ SetServerPast(c, d)

HandlerStep(c) ==
    \/ DialFails(c) \/ NoHello(c) \/ ReadHello(c) \/ CheckTracker(c) \/ CallTracker(c)
    \/ NilTracker(c) \/ PollFinds(c) \/ PollTimeout(c) \/ SendFakes(c) \/ WriteHello(c)
    \/ Close(c)

Next ==
    \/ ManagerStep
    \/ Cancel /\ UNCHANGED connVars
    \/ \E c \in Conns :
        \/ Arrive(c) \/ Dial(c) \/ Capture(c) \/ WriteHelloFails(c)
        \/ HandlerStep(c)
        \/ \E d \in Dirs : DirStep(c, d) \/ WriteChunk(c, d)
        \/ \E s \in Sides : Send(c, s) \/ HangUp(c, s)

Spec == Init /\ [][Next]_vars

(***************************************************************************)
(* Each goroutine goes on when it can, deadlines pass, and a write that    *)
(* cannot succeed fails.  Nobody has to read what is written to him: a     *)
(* WriteChunk may never happen.                                            *)
(***************************************************************************)
FairSpec ==
    /\ Spec
    /\ \A c \in Conns : WF_vars(HandlerStep(c))
    /\ \A c \in Conns, d \in Dirs : WF_vars(DirStep(c, d))

-----------------------------------------------------------------------------
(***************************************************************************)
(* The numbers of one SYN-ACK are given to one connection, which has their *)
(* local port: seqtracker_darwin.go:36 removes what it returns.  They may  *)
(* be those of an earlier connection on the port, whose SYN-ACK came late  *)
(* or once more, but never of one that is still open.                      *)
(***************************************************************************)
Users(e) == {c \in Conns : numbers[c] = e}

SynAckUsedOnce ==
    \A e \in Conns :
        /\ Cardinality(Users(e)) <= synAcks[e]
        /\ \A c \in Users(e) : PortOf[e] = PortOf[c] /\ (c # e => ~Dialled(e))

(***************************************************************************)
(* capture_darwin.go:17: "dedup by src port (one fake per connection)".    *)
(* However often a SYN-ACK is captured, the numbers of a connection are    *)
(* handed out once.                                                        *)
(***************************************************************************)
OneFakePerConnection == \A e \in Conns : Cardinality(Users(e)) <= 1

(***************************************************************************)
(* globalSeqTracker is used without a lock.  A handler finds it nil after  *)
(* its check, and the process dies of it, only while Stop takes it away:   *)
(* but then with the host's DNS still redirected (manager.go:155 comes     *)
(* before run_tun.go:80).                                                  *)
(***************************************************************************)
NilOnlyInStop == pc = "dead" => diedAt \in {"restore", "unlisten", "stopped"}

(***************************************************************************)
(* Once one direction of a pipe has ended the other forwards nothing more, *)
(* although it may renew the read deadline that was to end it              *)
(* (handler.go:193): its writes have a deadline too, which nobody renews.  *)
(***************************************************************************)
CutOff ==
    [][\A c \in Conns, d \in Dirs :
        kind[c] # "udp" /\ Ended(c) /\ dpc[c][d] = "write" => dpc'[c][d] # "set"]_vars

(***************************************************************************)
(* When one direction of a TCP pipe has ended, the other one ends and both *)
(* connections are closed, whatever the peers send, and even if one of     *)
(* them has stopped reading (handler.go:189).                              *)
(***************************************************************************)
EndsTogether ==
    \A c \in Conns : kind[c] # "udp" /\ Ended(c) ~> hpc[c] = "closed"
=============================================================================
