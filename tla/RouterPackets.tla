------------------------------ MODULE RouterPackets ------------------------------
(***************************************************************************)
(* Router mode's packet path: the nftables queue rule (nftables.go), the   *)
(* callback of the NFQUEUE worker (runner_linux.go), the Processor and its *)
(* flow table (processor.go).  A connection's first data packet is held in *)
(* the kernel's queue, the worker may send a fake ahead of it, and accepts *)
(* it.  Start and Stop appear as the handles they open and close; the      *)
(* engine around them is RouterEngine.                                     *)
(*                                                                         *)
(* Time is kept as ages: those of flow table entries, up to TTL + 1.       *)
(***************************************************************************)
EXTENDS Naturals, Sequences, FiniteSets

CONSTANTS
    Conns,
    Keys,
    KeyOf,      \* [Conns -> Keys], FlowKey: a port may be reused later
    Class,      \* [Conns -> Classes]: the connection's first data packet
    MaxFlows,   \* cfg.MaxFlows: entries of the flow table, length of the queue
    TTL,        \* defaultFlowTTL in ticks
    CtWindow,   \* data packets of a connection that the rule still queues
    MaxCopies,  \* bound, [Conns -> Nat]: transmissions of a connection's first data packet
    MaxRuns,    \* bound: starts of the router process
    None

(***************************************************************************)
(* hello: a whole ClientHello in an IPv4 TCP packet to a target port.      *)
(* other: anything ProcessPacket passes by, such as IPv6, UDP, a           *)
(* ClientHello spread over several segments.  garbled: ParsePacket fails.  *)
(***************************************************************************)
Classes == {"hello", "other", "garbled"}

Ages == 0 .. TTL + 1
Packets == [conn : Conns, fake : BOOLEAN]

ASSUME PacketAssumption ==
    /\ IsFiniteSet(Keys)
    /\ KeyOf \in [Conns -> Keys]
    /\ Class \in [Conns -> Classes]
    /\ {MaxFlows, TTL, CtWindow, MaxRuns} \subseteq Nat \ {0}
    /\ MaxCopies \in [Conns -> Nat]
    /\ None \notin Packets \cup Ages

VARIABLES
    copies,     \* per connection: data packets that reached the hook
    current,    \* per key: the connection that uses it now
    waiting,    \* the kernel's queue: packets not yet read by the worker
    held,       \* packets read by the worker that have no verdict yet
    stuck,      \* how many packets the kernel keeps because their verdict failed
    pc,         \* of Start and Stop
    rawSock,    \* r.rawSock is open
    queue,      \* r.queue is open and its callbacks registered
    hpc,        \* of handlePacket
    cur,        \* the packet handlePacket works on
    sent,       \* its SendFake has succeeded
    table,      \* flowTable.entries: the age of a key's entry, None if absent
    runs,
    lastMark,   \* history: age of this process' last decision to inject for the key
    fakeOut,    \* history: connections whose fake has left by the WAN
    out,        \* history: how the packets of a connection have left
    panicked    \* history: the process has died of a nil handle

vars == <<copies, current, waiting, held, stuck, pc, rawSock, queue, hpc, cur, sent, table,
          runs, lastMark, fakeOut, out, panicked>>
handleVars == <<pc, rawSock, queue, runs, panicked>>
clientVars == <<copies, current>>

\* decoyed: accepted after its fake.  plain: accepted without one.  unseen: the worker never had it
Ways == {"decoyed", "plain", "unseen"}

TypeOK ==
    /\ copies \in [Conns -> Nat]
    /\ \A c \in Conns : copies[c] <= MaxCopies[c]
    /\ current \in [Keys -> Conns \cup {None}]
    /\ waiting \in Seq(Packets)
    /\ Len(waiting) <= MaxFlows
    /\ held \subseteq Packets /\ IsFiniteSet(held)
    /\ stuck \in Nat
    /\ pc \in {"down", "open", "running", "closeRaw", "stopped"}
    /\ rawSock \in BOOLEAN
    /\ queue \in BOOLEAN
    /\ hpc \in {"idle", "process", "inject", "accept"}
    /\ cur \in Packets \cup {None}
    /\ sent \in BOOLEAN
    /\ table \in [Keys -> Ages \cup {None}]
    /\ runs \in 0 .. MaxRuns
    /\ lastMark \in [Keys -> Ages]
    /\ fakeOut \subseteq Conns
    /\ out \in [Conns -> SUBSET Ways]
    /\ panicked \in BOOLEAN

Init ==
    /\ copies = [c \in Conns |-> 0]
    /\ current = [k \in Keys |-> None]
    /\ waiting = <<>>
    /\ held = {}
    /\ stuck = 0
    /\ pc = "down"
    /\ rawSock = FALSE
    /\ queue = FALSE
    /\ hpc = "idle"
    /\ cur = None
    /\ sent = FALSE
    /\ table = [k \in Keys |-> None]
    /\ runs = 0
    /\ lastMark = [k \in Keys |-> TTL + 1]
    /\ fakeOut = {}
    /\ out = [c \in Conns |-> {}]
    /\ panicked = FALSE

-----------------------------------------------------------------------------
(***************************************************************************)
(* The postrouting hook.  The rule queues unmarked packets to the target   *)
(* ports among the first of a connection; bypass lets them pass when       *)
(* nobody listens, NfQaCfgFlagFailOpen when the queue is full.             *)
(***************************************************************************)
Passes(packet, way) ==
    IF packet.fake
    THEN fakeOut' = fakeOut \cup {packet.conn} /\ UNCHANGED out
    ELSE out' = [out EXCEPT ![packet.conn] = @ \cup {way}] /\ UNCHANGED fakeOut

QueueFull == Len(waiting) + Cardinality(held) + stuck >= MaxFlows

Postrouting(packet, marked, number) ==
    IF ~marked /\ number <= CtWindow /\ queue /\ ~QueueFull
    THEN waiting' = Append(waiting, packet) /\ UNCHANGED <<out, fakeOut>>
    ELSE Passes(packet, "unseen") /\ UNCHANGED waiting

\* A packet of c is queued, and the worker has not asked for its verdict yet
Waits(c) == \E p \in held \cup {waiting[i] : i \in DOMAIN waiting} : p.conn = c

\* A connection transmits its first data packet, again if need be; a key is
\* taken over only after the connection that used it has nothing under way
Transmit(c) ==
    LET k == KeyOf[c] IN
    /\ copies[c] < MaxCopies[c]
    /\ \/ current[k] = c
       \/ copies[c] = 0 /\ (current[k] # None => ~Waits(current[k]))
    /\ copies' = [copies EXCEPT ![c] = @ + 1]
    /\ current' = [current EXCEPT ![k] = c]
    /\ Postrouting([conn |-> c, fake |-> FALSE], FALSE, copies'[c])
    /\ UNCHANGED <<handleVars, held, stuck, hpc, cur, sent, table, lastMark>>

\* time.Now advances
Older(age) == IF age > TTL THEN age ELSE age + 1
Tick ==
    /\ table' = [k \in Keys |-> IF table[k] = None THEN None ELSE Older(table[k])]
    /\ lastMark' = [k \in Keys |-> Older(lastMark[k])]
    /\ UNCHANGED <<handleVars, clientVars, waiting, held, stuck, hpc, cur, sent, fakeOut, out>>

-----------------------------------------------------------------------------
(***************************************************************************)
(* handlePacket.                                                           *)
(***************************************************************************)

\* The next packet reaches the callback
Read ==
    /\ hpc = "idle"
    /\ queue
    /\ waiting # <<>>
    /\ cur' = Head(waiting)
    /\ held' = held \cup {Head(waiting)}
    /\ waiting' = Tail(waiting)
    /\ hpc' = "process"
    /\ sent' = FALSE
    /\ UNCHANGED <<handleVars, clientVars, stuck, table, lastMark, fakeOut, out>>

\* A failure to parse is logged; the packet is accepted like any other
MayInject(packet) == packet.fake \/ Class[packet.conn] = "hello"

\* flowTable.MarkOnce: entries older than the TTL go first
Valid == {k \in Keys : table[k] # None /\ table[k] <= TTL}

MarkAgain(k) == Cardinality(Valid \ {k}) < MaxFlows                 \* mutant: no lookup
MarkOneMore(k) == k \notin Valid /\ Cardinality(Valid) <= MaxFlows  \* mutant: off by one
MayMark(k) == k \notin Valid /\ Cardinality(Valid) < MaxFlows

MarkOnce(k) ==
    LET purged == [j \in Keys |-> IF j \in Valid THEN table[j] ELSE None] IN
    IF MayMark(k)
    THEN /\ table' = [purged EXCEPT ![k] = 0]
         /\ lastMark' = [lastMark EXCEPT ![k] = 0]
         /\ hpc' = "inject"
    ELSE /\ table' = purged
         /\ hpc' = "accept"
         /\ UNCHANGED lastMark

PassBy == hpc' = "accept" /\ UNCHANGED <<table, lastMark>>

ProcessDropsErrors ==       \* mutant: no verdict for a packet that ParsePacket refuses
    /\ hpc = "process"
    /\ IF Class[cur.conn] = "garbled" THEN hpc' = "idle" /\ UNCHANGED <<table, lastMark>>
       ELSE IF MayInject(cur) THEN MarkOnce(KeyOf[cur.conn]) ELSE PassBy
    /\ UNCHANGED <<handleVars, clientVars, waiting, held, stuck, cur, sent, fakeOut, out>>

\* ProcessPacket
Process ==
    /\ hpc = "process"
    /\ IF MayInject(cur) THEN MarkOnce(KeyOf[cur.conn]) ELSE PassBy
    /\ UNCHANGED <<handleVars, clientVars, waiting, held, stuck, cur, sent, fakeOut, out>>

\* The kernel drops what waits when the queue is closed, by the process or by its end
Flush == waiting' = <<>> /\ held' = {} /\ stuck' = 0

Dies ==
    /\ pc' = "down"
    /\ rawSock' = FALSE
    /\ queue' = FALSE
    /\ hpc' = "idle"
    /\ cur' = None
    /\ sent' = FALSE
    /\ Flush
    /\ UNCHANGED <<clientVars, table, runs, lastMark, fakeOut, out>>

SendUnmarked ==             \* mutant: SetMark is not called
    /\ hpc = "inject"
    /\ rawSock
    /\ sent' = TRUE
    /\ Postrouting([conn |-> cur.conn, fake |-> TRUE], FALSE, copies[cur.conn])
    /\ hpc' = "accept"
    /\ UNCHANGED <<handleVars, clientVars, held, stuck, cur, table, lastMark>>

\* SendFake: the fake carries the mark and leaves at once
SendFake ==
    /\ hpc = "inject"
    /\ rawSock
    /\ sent' = TRUE
    /\ Postrouting([conn |-> cur.conn, fake |-> TRUE], TRUE, copies[cur.conn])
    /\ hpc' = "accept"
    /\ UNCHANGED <<handleVars, clientVars, held, stuck, cur, table, lastMark>>

\* sendto fails, or Stop has closed the socket: logged
SendFails ==
    /\ hpc = "inject"
    /\ hpc' = "accept"
    /\ UNCHANGED <<handleVars, clientVars, waiting, held, stuck, cur, sent, table, lastMark, fakeOut, out>>

\* accept: SetVerdict, without effect once the queue is closed
Accept ==
    /\ hpc = "accept"
    /\ hpc' = "idle"
    /\ cur' = None
    /\ sent' = FALSE
    /\ held' = held \ {cur}
    /\ IF queue THEN Passes(cur, IF sent THEN "decoyed" ELSE "plain") ELSE UNCHANGED <<out, fakeOut>>
    /\ UNCHANGED <<handleVars, clientVars, waiting, stuck, table, lastMark>>

\* accept: SetVerdict fails, which is logged; nothing gives the verdict again
AcceptFails ==
    /\ hpc = "accept"
    /\ queue
    /\ hpc' = "idle"
    /\ cur' = None
    /\ sent' = FALSE
    /\ held' = held \ {cur}
    /\ stuck' = stuck + 1
    /\ UNCHANGED <<handleVars, clientVars, waiting, table, lastMark, fakeOut, out>>

\* Stop has set r.rawSock or r.queue to nil under the callback's feet; whether
\* the callback reads the old value or nil is a data race
Panic ==
    /\ \/ hpc = "inject" /\ ~rawSock
       \/ hpc = "accept" /\ ~queue
    /\ panicked' = TRUE
    /\ Dies

-----------------------------------------------------------------------------
(***************************************************************************)
(* Start and Stop of the runner; a router run is one of each.              *)
(***************************************************************************)
OpenRawIgnored ==           \* mutant: the error of openRawSocket is not returned
    /\ pc = "down" /\ runs < MaxRuns
    /\ pc' = "open"
    /\ rawSock' \in BOOLEAN
    /\ runs' = runs + 1
    /\ panicked' = FALSE
    /\ table' = [k \in Keys |-> None]
    /\ lastMark' = [k \in Keys |-> TTL + 1]
    /\ UNCHANGED <<clientVars, waiting, held, stuck, queue, hpc, cur, sent, fakeOut, out>>

\* newNFQRunner makes an empty flow table; openRawSocket
OpenRaw ==
    /\ pc = "down" /\ runs < MaxRuns
    /\ pc' = "open"
    /\ rawSock' = TRUE
    /\ runs' = runs + 1
    /\ panicked' = FALSE
    /\ table' = [k \in Keys |-> None]
    /\ lastMark' = [k \in Keys |-> TTL + 1]
    /\ UNCHANGED <<clientVars, waiting, held, stuck, queue, hpc, cur, sent, fakeOut, out>>

\* nfqueue.Open and RegisterWithErrorFunc
OpenQueue ==
    /\ pc = "open"
    /\ pc' = "running"
    /\ queue' = TRUE
    /\ UNCHANGED <<clientVars, waiting, held, stuck, rawSock, hpc, cur, sent, table, runs, lastMark,
                   fakeOut, out, panicked>>

OpenQueueFails ==
    /\ pc = "open"
    /\ pc' = "down"
    /\ rawSock' = FALSE
    /\ UNCHANGED <<clientVars, waiting, held, stuck, queue, hpc, cur, sent, table, runs, lastMark,
                   fakeOut, out, panicked>>

\* Stop: queue.Close, which does not wait for a callback in progress
CloseQueue ==
    /\ pc = "running"
    /\ pc' = "closeRaw"
    /\ queue' = FALSE
    /\ Flush
    /\ UNCHANGED <<clientVars, rawSock, hpc, cur, sent, table, runs, lastMark, fakeOut, out, panicked>>

CloseRaw ==
    /\ pc = "closeRaw"
    /\ pc' = "stopped"
    /\ rawSock' = FALSE
    /\ UNCHANGED <<clientVars, waiting, held, stuck, queue, hpc, cur, sent, table, runs, lastMark,
                   fakeOut, out, panicked>>

\* The process ends, after Stop or at any moment
Exit == pc # "down" /\ Dies /\ UNCHANGED panicked

Handler == Read \/ Process \/ SendFake \/ SendFails \/ Accept \/ AcceptFails \/ Panic

Next ==
    \/ \E c \in Conns : Transmit(c)
    \/ Tick
    \/ Handler
    \/ OpenRaw \/ OpenQueue \/ OpenQueueFails \/ CloseQueue \/ CloseRaw \/ Exit

Spec == Init /\ [][Next]_vars

\* The library's goroutine runs on
FairSpec == Spec /\ WF_vars(Handler)

-----------------------------------------------------------------------------
(***************************************************************************)
(* Properties.                                                             *)
(***************************************************************************)

\* Within the TTL one process does not decide twice to inject for a flow,
\* whatever was retransmitted, purged or refused in between (MarkOnce).
OncePerWindow ==
    [][hpc = "process" /\ hpc' = "inject" => lastMark[KeyOf[cur.conn]] > TTL]_vars

\* The table's limit also limits the injections: within any TTL there are at
\* most MaxFlows of them (MarkOnce).
WindowCap == Cardinality({k \in Keys : lastMark[k] <= TTL}) <= MaxFlows

\* When a packet is accepted after its SendFake, the fake has left by the WAN
\* before it: the queue rule never holds a fake back (SetMark, BuildRuleSet).
FakeFirst == \A c \in Conns : "decoyed" \in out[c] => c \in fakeOut

\* A nil handle kills the process only while Stop is taking the handles away
\* from a callback in progress (handlePacket, Start, Stop).
PanicOnlyInStop == [][panicked' /\ ~panicked => pc \in {"closeRaw", "stopped"}]_vars

\* Every packet that is queued leaves the queue, or a verdict for it has been
\* refused by the kernel (Waits does not count the packets of stuck: these stay
\* until Stop).  Neither a parse error, nor a failed SendFake, nor the stuck
\* packets of others, which take up the queue, hold a connection back
\* (handlePacket, accept, NfQaCfgFlagFailOpen).
EveryVerdict == \A c \in Conns : Waits(c) ~> ~Waits(c)

=============================================================================
