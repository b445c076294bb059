------------------------- MODULE RouterPackets_proofs -------------------------
(***************************************************************************)
(* The safety of the packet path for any connections, keys, table size,    *)
(* TTL and number of runs.  Each invariant is inductive relative to those  *)
(* before it.                                                              *)
(***************************************************************************)
EXTENDS RouterPackets, FiniteSetTheorems, SequenceTheorems, TLAPS

\* A callback in progress has its packet.
CurInv == hpc # "idle" => cur \in Packets

\* Which handles each step of Start and Stop leaves, and that a callback
\* outlives its queue only into Stop.
HandleInv ==
    /\ pc = "down" => hpc = "idle" /\ ~rawSock /\ ~queue
    /\ pc = "open" => hpc = "idle" /\ rawSock /\ ~queue
    /\ pc = "running" => rawSock /\ queue
    /\ queue => pc = "running"

\* What the history knows to be marked is in the table, at the same age.
MarkInv == \A k \in Keys : lastMark[k] <= TTL => table[k] = lastMark[k]

CapInv == Cardinality(Valid) <= MaxFlows

\* A packet whose SendFake has succeeded follows its fake.
SentInv == sent => hpc = "accept" /\ cur \in Packets /\ cur.conn \in fakeOut

LEMMA SeqFacts ==
    ASSUME NEW s \in Seq(Packets), NEW p \in Packets
    PROVE  /\ Append(s, p) \in Seq(Packets) /\ Len(Append(s, p)) = Len(s) + 1
           /\ s # <<>> => /\ Head(s) \in Packets
                          /\ Tail(s) \in Seq(Packets)
                          /\ Len(Tail(s)) = Len(s) - 1
           /\ <<>> \in Seq(Packets) /\ Len(<<>>) = 0
           /\ Len(s) \in Nat
  OBVIOUS

LEMMA OlderType == ASSUME NEW a \in Ages PROVE Older(a) \in Ages
  BY PacketAssumption DEF Older, Ages

\* A packet that leaves is counted among the fakes or among the ways of its connection.
LEMMA PassesType ==
    ASSUME TypeOK, NEW p \in Packets, NEW way \in Ways, Passes(p, way)
    PROVE  /\ fakeOut' \subseteq Conns /\ out' \in [Conns -> SUBSET Ways]
           /\ fakeOut \subseteq fakeOut'
  <1>1. p.conn \in Conns /\ out \in [Conns -> SUBSET Ways] /\ fakeOut \subseteq Conns
    BY DEF Packets, TypeOK
  <1> HIDE DEF Ways
  <1>2. CASE p.fake
    BY <1>1, <1>2 DEF Passes
  <1>3. CASE ~p.fake
    <2>1. out[p.conn] \cup {way} \in SUBSET Ways
      BY <1>1
    <2>2. out' = [out EXCEPT ![p.conn] = out[p.conn] \cup {way}] /\ fakeOut' = fakeOut
      BY <1>3 DEF Passes
    <2> QED
      BY <1>1, <2>1, <2>2
  <1> QED
    BY <1>2, <1>3

\* A packet at the hook keeps the queue within its length.
LEMMA PostroutingType ==
    ASSUME TypeOK, NEW p \in Packets, NEW marked \in BOOLEAN, NEW n \in Nat,
           Postrouting(p, marked, n)
    PROVE  /\ waiting' \in Seq(Packets) /\ Len(waiting') <= MaxFlows
           /\ fakeOut' \subseteq Conns
           /\ out' \in [Conns -> SUBSET Ways]
           /\ fakeOut \subseteq fakeOut'
  <1>2. Cardinality(held) \in Nat
    BY FS_CardinalityType DEF TypeOK
  <1>3. Len(waiting) \in Nat /\ MaxFlows \in Nat /\ stuck \in Nat
    BY PacketAssumption DEF TypeOK
  <1>4. ASSUME Passes(p, "unseen")
        PROVE  fakeOut' \subseteq Conns /\ out' \in [Conns -> SUBSET Ways] /\ fakeOut \subseteq fakeOut'
    BY <1>4, PassesType DEF Ways
  <1>5. CASE ~marked /\ n <= CtWindow /\ queue /\ ~QueueFull
    <2>1. waiting' = Append(waiting, p) /\ UNCHANGED <<out, fakeOut>>
      BY <1>5 DEF Postrouting
    <2>2. Append(waiting, p) \in Seq(Packets) /\ Len(Append(waiting, p)) = Len(waiting) + 1
      BY SeqFacts DEF TypeOK
    <2> QED
      BY <1>2, <1>3, <1>5, <2>1, <2>2 DEF TypeOK, QueueFull
  <1>6. CASE ~(~marked /\ n <= CtWindow /\ queue /\ ~QueueFull)
    BY <1>4, <1>6 DEF Postrouting, TypeOK
  <1> QED
    BY <1>5, <1>6
-----------------------------------------------------------------------------

LEMMA TypeInit == Init => TypeOK /\ CurInv
  <1> SUFFICES ASSUME Init PROVE TypeOK /\ CurInv
    OBVIOUS
  <1>1. 0 \in 0 .. MaxRuns /\ TTL + 1 \in Ages /\ \A c \in Conns : 0 <= MaxCopies[c]
    BY PacketAssumption DEF Ages
  <1>2. <<>> \in Seq(Packets) /\ Len(<<>>) = 0 /\ 0 <= MaxFlows
    BY PacketAssumption
  <1>3. IsFiniteSet({})
    BY FS_EmptySet
  <1> QED
    BY <1>1, <1>2, <1>3 DEF Init, TypeOK, CurInv, Ways

LEMMA TransmitType ==
    ASSUME TypeOK, CurInv, NEW c \in Conns, Transmit(c)
    PROVE  TypeOK' /\ CurInv'
  <1> DEFINE packet == [conn |-> c, fake |-> FALSE]
  <1>0. packet \in Packets
    BY DEF Packets
  <1>1. copies'[c] \in Nat /\ copies' \in [Conns -> Nat]
    <2>1. copies' = [copies EXCEPT ![c] = @ + 1]
      BY DEF Transmit
    <2> QED
      BY <2>1 DEF TypeOK
  <1>2. \A d \in Conns : copies'[d] <= MaxCopies[d]
    <2> SUFFICES ASSUME NEW d \in Conns PROVE copies'[d] <= MaxCopies[d]
      OBVIOUS
    <2>1. copies' = [copies EXCEPT ![c] = @ + 1] /\ copies[c] < MaxCopies[c]
      BY DEF Transmit
    <2>2. copies \in [Conns -> Nat] /\ MaxCopies \in [Conns -> Nat] /\ copies[d] <= MaxCopies[d]
      BY PacketAssumption DEF TypeOK
    <2>3. CASE d = c
      BY <2>1, <2>2, <2>3
    <2>4. CASE d # c
      BY <2>1, <2>2, <2>4
    <2> QED
      BY <2>3, <2>4
  <1>3. /\ waiting' \in Seq(Packets) /\ Len(waiting') <= MaxFlows
        /\ fakeOut' \subseteq Conns
        /\ out' \in [Conns -> SUBSET Ways]
    <2>1. Postrouting(packet, FALSE, copies'[c])
      BY DEF Transmit
    <2> HIDE DEF packet
    <2> QED
      BY <1>0, <1>1, <2>1, PostroutingType
  <1>4. current' \in [Keys -> Conns \cup {None}]
    BY DEF Transmit, TypeOK
  <1>5. UNCHANGED <<pc, rawSock, queue, runs, panicked, held, stuck, hpc, cur, sent, table, lastMark>>
    BY DEF Transmit, handleVars
  <1> QED
    BY <1>1, <1>2, <1>3, <1>4, <1>5 DEF TypeOK, CurInv

LEMMA TickType == ASSUME TypeOK, CurInv, Tick PROVE TypeOK' /\ CurInv'
  <1>1. table' \in [Keys -> Ages \cup {None}]
    BY OlderType DEF Tick, TypeOK
  <1>2. lastMark' \in [Keys -> Ages]
    BY OlderType DEF Tick, TypeOK
  <1> QED
    BY <1>1, <1>2 DEF Tick, TypeOK, CurInv, handleVars, clientVars

LEMMA ReadType == ASSUME TypeOK, CurInv, Read PROVE TypeOK' /\ CurInv'
  <1>1. Head(waiting) \in Packets /\ Tail(waiting) \in Seq(Packets) /\ Len(Tail(waiting)) <= MaxFlows
    BY SeqFacts, PacketAssumption DEF Read, TypeOK
  <1>2. IsFiniteSet(held')
    BY FS_AddElement DEF Read, TypeOK
  <1>3. /\ waiting' \in Seq(Packets) /\ Len(waiting') <= MaxFlows
        /\ cur' \in Packets /\ hpc' = "process"
    BY <1>1 DEF Read
  <1>4. /\ held' \subseteq Packets /\ sent' = FALSE
        /\ UNCHANGED <<handleVars, clientVars, stuck, table, lastMark, fakeOut, out>>
    BY <1>1 DEF Read, TypeOK
  <1> QED
    BY <1>2, <1>3, <1>4 DEF TypeOK, CurInv, handleVars, clientVars

LEMMA ProcessType == ASSUME TypeOK, CurInv, Process PROVE TypeOK' /\ CurInv'
  <1>1. 0 \in Ages /\ KeyOf[cur.conn] \in Keys
    BY PacketAssumption DEF Ages, Process, CurInv, Packets
  <1>2. /\ table' \in [Keys -> Ages \cup {None}]
        /\ lastMark' \in [Keys -> Ages]
        /\ hpc' \in {"inject", "accept"}
    <2>1. table \in [Keys -> Ages \cup {None}] /\ lastMark \in [Keys -> Ages]
      BY DEF TypeOK
    <2>2. CASE PassBy
      BY <2>1, <2>2 DEF PassBy
    <2>3. CASE MarkOnce(KeyOf[cur.conn])
      <3> DEFINE purged == [j \in Keys |-> IF j \in Valid THEN table[j] ELSE None]
      <3>1. purged \in [Keys -> Ages \cup {None}]
        BY <2>1
      <3>2. \/ /\ table' = [purged EXCEPT ![KeyOf[cur.conn]] = 0]
               /\ lastMark' = [lastMark EXCEPT ![KeyOf[cur.conn]] = 0] /\ hpc' = "inject"
            \/ table' = purged /\ lastMark' = lastMark /\ hpc' = "accept"
        BY <2>3 DEF MarkOnce
      <3> HIDE DEF purged
      <3> QED
        BY <1>1, <2>1, <3>1, <3>2
    <2> QED
      BY <2>2, <2>3 DEF Process
  <1> QED
    BY <1>2 DEF Process, TypeOK, CurInv, handleVars, clientVars

LEMMA SendFakeType == ASSUME TypeOK, CurInv, SendFake PROVE TypeOK' /\ CurInv'
  <1> DEFINE packet == [conn |-> cur.conn, fake |-> TRUE]
  <1>1. packet \in Packets /\ copies[cur.conn] \in Nat
    BY DEF Packets, TypeOK, CurInv, SendFake
  <1>2. /\ waiting' \in Seq(Packets) /\ Len(waiting') <= MaxFlows
        /\ fakeOut' \subseteq Conns
        /\ out' \in [Conns -> SUBSET Ways]
    <2>1. Postrouting(packet, TRUE, copies[cur.conn])
      BY DEF SendFake
    <2> HIDE DEF packet
    <2> QED
      BY <1>1, <2>1, PostroutingType
  <1> QED
    BY <1>2 DEF SendFake, TypeOK, CurInv, handleVars, clientVars

LEMMA AcceptType == ASSUME TypeOK, CurInv, Accept PROVE TypeOK' /\ CurInv'
  <1>1. IsFiniteSet(held')
    BY FS_RemoveElement DEF Accept, TypeOK
  <1>2. \/ UNCHANGED <<out, fakeOut>>
        \/ \E way \in Ways : Passes(cur, way)
    BY DEF Accept, Ways
  <1>3. fakeOut' \subseteq Conns /\ out' \in [Conns -> SUBSET Ways]
    <2>1. cur \in Packets
      BY DEF Accept, CurInv
    <2>2. CASE \E way \in Ways : Passes(cur, way)
      BY <2>1, <2>2, PassesType
    <2> QED
      BY <1>2, <2>2 DEF TypeOK
  <1>4. /\ held' \subseteq Packets /\ hpc' = "idle" /\ cur' = None /\ sent' = FALSE
        /\ UNCHANGED <<handleVars, clientVars, waiting, stuck, table, lastMark>>
    BY DEF Accept, TypeOK
  <1> QED
    BY <1>1, <1>3, <1>4 DEF TypeOK, CurInv, handleVars, clientVars

LEMMA AcceptFailsType == ASSUME TypeOK, CurInv, AcceptFails PROVE TypeOK' /\ CurInv'
  <1>1. IsFiniteSet(held')
    BY FS_RemoveElement DEF AcceptFails, TypeOK
  <1>2. /\ held' \subseteq Packets /\ hpc' = "idle" /\ cur' = None /\ sent' = FALSE
        /\ stuck' \in Nat
        /\ UNCHANGED <<handleVars, clientVars, waiting, table, lastMark, fakeOut, out>>
    BY DEF AcceptFails, TypeOK
  <1> QED
    BY <1>1, <1>2 DEF TypeOK, CurInv, handleVars, clientVars

LEMMA FlushType ==
    ASSUME Flush
    PROVE  /\ waiting' \in Seq(Packets) /\ Len(waiting') <= MaxFlows
           /\ held' \subseteq Packets /\ IsFiniteSet(held') /\ stuck' \in Nat
  BY PacketAssumption, FS_EmptySet DEF Flush

LEMMA DiesType ==
    ASSUME TypeOK, Dies, panicked' \in BOOLEAN
    PROVE  TypeOK' /\ CurInv'
  BY FlushType DEF Dies, TypeOK, CurInv, clientVars

LEMMA OpenRawType == ASSUME TypeOK, CurInv, OpenRaw PROVE TypeOK' /\ CurInv'
  <1>1. TTL + 1 \in Ages /\ runs' \in 0 .. MaxRuns
    BY PacketAssumption DEF Ages, OpenRaw, TypeOK
  <1> QED
    BY <1>1 DEF OpenRaw, TypeOK, CurInv, clientVars

LEMMA CloseQueueType == ASSUME TypeOK, CurInv, CloseQueue PROVE TypeOK' /\ CurInv'
  BY FlushType DEF CloseQueue, TypeOK, CurInv, clientVars

LEMMA TypeStep == TypeOK /\ CurInv /\ [Next]_vars => TypeOK' /\ CurInv'
  <1> SUFFICES ASSUME TypeOK, CurInv, [Next]_vars PROVE TypeOK' /\ CurInv'
    OBVIOUS
  <1>1. ASSUME NEW c \in Conns, Transmit(c) PROVE TypeOK' /\ CurInv'
    BY <1>1, TransmitType
  <1>2. CASE Tick
    BY <1>2, TickType
  <1>3. CASE Read
    BY <1>3, ReadType
  <1>4. CASE Process
    BY <1>4, ProcessType
  <1>5. CASE SendFake
    BY <1>5, SendFakeType
  <1>6. CASE SendFails
    BY <1>6 DEF SendFails, TypeOK, CurInv, handleVars, clientVars
  <1>7. CASE Accept
    BY <1>7, AcceptType
  <1>8. CASE Panic
    BY <1>8, DiesType DEF Panic
  <1>9. CASE OpenRaw
    BY <1>9, OpenRawType
  <1>10. CASE OpenQueue
    BY <1>10 DEF OpenQueue, TypeOK, CurInv, clientVars
  <1>11. CASE OpenQueueFails
    BY <1>11 DEF OpenQueueFails, TypeOK, CurInv, clientVars
  <1>12. CASE CloseQueue
    BY <1>12, CloseQueueType
  <1>13. CASE CloseRaw
    BY <1>13 DEF CloseRaw, TypeOK, CurInv, clientVars
  <1>14. CASE Exit
    BY <1>14, DiesType DEF Exit, TypeOK
  <1>15. CASE UNCHANGED vars
    BY <1>15 DEF vars, TypeOK, CurInv
  <1>16. CASE AcceptFails
    BY <1>16, AcceptFailsType
  <1> QED
    BY <1>1, <1>2, <1>3, <1>4, <1>5, <1>6, <1>7, <1>8, <1>9, <1>10, <1>11, <1>12, <1>13, <1>14, <1>15, <1>16
       DEF Next, Handler

\* Type correctness: every step keeps the types of the clients' state, the
\* kernel's queue, the worker and the flow table, and a callback in progress
\* has its packet.
THEOREM TypeCorrect == Spec => [](TypeOK /\ CurInv)
  BY TypeInit, TypeStep, PTL DEF Spec

-----------------------------------------------------------------------------
LEMMA HandleStep == HandleInv /\ [Next]_vars => HandleInv'
  <1> SUFFICES ASSUME HandleInv, [Next]_vars PROVE HandleInv'
    OBVIOUS
  <1>1. ASSUME NEW c \in Conns, Transmit(c) PROVE HandleInv'
    BY <1>1 DEF Transmit, HandleInv, handleVars
  <1>2. CASE Tick
    BY <1>2 DEF Tick, HandleInv, handleVars
  <1>3. CASE Read
    BY <1>3 DEF Read, HandleInv, handleVars
  <1>4. CASE Process
    BY <1>4 DEF Process, HandleInv, handleVars
  <1>5. CASE SendFake
    BY <1>5 DEF SendFake, HandleInv, handleVars
  <1>6. CASE SendFails
    BY <1>6 DEF SendFails, HandleInv, handleVars
  <1>7. CASE Accept
    BY <1>7 DEF Accept, HandleInv, handleVars
  <1>8. CASE Panic
    BY <1>8 DEF Panic, Dies, HandleInv
  <1>9. CASE OpenRaw
    BY <1>9 DEF OpenRaw, HandleInv
  <1>10. CASE OpenQueue
    BY <1>10 DEF OpenQueue, HandleInv
  <1>11. CASE OpenQueueFails
    BY <1>11 DEF OpenQueueFails, HandleInv
  <1>12. CASE CloseQueue
    BY <1>12 DEF CloseQueue, HandleInv
  <1>13. CASE CloseRaw
    BY <1>13 DEF CloseRaw, HandleInv
  <1>14. CASE Exit
    BY <1>14 DEF Exit, Dies, HandleInv
  <1>15. CASE UNCHANGED vars
    BY <1>15 DEF vars, HandleInv
  <1>16. CASE AcceptFails
    BY <1>16 DEF AcceptFails, HandleInv, handleVars
  <1> QED
    BY <1>1, <1>2, <1>3, <1>4, <1>5, <1>6, <1>7, <1>8, <1>9, <1>10, <1>11, <1>12, <1>13, <1>14, <1>15, <1>16
       DEF Next, Handler

\* Only Panic raises the mark, and it needs a handle that is gone; TypeOK
\* excludes the values of pc that HandleInv does not speak of.
LEMMA PanicStep ==
    TypeOK /\ HandleInv /\ [Next]_vars => (panicked' /\ ~panicked => pc \in {"closeRaw", "stopped"})
  <1> SUFFICES ASSUME TypeOK, HandleInv, [Next]_vars, panicked', ~panicked
               PROVE  pc \in {"closeRaw", "stopped"}
    OBVIOUS
  <1>1. Panic
    BY DEF Next, Handler, vars, handleVars, Transmit, Tick, Read, Process, SendFake, SendFails,
           Accept, AcceptFails, OpenRaw, OpenQueue, OpenQueueFails, CloseQueue, CloseRaw, Exit
  <1> QED
    BY <1>1 DEF Panic, HandleInv, TypeOK

\* A nil handle never kills the worker in normal operation: with any number
\* of runs and at any moment of Start, the callback finds its handles.
THEOREM PanicOnlyInStopAlways == Spec => PanicOnlyInStop
<1>1. Init => HandleInv
  BY DEF Init, HandleInv
<1> QED
  BY <1>1, TypeCorrect, HandleStep, PanicStep, PTL DEF Spec, PanicOnlyInStop

-----------------------------------------------------------------------------
LEMMA MarkInit == Init => MarkInv
  BY PacketAssumption DEF Init, MarkInv

LEMMA MarkStep == TypeOK /\ CurInv /\ MarkInv /\ [Next]_vars => MarkInv'
  <1> SUFFICES ASSUME TypeOK, CurInv, MarkInv, [Next]_vars PROVE MarkInv'
    OBVIOUS
  <1>1. CASE UNCHANGED <<table, lastMark>>
    BY <1>1 DEF MarkInv
  <1>2. CASE Tick
    <2> SUFFICES ASSUME NEW k \in Keys, lastMark'[k] <= TTL
                 PROVE  table'[k] = lastMark'[k]
      BY DEF MarkInv
    <2>1. lastMark[k] \in Ages /\ TTL \in Nat /\ None \notin Ages
      BY PacketAssumption DEF TypeOK
    <2>2. lastMark'[k] = Older(lastMark[k])
      BY <1>2 DEF Tick
    <2>3. lastMark[k] <= TTL
      BY <2>1, <2>2 DEF Older, Ages
    <2>4. table[k] = lastMark[k] /\ table[k] # None
      BY <2>1, <2>3 DEF MarkInv
    <2> QED
      BY <1>2, <2>2, <2>4 DEF Tick
  <1>3. CASE Process
    <2> SUFFICES ASSUME NEW k \in Keys, lastMark'[k] <= TTL
                 PROVE  table'[k] = lastMark'[k]
      BY DEF MarkInv
    <2> DEFINE own == KeyOf[cur.conn]
    <2>1. lastMark[k] \in Ages /\ None \notin Ages /\ own \in Keys
      BY <1>3, PacketAssumption DEF TypeOK, CurInv, Process, Packets
    <2>2. lastMark[k] <= TTL => k \in Valid /\ table[k] = lastMark[k]
      BY <2>1 DEF MarkInv, Valid
    <2>3. CASE UNCHANGED <<table, lastMark>>
      BY <2>2, <2>3
    <2>4. CASE MarkOnce(own) /\ MayMark(own)
      BY <2>1, <2>2, <2>4 DEF MarkOnce, TypeOK
    <2>5. CASE MarkOnce(own) /\ ~MayMark(own)
      BY <2>1, <2>2, <2>5 DEF MarkOnce
    <2> QED
      BY <1>3, <2>3, <2>4, <2>5 DEF Process, PassBy
  <1>4. CASE OpenRaw
    BY <1>4, PacketAssumption DEF OpenRaw, MarkInv
  <1> QED
    BY <1>1, <1>2, <1>3, <1>4 DEF Next, Handler, vars, Transmit, Read, SendFake, SendFails, Accept, AcceptFails,
       Panic, Dies, OpenQueue, OpenQueueFails, CloseQueue, CloseRaw, Exit

\* One injection per flow and TTL: for any table size, TTL and interleaving
\* of packets, expiry and restarts.
THEOREM OncePerWindowAlways == Spec => OncePerWindow
<1>1. TypeOK /\ CurInv /\ MarkInv /\ [Next]_vars =>
        [hpc = "process" /\ hpc' = "inject" => lastMark[KeyOf[cur.conn]] > TTL]_vars
  <2> SUFFICES ASSUME TypeOK, CurInv, MarkInv, [Next]_vars, hpc = "process", hpc' = "inject"
               PROVE  lastMark[KeyOf[cur.conn]] > TTL
    OBVIOUS
  <2> DEFINE own == KeyOf[cur.conn]
  <2>1. Process
    BY DEF Next, Handler, vars, Transmit, Tick, Read, SendFake, SendFails, Accept, AcceptFails, Panic, Dies,
           OpenRaw, OpenQueue, OpenQueueFails, CloseQueue, CloseRaw, Exit
  <2>2. MarkOnce(own) /\ MayMark(own)
    BY <2>1 DEF Process, PassBy, MarkOnce
  <2>3. own \in Keys /\ lastMark[own] \in Ages /\ None \notin Ages /\ TTL \in Nat
    BY PacketAssumption DEF TypeOK, CurInv, Packets
  <2>4. ~(lastMark[own] <= TTL)
    BY <2>2, <2>3 DEF MayMark, Valid, MarkInv
  <2> QED
    BY <2>3, <2>4 DEF Ages
<1> QED
  BY <1>1, MarkInit, MarkStep, TypeCorrect, PTL DEF Spec, OncePerWindow

-----------------------------------------------------------------------------
LEMMA ValidFinite == IsFiniteSet(Valid) /\ Cardinality(Valid) \in Nat
  BY PacketAssumption, FS_Subset, FS_CardinalityType DEF Valid

\* Purging changes nothing in what is valid; marking adds one key to it.
LEMMA ProcessValid ==
    ASSUME TypeOK, CurInv, Process
    PROVE  \/ Valid' = Valid
           \/ \E k \in Keys : MayMark(k) /\ Valid' = Valid \cup {k}
  <1> DEFINE own == KeyOf[cur.conn]
  <1>1. own \in Keys /\ None \notin Ages /\ TTL \in Nat /\ 0 \in Ages
    BY PacketAssumption DEF CurInv, Process, Packets, Ages
  <1>2. CASE UNCHANGED table
    BY <1>2 DEF Valid
  <1>3. CASE MarkOnce(own) /\ MayMark(own)
    <2>1. table' = [[j \in Keys |-> IF j \in Valid THEN table[j] ELSE None] EXCEPT ![own] = 0]
      BY <1>3 DEF MarkOnce
    <2>2. \A j \in Keys : table'[j] = IF j = own THEN 0 ELSE IF j \in Valid THEN table[j] ELSE None
      BY <2>1
    <2>3. \A j \in Keys : j \in Valid' <=> j \in Valid \cup {own}
      BY <1>1, <2>2 DEF Valid
    <2>4. Valid' = Valid \cup {own}
      BY <1>1, <2>3 DEF Valid
    <2> QED
      BY <1>1, <1>3, <2>4
  <1>4. CASE MarkOnce(own) /\ ~MayMark(own)
    <2>1. \A j \in Keys : table'[j] = IF j \in Valid THEN table[j] ELSE None
      BY <1>4 DEF MarkOnce
    <2> QED
      BY <2>1 DEF Valid
  <1> QED
    BY <1>2, <1>3, <1>4 DEF Process, PassBy

LEMMA CapStep == TypeOK /\ CurInv /\ CapInv /\ [Next]_vars => CapInv'
  <1> SUFFICES ASSUME TypeOK, CurInv, CapInv, [Next]_vars PROVE CapInv'
    OBVIOUS
  <1>1. MaxFlows \in Nat
    BY PacketAssumption
  <1>2. ASSUME Valid' \subseteq Valid PROVE CapInv'
    BY <1>1, <1>2, ValidFinite, FS_Subset, FS_CardinalityType DEF CapInv
  <1>3. CASE UNCHANGED table
    BY <1>2, <1>3 DEF Valid
  <1>4. CASE Tick
    <2>1. \A k \in Keys : k \in Valid' => k \in Valid
      <3> SUFFICES ASSUME NEW k \in Keys, k \in Valid' PROVE k \in Valid
        OBVIOUS
      <3>1. table'[k] = IF table[k] = None THEN None ELSE Older(table[k])
        BY <1>4 DEF Tick
      <3>2. table[k] \in Ages \cup {None} /\ TTL \in Nat
        BY PacketAssumption DEF TypeOK
      <3> QED
        BY <3>1, <3>2 DEF Valid, Older, Ages
    <2> QED
      BY <1>2, <2>1 DEF Valid
  <1>5. CASE Process
    <2>1. CASE Valid' = Valid
      BY <1>2, <2>1
    <2>2. ASSUME NEW k \in Keys, MayMark(k), Valid' = Valid \cup {k} PROVE CapInv'
      <3>1. Cardinality(Valid \cup {k}) = Cardinality(Valid) + 1
        BY <2>2, ValidFinite, FS_AddElement DEF MayMark
      <3> QED
        BY <1>1, <2>2, <3>1, ValidFinite DEF MayMark, CapInv
    <2> QED
      BY <1>5, <2>1, <2>2, ProcessValid
  <1>6. CASE OpenRaw
    BY <1>2, <1>6 DEF OpenRaw, Valid
  <1> QED
    BY <1>3, <1>4, <1>5, <1>6 DEF Next, Handler, vars, Transmit, Read, SendFake, SendFails, Accept, AcceptFails,
       Panic, Dies, OpenQueue, OpenQueueFails, CloseQueue, CloseRaw, Exit

\* The size of the flow table bounds the injections of any TTL, for any size,
\* number of flows and TTL: what the history remembers is valid in the table.
THEOREM WindowCapAlways == Spec => []WindowCap
<1>1. Init => CapInv
  <2> SUFFICES ASSUME Init PROVE CapInv
    OBVIOUS
  <2>1. Valid = {}
    BY DEF Init, Valid
  <2> QED
    BY <2>1, FS_EmptySet, PacketAssumption DEF CapInv
<1>2. TypeOK /\ MarkInv /\ CapInv => WindowCap
  <2> SUFFICES ASSUME TypeOK, MarkInv, CapInv PROVE WindowCap
    OBVIOUS
  <2> DEFINE recent == {k \in Keys : lastMark[k] <= TTL}
  <2>1. recent \subseteq Valid
    BY PacketAssumption DEF TypeOK, MarkInv, Valid
  <2>2. Cardinality(recent) <= Cardinality(Valid) /\ Cardinality(recent) \in Nat
    BY <2>1, ValidFinite, FS_Subset, FS_CardinalityType
  <2> QED
    BY <2>2, ValidFinite, PacketAssumption DEF CapInv, WindowCap
<1> QED
  BY <1>1, <1>2, MarkInit, MarkStep, CapStep, TypeCorrect, PTL DEF Spec

-----------------------------------------------------------------------------
LEMMA SentStep == TypeOK /\ CurInv /\ SentInv /\ FakeFirst /\ [Next]_vars => SentInv' /\ FakeFirst'
  <1> SUFFICES ASSUME TypeOK, CurInv, SentInv, FakeFirst, [Next]_vars PROVE SentInv' /\ FakeFirst'
    OBVIOUS
  <1>1. CASE UNCHANGED <<hpc, cur, sent, fakeOut, out>>
    BY <1>1 DEF SentInv, FakeFirst
  <1>2. ASSUME NEW c \in Conns, Transmit(c) PROVE SentInv' /\ FakeFirst'
    <2>1. out' = out \/ out' = [out EXCEPT ![c] = @ \cup {"unseen"}]
      BY <1>2 DEF Transmit, Postrouting, Passes
    <2>2. UNCHANGED <<hpc, cur, sent, fakeOut>>
      BY <1>2 DEF Transmit, Postrouting, Passes
    <2>3. \A d \in Conns : "decoyed" \in out'[d] => "decoyed" \in out[d]
      BY <2>1 DEF TypeOK
    <2> QED
      BY <2>2, <2>3 DEF SentInv, FakeFirst
  <1>3. CASE SendFake
    <2>1. fakeOut' = fakeOut \cup {cur.conn} /\ UNCHANGED out
      BY <1>3 DEF SendFake, Postrouting, Passes
    <2> QED
      BY <1>3, <2>1 DEF SendFake, CurInv, SentInv, FakeFirst
  <1>4. CASE Accept
    <2>1. ~sent'
      BY <1>4 DEF Accept
    <2>2. fakeOut \subseteq fakeOut'
      BY <1>4 DEF Accept, Passes
    <2>3. \A c \in Conns : "decoyed" \in out'[c] => "decoyed" \in out[c] \/ (sent /\ c = cur.conn)
      BY <1>4 DEF Accept, Passes, TypeOK
    <2> QED
      BY <2>1, <2>2, <2>3 DEF SentInv, FakeFirst
  <1>5. CASE Read \/ Process \/ SendFails \/ AcceptFails \/ Panic \/ Exit
    BY <1>5 DEF Read, Process, MarkOnce, PassBy, SendFails, AcceptFails, Panic, Exit, Dies, SentInv, FakeFirst
  <1> QED
    BY <1>1, <1>2, <1>3, <1>4, <1>5 DEF Next, Handler, vars, Tick, OpenRaw, OpenQueue,
       OpenQueueFails, CloseQueue, CloseRaw

\* A decoyed packet follows its fake onto the wire, for any queue length and
\* whatever else waits: the mark keeps the fake out of the queue.
THEOREM FakeFirstAlways == Spec => []FakeFirst
<1>1. Init => SentInv /\ FakeFirst
  BY DEF Init, SentInv, FakeFirst
<1> QED
  BY <1>1, SentStep, TypeCorrect, PTL DEF Spec

=============================================================================
