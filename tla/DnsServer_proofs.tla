--------------------------- MODULE DnsServer_proofs ---------------------------
(***************************************************************************)
(* The DNS server, for any number of programs, queries and upstreams: when *)
(* a query may fail, and what the queues of addresses hold.                *)
(***************************************************************************)
EXTENDS DnsServer, SequenceTheorems, TLAPS

Asking == {"dial", "request", "reply"}

(* Every upstream with a known address before t's was down when asked. *)
Tried(t) == \A i \in known : i < at[t] => <<i, "down">> \in seen[t]

TaskInv ==
    /\ \A t \in Tasks :
          /\ pc[t] \in Asking =>
                /\ \A i \in Upstreams : health[i] # "up" => <<i, health[i]>> \in seen[t]
                /\ Tried(t)
          /\ pc[t] = "dial" => at[t] \in Upstreams \ known
          /\ pc[t] = "request" => at[t] \in Upstreams
          /\ pc[t] = "reply" /\ result[t] = "servfail" =>
                at[t] = N + 1 \/ \E i \in Upstreams : <<i, "bad">> \in seen[t]
    /\ \A l \in Lookups : pc[l] # "push" /\ (pc[l] # "idle" => host[l] \in Upstreams)

-----------------------------------------------------------------------------
LEMMA UpstreamsType == Upstreams \subseteq Nat /\ N + 1 \in Nat /\ 1 \in 1 .. N + 1
BY DnsAssumption DEF Upstreams

(* The step of a task that moves on from an upstream it is at. *)
LEMMA NextAt ==
    ASSUME NEW i \in Upstreams
    PROVE  /\ i + 1 \in 1 .. N + 1
           /\ StepAt(i + 1) \in Asking
           /\ StepAt(i + 1) = "reply" <=> i = N
           /\ StepAt(i + 1) = "dial" => i + 1 \in Upstreams \ known
           /\ StepAt(i + 1) = "request" => i + 1 \in Upstreams
BY DnsAssumption DEF Upstreams, StepAt, Asking

LEMMA FirstAt ==
    /\ StepAt(1) \in Asking
    /\ StepAt(1) # "reply"
    /\ StepAt(1) = "dial" => 1 \in Upstreams \ known
    /\ 1 \in Upstreams
BY DnsAssumption DEF Upstreams, StepAt, Asking

LEMMA FailuresTyped ==
    TypeOK => Failures \subseteq Upstreams \X {"down", "bad"}
BY DEF TypeOK, Failures

LEMMA BeginTyped ==
    ASSUME TypeOK, NEW t \in Tasks, Begin(t)
    PROVE  /\ pc' \in [Tasks -> {"idle", "dial", "request", "reply", "push"}]
           /\ at' \in [Tasks -> 1 .. N + 1]
           /\ result' \in [Tasks -> Results]
           /\ seen' \in [Tasks -> SUBSET (Upstreams \X {"down", "bad"})]
<1>1. pc' \in [Tasks -> {"idle", "dial", "request", "reply", "push"}]
    BY FirstAt DEF Begin, TypeOK, Asking
<1>2. at' \in [Tasks -> 1 .. N + 1] /\ result' \in [Tasks -> Results]
    BY UpstreamsType DEF Begin, TypeOK, Results
<1>3. seen' \in [Tasks -> SUBSET (Upstreams \X {"down", "bad"})]
    BY FailuresTyped DEF Begin, TypeOK
<1>4. QED BY <1>1, <1>2, <1>3

(* A query begins with what its first upstream and the failures are now. *)
LEMMA BeginTask ==
    ASSUME TypeOK, TaskInv, NEW t \in Tasks, Begin(t), UNCHANGED <<known, health>>
    PROVE  /\ \A u \in Tasks \ {t} :
                 UNCHANGED <<pc[u], at[u], result[u], seen[u]>>
           /\ pc'[t] \in Asking /\ pc'[t] # "reply"
           /\ \A i \in Upstreams : health'[i] # "up" => <<i, health'[i]>> \in seen'[t]
           /\ Tried(t)'
           /\ pc'[t] = "dial" => at'[t] \in Upstreams \ known'
           /\ at'[t] \in Upstreams
<1>1. /\ pc'[t] = StepAt(1) /\ at'[t] = 1 /\ seen'[t] = Failures
      /\ \A u \in Tasks \ {t} : UNCHANGED <<pc[u], at[u], result[u], seen[u]>>
    BY DEF Begin, TypeOK
<1>2. \A i \in Upstreams : health[i] # "up" => <<i, health[i]>> \in Failures
    BY DEF Failures
<1>3. known \subseteq Upstreams /\ \A i \in Upstreams : ~(i < 1)
    BY DEF TypeOK, Upstreams
<1>4. QED BY <1>1, <1>2, <1>3, FirstAt DEF Tried

LEMMA Typing == TypeOK /\ TaskInv /\ [Next]_vars => TypeOK'
<1> SUFFICES ASSUME TypeOK, TaskInv, [Next]_vars PROVE TypeOK'
    OBVIOUS
<1> USE DnsAssumption, UpstreamsType, FirstAt DEF Tasks, Asking
<1>1. ASSUME NEW a \in Apps, Ask(a) PROVE TypeOK'
    <2>1. Begin(a) /\ asks' \in 0 .. MaxAsks
        BY <1>1 DEF Ask, TypeOK
    <2>2. QED BY <1>1, <2>1, BeginTyped DEF Ask, TypeOK
<1>2. ASSUME NEW a \in Apps, Reply(a) PROVE TypeOK'
    BY <1>2 DEF Reply, TypeOK, Results
<1>3. ASSUME NEW a \in Apps, Push(a) PROVE TypeOK'
    <2> DEFINE d == DomainOf[a]
    <2>1. d \in Domains
        BY DEF Domains
    <2>2. \A ip \in IPs : ipQueue[ip] \in Seq(Domains) /\ Append(ipQueue[ip], d) \in Seq(Domains)
        BY <2>1, AppendProperties DEF TypeOK
    <2>3. ipQueue' \in [IPs -> Seq(Domains)]
        BY <1>3, <2>2 DEF Push
    <2>4. pc' \in [Tasks -> {"idle", "dial", "request", "reply", "push"}]
        BY <1>3 DEF Push, TypeOK
    <2>5. QED BY <1>3, <2>3, <2>4 DEF Push, TypeOK
<1>4. ASSUME NEW t \in Tasks, Respond(t) PROVE TypeOK'
    BY <1>4 DEF Respond, TypeOK, Results
<1>5. ASSUME NEW t \in Tasks, MoveOn({t}), pc[t] \in {"dial", "request"}
      PROVE  /\ pc' \in [Tasks -> {"idle", "dial", "request", "reply", "push"}]
             /\ at' \in [Tasks -> 1 .. N + 1]
             /\ result' \in [Tasks -> Results]
    <2>1. at[t] \in Upstreams
        BY <1>5 DEF TaskInv
    <2>2. QED BY <1>5, <2>1, NextAt DEF MoveOn, TypeOK, Results
<1>6. ASSUME NEW t \in Tasks, RequestFails(t) PROVE TypeOK'
    BY <1>5, <1>6 DEF RequestFails, TypeOK
<1>7. ASSUME NEW t \in Tasks, DialTimeout(t) PROVE TypeOK'
    BY <1>5, <1>7 DEF DialTimeout, TypeOK
<1>8. ASSUME NEW l \in Lookups, NEW i \in Upstreams, StartLookup(l, i) PROVE TypeOK'
    BY <1>8, BeginTyped DEF StartLookup, TypeOK
<1>9. ASSUME NEW l \in Lookups, ReplyLookup(l) PROVE TypeOK'
    <2>1. host[l] \in Upstreams
        BY <1>9 DEF ReplyLookup, TaskInv
    <2>2. \A t \in Waiting(host[l]) : at[t] = host[l]
        BY DEF Waiting
    <2>3. CASE result[l] = "answer"
        BY <1>9, <2>1, <2>3 DEF ReplyLookup, TypeOK
    <2>4. CASE result[l] # "answer"
        <3> DEFINE waiters == IF flight[host[l]] = l THEN Waiting(host[l]) ELSE {}
        <3>1. /\ at' = [t \in Tasks |-> IF t \in waiters THEN at[t] + 1 ELSE at[t]]
              /\ result' = [t \in Tasks |-> IF t \in waiters /\ host[l] = N
                                          THEN "servfail" ELSE result[t]]
              /\ pc' = [t \in Tasks |-> IF t = l THEN "idle"
                                      ELSE IF t \in waiters THEN StepAt(host[l] + 1)
                                      ELSE pc[t]]
            BY <1>9, <2>4 DEF ReplyLookup
        <3>2. \A t \in waiters : at[t] = host[l]
            BY <2>2
        <3>3. at' \in [Tasks -> 1 .. N + 1]
            BY <2>1, <3>1, <3>2, NextAt DEF TypeOK
        <3>4. /\ pc' \in [Tasks -> {"idle", "dial", "request", "reply", "push"}]
              /\ result' \in [Tasks -> Results]
            BY <2>1, <3>1, NextAt DEF TypeOK, Results
        <3>5. QED BY <1>9, <2>1, <3>3, <3>4 DEF ReplyLookup, TypeOK
    <2>5. QED BY <2>3, <2>4
<1>10. ASSUME NEW ip \in IPs, PopDomain(ip) PROVE TypeOK'
    <2>1. Tail(ipQueue[ip]) \in Seq(Domains)
        BY <1>10, HeadTailProperties DEF PopDomain, TypeOK
    <2>2. QED BY <1>10, <2>1 DEF PopDomain, TypeOK
<1>11. ASSUME NEW i \in Upstreams, Flip(i) PROVE TypeOK'
    BY <1>11 DEF Flip, TypeOK
<1>12. CASE UNCHANGED vars
    BY <1>12 DEF vars, TypeOK
<1>13. QED
    BY <1>1, <1>2, <1>3, <1>4, <1>6, <1>7, <1>8, <1>9, <1>10, <1>11, <1>12
    DEF Next, Handle

LEMMA TaskStep == TypeOK /\ TaskInv /\ [Next]_vars => TaskInv'
<1> SUFFICES ASSUME TypeOK, TaskInv, [Next]_vars PROVE TaskInv'
    OBVIOUS
<1> USE DnsAssumption, UpstreamsType, FirstAt DEF Tasks, Asking, TaskInv, Tried
<1>1. ASSUME NEW a \in Apps, Ask(a) PROVE TaskInv'
    BY <1>1, BeginTask DEF Ask
<1>2. ASSUME NEW a \in Apps, Reply(a) PROVE TaskInv'
    BY <1>2 DEF Reply, TypeOK
<1>3. ASSUME NEW a \in Apps, Push(a) PROVE TaskInv'
    BY <1>3 DEF Push, TypeOK
<1>4. ASSUME NEW t \in Tasks, Respond(t) PROVE TaskInv'
    BY <1>4 DEF Respond, TypeOK
<1>6. ASSUME NEW t \in Tasks, RequestFails(t) PROVE TaskInv'
    <2>1. at[t] \in Upstreams
        BY <1>6 DEF RequestFails
    <2>2. QED BY <1>6, <2>1, NextAt DEF RequestFails, MoveOn, TypeOK
<1>7. ASSUME NEW t \in Tasks, DialTimeout(t) PROVE TaskInv'
    <2>1. at[t] \in Upstreams \ known
        BY <1>7 DEF DialTimeout
    <2>2. QED BY <1>7, <2>1, NextAt DEF DialTimeout, MoveOn, TypeOK
<1>8. ASSUME NEW l \in Lookups, NEW i \in Upstreams, StartLookup(l, i) PROVE TaskInv'
    <2>1. /\ host'[l] \in Upstreams
          /\ \A m \in Lookups \ {l} : host'[m] = host[m]
        BY <1>8 DEF StartLookup, TypeOK
    <2>2. QED BY <1>8, <2>1, BeginTask DEF StartLookup
<1>9. ASSUME NEW l \in Lookups, ReplyLookup(l) PROVE TaskInv'
    <2>1. host[l] \in Upstreams
        BY <1>9 DEF ReplyLookup
    <2> DEFINE waiters == IF flight[host[l]] = l THEN Waiting(host[l]) ELSE {}
    <2>2. \A t \in waiters :
             t \in Tasks /\ pc[t] = "dial" /\ at[t] = host[l] /\ at[t] \notin known /\ t # l
        BY <1>9 DEF Waiting, ReplyLookup
    <2>3. UNCHANGED <<known, health, seen>> /\ \A m \in Lookups \ {l} : host'[m] = host[m]
        BY <1>9 DEF ReplyLookup, TypeOK
    <2>4. /\ pc'[l] = "idle"
          /\ \A t \in Tasks \ (waiters \cup {l}) : UNCHANGED <<pc[t], at[t], result[t]>>
        BY <1>9 DEF ReplyLookup, TypeOK
    <2>5. \A t \in waiters :
             /\ pc'[t] \in Asking
             /\ \A i \in known : i < at'[t] => i < at[t]
             /\ pc'[t] = "dial" => at'[t] \in Upstreams \ known
             /\ pc'[t] = "request" => at'[t] \in Upstreams
             /\ pc'[t] = "reply" => at'[t] = N + 1
        <3>1. CASE result[l] = "answer"
            <4>1. /\ at' = at
                  /\ \A t \in waiters : pc'[t] = "request"
                BY <1>9, <2>2, <3>1 DEF ReplyLookup
            <4>2. QED BY <2>1, <2>2, <4>1
        <3>2. CASE result[l] # "answer"
            <4>1. \A t \in waiters : pc'[t] = StepAt(host[l] + 1) /\ at'[t] = host[l] + 1
                BY <1>9, <2>2, <3>2 DEF ReplyLookup
            <4>2. \A i \in known : i \in Nat
                BY DEF TypeOK
            <4> DEFINE h == host[l]
            <4>3. h \in Upstreams /\ h \in Nat
                BY <2>1
            <4>4. \A t \in waiters : pc'[t] = StepAt(h + 1) /\ at'[t] = h + 1
                BY <4>1
            <4>5. \A t \in waiters : at[t] = h /\ h \notin known
                BY <2>1, <2>2
            <4> HIDE DEF h
            <4>6. \A i \in known : i < h + 1 /\ h \notin known => i < h
                BY <4>2, <4>3
            <4>7. /\ StepAt(h + 1) \in Asking
                  /\ StepAt(h + 1) = "reply" => h + 1 = N + 1
                  /\ StepAt(h + 1) = "dial" => h + 1 \in Upstreams \ known
                  /\ StepAt(h + 1) = "request" => h + 1 \in Upstreams
                BY <4>3, NextAt
            <4>8. QED BY <4>4, <4>5, <4>6, <4>7
        <3>3. QED BY <3>1, <3>2
    <2>6. ASSUME NEW t \in Tasks
          PROVE  /\ pc'[t] \in Asking =>
                       /\ \A i \in Upstreams : health'[i] # "up" => <<i, health'[i]>> \in seen'[t]
                       /\ \A i \in known' : i < at'[t] => <<i, "down">> \in seen'[t]
                 /\ pc'[t] = "dial" => at'[t] \in Upstreams \ known'
                 /\ pc'[t] = "request" => at'[t] \in Upstreams
                 /\ pc'[t] = "reply" /\ result'[t] = "servfail" =>
                       at'[t] = N + 1 \/ \E i \in Upstreams : <<i, "bad">> \in seen'[t]
        <3>1. CASE t \in waiters
            BY <2>2, <2>3, <2>5, <3>1
        <3>2. CASE t = l
            BY <2>4, <3>2
        <3>3. CASE t \notin waiters \cup {l}
            BY <2>3, <2>4, <3>3
        <3>4. QED BY <3>1, <3>2, <3>3
    <2>7. ASSUME NEW m \in Lookups
          PROVE  pc'[m] # "push" /\ (pc'[m] # "idle" => host'[m] \in Upstreams)
        <3>1. CASE m \in waiters
            BY <2>2, <2>3, <2>5, <3>1
        <3>2. CASE m = l
            BY <2>4, <3>2
        <3>3. CASE m \notin waiters \cup {l}
            BY <2>3, <2>4, <3>3
        <3>4. QED BY <3>1, <3>2, <3>3
    <2>8. QED BY <2>6, <2>7
<1>10. ASSUME NEW ip \in IPs, PopDomain(ip) PROVE TaskInv'
    BY <1>10 DEF PopDomain
<1>11. ASSUME NEW i \in Upstreams, Flip(i) PROVE TaskInv'
    BY <1>11 DEF Flip, TypeOK
<1>12. CASE UNCHANGED vars
    BY <1>12 DEF vars
<1>13. QED
    BY <1>1, <1>2, <1>3, <1>4, <1>6, <1>7, <1>8, <1>9, <1>10, <1>11, <1>12
    DEF Next, Handle

-----------------------------------------------------------------------------
LEMMA InitTasks == Init => TypeOK /\ TaskInv
<1> SUFFICES ASSUME Init PROVE TypeOK /\ TaskInv
    OBVIOUS
<1> USE DnsAssumption, UpstreamsType
<1>1. known \subseteq Upstreams
    BY DEF Init
<1>2. ipQueue \in [IPs -> Seq(Domains)]
    BY DEF Init
<1>3. TypeOK
    BY <1>1, <1>2 DEF Init, TypeOK, Results
<1>4. TaskInv
    BY DEF Init, TaskInv, Tasks, Asking
<1>5. QED BY <1>3, <1>4

LEMMA TasksAlways == Spec => [](TypeOK /\ TaskInv)
<1>1. TypeOK /\ TaskInv /\ [Next]_vars => (TypeOK /\ TaskInv)'
    BY Typing, TaskStep
<1>2. QED BY InitTasks, <1>1, PTL DEF Spec

(* The server's state stays well-typed, whatever programs and upstreams do. *)
THEOREM TypeCorrect == Spec => []TypeOK
BY TasksAlways, PTL

(* A query fails only if every upstream with a known address was down at   *)
(* some time of the query, or one sent no DNS message, for any number of   *)
(* upstreams, queries and lookups of upstream names.                       *)
THEOREM HealthyIsEnoughAlways == Spec => []HealthyIsEnough
<1>1. TypeOK /\ TaskInv => HealthyIsEnough
    <2> SUFFICES ASSUME TypeOK, TaskInv, NEW t \in Tasks,
                        pc[t] = "reply", result[t] = "servfail",
                        at[t] = N + 1
                 PROVE  \A i \in known : <<i, "down">> \in seen[t]
        BY DEF TaskInv, HealthyIsEnough
    <2>1. Tried(t)
        BY DEF TaskInv, Asking
    <2>2. \A i \in known : i < N + 1
        BY DnsAssumption DEF TypeOK, Upstreams
    <2>3. QED BY <2>1, <2>2 DEF Tried
<1>2. QED BY <1>1, TasksAlways, PTL

-----------------------------------------------------------------------------
(***************************************************************************)
(* The queues: one that loses its head, or both that get a name, stay      *)
(* suffixes one of the other.                                              *)
(***************************************************************************)
LEMMA SuffixElements ==
    ASSUME NEW S, NEW s \in Seq(S), NEW u \in Seq(S)
    PROVE  Suffix(s, u) <=> /\ Len(s) <= Len(u)
                            /\ \A i \in 1 .. Len(s) : s[i] = u[Len(u) - Len(s) + i]
<1>1. Len(s) \in Nat /\ Len(u) \in Nat
    BY LenProperties
<1> SUFFICES ASSUME Len(s) <= Len(u)
             PROVE  s = SubSeq(u, Len(u) - Len(s) + 1, Len(u))
                        <=> \A i \in 1 .. Len(s) : s[i] = u[Len(u) - Len(s) + i]
    BY DEF Suffix
<1> DEFINE m == Len(u) - Len(s) + 1
           n == Len(u)
           v == SubSeq(u, m, n)
<1>2. /\ m \in Int /\ n \in Int /\ n - m + 1 = Len(s)
      /\ m .. n \subseteq 1 .. Len(u)
      /\ \A i \in 1 .. Len(s) : m + i - 1 = Len(u) - Len(s) + i
    BY <1>1
<1>3. \A i \in m .. n : u[i] \in S
    BY <1>2, ElementOfSeq
<1> HIDE DEF m, n
<1>4. /\ v \in Seq(S)
      /\ Len(v) = IF m <= n THEN n - m + 1 ELSE 0
      /\ \A i \in 1 .. n - m + 1 : v[i] = u[m + i - 1]
    BY <1>2, <1>3, SubSeqProperties
<1>5. Len(v) = Len(s)
    BY <1>1, <1>2, <1>4
<1>6. \A i \in 1 .. Len(s) : v[i] = u[Len(u) - Len(s) + i]
    BY <1>2, <1>4
<1> HIDE DEF v
<1>7. s = v <=> \A i \in 1 .. Len(s) : s[i] = v[i]
    BY <1>4, <1>5, SeqEqual
<1>8. s = v <=> \A i \in 1 .. Len(s) : s[i] = u[Len(u) - Len(s) + i]
    BY <1>6, <1>7
<1>9. QED BY <1>8 DEF m, n, v

LEMMA SuffixSelf ==
    ASSUME NEW S, NEW s \in Seq(S)
    PROVE  Suffix(s, s)
<1>1. Len(s) \in Nat
    BY LenProperties
<1>2. \A i \in 1 .. Len(s) : Len(s) - Len(s) + i = i
    BY <1>1
<1>3. QED BY <1>1, <1>2, SuffixElements

LEMMA SuffixAppend ==
    ASSUME NEW S, NEW s \in Seq(S), NEW u \in Seq(S), NEW d \in S, Suffix(s, u)
    PROVE  Suffix(Append(s, d), Append(u, d))
<1> DEFINE s1 == Append(s, d)
           u1 == Append(u, d)
<1>1. Len(s) \in Nat /\ Len(u) \in Nat
    BY LenProperties
<1>2. /\ s1 \in Seq(S) /\ Len(s1) = Len(s) + 1
      /\ \A i \in 1 .. Len(s) : s1[i] = s[i]
      /\ s1[Len(s) + 1] = d
    BY AppendProperties
<1>3. /\ u1 \in Seq(S) /\ Len(u1) = Len(u) + 1
      /\ \A i \in 1 .. Len(u) : u1[i] = u[i]
      /\ u1[Len(u) + 1] = d
    BY AppendProperties
<1>4. /\ Len(s) <= Len(u)
      /\ \A i \in 1 .. Len(s) : s[i] = u[Len(u) - Len(s) + i]
    BY SuffixElements
<1> HIDE DEF s1, u1
<1>5. ASSUME NEW i \in 1 .. Len(s1)
      PROVE  s1[i] = u1[Len(u1) - Len(s1) + i]
    <2>1. Len(u1) - Len(s1) + i = Len(u) - Len(s) + i
        BY <1>1, <1>2, <1>3
    <2>2. CASE i \in 1 .. Len(s)
        <3>1. Len(u) - Len(s) + i \in 1 .. Len(u)
            BY <1>1, <1>4, <2>2
        <3>2. QED BY <1>2, <1>3, <1>4, <2>1, <2>2, <3>1
    <2>3. CASE i = Len(s) + 1
        <3>1. Len(u) - Len(s) + i = Len(u) + 1
            BY <1>1, <2>3
        <3>2. QED BY <1>2, <1>3, <2>1, <2>3, <3>1
    <2>4. QED BY <1>1, <1>2, <2>2, <2>3
<1>6. Len(s1) <= Len(u1)
    BY <1>1, <1>2, <1>3, <1>4
<1>7. Suffix(s1, u1)
    BY <1>2, <1>3, <1>5, <1>6, SuffixElements
<1>8. QED BY <1>7 DEF s1, u1

LEMMA SuffixTail ==
    ASSUME NEW S, NEW s \in Seq(S), NEW u \in Seq(S), Suffix(s, u)
    PROVE  /\ s # <<>> => Suffix(Tail(s), u)
           /\ u # <<>> => Suffix(s, Tail(u)) \/ Suffix(Tail(u), s)
<1>1. Len(s) \in Nat /\ Len(u) \in Nat
    BY LenProperties
<1>2. /\ Len(s) <= Len(u)
      /\ \A i \in 1 .. Len(s) : s[i] = u[Len(u) - Len(s) + i]
    BY SuffixElements
<1>3. ASSUME s # <<>> PROVE Suffix(Tail(s), u)
    <2> DEFINE w == Tail(s)
    <2>1. /\ w \in Seq(S) /\ Len(w) = Len(s) - 1
          /\ \A i \in 1 .. Len(w) : w[i] = s[i + 1]
        BY <1>3, HeadTailProperties
    <2> HIDE DEF w
    <2>2. Len(w) <= Len(u)
        BY <1>1, <1>2, <2>1
    <2>3. ASSUME NEW i \in 1 .. Len(w) PROVE w[i] = u[Len(u) - Len(w) + i]
        <3>1. i + 1 \in 1 .. Len(s) /\ Len(u) - Len(s) + (i + 1) = Len(u) - Len(w) + i
            BY <1>1, <2>1
        <3>2. QED BY <1>2, <2>1, <3>1
    <2>4. Suffix(w, u)
        BY <2>1, <2>2, <2>3, SuffixElements
    <2>5. QED BY <2>4 DEF w
<1>4. ASSUME u # <<>> PROVE Suffix(s, Tail(u)) \/ Suffix(Tail(u), s)
    <2> DEFINE w == Tail(u)
    <2>1. /\ w \in Seq(S) /\ Len(w) = Len(u) - 1
          /\ \A i \in 1 .. Len(w) : w[i] = u[i + 1]
        BY <1>4, HeadTailProperties
    <2> HIDE DEF w
    <2>2. CASE Len(s) < Len(u)
        <3>1. Len(s) <= Len(w)
            BY <1>1, <2>1, <2>2
        <3>2. ASSUME NEW i \in 1 .. Len(s) PROVE s[i] = w[Len(w) - Len(s) + i]
            <4>1. /\ Len(w) - Len(s) + i \in 1 .. Len(w)
                  /\ (Len(w) - Len(s) + i) + 1 = Len(u) - Len(s) + i
                BY <1>1, <2>1, <2>2
            <4>2. QED BY <1>2, <2>1, <4>1
        <3>3. Suffix(s, w)
            BY <2>1, <3>1, <3>2, SuffixElements
        <3>4. QED BY <3>3 DEF w
    <2>3. CASE Len(s) = Len(u)
        <3>1. Len(w) <= Len(s)
            BY <1>1, <2>1, <2>3
        <3>2. ASSUME NEW i \in 1 .. Len(w) PROVE w[i] = s[Len(s) - Len(w) + i]
            <4>1. /\ i + 1 \in 1 .. Len(s) /\ Len(u) - Len(s) + (i + 1) = i + 1
                  /\ Len(s) - Len(w) + i = i + 1
                BY <1>1, <2>1, <2>3
            <4>2. QED BY <1>2, <2>1, <4>1
        <3>3. Suffix(w, s)
            BY <2>1, <3>1, <3>2, SuffixElements
        <3>4. QED BY <3>3 DEF w
    <2>4. QED BY <1>1, <1>2, <2>2, <2>3
<1>5. QED BY <1>3, <1>4

LEMMA QueuesStep == TypeOK /\ QueuesAgree /\ [Next]_vars => QueuesAgree'
<1> SUFFICES ASSUME TypeOK, QueuesAgree, [Next]_vars, NEW p \in Twins
             PROVE  \/ Suffix(ipQueue'[p[1]], ipQueue'[p[2]])
                    \/ Suffix(ipQueue'[p[2]], ipQueue'[p[1]])
    BY DEF QueuesAgree
<1> DEFINE s == ipQueue[p[1]]
           u == ipQueue[p[2]]
<1>1. p[1] \in IPs /\ p[2] \in IPs
    BY DEF Twins
<1>2. s \in Seq(Domains) /\ u \in Seq(Domains)
    BY <1>1 DEF TypeOK
<1>3. Suffix(s, u) \/ Suffix(u, s)
    BY DEF QueuesAgree
<1> HIDE DEF s, u
<1>4. ASSUME NEW a \in Apps, Push(a)
      PROVE  \/ Suffix(ipQueue'[p[1]], ipQueue'[p[2]])
             \/ Suffix(ipQueue'[p[2]], ipQueue'[p[1]])
    <2> DEFINE d == DomainOf[a]
    <2>1. d \in Domains
        BY DEF Domains
    <2> HIDE DEF d
    <2>2. p[1] \in Answer[d] <=> p[2] \in Answer[d]
        BY <2>1 DEF Twins
    <2>3. \A q \in IPs : ipQueue'[q] = IF q \in Answer[d] THEN Append(ipQueue[q], d) ELSE ipQueue[q]
        BY <1>4 DEF Push, d
    <2>4. CASE p[1] \in Answer[d]
        <3>1. ipQueue'[p[1]] = Append(s, d) /\ ipQueue'[p[2]] = Append(u, d)
            BY <1>1, <2>2, <2>3, <2>4 DEF s, u
        <3>2. QED BY <1>2, <1>3, <2>1, <3>1, SuffixAppend
    <2>5. CASE p[1] \notin Answer[d]
        <3>1. ipQueue'[p[1]] = s /\ ipQueue'[p[2]] = u
            BY <1>1, <2>2, <2>3, <2>5 DEF s, u
        <3>2. QED BY <1>3, <3>1
    <2>6. QED BY <2>4, <2>5
<1>5. ASSUME NEW ip \in IPs, PopDomain(ip)
      PROVE  \/ Suffix(ipQueue'[p[1]], ipQueue'[p[2]])
             \/ Suffix(ipQueue'[p[2]], ipQueue'[p[1]])
    <2>1. \A q \in IPs : ipQueue'[q] = IF q = ip THEN Tail(ipQueue[q]) ELSE ipQueue[q]
        BY <1>5 DEF PopDomain, TypeOK
    <2>2. ipQueue[ip] # <<>>
        BY <1>5 DEF PopDomain
    <2>3. CASE p[1] = p[2]
        <3>1. ipQueue'[p[1]] \in Seq(Domains)
            <4>1. \A q \in Seq(Domains) : q # <<>> => Tail(q) \in Seq(Domains)
                BY HeadTailProperties
            <4>2. ipQueue'[p[1]] = s \/ (ipQueue'[p[1]] = Tail(s) /\ s # <<>>)
                BY <1>1, <2>1, <2>2 DEF s
            <4>3. QED BY <1>2, <4>1, <4>2
        <3>2. QED BY <2>3, <3>1, SuffixSelf
    <2>4. CASE p[1] # p[2] /\ ip = p[1]
        <3>1. ipQueue'[p[1]] = Tail(s) /\ ipQueue'[p[2]] = u /\ s # <<>>
            BY <1>1, <2>1, <2>2, <2>4 DEF s, u
        <3>2. QED BY <1>2, <1>3, <3>1, SuffixTail
    <2>5. CASE p[1] # p[2] /\ ip = p[2]
        <3>1. ipQueue'[p[1]] = s /\ ipQueue'[p[2]] = Tail(u) /\ u # <<>>
            BY <1>1, <2>1, <2>2, <2>5 DEF s, u
        <3>2. QED BY <1>2, <1>3, <3>1, SuffixTail
    <2>6. CASE ip # p[1] /\ ip # p[2]
        <3>1. ipQueue'[p[1]] = s /\ ipQueue'[p[2]] = u
            BY <1>1, <2>1, <2>6 DEF s, u
        <3>2. QED BY <1>3, <3>1
    <2>7. QED BY <2>3, <2>4, <2>5, <2>6
<1>6. CASE UNCHANGED ipQueue
    BY <1>3, <1>6 DEF s, u
<1>7. QED
    BY <1>4, <1>5, <1>6
    DEF Next, Handle, vars, Ask, Reply, Respond, RequestFails, DialTimeout, StartLookup,
        ReplyLookup, Flip

(* Addresses that come in the same answers carry the same names in the     *)
(* same order, up to what connections have taken, however many they are    *)
(* and in whatever order queries end and connections come.                 *)
THEOREM QueuesAgreeAlways == Spec => []QueuesAgree
<1>1. Init => QueuesAgree
    <2> SUFFICES ASSUME Init, NEW p \in Twins
                 PROVE  Suffix(ipQueue[p[1]], ipQueue[p[2]])
        BY DEF QueuesAgree
    <2>1. ipQueue[p[1]] = <<>> /\ ipQueue[p[2]] = <<>>
        BY DEF Init, Twins
    <2>2. <<>> \in Seq(Domains)
        BY EmptySeq
    <2>3. QED BY <2>1, <2>2, SuffixSelf
<1>2. TypeOK /\ QueuesAgree /\ [Next]_vars => QueuesAgree'
    BY QueuesStep
<1>3. QED BY <1>1, <1>2, TypeCorrect, PTL DEF Spec
=============================================================================
