-------------------------------- MODULE DnsServer --------------------------------
(***************************************************************************)
(* pkg/dns/server.go and doh.go: the server on 127.0.0.1:53, one goroutine *)
(* per query, and the DoH clients it asks in the order of --doh-upstream.  *)
(*                                                                         *)
(* NewDoHClient replaces an upstream's name by its address when the lookup *)
(* succeeds.  When it does not, the HTTP client looks the name up later,   *)
(* and since the system's DNS is this server by then, it asks us: handling *)
(* that query needs the same client, and waits for the same lookup.  Only  *)
(* the clients' timeout ends this.  The Go resolver is external: it joins  *)
(* concurrent lookups of one name, and gives one up when nobody waits.     *)
(***************************************************************************)
EXTENDS Naturals, Sequences, FiniteSets

CONSTANTS
    Apps,       \* programs that look a name up, one query at a time
    Lookups,    \* bound: queries for upstream names handled at one time
    N,          \* number of upstreams
    Named,      \* upstreams given by name
    DomainOf,   \* [Apps -> domains]
    IPs,
    Answer,     \* [domains -> SUBSET IPs]: the A and AAAA records
    MaxAsks,    \* bound: queries in all
    MaxFlips,   \* bound: changes of the upstreams' state
    None

Upstreams == 1 .. N
Tasks == Apps \cup Lookups
Domains == {DomainOf[a] : a \in Apps}

ASSUME DnsAssumption ==
    /\ N \in Nat \ {0}
    /\ Named \subseteq Upstreams
    /\ Apps \cap Lookups = {}
    /\ None \notin Lookups \cup Upstreams
    /\ Answer \in [Domains -> SUBSET IPs]
    /\ {MaxAsks, MaxFlips} \subseteq Nat

VARIABLES
    known,      \* upstreams whose address is known, given or looked up
    health,     \* per upstream: "up", "down", or "bad": it answers 200 with no DNS message
    pc,         \* per task: the step of handleQuery
    at,         \* per task: the client that fallbackResolver.Resolve is at
    result,     \* per task: what it replies
    flight,     \* per upstream: the lookup of its name in progress
    host,       \* per lookup: the upstream it is for
    ipQueue,
    asks,
    flips,
    seen        \* history, per task: the failures <<upstream, health>> there were during its query

vars == <<known, health, pc, at, result, flight, host, ipQueue, asks, flips, seen>>

Results == {"none", "answer", "servfail"}

TypeOK ==
    /\ known \subseteq Upstreams
    /\ health \in [Upstreams -> {"up", "down", "bad"}]
    /\ pc \in [Tasks -> {"idle", "dial", "request", "reply", "push"}]
    /\ at \in [Tasks -> 1 .. N + 1]
    /\ result \in [Tasks -> Results]
    /\ flight \in [Upstreams -> Lookups \cup {None}]
    /\ host \in [Lookups -> Upstreams \cup {None}]
    /\ ipQueue \in [IPs -> Seq(Domains)]
    /\ asks \in 0 .. MaxAsks
    /\ flips \in 0 .. MaxFlips
    /\ seen \in [Tasks -> SUBSET (Upstreams \X {"down", "bad"})]

Failures == {<<i, health[i]>> : i \in {j \in Upstreams : health[j] # "up"}}

\* NewResolver: each name's lookup succeeds or fails for good
Init ==
    /\ \E resolved \in SUBSET Named : known = (Upstreams \ Named) \cup resolved
    /\ health \in [Upstreams -> {"up", "down"}]
    /\ pc = [t \in Tasks |-> "idle"]
    /\ at = [t \in Tasks |-> 1]
    /\ result = [t \in Tasks |-> "none"]
    /\ flight = [i \in Upstreams |-> None]
    /\ host = [l \in Lookups |-> None]
    /\ ipQueue = [ip \in IPs |-> <<>>]
    /\ asks = 0
    /\ flips = 0
    /\ seen = [t \in Tasks |-> {}]

-----------------------------------------------------------------------------
(***************************************************************************)
(* handleQuery and Resolve.                                                *)
(***************************************************************************)
StepAt(i) == IF i > N THEN "reply" ELSE IF i \in known THEN "request" ELSE "dial"

\* The tasks in ts go on with the next client, or have none left
MoveOnGivesUp(ts) ==        \* mutant: the first error is returned
    /\ at' = at
    /\ pc' = [t \in Tasks |-> IF t \in ts THEN "reply" ELSE pc[t]]
    /\ result' = [t \in Tasks |-> IF t \in ts THEN "servfail" ELSE result[t]]

MoveOn(ts) ==
    /\ at' = [t \in Tasks |-> IF t \in ts THEN at[t] + 1 ELSE at[t]]
    /\ pc' = [t \in Tasks |-> IF t \in ts THEN StepAt(at[t] + 1) ELSE pc[t]]
    /\ result' = [t \in Tasks |-> IF t \in ts /\ at[t] = N THEN "servfail" ELSE result[t]]

Begin(t) ==
    /\ pc' = [pc EXCEPT ![t] = StepAt(1)]
    /\ at' = [at EXCEPT ![t] = 1]
    /\ result' = [result EXCEPT ![t] = "none"]
    /\ seen' = [seen EXCEPT ![t] = Failures]

Ask(a) ==
    /\ pc[a] = "idle"
    /\ asks < MaxAsks
    /\ asks' = asks + 1
    /\ Begin(a)
    /\ UNCHANGED <<known, health, flight, host, ipQueue, flips>>

\* client.Do with the address at hand
Respond(t) ==
    /\ pc[t] = "request"
    /\ health[at[t]] # "down"
    /\ pc' = [pc EXCEPT ![t] = "reply"]
    /\ result' = [result EXCEPT ![t] = IF health[at[t]] = "up" THEN "answer" ELSE "servfail"]
    /\ UNCHANGED <<known, health, at, flight, host, ipQueue, asks, flips, seen>>

\* An error, a status other than 200, or the timeout of 5 seconds
RequestFails(t) ==
    /\ pc[t] = "request"
    /\ health[at[t]] = "down"
    /\ MoveOn({t})
    /\ UNCHANGED <<known, health, flight, host, ipQueue, asks, flips, seen>>

Waiting(i) == {t \in Tasks : pc[t] = "dial" /\ at[t] = i}

\* The first to need the name asks this server for it
StartLookup(l, i) ==
    /\ pc[l] = "idle"
    /\ flight[i] = None
    /\ Waiting(i) # {}
    /\ flight' = [flight EXCEPT ![i] = l]
    /\ host' = [host EXCEPT ![l] = i]
    /\ Begin(l)
    /\ UNCHANGED <<known, health, ipQueue, asks, flips>>

NoTimeout(t) ==             \* mutant: http.Client without a Timeout
    /\ FALSE
    /\ UNCHANGED vars

\* The timeout strikes while the name is being looked up
DialTimeout(t) ==
    /\ pc[t] = "dial"
    /\ MoveOn({t})
    /\ flight' = [flight EXCEPT ![at[t]] = IF Waiting(at[t]) = {t} THEN None ELSE @]
    /\ UNCHANGED <<known, health, host, ipQueue, asks, flips, seen>>

\* The reply to a lookup that is still wanted: those who wait for it connect, or go on
ReplyLookup(l) ==
    LET i == host[l]
        waiters == IF flight[i] = l THEN Waiting(i) ELSE {}
    IN
    /\ pc[l] = "reply"
    /\ IF result[l] = "answer"
       THEN /\ pc' = [t \in Tasks |-> IF t = l THEN "idle" ELSE IF t \in waiters THEN "request" ELSE pc[t]]
            /\ UNCHANGED <<at, result>>
       ELSE /\ at' = [t \in Tasks |-> IF t \in waiters THEN at[t] + 1 ELSE at[t]]
            /\ pc' = [t \in Tasks |-> IF t = l THEN "idle"
                                      ELSE IF t \in waiters THEN StepAt(i + 1) ELSE pc[t]]
            /\ result' = [t \in Tasks |-> IF t \in waiters /\ i = N THEN "servfail" ELSE result[t]]
    /\ flight' = [flight EXCEPT ![i] = IF @ = l THEN None ELSE @]
    /\ host' = [host EXCEPT ![l] = None]
    /\ UNCHANGED <<known, health, ipQueue, asks, flips, seen>>

\* WriteMsg to the app; its addresses are queued only afterwards
Reply(a) ==
    /\ pc[a] = "reply"
    /\ pc' = [pc EXCEPT ![a] = IF result[a] = "answer" THEN "push" ELSE "idle"]
    /\ at' = [at EXCEPT ![a] = 1]
    /\ result' = [result EXCEPT ![a] = "none"]
    /\ seen' = [seen EXCEPT ![a] = {}]
    /\ UNCHANGED <<known, health, flight, host, ipQueue, asks, flips>>

PushFirst(a) ==             \* mutant: only the first record of an answer is queued
    /\ pc[a] = "push"
    /\ pc' = [pc EXCEPT ![a] = "idle"]
    /\ \E ip \in Answer[DomainOf[a]] : ipQueue' = [ipQueue EXCEPT ![ip] = Append(@, DomainOf[a])]
    /\ UNCHANGED <<known, health, at, result, flight, host, asks, flips, seen>>

\* All addresses of the answer under one lock
Push(a) ==
    LET d == DomainOf[a] IN
    /\ pc[a] = "push"
    /\ pc' = [pc EXCEPT ![a] = "idle"]
    /\ ipQueue' = [ip \in IPs |-> IF ip \in Answer[d] THEN Append(ipQueue[ip], d) ELSE ipQueue[ip]]
    /\ UNCHANGED <<known, health, at, result, flight, host, asks, flips, seen>>

\* A connection that the TUN handler intercepts takes the oldest name of its address
PopDomain(ip) ==
    /\ ipQueue[ip] # <<>>
    /\ ipQueue' = [ipQueue EXCEPT ![ip] = Tail(@)]
    /\ UNCHANGED <<known, health, pc, at, result, flight, host, asks, flips, seen>>

\* An upstream comes or goes
Flip(i) ==
    /\ flips < MaxFlips
    /\ flips' = flips + 1
    /\ \E h \in {"up", "down", "bad"} \ {health[i]} : health' = [health EXCEPT ![i] = h]
    /\ seen' = [t \in Tasks |-> IF health'[i] # "up" THEN seen[t] \cup {<<i, health'[i]>>} ELSE seen[t]]
    /\ UNCHANGED <<known, pc, at, result, flight, host, ipQueue, asks>>

Handle(t) == Respond(t) \/ RequestFails(t) \/ DialTimeout(t)

Next ==
    \/ \E a \in Apps : Ask(a) \/ Reply(a) \/ Push(a)
    \/ \E t \in Tasks : Handle(t)
    \/ \E l \in Lookups : ReplyLookup(l) \/ \E i \in Upstreams : StartLookup(l, i)
    \/ \E ip \in IPs : PopDomain(ip)
    \/ \E i \in Upstreams : Flip(i)

Spec == Init /\ [][Next]_vars

\* Every handler goroutine runs on, every request ends by its timeout
FairSpec ==
    /\ Spec
    /\ \A a \in Apps : WF_vars(Handle(a)) /\ WF_vars(Reply(a)) /\ WF_vars(Push(a))
    /\ \A l \in Lookups : WF_vars(Handle(l)) /\ WF_vars(ReplyLookup(l))

-----------------------------------------------------------------------------
(***************************************************************************)
(* Properties.                                                             *)
(***************************************************************************)

\* Every query is replied to, also when the server waits for itself
\* (DoHClient's timeout, fallbackResolver.Resolve, handleQuery).
Answered == \A a \in Apps : pc[a] # "idle" ~> pc[a] = "idle"

\* A query fails only if every upstream with a known address was down at some
\* time of the query, or one sent no DNS message: one healthy upstream is
\* enough, whatever the dead ones before it do (fallbackResolver.Resolve).
HealthyIsEnough ==
    \A t \in Tasks : pc[t] = "reply" /\ result[t] = "servfail" =>
        \/ \A i \in known : <<i, "down">> \in seen[t]
        \/ \E i \in Upstreams : <<i, "bad">> \in seen[t]

\* Addresses that come in the same answers carry the same names in the same
\* order; they differ only by what connections have taken (handleQuery's
\* lock region, PopDomain).
Suffix(s, u) == Len(s) <= Len(u) /\ s = SubSeq(u, Len(u) - Len(s) + 1, Len(u))
Twins == {p \in IPs \X IPs : \A d \in Domains : p[1] \in Answer[d] <=> p[2] \in Answer[d]}
QueuesAgree ==
    \A p \in Twins : Suffix(ipQueue[p[1]], ipQueue[p[2]]) \/ Suffix(ipQueue[p[2]], ipQueue[p[1]])

=============================================================================
