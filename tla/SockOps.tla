-------------------------------- MODULE SockOps --------------------------------
(***************************************************************************)
(* The sock_ops program pkg/ebpf/bpf/src/sockops.go, the maps it shares    *)
(* with the manager, and the host's outgoing TCP connections it runs on.   *)
(*                                                                         *)
(* The kernel calls GecitSockops when a connection is established and, if  *)
(* the connection's callback flag is set, for every segment it sends.      *)
(* That the second call is made for every segment is what the program's    *)
(* comment says of the kernel; it is assumed here, not shown.              *)
(*                                                                         *)
(* The program ignores the results of the calls it makes on a connection,  *)
(* and the kernel may refuse each of them alone: an MSS below its minimum  *)
(* (the manager's default of 40 is one), an entry it has no room for.      *)
(***************************************************************************)
EXTENDS Naturals, Sequences, FiniteSets

CONSTANTS
    Conns,          \* socket cookies: one per connection, never reused
    IPs, Ports,     \* destinations
    RemoteIp4,      \* [Conns -> IPs]
    RemotePort,     \* [Conns -> Ports]
    RestoreAfterBytes,
    MaxEntries,     \* capacity of the Connections map (65536 in the code)
    RingSize,       \* events the perf ring holds
    SegLens,        \* payload lengths of segments
    Refusable,      \* bound: connections of which the kernel may refuse calls
    MaxWire         \* bound, [Conns -> Nat]: bytes a connection sends in all

ASSUME SockOpsAssumption ==
    /\ RemoteIp4 \in [Conns -> IPs]
    /\ RemotePort \in [Conns -> Ports]
    /\ RestoreAfterBytes \in Nat
    /\ MaxEntries \in Nat \ {0}
    /\ RingSize \in Nat
    /\ SegLens \subseteq Nat
    /\ Refusable \subseteq Conns
    /\ MaxWire \in [Conns -> Nat]

VARIABLES
    attached,       \* the program is attached to the cgroup
    enabled,        \* ConfigMap[0].Enabled
    targetPorts,    \* keys of TargetPorts
    excludeIps,     \* keys of ExcludeIps
    tracked,        \* keys of Connections, MssRestored still 0
    bytesSent,      \* Connections[c].BytesSent, per tracked connection
    reading,        \* a perf reader has the ring buffer of ConnEvents open
    events,         \* the ring buffer: connections whose event is unread
    state,          \* per connection: "new", "established" or "closed"
    mss,            \* per connection: "default", "small" or "normal"
    writeHdrFlag,   \* per connection: the WRITE_HDR_OPT callback flag
    wire,           \* per connection: payload bytes sent, retransmissions too
    refused,        \* history: per connection, the calls the kernel refused
    forgotten       \* history: connections whose entry was evicted or detached

mapVars  == <<enabled, targetPorts, excludeIps, tracked, bytesSent>>
ringVars == <<reading, events>>
connVars == <<state, mss, writeHdrFlag, wire, refused>>
sockOpsVars == <<attached, mapVars, ringVars, connVars, forgotten>>

(* setsockopt, Connections.Update and the two changes of the callback flags. *)
EstablishedCalls == {"shrink", "entry", "flag"}
RestoreCalls     == {"restore", "unflag"}

SockOpsTypeOK ==
    /\ attached \in BOOLEAN
    /\ enabled \in BOOLEAN
    /\ targetPorts \subseteq Ports
    /\ excludeIps \subseteq IPs
    /\ tracked \subseteq Conns
    /\ bytesSent \in [Conns -> Nat]
    /\ reading \in BOOLEAN
    /\ events \in Seq(Conns)
    /\ state \in [Conns -> {"new", "established", "closed"}]
    /\ mss \in [Conns -> {"default", "small", "normal"}]
    /\ writeHdrFlag \in [Conns -> BOOLEAN]
    /\ wire \in [Conns -> Nat]
    /\ refused \in [Conns -> SUBSET (EstablishedCalls \cup RestoreCalls)]
    /\ forgotten \subseteq Conns

SockOpsInit ==
    /\ attached = FALSE
    /\ enabled = FALSE
    /\ targetPorts = {} /\ excludeIps = {}
    /\ tracked = {} /\ bytesSent = [c \in Conns |-> 0]
    /\ reading = FALSE /\ events = <<>>
    /\ state = [c \in Conns |-> "new"]
    /\ mss = [c \in Conns |-> "default"]
    /\ writeHdrFlag = [c \in Conns |-> FALSE]
    /\ wire = [c \in Conns |-> 0]
    /\ refused = [c \in Conns |-> {}]
    /\ forgotten = {}

-----------------------------------------------------------------------------
(* GecitSockops runs, and does not return before its dispatch. *)
Active == attached /\ enabled

(***************************************************************************)
(* ConnEvents.Output: the event is lost when nobody has opened the ring or *)
(* the ring is full.                                                       *)
(***************************************************************************)
Output(c) ==
    events' = IF reading /\ Len(events) < RingSize THEN Append(events, c) ELSE events

(***************************************************************************)
(* Connections.Update.  The LRU map makes room by evicting entries of the  *)
(* kernel's choice, some of them before it is full.                        *)
(***************************************************************************)
Update(c) ==
    /\ bytesSent' = [bytesSent EXCEPT ![c] = 0]
    /\ \E old \in SUBSET tracked :
          /\ tracked' = (tracked \ old) \cup {c}
          /\ Cardinality(tracked') <= MaxEntries
          /\ forgotten' = forgotten \cup old

Intercepts(c) ==
    Active /\ RemoteIp4[c] \notin excludeIps /\ RemotePort[c] \in targetPorts

(* Which of the calls the kernel may refuse c. *)
Refusals(c, calls) == IF c \in Refusable THEN SUBSET calls ELSE {{}}

(***************************************************************************)
(* ACTIVE_ESTABLISHED_CB: handleEstablished.  Whatever the kernel refuses, *)
(* the calls that follow are made all the same.                            *)
(***************************************************************************)
Established(c) ==
    /\ state[c] = "new"
    /\ state' = [state EXCEPT ![c] = "established"]
    /\ IF Intercepts(c)
       THEN \E failed \in Refusals(c, EstablishedCalls) :
               /\ mss' = IF "shrink" \in failed THEN mss ELSE [mss EXCEPT ![c] = "small"]
               /\ Output(c)
               /\ IF "entry" \in failed
                  THEN UNCHANGED <<bytesSent, tracked, forgotten>>
                  ELSE Update(c)
               /\ writeHdrFlag' = [writeHdrFlag EXCEPT ![c] = "flag" \notin failed]
               /\ refused' = [refused EXCEPT ![c] = failed]
       ELSE UNCHANGED <<mss, events, bytesSent, tracked, forgotten, writeHdrFlag, refused>>
    /\ UNCHANGED <<attached, enabled, targetPorts, excludeIps, reading, wire>>

(***************************************************************************)
(* The setsockopt that restores the MSS and the call that clears the flag. *)
(***************************************************************************)
RestoreMss(c) ==
    \E failed \in Refusals(c, RestoreCalls) :
        /\ mss' = IF "restore" \in failed THEN mss ELSE [mss EXCEPT ![c] = "normal"]
        /\ writeHdrFlag' = [writeHdrFlag EXCEPT ![c] = "unflag" \in failed]
        /\ refused' = [refused EXCEPT ![c] = @ \cup failed]

(* Mutants: the entry is not deleted; the limit itself restores. *)
WriteHdrOptKeeps(c, n) ==
    /\ bytesSent' = [bytesSent EXCEPT ![c] = bytesSent[c] + n]
    /\ IF c \in tracked /\ bytesSent[c] + n > RestoreAfterBytes
       THEN RestoreMss(c)
       ELSE UNCHANGED <<mss, writeHdrFlag, refused>>
    /\ UNCHANGED tracked

WriteHdrOptAtLimit(c, n) ==
    IF c \in tracked /\ bytesSent[c] + n >= RestoreAfterBytes
    THEN /\ RestoreMss(c)
         /\ tracked' = tracked \ {c}
         /\ UNCHANGED bytesSent
    ELSE /\ bytesSent' = [bytesSent EXCEPT ![c] = bytesSent[c] + n]
         /\ UNCHANGED <<mss, writeHdrFlag, refused, tracked>>

(***************************************************************************)
(* WRITE_HDR_OPT_CB: handleWriteHdrOpt, for a segment of n bytes.  The     *)
(* segment that exceeds the limit forgets the connection, whether its MSS  *)
(* has been restored or not; a connection that is not in the map is left   *)
(* as it is.  (An entry that could not be deleted is marked MssRestored,   *)
(* and is no entry for any callback: tracked does not count it.)           *)
(***************************************************************************)
handleWriteHdrOpt(c, n) ==
    IF c \in tracked
    THEN LET sent == bytesSent[c] + n IN
         /\ bytesSent' = [bytesSent EXCEPT ![c] = sent]
         /\ IF sent > RestoreAfterBytes
            THEN /\ RestoreMss(c)
                 /\ tracked' = tracked \ {c}
            ELSE UNCHANGED <<mss, writeHdrFlag, refused, tracked>>
    ELSE UNCHANGED <<mss, writeHdrFlag, refused, tracked, bytesSent>>

(* The kernel sends a segment of c, a retransmission or a bare ACK too. *)
Segment(c, n) ==
    /\ state[c] = "established"
    /\ wire[c] + n <= MaxWire[c]
    /\ wire' = [wire EXCEPT ![c] = wire[c] + n]
    /\ IF Active /\ writeHdrFlag[c]
       THEN handleWriteHdrOpt(c, n)
       ELSE UNCHANGED <<mss, writeHdrFlag, refused, tracked, bytesSent>>
    /\ UNCHANGED <<attached, enabled, targetPorts, excludeIps, reading, events,
                   state, forgotten>>

(* No callback handles the end of a connection: its entry stays in the map. *)
Close(c) ==
    /\ state[c] = "established"
    /\ state' = [state EXCEPT ![c] = "closed"]
    /\ UNCHANGED <<attached, mapVars, ringVars, mss, writeHdrFlag, wire, refused,
                   forgotten>>

Kernel ==
    \E c \in Conns : \/ Established(c)
                     \/ \E n \in SegLens : Segment(c, n)
                     \/ Close(c)
=============================================================================
