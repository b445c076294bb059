----------------------------- MODULE Configuration -----------------------------
(***************************************************************************)
(* From the flags of `gecit router` to the configuration the engine runs   *)
(* with (cmd/gecit/app/router.go, pkg/router/config.go) and the parts of   *)
(* the rules that depend on it (nftables.go).  Flags that only name things *)
(* are reduced to how they are classified, lists of ports to their sets.   *)
(***************************************************************************)
EXTENDS Integers

CONSTANTS
    QueueNums, Marks, PortLists, FakeTTLs, FlowLimits,  \* values given to the flags
    MaxFlags        \* bound: flags given at once

(* The types of the flags, uint32 for the mark. *)
ASSUME ConfigAssumption ==
    /\ QueueNums \cup Marks \subseteq Nat
    /\ PortLists \subseteq SUBSET Int
    /\ FakeTTLs \cup FlowLimits \subseteq Int
    /\ MaxFlags \in Nat

(* How the code tells names and strings apart; "blank" is white space. *)
WanNames == {"", "blank", "name"}
TableNames == {"", "valid", "invalid"}
Backends == {"nfqueue", "dryrun", "", "other"}      \* lower case, trimmed

DefaultFlags ==
    [wan |-> "", table |-> "", backend |-> "nfqueue", queueNum |-> 0, mark |-> 0,
     tcpPorts |-> {443}, udpPorts |-> {443}, quic |-> FALSE, postnat |-> TRUE,
     fakeTTL |-> 8, maxFlows |-> 4096]

Values ==
    [wan |-> WanNames, table |-> TableNames, backend |-> Backends, queueNum |-> QueueNums,
     mark |-> Marks, tcpPorts |-> PortLists, udpPorts |-> PortLists, quic |-> BOOLEAN,
     postnat |-> BOOLEAN, fakeTTL |-> FakeTTLs, maxFlows |-> FlowLimits]

(* strings.TrimSpace *)
Trim(s) == IF s = "blank" THEN "" ELSE s

ValidPort(v) == 0 < v /\ v <= 65535

(* uint16, and the conversion to it *)
Uint16s == {n \in Nat : n < 65536}
Uint16(v) == v % 65536

intSliceToPortsWrap(values) ==      \* mutant: ports are truncated to 16 bits
    {Uint16(v) : v \in values}

(* Ports out of range are dropped. *)
intSliceToPorts(values) == {v \in values : ValidPort(v)}

(* The queue number is truncated to 16 bits. *)
routerConfigFromFlags(f) ==
    [wan |-> f.wan, table |-> f.table, backend |-> f.backend, queueNum |-> Uint16(f.queueNum),
     mark |-> f.mark, tcpPorts |-> intSliceToPorts(f.tcpPorts),
     udpPorts |-> intSliceToPorts(f.udpPorts), quic |-> f.quic, postnat |-> f.postnat,
     fakeTTL |-> f.fakeTTL, maxFlows |-> f.maxFlows]

(* What stands for a field left at zero. *)
DefaultConfig ==
    [table |-> "valid", backend |-> "nfqueue", queueNum |-> 200, mark |-> 1073741824,
     tcpPorts |-> {443}, udpPorts |-> {443}, fakeTTL |-> 8, maxFlows |-> 4096]

Or(v, none, default) == IF v = none THEN default ELSE v

Normalized(c) ==
    [wan |-> Trim(c.wan), table |-> Or(c.table, "", DefaultConfig.table),
     backend |-> Or(c.backend, "", DefaultConfig.backend),
     queueNum |-> Or(c.queueNum, 0, DefaultConfig.queueNum),
     mark |-> Or(c.mark, 0, DefaultConfig.mark),
     tcpPorts |-> Or(c.tcpPorts, {}, DefaultConfig.tcpPorts),
     udpPorts |-> Or(c.udpPorts, {}, DefaultConfig.udpPorts),
     quic |-> c.quic, postnat |-> c.postnat,
     fakeTTL |-> Or(c.fakeTTL, 0, DefaultConfig.fakeTTL),
     maxFlows |-> Or(c.maxFlows, 0, DefaultConfig.maxFlows)]

validatePorts(ports) == 0 \notin ports

Valid(config) ==
    LET c == Normalized(config) IN
    /\ c.backend \in {"nfqueue", "dryrun"}
    /\ c.wan # ""
    /\ c.table = "valid"
    /\ validatePorts(c.tcpPorts)
    /\ c.quic => validatePorts(c.udpPorts)
    /\ c.tcpPorts # {} \/ (c.quic /\ c.udpPorts # {})
    /\ c.fakeTTL \in 1..255
    /\ c.maxFlows >= 1

(* The rules: which packets are queued, and where. *)
BuildRuleSet(config) ==
    LET c == Normalized(config) IN
    [queue |-> c.queueNum, mark |-> c.mark,
     tcp |-> c.tcpPorts, udp |-> IF c.quic THEN c.udpPorts ELSE {}]

-----------------------------------------------------------------------------
VARIABLES flags, given      \* the flags' values; how many were given
configVars == <<flags, given>>

ConfigInit == flags = DefaultFlags /\ given = 0

GiveFlag ==
    /\ given < MaxFlags
    /\ given' = given + 1
    /\ \E name \in DOMAIN Values : \E v \in Values[name] :
        flags' = [flags EXCEPT ![name] = v]

ConfigSpec == ConfigInit /\ [][GiveFlag]_configVars

-----------------------------------------------------------------------------
Asked(ports) == {v \in ports : ValidPort(v)}

(***************************************************************************)
(* A configuration that is accepted works: normalising it again, as plan,  *)
(* engine and processor each do, changes nothing, so rules and processor   *)
(* agree; a queue, a mark and ports that exist; and every value given in   *)
(* its range is in force.  What is out of range is refused or, for ports   *)
(* and queue numbers, silently replaced, never put to use as it is.        *)
(***************************************************************************)
ConfigSound ==
    LET c == Normalized(routerConfigFromFlags(flags))
        rules == BuildRuleSet(c)
    IN  Valid(c) =>
        /\ Normalized(c) = c
        /\ rules.queue \in Uint16s \ {0} /\ rules.mark > 0
        /\ rules.tcp # {} /\ \A p \in rules.tcp \cup rules.udp : ValidPort(p)
        /\ flags.queueNum \in Uint16s \ {0} => rules.queue = flags.queueNum
        /\ flags.mark > 0 => rules.mark = flags.mark
        /\ rules.tcp = Or(Asked(flags.tcpPorts), {}, DefaultConfig.tcpPorts)
        /\ flags.quic /\ Asked(flags.udpPorts) # {} => rules.udp = Asked(flags.udpPorts)
        /\ flags.fakeTTL # 0 => c.fakeTTL = flags.fakeTTL
        /\ flags.maxFlows # 0 => c.maxFlows = flags.maxFlows
=============================================================================
