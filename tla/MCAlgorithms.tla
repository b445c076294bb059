------------------------------ MODULE MCAlgorithms ------------------------------
(***************************************************************************)
(* The pure functions of the code, each checked against its reference over *)
(* bounded inputs.  The parts share no state; a behaviour is about one of  *)
(* them while the others stay at their first input.                        *)
(***************************************************************************)
EXTENDS ResolvConfLines, FakeHello, PacketBytes, Configuration

CONSTANT isp
MCServers == {Local, Fallback, isp}

(***************************************************************************)
(* The three profiles in the order and with the counts of the code, names  *)
(* shortened, and one whose server name comes last.                        *)
(***************************************************************************)
Profile(name, ciphers, groups, order) ==
    [ServerName |-> name, CipherSuites |-> [k \in 1..ciphers |-> 4864 + k],
     SupportedGroups |-> [k \in 1..groups |-> 22 + k],
     SignatureAlgorithms |-> <<1027, 2052, 1025>>, SupportedVersions |-> <<772, 771>>,
     ALPN |-> <<<<104, 50>>, <<104>>>>, KeyShareGroup |-> 29, ExtensionOrder |-> order]

MCProfiles ==
    { Profile(<<97, 98, 99>>, 11, 3, <<0, 10, 11, 13, 16, 43, 45, 51>>),
      Profile(<<97, 98, 99, 100>>, 11, 2, <<0, 43, 13, 10, 51, 16, 45, 11>>),
      Profile(<<97, 0, 22>>, 9, 4, <<0, 10, 13, 43, 51, 45, 16, 11>>),
      [Profile(<<1>>, 1, 1, <<16, 10, 77, 0>>) EXCEPT !.ALPN = <<>>] }

(* Every hello whole, cut anywhere, followed by more, with any byte off. *)
Damaged(h) ==
    {h, h \o <<0>>, h \o h}
    \cup {SubSeq(h, 1, n) : n \in 0..Len(h)}
    \cup {[h EXCEPT ![k] = b] : k \in 1..Len(h), b \in {0, 1, 2, 31, 255}}

MCInputs == UNION {Damaged(buildClientHello(p)) : p \in MCProfiles}

MCConns ==
    { [SrcIP |-> <<192, 168, 1, 2>>, DstIP |-> <<1, 1, 1, 1>>, SrcPort |-> <<200, 1>>,
       DstPort |-> <<1, 187>>, Seq |-> <<255, 255, 255, 255>>, Ack |-> <<0, 0, 0, 0>>],
      [SrcIP |-> <<255, 255, 255, 255>>, DstIP |-> <<255, 255, 255, 255>>,
       SrcPort |-> <<255, 255>>, DstPort |-> <<255, 255>>, Seq |-> <<128, 0, 0, 0>>,
       Ack |-> <<255, 255, 0, 255>>] }

MCPortLists == {{}, {0}, {443, 8443}, {70000}, {65536, 80}}
MCFakeTTLs == {-1, 0, 1, 255, 256}
MCFlowLimits == {-1, 0, 1}

-----------------------------------------------------------------------------
(* Each part's first input, at which it rests. *)
Rest ==
    [file |-> <<>>, data |-> <<>>,
     conn |-> CHOOSE c \in Conns : TRUE, flags |-> DefaultFlags]

ResolvRests == file = Rest.file /\ before = Rest.file /\ sets = 0
ParserRests == data = Rest.data /\ label = "record" /\ pos = 0 /\ end = 0
PacketRests == conn = Rest.conn /\ payload = <<>> /\ ttl = 8 /\ bsd = FALSE
ConfigRests == flags = Rest.flags /\ given = 0

AlgInit ==
    \/ Init /\ ParserRests /\ PacketRests /\ ConfigRests
    \/ ResolvRests /\ ParserInit /\ PacketRests /\ ConfigRests
    \/ ResolvRests /\ ParserRests /\ PacketInit /\ ConfigRests
    \/ ResolvRests /\ ParserRests /\ PacketRests /\ ConfigInit

AlgNext ==
    \/ Next /\ ParserRests /\ PacketRests /\ ConfigRests
       /\ UNCHANGED <<parserVars, packetVars, configVars>>
    \/ ParserNext /\ ResolvRests /\ PacketRests /\ ConfigRests
       /\ UNCHANGED <<vars, packetVars, configVars>>
    \/ Lengthen /\ ResolvRests /\ ParserRests /\ ConfigRests
       /\ UNCHANGED <<vars, parserVars, configVars>>
    \/ GiveFlag /\ ResolvRests /\ ParserRests /\ PacketRests
       /\ UNCHANGED <<vars, parserVars, packetVars>>

AlgSpec == AlgInit /\ [][AlgNext]_<<vars, parserVars, packetVars, configVars>>
=============================================================================
