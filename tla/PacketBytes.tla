------------------------------ MODULE PacketBytes ------------------------------
(***************************************************************************)
(* BuildPacket (pkg/rawsock/rawsock.go): the IPv4 and TCP headers of a     *)
(* fake and their checksums, byte for byte.                                *)
(***************************************************************************)
EXTENDS Integers, Sequences

CONSTANTS
    Conns,          \* connections: addresses, Seq, Ack of 4 bytes, ports of 2
    TTLs,           \* values of --fake-ttl
    PayloadBytes,   \* bytes a payload is made of
    MaxPayload      \* bound: bytes of a payload

ConnInfo ==
    [SrcIP : [1..4 -> 0..255], DstIP : [1..4 -> 0..255], SrcPort : [1..2 -> 0..255],
     DstPort : [1..2 -> 0..255], Seq : [1..4 -> 0..255], Ack : [1..4 -> 0..255]]

(* IPv4: the length of a packet fits 16 bits. *)
ASSUME PacketAssumption ==
    /\ Conns \subseteq ConnInfo
    /\ TTLs \subseteq Int
    /\ PayloadBytes \subseteq 0..255
    /\ MaxPayload \in Nat /\ 40 + MaxPayload < 65536

(* The high and low byte of a uint16; the value is truncated to 16 bits. *)
Put(v) == <<(v \div 256) % 256, v % 256>>
PutLittle(v) == <<v % 256, (v \div 256) % 256>>

(* The sums of a sequence's beginnings, and of all of it. *)
Sums(ns) ==
    LET sum[k \in 0..Len(ns)] == IF k = 0 THEN 0 ELSE sum[k - 1] + ns[k]
    IN  sum

Total(ns) == Sums(ns)[Len(ns)]

Words(d) == [k \in 1..(Len(d) \div 2) |-> 256 * d[2 * k - 1] + d[2 * k]]

WordSumEven(d) == Total(Words(d))   \* mutant: the last byte of an odd length is left out

(* The sum of the 16-bit words; an odd last byte is the high one of a word. *)
WordSum(d) == Total(Words(d)) + (IF Len(d) % 2 = 0 THEN 0 ELSE 256 * d[Len(d)])

(* Carries are added back until none is left: twice is enough for 2^31. *)
Fold(sum) == (sum % 65536) + (sum \div 65536)
Checksum(d) == 65535 - Fold(Fold(WordSum(d)))

Patch(h, at, v) == [h EXCEPT ![at] = Put(v)[1], ![at + 1] = Put(v)[2]]

buildTCPHeader(c) ==
    c.SrcPort \o c.DstPort \o c.Seq \o c.Ack \o <<80, 24>> \o Put(502) \o <<0, 0, 0, 0>>

(* On macOS the total length and the ID are in host byte order. *)
buildIPHeader(c, ttl, payloadLen, bsd) ==
    LET put(v) == IF bsd THEN PutLittle(v) ELSE Put(v)
        h == <<69, 0>> \o put(20 + payloadLen) \o put(4660) \o <<0, 0, ttl % 256, 6, 0, 0>>
             \o c.SrcIP \o c.DstIP
    IN  Patch(h, 11, Checksum(h))

(* The bytes the TCP checksum covers besides the segment. *)
PseudoHeader(c, length) == c.SrcIP \o c.DstIP \o <<0, 6>> \o Put(length)

BuildPacket(c, payload, ttl, bsd) ==
    LET segment == buildTCPHeader(c) \o payload
        cs == Checksum(PseudoHeader(c, Len(segment)) \o segment)
    IN  buildIPHeader(c, ttl, Len(segment), bsd) \o Patch(segment, 17, cs)

-----------------------------------------------------------------------------
VARIABLES conn, payload, ttl, bsd       \* the arguments of a call, the platform
packetVars == <<conn, payload, ttl, bsd>>

PacketInit ==
    /\ conn \in Conns
    /\ payload = <<>>
    /\ ttl \in TTLs
    /\ bsd \in BOOLEAN

(* Payloads of every length up to the bound. *)
Lengthen ==
    /\ Len(payload) < MaxPayload
    /\ \E b \in PayloadBytes : payload' = Append(payload, b)
    /\ UNCHANGED <<conn, ttl, bsd>>

PacketSpec == PacketInit /\ [][Lengthen]_packetVars

-----------------------------------------------------------------------------
(* RFC 1071: a receiver's sum over data and checksum is all ones, which is *)
(* to say that the words add up to a multiple of 65535 other than zero.    *)
Verifies(d) ==
    LET sum == Total([i \in 1..Len(d) |-> IF i % 2 = 1 THEN 256 * d[i] ELSE d[i]])
    IN  sum > 0 /\ sum % 65535 = 0

(***************************************************************************)
(* Every fake is a packet that middleboxes accept as part of the           *)
(* connection: both checksums verify, of odd payloads as of even ones, the *)
(* length is that of the packet, and it carries the connection's addresses,*)
(* ports and numbers at their places.  Its TTL is the one that was asked   *)
(* for; `gecit run` checks no bound, and what exceeds a byte wraps.        *)
(***************************************************************************)
PacketSound ==
    LET p == BuildPacket(conn, payload, ttl, bsd)
        segment == SubSeq(p, 21, Len(p))
    IN  /\ Len(p) = 40 + Len(payload)
        /\ SubSeq(p, 3, 4) = (IF bsd THEN PutLittle(Len(p)) ELSE Put(Len(p)))
        /\ Verifies(SubSeq(p, 1, 20))
        /\ Verifies(PseudoHeader(conn, Len(segment)) \o segment)
        /\ SubSeq(p, 13, 32) = conn.SrcIP \o conn.DstIP \o conn.SrcPort \o conn.DstPort
                               \o conn.Seq \o conn.Ack
        /\ ttl \in 0..255 => p[9] = ttl
        /\ SubSeq(p, 41, Len(p)) = payload
=============================================================================
