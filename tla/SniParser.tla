------------------------------- MODULE SniParser -------------------------------
(***************************************************************************)
(* ParseSNI (pkg/fake/sni.go): the server name in a TLS ClientHello, which *)
(* the handler of the TUN engine calls on the first bytes of a connection. *)
(* Nothing recovers from a panic there, so a slice out of range would end  *)
(* the process.  One step per length field; a slice of a slice is the      *)
(* window from pos to end of the data, indices from 0 as in Go.            *)
(***************************************************************************)
EXTENDS Integers, Sequences

CONSTANT Inputs     \* the data ParseSNI is called with

ASSUME InputsAssumption == Inputs \subseteq Seq(0..255)

VARIABLES
    data,       \* the argument
    label,      \* the field to be read next, or how the call has ended
    pos, end    \* the window that is left

parserVars == <<data, label, pos, end>>

Fields == {"record", "handshake", "random", "session", "ciphers", "compression",
           "extensions", "extension", "names", "name"}
Ends == {"found", "none", "panic"}

ParserTypeOK ==
    /\ data \in Seq(0..255)
    /\ label \in Fields \cup Ends
    /\ pos \in Nat
    /\ end \in Nat

ParserInit ==
    /\ data \in Inputs
    /\ label = "record"
    /\ pos = 0
    /\ end = Len(data)

Byte(i) == data[i + 1]
Word(i) == 256 * Byte(i) + Byte(i + 1)
Word3(i) == 65536 * Byte(i) + Word(i + 1)
Left == end - pos

(***************************************************************************)
(* How a step ends.  Enter takes a window out of the current one, Skip     *)
(* moves on in it: a panic if a window ends outside the one it is taken    *)
(* from, as Go's is at the latest at the end of the array behind it; a     *)
(* position may lie anywhere until a byte is read there.                   *)
(***************************************************************************)
Return(how) == label' = how /\ UNCHANGED <<data, pos, end>>

Enter(l, from, to) ==
    IF from <= to /\ to <= end
    THEN label' = l /\ pos' = from /\ end' = to /\ UNCHANGED data
    ELSE Return("panic")

Skip(l, to) == label' = l /\ pos' = to /\ UNCHANGED <<data, end>>

(* A field: its bytes are read if the guard of the code lets them. *)
Field(l, guard, bytes, step) ==
    /\ label = l
    /\ IF ~guard THEN Return("none")
       ELSE IF pos + bytes > end THEN Return("panic")
       ELSE step

Record ==
    Field("record", Left >= 5 /\ Byte(0) = 22, 5,
        LET recordLen == Word(3) IN
        IF Len(data) < 5 + recordLen THEN Return("none")
        ELSE Enter("handshake", 5, 5 + recordLen))

Handshake ==
    Field("handshake", Left >= 4 /\ Byte(pos) = 1, 4,
        LET hsLen == Word3(pos + 1) IN
        IF Left < 4 + hsLen THEN Return("none")
        ELSE Enter("random", pos + 4, pos + 4 + hsLen))

Random == Field("random", Left >= 34, 0, Skip("session", pos + 34))

SessionID == Field("session", Left > 0, 1, Skip("ciphers", pos + 1 + Byte(pos)))

CipherSuites ==
    Field("ciphers", Left >= 2, 2, Skip("compression", pos + 2 + Word(pos)))

Compression ==
    Field("compression", Left > 0, 1, Skip("extensions", pos + 1 + Byte(pos)))

Extensions ==
    Field("extensions", Left >= 2, 2,
        LET extLen == Word(pos) IN
        IF Left < 2 + extLen THEN Return("none")
        ELSE Enter("extension", pos + 2, pos + 2 + extLen))

ExtensionUnchecked ==       \* mutant: the extension's length is trusted
    Field("extension", Left >= 4, 4,
        LET last == pos + 4 + Word(pos + 2) IN
        IF Word(pos) = 0 THEN Enter("names", pos + 4, last)
        ELSE Enter("extension", last, end))

Extension ==
    Field("extension", Left >= 4, 4,
        LET last == pos + 4 + Word(pos + 2) IN
        IF last > end THEN Return("none")
        ELSE IF Word(pos) = 0 THEN Enter("names", pos + 4, last)
        ELSE Enter("extension", last, end))

Names ==
    Field("names", Left >= 2, 2,
        LET listLen == Word(pos) IN
        IF Left < 2 + listLen THEN Return("none")
        ELSE Enter("name", pos + 2, pos + 2 + listLen))

Name ==
    Field("name", Left >= 3, 3,
        LET last == pos + 3 + Word(pos + 1) IN
        IF last > end THEN Return("none")
        ELSE IF Byte(pos) = 0 THEN Enter("found", pos + 3, last)
        ELSE Enter("name", last, end))

ParserNext ==
    \/ Record \/ Handshake \/ Random \/ SessionID \/ CipherSuites \/ Compression
    \/ Extensions \/ Extension \/ Names \/ Name

ParserSpec == ParserInit /\ [][ParserNext]_parserVars

-----------------------------------------------------------------------------
ParseSNI == IF label = "found" THEN SubSeq(data, pos + 1, end) ELSE <<>>

(***************************************************************************)
(* Whatever bytes arrive, no read or slice is out of range, and a name     *)
(* that is found lies in the record the data declares and holds: a panic   *)
(* in a connection's handler would end the process with the host's DNS     *)
(* redirected to it.                                                       *)
(***************************************************************************)
NeverPanics ==
    /\ label # "panic"
    /\ label = "found" => pos <= end /\ end <= 5 + Word(3) /\ 5 + Word(3) <= Len(data)
=============================================================================
