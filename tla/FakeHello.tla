------------------------------- MODULE FakeHello -------------------------------
(***************************************************************************)
(* The fake ClientHello (pkg/fake/clienthello.go), byte for byte except    *)
(* for the random ones, and the check router mode makes of a payload       *)
(* (LooksLikeTLSClientHello, pkg/router/packet.go).                        *)
(***************************************************************************)
EXTENDS SniParser, SequencesExt

CONSTANTS
    Profiles,   \* clientHelloProfiles
    Noise       \* a byte that stands for the random ones

ClientHelloProfile ==
    [ServerName : Seq(0..255), CipherSuites : Seq(Nat), SupportedGroups : Seq(Nat),
     SignatureAlgorithms : Seq(Nat), SupportedVersions : Seq(Nat), ALPN : Seq(Seq(0..255)),
     KeyShareGroup : Nat, ExtensionOrder : Seq(Nat)]

(* The types of extensions. *)
extServerName == 0
extSupportedGroups == 10
extECPointFormats == 11
extSignatureAlgs == 13
extALPN == 16
extSupportedVersions == 43
extPSKModes == 45
extKeyShare == 51

appendUint16(v) == <<(v \div 256) % 256, v % 256>>
Concat(f(_), s) == FlattenSeq([k \in DOMAIN s |-> f(s[k])])
Bytes(n) == [k \in 1..n |-> Noise]

appendUint16List(vs) == appendUint16(2 * Len(vs)) \o Concat(appendUint16, vs)
Prefixed16(s) == appendUint16(Len(s)) \o s
Prefixed8(s) == <<Len(s) % 256>> \o s

serverNameExtensionOff(name) ==     \* mutant: the list's length leaves out its header
    Prefixed16(name) \o <<0>> \o Prefixed16(name)

serverNameExtension(name) == Prefixed16(<<0>> \o Prefixed16(name))
alpnExtension(protocols) == Prefixed16(Concat(Prefixed8, protocols))
versionExtension(versions) == Prefixed8(Concat(appendUint16, versions))
keyShareExtension(group, key) == Prefixed16(appendUint16(group) \o Prefixed16(key))

appendExtension(p, type) ==
    LET ext(bytes) == appendUint16(type) \o Prefixed16(bytes) IN
    CASE type = extServerName        -> ext(serverNameExtension(p.ServerName))
      [] type = extSupportedGroups   -> ext(appendUint16List(p.SupportedGroups))
      [] type = extECPointFormats    -> ext(<<1, 0>>)
      [] type = extSignatureAlgs     -> ext(appendUint16List(p.SignatureAlgorithms))
      [] type = extALPN              -> IF p.ALPN = <<>> THEN <<>>
                                        ELSE ext(alpnExtension(p.ALPN))
      [] type = extSupportedVersions -> ext(versionExtension(p.SupportedVersions))
      [] type = extPSKModes          -> ext(<<1, 1>>)
      [] type = extKeyShare          -> ext(keyShareExtension(p.KeyShareGroup, Bytes(32)))
      [] OTHER                       -> <<>>

ClientHelloBody(p) ==
    <<3, 3>> \o Bytes(32) \o Prefixed8(Bytes(32)) \o appendUint16List(p.CipherSuites)
        \o <<1, 0>> \o Prefixed16(Concat(LAMBDA t : appendExtension(p, t), p.ExtensionOrder))

buildClientHello(p) ==
    LET body == ClientHelloBody(p)
    IN  <<22, 3, 1>> \o Prefixed16(<<1, (Len(body) \div 65536) % 256>> \o Prefixed16(body))

(* A profile names a server, and its hello fits a TLS record. *)
ASSUME ProfilesAssumption ==
    /\ Noise \in 0..255
    /\ Profiles \subseteq ClientHelloProfile
    /\ \A p \in Profiles :
        /\ \E k \in DOMAIN p.ExtensionOrder : p.ExtensionOrder[k] = extServerName
        /\ Len(buildClientHello(p)) < 5 + 65536

LooksLikeTLSClientHello(payload) ==
    /\ Len(payload) >= 9
    /\ payload[1] = 22 /\ payload[2] = 3 /\ payload[6] = 1
    /\ LET recordLen == 256 * payload[4] + payload[5]
       IN  4 <= recordLen /\ 5 + recordLen <= Len(payload)
    /\ 65536 * payload[7] + 256 * payload[8] + payload[9] > 0

-----------------------------------------------------------------------------
Hellos == [p \in Profiles |-> buildClientHello(p)]

Cut(s) == SubSeq(s, 1, Len(s) - 1)

(***************************************************************************)
(* gecit's own parsers understand the fake it builds, as the DPI they      *)
(* stand for has to: every profile's ClientHello is one to router mode,    *)
(* ParseSNI finds its name in it, also if more data follows, and neither   *)
(* accepts any part of it from which the end is missing.                   *)
(***************************************************************************)
HelloUnderstood ==
    label \in Ends =>
        \A p \in Profiles :
            LET hello == Hellos[p]
                whole == Len(hello) <= Len(data)
            IN  IsPrefix(hello, data) \/ IsPrefix(data, hello) =>
                    /\ label = (IF whole THEN "found" ELSE "none")
                    /\ whole => ParseSNI = p.ServerName
                    /\ LooksLikeTLSClientHello(data) <=> whole
=============================================================================
