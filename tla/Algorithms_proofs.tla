--------------------------- MODULE Algorithms_proofs ---------------------------
(***************************************************************************)
(* The pure functions, for inputs of any size: the lines of resolv.conf,   *)
(* the router's configuration, BuildPacket, ParseSNI and the fake hello.   *)
(*                                                                         *)
(* Induction over data goes through the least number of a set of           *)
(* naturals (Steps), with which a loop, a recursive function, is shown to  *)
(* be defined (KeptDef, SumsDef, FlatDef) and to compute what it should    *)
(* (SelectFacts, SelectAll, SelectSame; SumsBound, WordSumIs, PatchSum;    *)
(* JoinedType, JoinedAt).                                                  *)
(***************************************************************************)
EXTENDS ResolvConfLines, FakeHello, Configuration, PacketBytes, SequenceTheorems,
        WellFoundedInduction, TLAPS

-----------------------------------------------------------------------------
(* A set of naturals has a least member, and what goes from each number to the next reaches all. *)
LEMMA MinNat ==
    ASSUME NEW B \in SUBSET Nat, B # {}
    PROVE  \E m \in B : \A n \in B : m <= n
  <1> DEFINE R == OpToRel(<, Nat)
  <1>1. \A x, y \in Nat : x < y => <<x, y>> \in R
     BY DEF OpToRel
  <1>2. IsWellFoundedOn(R, Nat)
     BY NatLessThanWellFounded
  <1> HIDE DEF R
  <1>3. \E x \in B : \A y \in B : <<y, x>> \notin R
     BY <1>2, WFMin
  <1>4. PICK m \in B : \A n \in B : <<n, m>> \notin R
     BY <1>3
  <1>5. ASSUME NEW n \in B PROVE ~(n < m)
     <2>1. n \in Nat /\ m \in Nat
        OBVIOUS
     <2>2. <<n, m>> \notin R
        BY <1>4
     <2> QED BY <1>1, <2>1, <2>2, Zenon
  <1>6. \A n \in B : m <= n
     BY <1>5
  <1> QED BY <1>6

(* What holds at 0 and goes from each number to the next holds up to n. *)
LEMMA Steps ==
    ASSUME NEW n \in Nat, NEW G \in SUBSET (0..n), 0 \in G,
           \A k \in 1..n : k - 1 \in G => k \in G
    PROVE  G = 0..n
  <1> DEFINE B == 0..n \ G
  <1>1. SUFFICES ASSUME B # {} PROVE FALSE
    OBVIOUS
  <1>2. B \in SUBSET Nat
    OBVIOUS
  <1>3. PICK m \in B : \A k \in B : m <= k
    BY <1>1, <1>2, MinNat
  <1>4. m \in 1..n /\ m - 1 \in 0..n /\ m - 1 \notin B
    BY <1>3
  <1> QED
    BY <1>3, <1>4

(* Kept is defined: by induction there is a function that meets its equation. *)
LEMMA KeptDef ==
    ASSUME NEW T, NEW f \in Seq(T), NEW S
    PROVE  /\ Kept(f, S)[0] = <<>>
           /\ \A n \in 1..Len(f) :
                 Kept(f, S)[n] = IF f[n] \in S THEN Append(Kept(f, S)[n - 1], f[n])
                                               ELSE Kept(f, S)[n - 1]
  <1> DEFINE Step(g, n) == IF f[n] \in S THEN Append(g[n - 1], f[n]) ELSE g[n - 1]
             Def(g) == [n \in 0..Len(f) |-> IF n = 0 THEN <<>> ELSE Step(g, n)]
             Upto(m) == \E g : /\ g = [n \in 0..m |-> g[n]]
                               /\ g[0] = <<>>
                               /\ \A n \in 1..m : g[n] = Step(g, n)
             G == {m \in 0..Len(f) : Upto(m)}
  <1>0. Len(f) \in Nat
    OBVIOUS
  <1>1. 0 \in G
    <2> DEFINE g == [n \in 0..0 |-> <<>>]
    <2>1. g[0] = <<>> /\ g = [n \in 0..0 |-> g[n]]
      OBVIOUS
    <2> HIDE DEF g
    <2>2. Upto(0)
      BY <2>1
    <2> QED BY <2>2, <1>0
  <1>2. ASSUME NEW m \in 1..Len(f), m - 1 \in G PROVE m \in G
    <2>1. PICK g : /\ g = [n \in 0..m-1 |-> g[n]] /\ g[0] = <<>>
                   /\ \A n \in 1..m-1 : g[n] = Step(g, n)
      BY <1>2
    <2> DEFINE h == [n \in 0..m |-> IF n = m THEN Step(g, m) ELSE g[n]]
    <2>2. h[0] = <<>> /\ h = [n \in 0..m |-> h[n]]
      BY <2>1
    <2>3. ASSUME NEW n \in 1..m PROVE h[n] = Step(h, n)
      <3>1. h[n - 1] = g[n - 1]
        OBVIOUS
      <3>2. CASE n = m
        BY <3>2
      <3>3. CASE n # m
        <4>1. n \in 1..m-1 /\ h[n] = g[n]
          BY <3>3
        <4> QED BY <2>1, <3>1, <4>1
      <3> QED BY <3>1, <3>2, <3>3
    <2> HIDE DEF h
    <2>4. Upto(m)
      BY <2>2, <2>3
    <2> QED BY <2>4
  <1>3. Len(f) \in G
    <2> HIDE DEF G
    <2>1. G \in SUBSET (0..Len(f))
      BY DEF G
    <2> QED BY <1>0, <1>1, <1>2, <2>1, Steps
  <1>4. \E g : g = Def(g)
    <2>1. PICK g : /\ g = [n \in 0..Len(f) |-> g[n]] /\ g[0] = <<>>
                   /\ \A n \in 1..Len(f) : g[n] = Step(g, n)
      BY <1>3
    <2>2. g = Def(g)
      BY <2>1, <1>0
    <2> QED BY <2>2
  <1>5. Kept(f, S) = CHOOSE g : g = Def(g)
    BY Zenon DEF Kept
  <1>6. Kept(f, S) = Def(Kept(f, S))
    <2> HIDE DEF Def
    <2> QED BY <1>4, <1>5
  <1>7. /\ Def(Kept(f, S))[0] = <<>>
        /\ \A n \in 1..Len(f) : Def(Kept(f, S))[n] = Step(Kept(f, S), n)
    BY <1>0
  <1> HIDE DEF Def
  <1>8. Kept(f, S)[0] = <<>> /\ \A n \in 1..Len(f) : Kept(f, S)[n] = Step(Kept(f, S), n)
    BY <1>6, <1>7, Zenon
  <1> QED BY <1>8

(* The lines of f that are in S. *)
LEMMA SelectFacts ==
    ASSUME NEW f \in Seq(Lines), NEW S
    PROVE  /\ Select(f, S) \in Seq(Lines)
           /\ \A l : Contains(Select(f, S), l) <=> l \in S /\ Contains(f, l)
  <1> DEFINE K == Kept(f, S)
             Good(n) == /\ K[n] \in Seq(Lines)
                        /\ \A l : Contains(K[n], l) <=> l \in S /\ \E k \in 1..n : f[k] = l
             G == {n \in 0..Len(f) : Good(n)}
  <1>0. Len(f) \in Nat /\ \A k \in 1..Len(f) : f[k] \in Lines
    OBVIOUS
  <1>1. /\ K[0] = <<>>
        /\ \A n \in 1..Len(f) : K[n] = IF f[n] \in S THEN Append(K[n - 1], f[n]) ELSE K[n - 1]
    BY KeptDef
  <1> HIDE DEF K
  <1>2. 0 \in G
    <2>1. <<>> \in Seq(Lines) /\ \A l : ~Contains(<<>>, l)
      BY DEF Contains
    <2>2. Good(0)
      BY <1>1, <2>1
    <2> QED BY <1>0, <2>2
  <1>3. ASSUME NEW n \in 1..Len(f), n - 1 \in G PROVE n \in G
    <2>1. K[n - 1] \in Seq(Lines) /\ f[n] \in Lines /\ Len(K[n - 1]) \in Nat
      BY <1>0, <1>3
    <2>2. \A l : (\E k \in 1..n : f[k] = l) <=> (l = f[n] \/ \E k \in 1..n - 1 : f[k] = l)
      OBVIOUS
    <2>3. CASE f[n] \in S
      <3>1. K[n] = Append(K[n - 1], f[n])
        BY <1>1, <2>3
      <3>2. \A l : Contains(K[n], l) <=> (l = f[n] \/ Contains(K[n - 1], l))
        BY <2>1, <3>1 DEF Contains
      <3>3. K[n] \in Seq(Lines)
        BY <2>1, <3>1
      <3> QED BY <1>3, <2>2, <2>3, <3>2, <3>3
    <2>4. CASE f[n] \notin S
      <3>1. K[n] = K[n - 1]
        BY <1>1, <2>4
      <3> QED BY <1>3, <2>2, <2>4, <3>1
    <2> QED BY <2>3, <2>4
  <1>4. Len(f) \in G
    <2>1. G \in SUBSET (0..Len(f))
      OBVIOUS
    <2> HIDE DEF G
    <2> QED BY <1>0, <1>2, <1>3, <2>1, Steps
  <1> QED
    BY <1>0, <1>4 DEF Select, K, Contains

(* Lines, and the kinds that tell them apart. *)
LEMMA LineKinds ==
    /\ {Marker, Other, Blank} \subseteq Lines
    /\ \A s \in Servers : Nameserver(s) \in Lines /\ Saved(s) \in Lines
    /\ \A l \in Lines : \/ l \in {Marker, Other, Blank}
                        \/ \E s \in Servers : l = Nameserver(s) \/ l = Saved(s)
  BY DEF Lines

(* The kind of each line, and its server. *)
LEMMA LineParts ==
    /\ Marker[1] = "marker" /\ Other[1] = "other" /\ Blank[1] = "blank"
    /\ \A s : /\ Nameserver(s)[1] = "nameserver" /\ Nameserver(s)[2] = s
              /\ Saved(s)[1] = "saved" /\ Saved(s)[2] = s
  BY DEF Marker, Other, Blank, Nameserver, Saved

(* The comment of a line, and the line of a comment, are lines. *)
LEMMA SaveType == \A l \in Lines : Save(l) \in Lines /\ Unsave(l) \in Lines
  <1> SUFFICES ASSUME NEW l \in Lines PROVE Save(l) \in Lines /\ Unsave(l) \in Lines
    OBVIOUS
  <1>1. CASE l \in {Marker, Other, Blank}
    BY <1>1, LineParts DEF Save, Unsave
  <1>2. CASE \E s \in Servers : l = Nameserver(s) \/ l = Saved(s)
    BY <1>2, LineParts, LineKinds DEF Save, Unsave
  <1> QED BY <1>1, <1>2, LineKinds

(* Every line of s commented out. *)
LEMMA MapSave ==
    ASSUME NEW f \in Seq(Lines)
    PROVE  /\ MapLines(Save, f) \in Seq(Lines) /\ Len(MapLines(Save, f)) = Len(f)
           /\ \A k \in 1..Len(f) : MapLines(Save, f)[k] = Save(f[k])
  BY SaveType DEF MapLines

(* Every comment of s made a line again. *)
LEMMA MapUnsave ==
    ASSUME NEW f \in Seq(Lines)
    PROVE  /\ MapLines(Unsave, f) \in Seq(Lines) /\ Len(MapLines(Unsave, f)) = Len(f)
           /\ \A k \in 1..Len(f) : MapLines(Unsave, f)[k] = Unsave(f[k])
  BY SaveType DEF MapLines

(* SetLines: the marker, the local server, and the saved lines behind. *)
LEMMA SetFacts ==
    ASSUME NEW f \in Seq(Lines)
    PROVE  LET m == MapLines(Save, Select(f, OfKind({"nameserver", "other"}))) IN
           /\ SetLines(f) \in Seq(Lines)
           /\ Len(SetLines(f)) = Len(m) + 2
           /\ SetLines(f)[1] = Marker /\ SetLines(f)[2] = Nameserver(Local)
           /\ \A k \in 1..Len(m) : SetLines(f)[k + 2] = m[k]
  <1> DEFINE m == MapLines(Save, Select(f, OfKind({"nameserver", "other"})))
             h == <<Marker, Nameserver(Local)>>
  <1>1. m \in Seq(Lines) /\ SetLines(f) = h \o m
    BY SelectFacts, MapSave DEF SetLines
  <1>2. h \in Seq(Lines) /\ Len(h) = 2 /\ h[1] = Marker /\ h[2] = Nameserver(Local)
    BY LineKinds, ServersAssumption
  <1> HIDE DEF m, h
  <1>3. /\ h \o m \in Seq(Lines) /\ Len(h \o m) = Len(m) + 2
        /\ (h \o m)[1] = h[1] /\ (h \o m)[2] = h[2]
        /\ \A k \in 1..Len(m) : (h \o m)[k + 2] = m[k]
    <2>1. Len(m) \in Nat
      BY <1>1
    <2>2. /\ h \o m \in Seq(Lines) /\ Len(h \o m) = 2 + Len(m)
          /\ \A i \in 1..2 + Len(m) : (h \o m)[i] = IF i <= 2 THEN h[i] ELSE m[i - 2]
      <3>1. /\ h \o m \in Seq(Lines) /\ Len(h \o m) = Len(h) + Len(m)
            /\ \A i \in 1..Len(h) + Len(m) :
                  (h \o m)[i] = IF i <= Len(h) THEN h[i] ELSE m[i - Len(h)]
        BY <1>1, <1>2, ConcatProperties, Zenon
      <3>2. Len(h) = 2
        BY <1>2
      <3> QED BY <3>1, <3>2, Zenon
    <2>3. \A k \in 1..Len(m) : (h \o m)[k + 2] = m[k]
      <3> TAKE k \in 1..Len(m)
      <3>1. k + 2 \in 1..2 + Len(m) /\ ~(k + 2 <= 2) /\ (k + 2) - 2 = k
        BY <2>1
      <3> QED BY <2>2, <3>1
    <2> QED BY <2>1, <2>2, <2>3
  <1> QED
    BY <1>1, <1>2, <1>3 DEF m

(* What SetSystemDNS writes: its two lines and, for each line it keeps, what Save makes of it. *)
LEMMA SetHas ==
    ASSUME NEW f \in Seq(Lines), NEW l
    PROVE  Contains(SetLines(f), l) <=>
              \/ l = Marker \/ l = Nameserver(Local)
              \/ \E x \in Lines : /\ Contains(f, x) /\ x[1] \in {"nameserver", "other"}
                                  /\ l = Save(x)
  <1> DEFINE S == OfKind({"nameserver", "other"})
             m == MapLines(Save, Select(f, S))
  <1>1. Select(f, S) \in Seq(Lines) /\ \A x : Contains(Select(f, S), x) <=> x \in S /\ Contains(f, x)
    BY SelectFacts
  <1>2. m \in Seq(Lines) /\ Len(m) = Len(Select(f, S)) /\ \A k \in 1..Len(m) : m[k] = Save(Select(f, S)[k])
    BY <1>1, MapSave
  <1>3. Contains(SetLines(f), l) <=> l = Marker \/ l = Nameserver(Local) \/ Contains(m, l)
    <2>1. /\ Len(SetLines(f)) = Len(m) + 2 /\ Len(m) \in Nat
          /\ SetLines(f)[1] = Marker /\ SetLines(f)[2] = Nameserver(Local)
          /\ \A k \in 1..Len(m) : SetLines(f)[k + 2] = m[k]
      BY <1>2, SetFacts
    <2> HIDE DEF m
    <2>2. \A k \in 1..Len(m) + 2 : k = 1 \/ k = 2 \/ (k - 2 \in 1..Len(m) /\ k = (k - 2) + 2)
      BY <2>1
    <2>3. \A k \in 1..Len(m) : k + 2 \in 1..Len(m) + 2
      BY <2>1
    <2>4. 1 \in 1..Len(m) + 2 /\ 2 \in 1..Len(m) + 2
      BY <2>1
    <2>5. ASSUME NEW i \in 1..Len(m) + 2
          PROVE  SetLines(f)[i] \in {Marker, Nameserver(Local)} \/ \E k \in 1..Len(m) : SetLines(f)[i] = m[k]
      BY <2>1, <2>2
    <2>6. /\ Contains(SetLines(f), Marker) /\ Contains(SetLines(f), Nameserver(Local))
          /\ \A k \in 1..Len(m) : Contains(SetLines(f), m[k])
      BY <2>1, <2>3, <2>4 DEF Contains
    <2>7. ASSUME Contains(SetLines(f), l)
          PROVE  l = Marker \/ l = Nameserver(Local) \/ Contains(m, l)
      BY <2>1, <2>5, <2>7 DEF Contains
    <2>8. Contains(m, l) => \E k \in 1..Len(m) : l = m[k]
      BY DEF Contains
    <2> QED BY <2>6, <2>7, <2>8
  <1>4. Contains(m, l) <=> \E x : Contains(Select(f, S), x) /\ l = Save(x)
    <2> HIDE DEF m
    <2> QED BY <1>2 DEF Contains
  <1>5. \A x : x \in S <=> x \in Lines /\ x[1] \in {"nameserver", "other"}
    BY DEF OfKind
  <1> QED BY <1>1, <1>3, <1>4, <1>5

(* What the lines made of saved comments hold. *)
LEMMA RestoredHas ==
    ASSUME NEW f \in Seq(Lines)
    PROVE  /\ Restored(f) \in Seq(Lines)
           /\ \A l : Contains(Restored(f), l) <=>
                \E x \in Lines : /\ Contains(f, x) /\ x \notin {Marker, Blank, Nameserver(Local)}
                                 /\ l = Unsave(x)
  <1> DEFINE S == Lines \ {Marker, Blank, Nameserver(Local)}
             m == MapLines(Unsave, Select(f, S))
  <1>1. Select(f, S) \in Seq(Lines) /\ \A x : Contains(Select(f, S), x) <=> x \in S /\ Contains(f, x)
    BY SelectFacts
  <1>2. m \in Seq(Lines) /\ Len(m) = Len(Select(f, S)) /\ \A k \in 1..Len(m) : m[k] = Unsave(Select(f, S)[k])
    BY <1>1, MapUnsave
  <1>3. Restored(f) = m
    BY DEF Restored
  <1>4. \A l : Contains(m, l) <=> \E x : Contains(Select(f, S), x) /\ l = Unsave(x)
    <2> HIDE DEF m
    <2> QED BY <1>2 DEF Contains
  <1> HIDE DEF m
  <1>5. \A x : x \in S <=> x \in Lines /\ x \notin {Marker, Blank, Nameserver(Local)}
    OBVIOUS
  <1> HIDE DEF S
  <1> QED BY <1>1, <1>2, <1>3, <1>4, <1>5

(***************************************************************************)
(* Both functions commute with the reduction to ResolvConf.                *)
(***************************************************************************)
LEMMA SetDigest == ASSUME NEW f \in Seq(Lines) PROVE Digest(SetLines(f)) = SetSystemDNS(Digest(f))
  <1> USE LineParts
  <1>1. Contains(SetLines(f), Marker)
    BY SetHas
  <1>2. ASSUME NEW s \in Servers
        PROVE  Contains(SetLines(f), Nameserver(s)) <=> s = Local
    <2>1. \A x \in Lines : x[1] \in {"nameserver", "other"} => Save(x) # Nameserver(s)
      BY DEF Save
    <2>2. Nameserver(s) # Marker /\ (Nameserver(s) = Nameserver(Local) <=> s = Local)
      OBVIOUS
    <2> QED BY <2>1, <2>2, SetHas
  <1>3. ASSUME NEW s \in Servers
        PROVE  Contains(SetLines(f), Saved(s)) <=> Contains(f, Nameserver(s))
    <2>1. \A x \in Lines : x[1] \in {"nameserver", "other"} /\ Save(x) = Saved(s) => x = Nameserver(s)
      <3> SUFFICES ASSUME NEW x \in Lines, x[1] \in {"nameserver", "other"}, Save(x) = Saved(s)
                   PROVE  x = Nameserver(s)
        OBVIOUS
      <3>1. CASE x \in {Marker, Other, Blank}
        BY <3>1 DEF Save
      <3>2. CASE \E u \in Servers : x = Nameserver(u) \/ x = Saved(u)
        BY <3>2 DEF Save
      <3> QED BY <3>1, <3>2, LineKinds
    <2>2. Saved(s) # Marker /\ Saved(s) # Nameserver(Local)
      OBVIOUS
    <2>3. Nameserver(s) \in Lines /\ Save(Nameserver(s)) = Saved(s)
      BY LineKinds DEF Save
    <2> QED BY <2>1, <2>2, <2>3, SetHas
  <1>4. Contains(SetLines(f), Other) <=> Contains(f, Other)
    <2>1. \A x \in Lines : x[1] \in {"nameserver", "other"} /\ Save(x) = Other => x = Other
      BY DEF Save
    <2>2. Other # Marker /\ Other # Nameserver(Local)
      OBVIOUS
    <2>3. Other \in Lines /\ Save(Other) = Other
      BY LineKinds DEF Save
    <2> QED BY <2>1, <2>2, <2>3, SetHas
  <1> QED
    <2>1. {s \in Servers : Contains(SetLines(f), Nameserver(s))} = {Local}
      BY <1>2, ServersAssumption
    <2>2. {s \in Servers : Contains(SetLines(f), Saved(s))} = {s \in Servers : Contains(f, Nameserver(s))}
      BY <1>3
    <2>3. Contains(SetLines(f), Marker) = TRUE /\ Contains(SetLines(f), Other) = Contains(f, Other)
      BY <1>1, <1>4 DEF Contains
    <2>4. Digest(SetLines(f)) = [marker |-> TRUE, active |-> {Local},
              saved |-> {s \in Servers : Contains(f, Nameserver(s))}, other |-> Contains(f, Other)]
      BY <2>1, <2>2, <2>3, Zenon DEF Digest
    <2>5. Digest(f).active = {s \in Servers : Contains(f, Nameserver(s))}
      BY Zenon DEF Digest
    <2>6. Digest(f).other = Contains(f, Other)
      BY Zenon DEF Digest
    <2> QED
      BY <2>4, <2>5, <2>6, Zenon DEF SetSystemDNS

(* A file has state of gecit when it holds the marker or a saved server. *)
LEMMA StateLines ==
    ASSUME NEW f \in Seq(Lines)
    PROVE  HasState(f) <=> Contains(f, Marker) \/ \E s \in Servers : Contains(f, Saved(s))
  <1>1. \A l \in Lines : l[1] \in {"marker", "saved"} <=> l = Marker \/ \E s \in Servers : l = Saved(s)
    BY LineParts, LineKinds
  <1>2. \A k \in DOMAIN f : f[k] \in Lines
    OBVIOUS
  <1> QED BY <1>1, <1>2 DEF HasState, Contains

(* The lines of a file that RestoreSystemDNS has rewritten, before the fallback. *)
LEMMA RestoredLines ==
    ASSUME NEW f \in Seq(Lines)
    PROVE  /\ \A s \in Servers : Contains(Restored(f), Nameserver(s)) <=>
                Contains(f, Saved(s)) \/ (Contains(f, Nameserver(s)) /\ s # Local)
           /\ Contains(Restored(f), Other) <=> Contains(f, Other)
           /\ ~Contains(Restored(f), Marker) /\ \A s \in Servers : ~Contains(Restored(f), Saved(s))
  <1> USE LineParts
  <1>1. ASSUME NEW x \in Lines, x \notin {Marker, Blank, Nameserver(Local)}
        PROVE  \/ x = Other /\ Unsave(x) = Other
               \/ \E u \in Servers : \/ x = Saved(u) /\ Unsave(x) = Nameserver(u)
                                     \/ x = Nameserver(u) /\ u # Local /\ Unsave(x) = Nameserver(u)
    <2>1. CASE x = Other
      BY <2>1 DEF Unsave
    <2>2. ASSUME NEW u \in Servers, x = Saved(u)
          PROVE  x = Saved(u) /\ Unsave(x) = Nameserver(u)
      BY <2>2 DEF Unsave
    <2>3. ASSUME NEW u \in Servers, x = Nameserver(u)
          PROVE  x = Nameserver(u) /\ u # Local /\ Unsave(x) = Nameserver(u)
      BY <1>1, <2>3 DEF Unsave
    <2> QED BY <1>1, <2>1, <2>2, <2>3, LineKinds, Zenon
  <1>2. \A s : Nameserver(s) \notin {Marker, Blank, Other} /\ Saved(s) \notin {Marker, Blank, Other}
    OBVIOUS
  <1>3. \A s, t : /\ Saved(s) # Nameserver(t)
                  /\ Nameserver(s) = Nameserver(t) => s = t
    OBVIOUS
  <1>4. Other \notin {Marker, Blank, Nameserver(Local)}
    BY <1>2
  <1> HIDE LineParts
  <1>5. ASSUME NEW s \in Servers
        PROVE  Contains(Restored(f), Nameserver(s)) <=>
                Contains(f, Saved(s)) \/ (Contains(f, Nameserver(s)) /\ s # Local)
    <2>1. ASSUME Contains(Restored(f), Nameserver(s))
          PROVE  Contains(f, Saved(s)) \/ (Contains(f, Nameserver(s)) /\ s # Local)
      <3>1. PICK x \in Lines : /\ Contains(f, x) /\ x \notin {Marker, Blank, Nameserver(Local)}
                               /\ Nameserver(s) = Unsave(x)
        BY <2>1, RestoredHas
      <3> QED BY <1>1, <1>2, <1>3, <3>1
    <2>2. ASSUME Contains(f, Saved(s)) PROVE Contains(Restored(f), Nameserver(s))
      <3>1. /\ Saved(s) \in Lines /\ Saved(s) \notin {Marker, Blank, Nameserver(Local)}
            /\ Unsave(Saved(s)) = Nameserver(s)
        BY <1>2, <1>3, LineKinds, LineParts DEF Unsave
      <3> QED BY <2>2, <3>1, RestoredHas
    <2>3. ASSUME Contains(f, Nameserver(s)), s # Local PROVE Contains(Restored(f), Nameserver(s))
      <3>1. /\ Nameserver(s) \in Lines /\ Nameserver(s) \notin {Marker, Blank, Nameserver(Local)}
            /\ Unsave(Nameserver(s)) = Nameserver(s)
        BY <1>2, <1>3, <2>3, LineKinds, LineParts DEF Unsave
      <3> QED BY <2>3, <3>1, RestoredHas
    <2> QED BY <2>1, <2>2, <2>3
  <1>6. Contains(Restored(f), Other) <=> Contains(f, Other)
    <2>1. ASSUME Contains(Restored(f), Other) PROVE Contains(f, Other)
      <3>1. PICK x \in Lines : /\ Contains(f, x) /\ x \notin {Marker, Blank, Nameserver(Local)}
                               /\ Other = Unsave(x)
        BY <2>1, RestoredHas
      <3> QED BY <1>1, <1>2, <3>1
    <2>2. ASSUME Contains(f, Other) PROVE Contains(Restored(f), Other)
      <3>1. Other \in Lines /\ Unsave(Other) = Other
        BY LineKinds, LineParts DEF Unsave
      <3> QED BY <1>4, <2>2, <3>1, RestoredHas
    <2> QED BY <2>1, <2>2
  <1>7. ~Contains(Restored(f), Marker) /\ \A s \in Servers : ~Contains(Restored(f), Saved(s))
    <2>1. \A x \in Lines : x \notin {Marker, Blank, Nameserver(Local)} =>
              Unsave(x) # Marker /\ \A s \in Servers : Unsave(x) # Saved(s)
      <3>1. Other # Marker /\ \A s : Other # Saved(s)
        BY LineParts
      <3> QED BY <1>1, <1>2, <1>3, <3>1
    <2> QED BY <2>1, RestoredHas
  <1> QED BY <1>5, <1>6, <1>7

(* Restoring and digesting commute. *)
LEMMA RestoreDigest == ASSUME NEW f \in Seq(Lines) PROVE Digest(RestoreLines(f)) = Recovered(Digest(f))
  <1>1. /\ Digest(f).marker = Contains(f, Marker) /\ Digest(f).other = Contains(f, Other)
        /\ Digest(f).active = {s \in Servers : Contains(f, Nameserver(s))}
        /\ Digest(f).saved = {s \in Servers : Contains(f, Saved(s))}
    BY Zenon DEF Digest
  <1>2. hasGecitDNSState(Digest(f)) <=> HasState(f)
    <2>1. {s \in Servers : Contains(f, Saved(s))} # {} <=> \E s \in Servers : Contains(f, Saved(s))
      OBVIOUS
    <2> QED BY <1>1, <2>1, StateLines, Zenon DEF hasGecitDNSState
  <1>3. CASE ~HasState(f)
    BY <1>2, <1>3 DEF Recovered, RestoreLines
  <1>4. CASE HasState(f)
    <2> DEFINE servers == {s \in Servers : Contains(f, Saved(s))}
                             \cup ({s \in Servers : Contains(f, Nameserver(s))} \ {Local})
               empty == servers = {} /\ ~Contains(f, Other)
    <2>1. Recovered(Digest(f)) =
              [marker |-> FALSE, active |-> IF empty THEN {Fallback} ELSE servers,
               saved |-> {}, other |-> Contains(f, Other)]
      BY <1>1, <1>2, <1>4, Zenon DEF Recovered, RestoreSystemDNS
    <2>2. empty <=> Restored(f) = <<>>
      <3>1. Restored(f) \in Seq(Lines)
        BY RestoredHas
      <3>2. Restored(f) = <<>> <=> \A l \in Lines : ~Contains(Restored(f), l)
        BY <3>1 DEF Contains
      <3>3. \A l : Contains(Restored(f), l) => l = Other \/ \E s \in Servers : l = Nameserver(s)
        <4>1. ASSUME NEW l, Contains(Restored(f), l) PROVE l \in Lines
          BY <3>1, <4>1 DEF Contains
        <4>2. ASSUME NEW l \in Lines, Contains(Restored(f), l), l = Blank PROVE FALSE
          <5>1. PICK x \in Lines : x \notin {Marker, Blank, Nameserver(Local)} /\ Blank = Unsave(x)
            BY <4>2, RestoredHas
          <5> QED BY <5>1, LineParts DEF Unsave
        <4> QED BY <4>1, <4>2, LineKinds, RestoredLines
      <3>4. (\A l \in Lines : ~Contains(Restored(f), l))
              <=> ~Contains(Restored(f), Other) /\ \A s \in Servers : ~Contains(Restored(f), Nameserver(s))
        BY <3>3, LineKinds
      <3>5. servers = {} <=> \A s \in Servers : ~Contains(Restored(f), Nameserver(s))
        BY RestoredLines
      <3> HIDE DEF servers
      <3> QED BY <3>2, <3>4, <3>5, RestoredLines
    <2>3. CASE Restored(f) = <<>>
      <3>1. RestoreLines(f) = <<Nameserver(Fallback)>>
        BY <1>4, <2>3 DEF RestoreLines
      <3>2. \A l : Contains(<<Nameserver(Fallback)>>, l) <=> l = Nameserver(Fallback)
        BY DEF Contains
      <3>3. {s \in Servers : Contains(RestoreLines(f), Nameserver(s))} = {Fallback}
        BY <3>1, <3>2, ServersAssumption, LineParts
      <3>4. {s \in Servers : Contains(RestoreLines(f), Saved(s))} = {}
        BY <3>1, <3>2, LineParts
      <3>5. ~Contains(RestoreLines(f), Marker) /\ ~Contains(RestoreLines(f), Other)
        BY <3>1, <3>2, LineParts
      <3>6. Contains(RestoreLines(f), Marker) = FALSE /\ Contains(RestoreLines(f), Other) = FALSE
        BY <3>5 DEF Contains
      <3>7. Contains(f, Other) = FALSE
        BY <2>2, <2>3 DEF Contains
      <3> HIDE DEF servers
      <3> QED BY <2>1, <2>2, <2>3, <3>3, <3>4, <3>6, <3>7, Zenon DEF Digest
    <2>4. CASE Restored(f) # <<>>
      <3>1. RestoreLines(f) = Restored(f)
        BY <1>4, <2>4 DEF RestoreLines
      <3>2. {s \in Servers : Contains(Restored(f), Nameserver(s))} = servers
        BY RestoredLines
      <3>3. {s \in Servers : Contains(Restored(f), Saved(s))} = {}
        BY RestoredLines
      <3>4. Contains(Restored(f), Marker) = FALSE /\ Contains(Restored(f), Other) = Contains(f, Other)
        BY RestoredLines DEF Contains
      <3> HIDE DEF servers
      <3> QED BY <2>1, <2>2, <2>4, <3>1, <3>2, <3>3, <3>4, Zenon DEF Digest
    <2> QED BY <2>3, <2>4
  <1> QED BY <1>3, <1>4

(* Select keeps everything, or the same lines of two files. *)
LEMMA SelectAll ==
    ASSUME NEW f \in Seq(Lines), NEW S, \A k \in 1..Len(f) : f[k] \in S
    PROVE  Select(f, S) = f
  <1> DEFINE K == Kept(f, S)
             Good(n) == K[n] \in Seq(Lines) /\ Len(K[n]) = n /\ \A k \in 1..n : K[n][k] = f[k]
             G == {n \in 0..Len(f) : Good(n)}
  <1>0. Len(f) \in Nat /\ \A k \in 1..Len(f) : f[k] \in Lines
    OBVIOUS
  <1>1. K[0] = <<>> /\ \A n \in 1..Len(f) : K[n] = Append(K[n - 1], f[n])
    BY KeptDef
  <1> HIDE DEF K
  <1>2. 0 \in G
    <2>1. Good(0)
      BY <1>1
    <2> QED BY <1>0, <2>1
  <1>3. ASSUME NEW n \in 1..Len(f), n - 1 \in G PROVE n \in G
    <2>1. /\ K[n - 1] \in Seq(Lines) /\ Len(K[n - 1]) = n - 1 /\ \A k \in 1..n - 1 : K[n - 1][k] = f[k]
          /\ f[n] \in Lines
      BY <1>0, <1>3
    <2>2. K[n] = Append(K[n - 1], f[n])
      BY <1>1
    <2>3. K[n] \in Seq(Lines) /\ Len(K[n]) = n /\ K[n][n] = f[n]
      BY <2>1, <2>2
    <2>4. \A k \in 1..n - 1 : K[n][k] = f[k]
      BY <2>1, <2>2
    <2>5. \A k \in 1..n : k = n \/ k \in 1..n - 1
      OBVIOUS
    <2> QED BY <2>3, <2>4, <2>5
  <1>4. Len(f) \in G
    <2>1. G \in SUBSET (0..Len(f))
      OBVIOUS
    <2> HIDE DEF G
    <2> QED BY <1>0, <1>2, <1>3, <2>1, Steps
  <1>5. Select(f, S) \in Seq(Lines) /\ Len(Select(f, S)) = Len(f) /\ \A k \in 1..Len(f) : Select(f, S)[k] = f[k]
    BY <1>4 DEF Select, K
  <1> QED BY <1>5, SeqEqual

(* A selection keeps all of a file of the kinds it selects. *)
LEMMA SelectSame ==
    ASSUME NEW f \in Seq(Lines), NEW S, NEW T, \A k \in 1..Len(f) : f[k] \in S <=> f[k] \in T
    PROVE  Select(f, S) = Select(f, T)
  <1> DEFINE K == Kept(f, S)
             L == Kept(f, T)
             G == {n \in 0..Len(f) : K[n] = L[n]}
  <1>1. /\ K[0] = <<>> /\ \A n \in 1..Len(f) : K[n] = IF f[n] \in S THEN Append(K[n - 1], f[n]) ELSE K[n - 1]
        /\ L[0] = <<>> /\ \A n \in 1..Len(f) : L[n] = IF f[n] \in T THEN Append(L[n - 1], f[n]) ELSE L[n - 1]
    BY KeptDef
  <1> HIDE DEF K, L
  <1>2. Len(f) \in Nat
    OBVIOUS
  <1>3. 0 \in G
    BY <1>1, <1>2
  <1>4. ASSUME NEW n \in 1..Len(f), n - 1 \in G PROVE n \in G
    BY <1>1, <1>4
  <1>5. Len(f) \in G
    <2>1. G \in SUBSET (0..Len(f))
      OBVIOUS
    <2> HIDE DEF G
    <2> QED BY <1>2, <1>3, <1>4, <2>1, Steps
  <1> QED BY <1>5 DEF Select, K, L

(* Two lines in front that are not selected change nothing. *)
LEMMA SelectBehind ==
    ASSUME NEW f \in Seq(Lines), NEW m \in Seq(Lines), NEW S,
           Len(f) = Len(m) + 2, \A k \in 1..Len(m) : f[k + 2] = m[k],
           f[1] \notin S, f[2] \notin S
    PROVE  Select(f, S) = Select(m, S)
  <1> DEFINE K == Kept(f, S)
             M == Kept(m, S)
             G == {n \in 0..Len(m) : K[n + 2] = M[n]}
  <1>1. /\ K[0] = <<>> /\ \A n \in 1..Len(f) : K[n] = IF f[n] \in S THEN Append(K[n - 1], f[n]) ELSE K[n - 1]
        /\ M[0] = <<>> /\ \A n \in 1..Len(m) : M[n] = IF m[n] \in S THEN Append(M[n - 1], m[n]) ELSE M[n - 1]
    BY KeptDef
  <1> HIDE DEF K, M
  <1>2. Len(m) \in Nat /\ 1 \in 1..Len(f) /\ 2 \in 1..Len(f)
    OBVIOUS
  <1>3. K[1] = <<>> /\ K[2] = <<>>
    <2>1. K[1] = K[1 - 1] /\ K[2] = K[2 - 1]
      BY <1>1, <1>2
    <2> QED BY <1>1, <2>1
  <1>4. 0 \in G
    BY <1>1, <1>2, <1>3
  <1>5. ASSUME NEW n \in 1..Len(m), n - 1 \in G PROVE n \in G
    <2>1. n + 2 \in 1..Len(f) /\ (n + 2) - 1 = (n - 1) + 2 /\ f[n + 2] = m[n]
      BY <1>2
    <2>2. K[(n - 1) + 2] = M[n - 1]
      BY <1>5
    <2>3. K[n + 2] = IF f[n + 2] \in S THEN Append(K[(n + 2) - 1], f[n + 2]) ELSE K[(n + 2) - 1]
      BY <1>1, <2>1
    <2>4. K[n + 2] = M[n]
      BY <1>1, <2>1, <2>2, <2>3
    <2> QED BY <2>4
  <1>6. Len(m) \in G
    <2>1. G \in SUBSET (0..Len(m))
      OBVIOUS
    <2> HIDE DEF G
    <2> QED BY <1>2, <1>4, <1>5, <2>1, Steps
  <1> QED BY <1>6 DEF Select, K, M

(* Restoring what was set gives the lines back in their order; blank ones do not count. *)
LEMMA RoundTripLines ==
    ASSUME NEW b \in Seq(Lines), ~HasState(b), HasServer(b)
    PROVE  NotBlank(RestoreLines(SetLines(b))) = NotBlank(b)
  <1> DEFINE S == OfKind({"nameserver", "other"})
             R == Lines \ {Marker, Blank, Nameserver(Local)}
             F == Select(b, S)
             m == MapLines(Save, F)
             f == SetLines(b)
  <1>1. F \in Seq(Lines) /\ \A l : Contains(F, l) <=> l \in S /\ Contains(b, l)
    BY SelectFacts
  <1>2. \A k \in 1..Len(F) : F[k] \in S
    BY <1>1 DEF Contains
  <1>3. \A l \in S : l = Other \/ \E s \in Servers : l = Nameserver(s)
    BY LineKinds, LineParts DEF OfKind
  <1>4. \A l \in S : l \in Lines /\ l # Blank /\ Save(l) \in R /\ Unsave(Save(l)) = l
    <2> SUFFICES ASSUME NEW l \in S PROVE l \in Lines /\ l # Blank /\ Save(l) \in R /\ Unsave(Save(l)) = l
      OBVIOUS
    <2>1. CASE l = Other
      BY <2>1, LineKinds, LineParts DEF Save, Unsave
    <2>2. ASSUME NEW s \in Servers, l = Nameserver(s)
          PROVE  l \in Lines /\ l # Blank /\ Save(l) \in R /\ Unsave(Save(l)) = l
      <3>1. Save(l) = Saved(s) /\ Saved(s) \in Lines /\ Nameserver(s) \in Lines
        BY <2>2, LineKinds, LineParts DEF Save
      <3>2. Saved(s) \notin {Marker, Blank, Nameserver(Local)} /\ l # Blank
        BY <2>2, LineParts
      <3>3. Unsave(Saved(s)) = l
        BY <2>2, LineParts DEF Unsave
      <3> QED BY <2>2, <3>1, <3>2, <3>3
    <2> QED BY <1>3, <2>1, <2>2
  <1>5. b \in Seq(Lines) /\ \A k \in 1..Len(b) : b[k] \in Lines /\ b[k] # Marker /\ \A s : b[k] # Saved(s)
    BY LineParts DEF HasState
  <1>6. m \in Seq(Lines) /\ Len(m) = Len(F) /\ \A k \in 1..Len(F) : m[k] = Save(F[k])
    BY <1>1, MapSave
  <1>7. /\ f \in Seq(Lines) /\ Len(f) = Len(m) + 2 /\ f[1] = Marker /\ f[2] = Nameserver(Local)
        /\ \A k \in 1..Len(m) : f[k + 2] = m[k]
    BY SetFacts
  <1>8. HasState(f)
    <2>1. 1 \in DOMAIN f /\ f[1][1] = "marker"
      <3>1. Len(m) \in Nat
        BY <1>6
      <3> HIDE DEF f, m
      <3> QED BY <1>7, <3>1, LineParts
    <2> QED BY <2>1 DEF HasState
  <1> HIDE DEF f, m, F, S
  <1>9. Select(f, R) = m
    <2>1. f[1] \notin R /\ f[2] \notin R
      BY <1>7
    <2>2. \A k \in 1..Len(m) : m[k] \in R
      BY <1>2, <1>4, <1>6
    <2> HIDE DEF R
    <2>3. Select(f, R) = Select(m, R)
      BY <1>6, <1>7, <2>1, SelectBehind
    <2>4. Select(m, R) = m
      BY <1>6, <2>2, SelectAll
    <2> QED BY <2>3, <2>4
  <1>10. Restored(f) = F
    <2>1. Restored(f) = MapLines(Unsave, m)
      BY <1>9 DEF Restored
    <2>2. /\ MapLines(Unsave, m) \in Seq(Lines) /\ Len(MapLines(Unsave, m)) = Len(F)
          /\ \A k \in 1..Len(F) : MapLines(Unsave, m)[k] = F[k]
      <3>1. \A k \in 1..Len(F) : Unsave(m[k]) = F[k]
        BY <1>2, <1>4, <1>6
      <3>2. /\ MapLines(Unsave, m) \in Seq(Lines) /\ Len(MapLines(Unsave, m)) = Len(m)
            /\ \A k \in 1..Len(m) : MapLines(Unsave, m)[k] = Unsave(m[k])
        BY <1>6, MapUnsave
      <3>3. Len(m) = Len(F)
        BY <1>6
      <3> QED BY <3>1, <3>2, <3>3
    <2> QED BY <1>1, <2>1, <2>2, SeqEqual
  <1>11. RestoreLines(f) = F
    <2>1. PICK k \in DOMAIN b : b[k][1] = "nameserver"
      BY DEF HasServer
    <2>2. b[k] \in S /\ Contains(b, b[k])
      BY <1>5, <2>1 DEF S, OfKind, Contains
    <2>3. F # <<>>
      BY <1>1, <2>2 DEF Contains
    <2> QED BY <1>8, <1>10, <2>3 DEF RestoreLines
  <1>12. NotBlank(F) = F
    <2>1. \A k \in 1..Len(F) : F[k] \in Lines \ {Blank}
      BY <1>2, <1>4
    <2> QED BY <1>1, <2>1, SelectAll DEF NotBlank
  <1>13. NotBlank(b) = F
    <2>1. \A k \in 1..Len(b) : b[k] \in Lines \ {Blank} <=> b[k] \in S
      <3> SUFFICES ASSUME NEW k \in 1..Len(b) PROVE b[k] \in Lines \ {Blank} <=> b[k] \in S
        OBVIOUS
      <3>1. b[k] \in S => b[k] \in Lines \ {Blank}
        BY <1>4
      <3>2. b[k] # Blank => b[k] = Other \/ \E s \in Servers : b[k] = Nameserver(s)
        BY <1>5, LineKinds
      <3>3. Other \in S /\ \A s \in Servers : Nameserver(s) \in S
        BY LineKinds, LineParts DEF S, OfKind
      <3> QED BY <3>1, <3>2, <3>3
    <2> QED BY <2>1, SelectSame DEF NotBlank, F
  <1> QED BY <1>11, <1>12, <1>13 DEF f

-----------------------------------------------------------------------------
LinesTyped == file \in Seq(Lines) /\ before \in Seq(Lines) /\ sets \in 0..2

(* One call of SetSystemDNS leaves what it made of the file before. *)
OnceSet ==
    /\ sets = 0 => ~HasState(file)
    /\ sets = 1 => file = SetLines(before) /\ ~HasState(before)

(* Where there was a name server there is one, and gecit's state holds one to restore. *)
ServerKept ==
    HasServer(before) =>
        HasServer(file) /\ (HasState(file) => \E s \in Servers : Contains(file, Saved(s)))

LinesInv == LinesTyped /\ OnceSet /\ ServerKept

(* A file that names a server has a line that does. *)
LEMMA ServerLines ==
    ASSUME NEW f \in Seq(Lines)
    PROVE  HasServer(f) <=> \E s \in Servers : Contains(f, Nameserver(s))
  <1>1. \A l \in Lines : l[1] = "nameserver" <=> \E s \in Servers : l = Nameserver(s)
    BY LineParts, LineKinds
  <1>2. \A k \in DOMAIN f : f[k] \in Lines
    OBVIOUS
  <1> QED BY <1>1, <1>2 DEF HasServer, Contains

(* A call of SetSystemDNS saves the servers of the file it read. *)
LEMMA SetSaves ==
    ASSUME NEW f \in Seq(Lines)
    PROVE  /\ SetLines(f) \in Seq(Lines) /\ HasServer(SetLines(f)) /\ HasState(SetLines(f))
           /\ HasServer(f) => \E s \in Servers : Contains(SetLines(f), Saved(s))
  <1>1. SetLines(f) \in Seq(Lines)
    BY SetFacts
  <1>2. HasServer(SetLines(f))
    BY <1>1, ServerLines, SetHas, ServersAssumption
  <1>3. HasState(SetLines(f))
    BY <1>1, StateLines, SetHas
  <1>4. ASSUME NEW s \in Servers, Contains(f, Nameserver(s)) PROVE Contains(SetLines(f), Saved(s))
    <2>1. Nameserver(s) \in Lines /\ Nameserver(s)[1] = "nameserver" /\ Save(Nameserver(s)) = Saved(s)
      BY LineKinds, LineParts DEF Save
    <2> QED BY <1>4, <2>1, SetHas
  <1> QED BY <1>1, <1>2, <1>3, <1>4, ServerLines

(* A call of RestoreSystemDNS leaves no state, and a server where one was saved. *)
LEMMA RestoreGives ==
    ASSUME NEW f \in Seq(Lines)
    PROVE  /\ RestoreLines(f) \in Seq(Lines) /\ ~HasState(RestoreLines(f))
           /\ HasServer(f) /\ (HasState(f) => \E s \in Servers : Contains(f, Saved(s)))
                 => HasServer(RestoreLines(f))
  <1>1. Restored(f) \in Seq(Lines) /\ ~HasState(Restored(f))
    <2>1. Restored(f) \in Seq(Lines)
      BY RestoredHas
    <2> QED BY <2>1, RestoredLines, StateLines
  <1>2. <<Nameserver(Fallback)>> \in Seq(Lines) /\ ~HasState(<<Nameserver(Fallback)>>)
    <2>1. Nameserver(Fallback) \in Lines /\ Nameserver(Fallback)[1] = "nameserver"
      BY LineKinds, LineParts, ServersAssumption
    <2> QED BY <2>1 DEF HasState
  <1>3. ASSUME NEW s \in Servers, Contains(f, Saved(s)) PROVE HasServer(RestoreLines(f))
    <2>1. HasState(f) /\ Contains(Restored(f), Nameserver(s))
      BY <1>3, StateLines, RestoredLines
    <2>2. Restored(f) # <<>>
      BY <2>1 DEF Contains
    <2> QED BY <1>1, <2>1, <2>2, ServerLines DEF RestoreLines
  <1>4. ~HasState(f) => RestoreLines(f) = f
    BY DEF RestoreLines
  <1>5. HasState(f) => RestoreLines(f) \in {<<Nameserver(Fallback)>>, Restored(f)}
    BY DEF RestoreLines
  <1> QED BY <1>1, <1>2, <1>3, <1>4, <1>5

(* LinesInv is an invariant. *)
LEMMA LinesInductive == Spec => []LinesInv
<1>1. Init => LinesInv
    <2> SUFFICES ASSUME Init PROVE LinesInv
        OBVIOUS
    <2>1. file \in Seq(Lines) /\ before = file /\ sets = 0 /\ ~HasState(file)
        BY LinesAssumption DEF Init, HostFiles, BoundedSeq, SeqOf
    <2> QED BY <2>1 DEF LinesInv, LinesTyped, OnceSet, ServerKept
<1>2. LinesInv /\ [Next]_vars => LinesInv'
    <2> SUFFICES ASSUME LinesInv, [Next]_vars PROVE LinesInv'
        OBVIOUS
    <2> USE DEF LinesInv, LinesTyped, OnceSet, ServerKept
    <2>1. CASE Set
        <3>1. SetLines(file) \in Seq(Lines) /\ HasServer(SetLines(file)) /\ HasState(SetLines(file))
            BY SetSaves
        <3>2. HasServer(file) => \E s \in Servers : Contains(SetLines(file), Saved(s))
            BY SetSaves
        <3>3. HasServer(before') => HasServer(file)
            BY <2>1 DEF Set
        <3>4. sets' \in 1..2 /\ file' = SetLines(file) /\ before' \in Seq(Lines)
            BY <2>1 DEF Set
        <3>5. sets' = 1 => before' = file /\ ~HasState(file)
            BY <2>1 DEF Set
        <3> QED BY <3>1, <3>2, <3>3, <3>4, <3>5
    <2>2. CASE Restore
        BY <2>2, RestoreGives DEF Restore
    <2>3. CASE UNCHANGED vars
        BY <2>3 DEF vars
    <2> QED BY <2>1, <2>2, <2>3 DEF Next
<1>3. QED BY <1>1, <1>2, PTL DEF Spec

(***************************************************************************)
(* pkg/dns/system_linux.go gives back the lines it commented out, in their *)
(* order, for a file of any length.                                        *)
(***************************************************************************)
THEOREM RoundTripAlways == Spec => []RoundTrip
<1>1. LinesInv => RoundTrip
    BY RoundTripLines DEF LinesInv, LinesTyped, OnceSet, RoundTrip
<1>2. QED BY <1>1, LinesInductive, PTL

(* The reduction to a record, with which LinuxRun works, is exact. *)
THEOREM DigestCommutesAlways == Spec => []DigestCommutes
<1>1. LinesInv => DigestCommutes
    BY SetDigest, RestoreDigest DEF LinesInv, LinesTyped, DigestCommutes
<1>2. QED BY <1>1, LinesInductive, PTL

(* No sequence of runs and cleanups takes a host's last name server away. *)
THEOREM NeverServerlessAlways == Spec => []NeverServerless
<1>1. LinesInv => NeverServerless
    BY DEF LinesInv, ServerKept, NeverServerless
<1>2. QED BY <1>1, LinesInductive, PTL

-----------------------------------------------------------------------------
(* What the configuration needs of the flags: two unsigned numbers. *)
FlagsOK ==
    /\ {"queueNum", "mark"} \subseteq DOMAIN flags
    /\ flags.queueNum \in Nat
    /\ flags.mark \in Nat

(* The command line gives both numbers as unsigned integers. *)
LEMMA FlagsTyped == ConfigSpec => []FlagsOK
<1>1. ConfigInit => FlagsOK
    <2>1. {"queueNum", "mark"} \subseteq DOMAIN DefaultFlags
        BY SMT DEF DefaultFlags
    <2>2. DefaultFlags.queueNum = 0 /\ DefaultFlags.mark = 0
        BY SMT DEF DefaultFlags
    <2> QED BY <2>1, <2>2, SMT DEF ConfigInit, FlagsOK
<1>2. FlagsOK /\ [GiveFlag]_configVars => FlagsOK'
    <2> SUFFICES ASSUME FlagsOK, GiveFlag PROVE FlagsOK'
        BY DEF configVars, FlagsOK
    <2>1. PICK name \in DOMAIN Values : \E v \in Values[name] : flags' = [flags EXCEPT ![name] = v]
        BY Zenon DEF GiveFlag
    <2>2. PICK v \in Values[name] : flags' = [flags EXCEPT ![name] = v]
        BY <2>1, Zenon
    <2>3. name = "queueNum" \/ name = "mark" => v \in Nat
        <3>1. Values.queueNum = QueueNums /\ Values.mark = Marks
            BY DEF Values
        <3> QED BY <2>2, <3>1, ConfigAssumption
    <2> QED BY <2>2, <2>3, SMT DEF FlagsOK
<1>3. QED BY <1>1, <1>2, PTL DEF ConfigSpec

(* Plan, engine and processor normalise the configuration anew: to no      *)
(* effect, whatever it is.                                                 *)
LEMMA NormalizedTwice ==
    ASSUME NEW c
    PROVE  Normalized(Normalized(c)) = Normalized(c)
  <1>1. PICK n : n = Normalized(c)
    OBVIOUS
  <1>2. /\ n.wan = Trim(c.wan) /\ n.table = Or(c.table, "", DefaultConfig.table)
        /\ n.backend = Or(c.backend, "", DefaultConfig.backend)
        /\ n.queueNum = Or(c.queueNum, 0, DefaultConfig.queueNum)
        /\ n.mark = Or(c.mark, 0, DefaultConfig.mark)
        /\ n.tcpPorts = Or(c.tcpPorts, {}, DefaultConfig.tcpPorts)
        /\ n.udpPorts = Or(c.udpPorts, {}, DefaultConfig.udpPorts)
        /\ n.quic = c.quic /\ n.postnat = c.postnat
        /\ n.fakeTTL = Or(c.fakeTTL, 0, DefaultConfig.fakeTTL)
        /\ n.maxFlows = Or(c.maxFlows, 0, DefaultConfig.maxFlows)
    BY <1>1, Zenon DEF Normalized
  <1>3. /\ Trim(n.wan) = n.wan /\ Or(n.table, "", DefaultConfig.table) = n.table
        /\ Or(n.backend, "", DefaultConfig.backend) = n.backend
    BY <1>2, Zenon DEF Trim, Or
  <1>4. /\ Or(n.queueNum, 0, DefaultConfig.queueNum) = n.queueNum
        /\ Or(n.mark, 0, DefaultConfig.mark) = n.mark
    BY <1>2, Zenon DEF Or
  <1>5. /\ Or(n.tcpPorts, {}, DefaultConfig.tcpPorts) = n.tcpPorts
        /\ Or(n.udpPorts, {}, DefaultConfig.udpPorts) = n.udpPorts
    BY <1>2, Zenon DEF Or
  <1>6. /\ Or(n.fakeTTL, 0, DefaultConfig.fakeTTL) = n.fakeTTL
        /\ Or(n.maxFlows, 0, DefaultConfig.maxFlows) = n.maxFlows
    BY <1>2, Zenon DEF Or
  <1>7. Normalized(n) = Normalized(c)
    BY <1>2, <1>3, <1>4, <1>5, <1>6, Zenon DEF Normalized
  <1> QED BY <1>1, <1>7, Zenon

(* The configuration the engine runs with, field by field. *)
LEMMA InForce ==
    ASSUME NEW f, NEW c, c = Normalized(routerConfigFromFlags(f))
    PROVE  /\ c.queueNum = Or(Uint16(f.queueNum), 0, DefaultConfig.queueNum)
           /\ c.mark = Or(f.mark, 0, DefaultConfig.mark)
           /\ c.tcpPorts = Or(Asked(f.tcpPorts), {}, DefaultConfig.tcpPorts)
           /\ c.udpPorts = Or(Asked(f.udpPorts), {}, DefaultConfig.udpPorts)
           /\ c.quic = f.quic
           /\ c.fakeTTL = Or(f.fakeTTL, 0, DefaultConfig.fakeTTL)
           /\ c.maxFlows = Or(f.maxFlows, 0, DefaultConfig.maxFlows)
  <1>1. intSliceToPorts(f.tcpPorts) = Asked(f.tcpPorts) /\ intSliceToPorts(f.udpPorts) = Asked(f.udpPorts)
    BY SMT DEF intSliceToPorts, Asked
  <1> QED BY <1>1, Zenon DEF Normalized, routerConfigFromFlags

(* A conversion to 16 bits gives 16 bits, and keeps what fits. *)
LEMMA Uint16Keeps ==
    ASSUME NEW q \in Nat
    PROVE  Uint16(q) \in Uint16s /\ (q \in Uint16s => Uint16(q) = q)
  <1>1. Uint16(q) \in Uint16s
    <2>1. Uint16(q) \in Int /\ 0 <= Uint16(q) /\ Uint16(q) < 65536
      BY SMT DEF Uint16
    <2> QED BY <2>1, SMT DEF Uint16s
  <1>2. q < 65536 => Uint16(q) = q
    BY SMT DEF Uint16
  <1>3. q \in Uint16s => q < 65536
    BY SMT DEF Uint16s
  <1> QED BY <1>1, <1>2, <1>3, SMT

(* A queue and a mark are never zero, and are the ones asked for; the      *)
(* ports stood in for those not given are ports.                           *)
LEMMA QueueInForce ==
    ASSUME NEW q \in Nat, NEW v, v = Or(Uint16(q), 0, DefaultConfig.queueNum)
    PROVE  v \in Uint16s \ {0} /\ (q \in Uint16s \ {0} => v = q)
  <1>1. DefaultConfig.queueNum \in Uint16s \ {0}
    BY SMT DEF DefaultConfig, Uint16s
  <1> QED BY <1>1, Uint16Keeps, Zenon DEF Or

(* The mark in force, asked for or by default. *)
LEMMA MarkInForce ==
    ASSUME NEW m \in Nat, NEW v, v = Or(m, 0, DefaultConfig.mark)
    PROVE  v > 0 /\ (m > 0 => v = m)
  <1>1. DefaultConfig.mark \in Nat \ {0}
    BY SMT DEF DefaultConfig
  <1> QED BY <1>1, SMT DEF Or

(* Asked for or by default, the ports in force are some, and each is one. *)
LEMMA PortsInForce ==
    ASSUME NEW asked, NEW ports,
           ports \in {Or(Asked(asked), {}, DefaultConfig.tcpPorts), Or(Asked(asked), {}, DefaultConfig.udpPorts)}
    PROVE  ports # {} /\ \A p \in ports : ValidPort(p)
  <1>1. ValidPort(443)
    BY SMT DEF ValidPort
  <1>2. /\ DefaultConfig.tcpPorts # {} /\ \A p \in DefaultConfig.tcpPorts : ValidPort(p)
        /\ DefaultConfig.udpPorts # {} /\ \A p \in DefaultConfig.udpPorts : ValidPort(p)
    BY <1>1, SMT DEF DefaultConfig
  <1>3. \A p \in Asked(asked) : ValidPort(p)
    BY Zenon DEF Asked
  <1> QED BY <1>2, <1>3, Zenon DEF Or

(* What BuildRuleSet puts into the rules is what the configuration says. *)
LEMMA SoundFlags == FlagsOK => ConfigSound
  <1> SUFFICES ASSUME FlagsOK PROVE ConfigSound
    OBVIOUS
  <1> DEFINE r == routerConfigFromFlags(flags)
             c == Normalized(r)
             rules == BuildRuleSet(c)
  <1>1. Normalized(c) = c
    BY NormalizedTwice
  <1>2. /\ c.queueNum = Or(Uint16(flags.queueNum), 0, DefaultConfig.queueNum)
        /\ c.mark = Or(flags.mark, 0, DefaultConfig.mark)
        /\ c.tcpPorts = Or(Asked(flags.tcpPorts), {}, DefaultConfig.tcpPorts)
        /\ c.udpPorts = Or(Asked(flags.udpPorts), {}, DefaultConfig.udpPorts)
        /\ c.quic = flags.quic
        /\ c.fakeTTL = Or(flags.fakeTTL, 0, DefaultConfig.fakeTTL)
        /\ c.maxFlows = Or(flags.maxFlows, 0, DefaultConfig.maxFlows)
    BY InForce
  <1> HIDE DEF c, r
  <1>3. /\ rules.queue = c.queueNum /\ rules.mark = c.mark /\ rules.tcp = c.tcpPorts
        /\ rules.udp = IF c.quic THEN c.udpPorts ELSE {}
    BY <1>1, Zenon DEF BuildRuleSet
  <1> HIDE DEF rules
  <1>4. rules.queue \in Uint16s \ {0} /\ (flags.queueNum \in Uint16s \ {0} => rules.queue = flags.queueNum)
    <2>1. flags.queueNum \in Nat
      BY DEF FlagsOK
    <2> QED BY <1>2, <1>3, <2>1, QueueInForce, Zenon
  <1>5. rules.mark > 0 /\ (flags.mark > 0 => rules.mark = flags.mark)
    <2>1. flags.mark \in Nat
      BY DEF FlagsOK
    <2> QED BY <1>2, <1>3, <2>1, MarkInForce, Zenon
  <1>6. rules.tcp # {} /\ \A p \in rules.tcp \cup rules.udp : ValidPort(p)
    <2>1. c.tcpPorts # {} /\ (\A p \in c.tcpPorts : ValidPort(p)) /\ \A p \in c.udpPorts : ValidPort(p)
      BY <1>2, PortsInForce, Zenon
    <2> QED BY <1>3, <2>1, Zenon
  <1>7. rules.tcp = Or(Asked(flags.tcpPorts), {}, DefaultConfig.tcpPorts)
    BY <1>2, <1>3, Zenon
  <1>8. /\ flags.quic /\ Asked(flags.udpPorts) # {} => rules.udp = Asked(flags.udpPorts)
        /\ flags.fakeTTL # 0 => c.fakeTTL = flags.fakeTTL
        /\ flags.maxFlows # 0 => c.maxFlows = flags.maxFlows
    BY <1>2, <1>3, Zenon DEF Or
  <1> QED
    BY <1>1, <1>4, <1>5, <1>6, <1>7, <1>8, Zenon DEF ConfigSound, c, r, rules

(* pkg/router/config.go: a configuration that Validate accepts is the one  *)
(* the rules and the processor use, for any values given to the flags.     *)
THEOREM ConfigSoundAlways == ConfigSpec => []ConfigSound
  BY FlagsTyped, SoundFlags, PTL

-----------------------------------------------------------------------------
(* BuildPacket. *)
(* Sums is defined: by induction there is a function that meets its equation. *)
LEMMA SumsDef ==
    ASSUME NEW ns \in Seq(Int)
    PROVE  /\ Sums(ns)[0] = 0
           /\ \A k \in 1..Len(ns) : Sums(ns)[k] = Sums(ns)[k - 1] + ns[k]
  <1> DEFINE Def(g) == [k \in 0..Len(ns) |-> IF k = 0 THEN 0 ELSE g[k - 1] + ns[k]]
             Upto(m) == \E g : /\ g = [k \in 0..m |-> g[k]]
                               /\ g[0] = 0
                               /\ \A k \in 1..m : g[k] = g[k - 1] + ns[k]
             G == {m \in 0..Len(ns) : Upto(m)}
  <1>0. Len(ns) \in Nat
    OBVIOUS
  <1>1. 0 \in G
    <2> DEFINE g == [k \in 0..0 |-> 0]
    <2>1. g[0] = 0 /\ g = [k \in 0..0 |-> g[k]]
      OBVIOUS
    <2> HIDE DEF g
    <2>2. Upto(0)
      BY <2>1
    <2> QED BY <2>2, <1>0
  <1>2. ASSUME NEW m \in 1..Len(ns), m - 1 \in G PROVE m \in G
    <2>1. PICK g : /\ g = [k \in 0..m-1 |-> g[k]] /\ g[0] = 0
                   /\ \A k \in 1..m-1 : g[k] = g[k - 1] + ns[k]
      BY <1>2
    <2> DEFINE h == [k \in 0..m |-> IF k = m THEN g[m - 1] + ns[m] ELSE g[k]]
    <2>2. h[0] = 0 /\ h = [k \in 0..m |-> h[k]]
      BY <2>1
    <2>3. ASSUME NEW k \in 1..m PROVE h[k] = h[k - 1] + ns[k]
      <3>1. h[k - 1] = g[k - 1]
        OBVIOUS
      <3>2. CASE k = m
        BY <3>1, <3>2
      <3>3. CASE k # m
        <4>1. k \in 1..m-1 /\ h[k] = g[k]
          BY <3>3
        <4> QED BY <2>1, <3>1, <4>1
      <3> QED BY <3>2, <3>3
    <2> HIDE DEF h
    <2>4. Upto(m)
      BY <2>2, <2>3
    <2>5. m \in 0..Len(ns)
      BY <1>0
    <2> HIDE DEF Upto
    <2> QED BY <2>4, <2>5
  <1>3. Len(ns) \in G
    <2> HIDE DEF G
    <2>1. G \in SUBSET (0..Len(ns))
      BY DEF G
    <2> QED BY <1>0, <1>1, <1>2, <2>1, Steps
  <1>4. \E g : g = Def(g)
    <2>1. PICK g : /\ g = [k \in 0..Len(ns) |-> g[k]] /\ g[0] = 0
                   /\ \A k \in 1..Len(ns) : g[k] = g[k - 1] + ns[k]
      BY <1>3
    <2>2. \A k \in 0..Len(ns) : g[k] = IF k = 0 THEN 0 ELSE g[k - 1] + ns[k]
      <3>1. \A k \in 0..Len(ns) : k = 0 \/ k \in 1..Len(ns)
        BY <1>0
      <3> QED BY <2>1, <3>1, Zenon
    <2>3. [k \in 0..Len(ns) |-> g[k]] = Def(g)
      BY <2>2, Zenon
    <2>4. g = Def(g)
      BY <2>1, <2>3, Zenon
    <2> QED BY <2>4, Zenon
  <1>5. Sums(ns) = CHOOSE g : g = Def(g)
    BY Zenon DEF Sums
  <1>6. Sums(ns) = Def(Sums(ns))
    <2> HIDE DEF Def
    <2> QED BY <1>4, <1>5
  <1>7. /\ Def(Sums(ns))[0] = 0
        /\ \A k \in 1..Len(ns) : Def(Sums(ns))[k] = Sums(ns)[k - 1] + ns[k]
    BY <1>0
  <1> HIDE DEF Def
  <1> QED BY <1>6, <1>7, Zenon

(* Sums of bytes and words are numbers, and grow by less than 65536 a word. *)
LEMMA SumsBound ==
    ASSUME NEW ns \in Seq(Uint16s)
    PROVE  \A k \in 0..Len(ns) : Sums(ns)[k] \in Nat /\ Sums(ns)[k] <= 65535 * k
  <1> DEFINE S == Sums(ns)
             G == {k \in 0..Len(ns) : S[k] \in Nat /\ S[k] <= 65535 * k}
  <1>0. Len(ns) \in Nat /\ ns \in Seq(Int) /\ \A k \in 1..Len(ns) : ns[k] \in Nat /\ ns[k] < 65536
    BY DEF Uint16s
  <1>1. S[0] = 0 /\ \A k \in 1..Len(ns) : S[k] = S[k - 1] + ns[k]
    BY <1>0, SumsDef
  <1> HIDE DEF S
  <1>2. 0 \in G
    BY <1>0, <1>1
  <1>3. ASSUME NEW k \in 1..Len(ns), k - 1 \in G PROVE k \in G
    <2>1. ns[k] \in Nat /\ ns[k] <= 65535
      BY <1>0
    <2>2. S[k] = S[k - 1] + ns[k]
      BY <1>1
    <2> QED BY <1>3, <2>1, <2>2
  <1>4. G = 0..Len(ns)
    <2>1. G \in SUBSET (0..Len(ns))
      OBVIOUS
    <2> HIDE DEF G
    <2> QED BY <1>0, <1>2, <1>3, <2>1, Steps
  <1> QED BY <1>4 DEF S

-----------------------------------------------------------------------------
Octets == 0..255

(* A byte as a bound, for the arithmetic. *)
LEMMA OctetType == \A b : b \in Octets <=> b \in Nat /\ b < 256
  BY SMT DEF Octets

(* What each byte adds to the sum of the 16-bit words it lies in. *)
Weights(d) == [i \in 1..Len(d) |-> IF i % 2 = 1 THEN 256 * d[i] ELSE d[i]]

(* What the bytes add is of 16 bits. *)
LEMMA WeightsType ==
    ASSUME NEW d \in Seq(Octets)
    PROVE  /\ Len(d) \in Nat /\ Weights(d) \in Seq(Uint16s) /\ Weights(d) \in Seq(Int)
           /\ Len(Weights(d)) = Len(d)
           /\ \A i \in 1..Len(d) : Weights(d)[i] = (IF i % 2 = 1 THEN 256 * d[i] ELSE d[i])
  <1>1. Len(d) \in Nat /\ \A i \in 1..Len(d) : d[i] \in Nat /\ d[i] < 256
    BY OctetType
  <1>2. \A i \in 1..Len(d) : /\ (IF i % 2 = 1 THEN 256 * d[i] ELSE d[i]) \in Uint16s
                             /\ (IF i % 2 = 1 THEN 256 * d[i] ELSE d[i]) \in Int
    BY <1>1 DEF Uint16s
  <1> QED BY <1>1, <1>2 DEF Weights

(* The 16-bit words of d. *)
LEMMA WordsType ==
    ASSUME NEW d \in Seq(Octets)
    PROVE  /\ Words(d) \in Seq(Uint16s) /\ Words(d) \in Seq(Int)
           /\ Len(d) \div 2 \in Nat /\ Len(Words(d)) = Len(d) \div 2
           /\ \A k \in 1..(Len(d) \div 2) :
                /\ 2 * k - 1 \in 1..Len(d) /\ 2 * k \in 1..Len(d)
                /\ Words(d)[k] = 256 * d[2 * k - 1] + d[2 * k]
  <1>1. Len(d) \in Nat /\ \A i \in 1..Len(d) : d[i] \in Nat /\ d[i] < 256
    BY OctetType
  <1>2. Len(d) \div 2 \in Nat /\ 2 * (Len(d) \div 2) <= Len(d)
    BY <1>1
  <1>3. \A k \in 1..(Len(d) \div 2) : 2 * k - 1 \in 1..Len(d) /\ 2 * k \in 1..Len(d)
    BY <1>1, <1>2
  <1>4. ASSUME NEW k \in 1..(Len(d) \div 2)
        PROVE  256 * d[2 * k - 1] + d[2 * k] \in Uint16s /\ 256 * d[2 * k - 1] + d[2 * k] \in Int
    <2>1. d[2 * k - 1] \in Nat /\ d[2 * k - 1] < 256 /\ d[2 * k] \in Nat /\ d[2 * k] < 256
      BY <1>1, <1>3
    <2> QED BY <2>1 DEF Uint16s
  <1> QED BY <1>2, <1>3, <1>4 DEF Words

(* The code's sum over words is the sum of what the bytes add. *)
LEMMA WordSumIs ==
    ASSUME NEW d \in Seq(Octets)
    PROVE  WordSum(d) = Total(Weights(d))
  <1> DEFINE n == Len(d) \div 2
             W == Sums(Words(d))
             B == Sums(Weights(d))
             G == {k \in 0..n : B[2 * k] = W[k]}
  <1>1. /\ Len(d) \in Nat /\ n \in Nat /\ \A i \in 1..Len(d) : d[i] \in Nat
        /\ Len(d) = 2 * n \/ Len(d) = 2 * n + 1
    BY OctetType
  <1>2. W[0] = 0 /\ \A k \in 1..n : W[k] = W[k - 1] + Words(d)[k]
    <2>1. Words(d) \in Seq(Int)
      BY WordsType
    <2> QED BY <2>1, SumsDef, WordsType
  <1>3. B[0] = 0 /\ \A i \in 1..Len(d) : B[i] = B[i - 1] + Weights(d)[i]
    <2>1. Weights(d) \in Seq(Int)
      BY WeightsType
    <2> QED BY <2>1, SumsDef, WeightsType
  <1>4. \A i \in 0..Len(d) : B[i] \in Nat
    BY SumsBound, WeightsType
  <1> HIDE DEF W, B
  <1>5. 0 \in G
    BY <1>1, <1>2, <1>3
  <1>6. ASSUME NEW k \in 1..n, k - 1 \in G PROVE k \in G
    <2>1. /\ 2 * k - 1 \in 1..Len(d) /\ 2 * k \in 1..Len(d)
          /\ Words(d)[k] = 256 * d[2 * k - 1] + d[2 * k]
      BY WordsType
    <2>2. (2 * k - 1) % 2 = 1 /\ (2 * k) % 2 = 0
      BY <1>1
    <2>3. Weights(d)[2 * k - 1] = 256 * d[2 * k - 1] /\ Weights(d)[2 * k] = d[2 * k]
      BY <2>1, <2>2, WeightsType
    <2>4. B[2 * k - 1] = B[2 * k - 2] + 256 * d[2 * k - 1]
      <3>1. (2 * k - 1) - 1 = 2 * k - 2
        BY <1>1
      <3> QED BY <1>3, <2>1, <2>3, <3>1
    <2>5. B[2 * k] = B[2 * k - 1] + d[2 * k]
      BY <1>3, <2>1, <2>3
    <2>6. B[2 * k - 2] = W[k - 1] /\ W[k] = W[k - 1] + Words(d)[k]
      <3>1. 2 * (k - 1) = 2 * k - 2
        BY <1>1
      <3> QED BY <1>2, <1>6, <3>1
    <2>7. B[2 * k - 2] \in Nat /\ d[2 * k - 1] \in Nat /\ d[2 * k] \in Nat
      <3>1. 2 * k - 2 \in 0..Len(d)
        BY <1>1, <2>1
      <3> QED BY <1>1, <1>4, <2>1, <3>1
    <2> QED BY <2>1, <2>4, <2>5, <2>6, <2>7
  <1>7. n \in G
    <2>1. G \in SUBSET (0..n)
      OBVIOUS
    <2> HIDE DEF G
    <2> QED BY <1>1, <1>5, <1>6, <2>1, Steps
  <1>8. B[2 * n] = W[n] /\ Total(Words(d)) = W[n]
    BY <1>7, WordsType DEF Total, W
  <1>9. Total(Weights(d)) = B[Len(d)]
    BY WeightsType DEF Total, B
  <1>10. CASE Len(d) = 2 * n
    <2>1. Len(d) % 2 = 0
      BY <1>1, <1>10
    <2>2. W[n] \in Nat
      BY <1>1, <1>4, <1>8, <1>10
    <2> QED BY <1>8, <1>9, <1>10, <2>1, <2>2 DEF WordSum
  <1>11. CASE Len(d) = 2 * n + 1
    <2>1. Len(d) % 2 = 1 /\ Len(d) \in 1..Len(d) /\ Len(d) - 1 = 2 * n
      BY <1>1, <1>11
    <2>2. B[Len(d)] = B[Len(d) - 1] + 256 * d[Len(d)]
      <3>1. Weights(d)[Len(d)] = 256 * d[Len(d)]
        BY <2>1, WeightsType
      <3> QED BY <1>3, <2>1, <3>1
    <2> QED BY <1>8, <1>9, <2>1, <2>2 DEF WordSum
  <1> QED BY <1>1, <1>10, <1>11

(* Put writes a number of 16 bits into two bytes. *)
LEMMA PutFacts ==
    ASSUME NEW v \in Nat
    PROVE  /\ Put(v) \in Seq(Octets) /\ Len(Put(v)) = 2
           /\ Put(v)[1] \in Octets /\ Put(v)[2] \in Octets
           /\ v \in Uint16s => 256 * Put(v)[1] + Put(v)[2] = v
  <1>1. /\ (v \div 256) % 256 \in Nat /\ (v \div 256) % 256 < 256
        /\ v % 256 \in Nat /\ v % 256 < 256
    OBVIOUS
  <1>2. v < 65536 => 256 * ((v \div 256) % 256) + (v % 256) = v
    <2>1. v \div 256 \in Nat /\ v = 256 * (v \div 256) + (v % 256)
      BY SMT
    <2>2. v < 65536 => v \div 256 < 256
      BY <1>1, <2>1
    <2>3. v < 65536 => (v \div 256) % 256 = v \div 256
      BY <2>1, <2>2
    <2> QED BY <2>1, <2>3
  <1>3. (v \div 256) % 256 \in Octets /\ v % 256 \in Octets
    BY <1>1, OctetType
  <1>4. Put(v) = <<(v \div 256) % 256, v % 256>>
    BY DEF Put
  <1>5. Put(v)[1] = (v \div 256) % 256 /\ Put(v)[2] = v % 256
    BY <1>4
  <1>6. Put(v) \in Seq(Octets) /\ Len(Put(v)) = 2
    BY <1>3, <1>4
  <1>7. v \in Uint16s => 256 * Put(v)[1] + Put(v)[2] = v
    BY <1>2, <1>5 DEF Uint16s
  <1> QED BY <1>3, <1>5, <1>6, <1>7, Zenon

(* Patch writes two bytes and keeps the others. *)
LEMMA PatchFacts ==
    ASSUME NEW d \in Seq(Octets), NEW at \in 1..Len(d), at + 1 <= Len(d), NEW v \in Nat
    PROVE  /\ Patch(d, at, v) \in Seq(Octets) /\ Len(Patch(d, at, v)) = Len(d)
           /\ Patch(d, at, v)[at] = Put(v)[1] /\ Patch(d, at, v)[at + 1] = Put(v)[2]
           /\ \A i \in 1..Len(d) : i \notin {at, at + 1} => Patch(d, at, v)[i] = d[i]
  <1>1. Put(v)[1] \in Octets /\ Put(v)[2] \in Octets
    BY PutFacts
  <1> HIDE DEF Put
  <1>2. at \in Nat /\ at + 1 \in 1..Len(d) /\ Len(d) \in Nat /\ d \in [1..Len(d) -> Octets]
    OBVIOUS
  <1>3. Patch(d, at, v) \in [1..Len(d) -> Octets]
    BY <1>1, <1>2 DEF Patch
  <1>4. Patch(d, at, v) \in Seq(Octets) /\ Len(Patch(d, at, v)) = Len(d)
    BY <1>2, <1>3
  <1>5. /\ Patch(d, at, v)[at] = Put(v)[1] /\ Patch(d, at, v)[at + 1] = Put(v)[2]
        /\ \A i \in 1..Len(d) : i \notin {at, at + 1} => Patch(d, at, v)[i] = d[i]
    BY <1>2 DEF Patch
  <1> QED BY <1>4, <1>5

(* Writing a number over two zero bytes of a word adds it to the sum. *)
LEMMA PatchSum ==
    ASSUME NEW d \in Seq(Octets), NEW at \in 1..Len(d), at + 1 <= Len(d), at % 2 = 1,
           d[at] = 0, d[at + 1] = 0, NEW v \in Uint16s
    PROVE  Total(Weights(Patch(d, at, v))) = Total(Weights(d)) + v
  <1> DEFINE p == Patch(d, at, v)
             B == Sums(Weights(d))
             P == Sums(Weights(p))
             Extra(i) == IF i < at THEN 0 ELSE IF i = at THEN 256 * Put(v)[1] ELSE v
             G == {i \in 0..Len(d) : P[i] = B[i] + Extra(i)}
  <1>0. v \in Nat
    BY DEF Uint16s
  <1>1. Len(d) \in Nat /\ at \in Nat /\ at + 1 \in 1..Len(d) /\ (at + 1) % 2 = 0
    OBVIOUS
  <1>2. p \in Seq(Octets) /\ Len(p) = Len(d)
    BY <1>0, PatchFacts, Zenon
  <1>3. /\ p[at] = Put(v)[1] /\ p[at + 1] = Put(v)[2]
        /\ \A i \in 1..Len(d) : i \notin {at, at + 1} => p[i] = d[i]
    BY <1>0, PatchFacts, Zenon
  <1> HIDE DEF p
  <1>4. B[0] = 0 /\ \A i \in 1..Len(d) : B[i] = B[i - 1] + Weights(d)[i]
    <2>1. Weights(d) \in Seq(Int)
      BY WeightsType
    <2> QED BY <2>1, SumsDef, WeightsType
  <1>5. P[0] = 0 /\ \A i \in 1..Len(d) : P[i] = P[i - 1] + Weights(p)[i]
    <2>1. Weights(p) \in Seq(Int)
      BY <1>2, WeightsType
    <2> QED BY <1>2, <2>1, SumsDef, WeightsType
  <1>6. \A i \in 0..Len(d) : B[i] \in Nat
    BY SumsBound, WeightsType
  <1>7. v \in Nat /\ Put(v)[1] \in Nat /\ Put(v)[2] \in Nat /\ 256 * Put(v)[1] + Put(v)[2] = v
    <2>1. Put(v)[1] \in Octets /\ Put(v)[2] \in Octets /\ 256 * Put(v)[1] + Put(v)[2] = v
      BY <1>0, PutFacts, Zenon
    <2> QED BY <1>0, <2>1, OctetType, Zenon
  <1>16. /\ \A i \in 1..Len(d) : Weights(d)[i] = (IF i % 2 = 1 THEN 256 * d[i] ELSE d[i])
        /\ \A i \in 1..Len(d) : Weights(p)[i] = (IF i % 2 = 1 THEN 256 * p[i] ELSE p[i])
    <2>1. \A i \in 1..Len(d) : Weights(d)[i] = (IF i % 2 = 1 THEN 256 * d[i] ELSE d[i])
      BY WeightsType
    <2>2. \A i \in 1..Len(p) : Weights(p)[i] = (IF i % 2 = 1 THEN 256 * p[i] ELSE p[i])
      BY <1>2, WeightsType
    <2> QED BY <1>2, <2>1, <2>2
  <1>8. /\ Weights(d)[at] = 0 /\ Weights(p)[at] = 256 * Put(v)[1]
        /\ Weights(d)[at + 1] = 0 /\ Weights(p)[at + 1] = Put(v)[2]
    BY <1>1, <1>3, <1>16
  <1>9. \A i \in 1..Len(d) : i \notin {at, at + 1} => Weights(p)[i] = Weights(d)[i]
    BY <1>3, <1>16
  <1>10. \A i \in 1..Len(d) : Weights(d)[i] \in Nat
    <2>1. Weights(d) \in Seq(Uint16s) /\ Len(Weights(d)) = Len(d)
      BY WeightsType
    <2> QED BY <2>1 DEF Uint16s
  <1> HIDE DEF B, P
  <1>11. 0 \in G
    BY <1>1, <1>4, <1>5
  <1>12. ASSUME NEW i \in 1..Len(d), i - 1 \in G PROVE i \in G
    <2>1. P[i - 1] = B[i - 1] + Extra(i - 1) /\ B[i - 1] \in Nat
      BY <1>6, <1>12
    <2>2. P[i] = P[i - 1] + Weights(p)[i] /\ B[i] = B[i - 1] + Weights(d)[i]
      BY <1>4, <1>5
    <2>3. CASE i = at
      <3>1. Extra(i - 1) = 0 /\ Extra(i) = 256 * Put(v)[1]
        BY <1>1, <2>3
      <3> QED BY <1>7, <1>8, <2>1, <2>2, <2>3, <3>1
    <2>4. CASE i = at + 1
      <3>1. Extra(i - 1) = 256 * Put(v)[1] /\ Extra(i) = v
        BY <1>1, <2>4
      <3> QED BY <1>7, <1>8, <2>1, <2>2, <2>4, <3>1
    <2>5. CASE i \notin {at, at + 1}
      <3>1. Extra(i) = Extra(i - 1) /\ Extra(i) \in Nat
        <4>1. i < at \/ i > at + 1
          BY <1>1, <2>5
        <4> QED BY <1>1, <1>7, <4>1
      <3> HIDE DEF Extra
      <3>2. Weights(p)[i] = Weights(d)[i] /\ Weights(d)[i] \in Nat
        BY <1>9, <1>10, <2>5
      <3> QED BY <2>1, <2>2, <3>1, <3>2
    <2> QED BY <2>3, <2>4, <2>5
  <1>13. Len(d) \in G
    <2>1. G \in SUBSET (0..Len(d))
      OBVIOUS
    <2> HIDE DEF G
    <2> QED BY <1>1, <1>11, <1>12, <2>1, Steps
  <1>14. P[Len(d)] = B[Len(d)] + v
    BY <1>1, <1>13
  <1>15. Total(Weights(p)) = P[Len(d)] /\ Total(Weights(d)) = B[Len(d)]
    BY <1>2, WeightsType DEF Total, P, B
  <1> QED BY <1>14, <1>15 DEF p

(* One Fold takes away a multiple of 65535, and leaves little more than that. *)
LEMMA FoldFacts ==
    ASSUME NEW s \in Nat
    PROVE  \E q \in Nat : /\ Fold(s) \in Nat /\ s = Fold(s) + 65535 * q
                          /\ 65536 * q <= s /\ Fold(s) <= 65535 + q
  <1>1. /\ s \div 65536 \in Nat /\ s % 65536 \in Nat /\ s % 65536 < 65536
        /\ s = 65536 * (s \div 65536) + (s % 65536)
    OBVIOUS
  <1>2. Fold(s) = (s % 65536) + (s \div 65536)
    BY DEF Fold
  <1> QED BY <1>1, <1>2

(* What Checksum returns makes up the next multiple of 65535. *)
LEMMA ChecksumFacts ==
    ASSUME NEW d, WordSum(d) \in Nat, WordSum(d) <= 65535 * 32768
    PROVE  /\ Checksum(d) \in Nat /\ Checksum(d) < 65536
           /\ (WordSum(d) + Checksum(d)) % 65535 = 0
  <1> DEFINE s == WordSum(d)
  <1>1. PICK q \in Nat : /\ Fold(s) \in Nat /\ s = Fold(s) + 65535 * q
                         /\ 65536 * q <= s /\ Fold(s) <= 65535 + q
    BY FoldFacts
  <1>2. PICK r \in Nat : /\ Fold(Fold(s)) \in Nat /\ Fold(s) = Fold(Fold(s)) + 65535 * r
                         /\ 65536 * r <= Fold(s) /\ Fold(Fold(s)) <= 65535 + r
    BY <1>1, FoldFacts
  <1>3. Checksum(d) = 65535 - Fold(Fold(s))
    BY DEF Checksum
  <1> HIDE DEF s
  <1>4. q <= 32768 /\ Fold(s) <= 98303
    BY <1>1 DEF s
  <1>5. Fold(Fold(s)) <= 65535
    BY <1>1, <1>2, <1>4
  <1>6. s + Checksum(d) = 65535 * (q + r + 1) /\ Checksum(d) \in Nat /\ Checksum(d) < 65536
    BY <1>1, <1>2, <1>3, <1>5
  <1>7. \A n \in Nat : (65535 * n) % 65535 = 0
    BY SMT
  <1> QED BY <1>6, <1>7 DEF s

(* A sum with one positive term is positive. *)
LEMMA SumsPositive ==
    ASSUME NEW ns \in Seq(Uint16s),
           NEW j \in 1..Len(ns), ns[j] > 0
    PROVE  Total(ns) \in Nat \ {0}
  <1> DEFINE S == Sums(ns)
             G == {k \in 0..Len(ns) : k >= j => S[k] > 0}
  <1>0. Len(ns) \in Nat /\ ns \in Seq(Int) /\ j \in Nat /\ \A k \in 1..Len(ns) : ns[k] \in Nat
    BY DEF Uint16s
  <1>1. S[0] = 0 /\ \A k \in 1..Len(ns) : S[k] = S[k - 1] + ns[k]
    BY <1>0, SumsDef
  <1>2. \A k \in 0..Len(ns) : S[k] \in Nat
    BY SumsBound
  <1> HIDE DEF S
  <1>3. 0 \in G
    BY <1>0
  <1>4. ASSUME NEW k \in 1..Len(ns), k - 1 \in G PROVE k \in G
    <2>1. S[k] = S[k - 1] + ns[k] /\ S[k - 1] \in Nat /\ ns[k] \in Nat
      BY <1>0, <1>1, <1>2
    <2>2. CASE k = j
      BY <2>1, <2>2
    <2>3. CASE k # j
      <3>1. k >= j => k - 1 >= j
        BY <1>0, <2>3
      <3> QED BY <1>4, <2>1, <3>1
    <2> QED BY <2>2, <2>3
  <1>5. Len(ns) \in G
    <2>1. G \in SUBSET (0..Len(ns))
      OBVIOUS
    <2> HIDE DEF G
    <2> QED BY <1>0, <1>3, <1>4, <2>1, Steps
  <1>6. S[Len(ns)] > 0 /\ S[Len(ns)] \in Nat
    BY <1>0, <1>2, <1>5
  <1> QED BY <1>6 DEF Total, S

(* Bytes that are not all zero, with room for a checksum at a place. *)
Room(d, at) ==
    /\ at \in 1..Len(d) /\ at + 1 <= Len(d) /\ at % 2 = 1 /\ d[at] = 0 /\ d[at + 1] = 0
    /\ Len(d) < 65535
    /\ \E j \in 1..Len(d) : d[j] # 0

(* A header or segment whose checksum field is zero verifies once the      *)
(* checksum is written into it.                                            *)
LEMMA Checksummed ==
    ASSUME NEW d \in Seq(Octets), NEW at, Room(d, at)
    PROVE  Checksum(d) \in Uint16s /\ Verifies(Patch(d, at, Checksum(d)))
  <1> DEFINE n == Len(d) \div 2
  <1>0. /\ Len(d) \in Nat /\ n \in Nat /\ n <= 32767
        /\ \A i \in 1..Len(d) : d[i] \in Nat /\ d[i] < 256
    BY OctetType DEF Room
  <1>8. PICK j \in 1..Len(d) : d[j] # 0
    BY DEF Room
  <1>1. Total(Weights(d)) \in Nat \ {0}
    <2>1. d[j] \in Nat /\ d[j] > 0
      BY <1>0, <1>8
    <2>2. Weights(d)[j] = (IF j % 2 = 1 THEN 256 * d[j] ELSE d[j])
      BY WeightsType
    <2>3. Weights(d)[j] > 0
      BY <2>1, <2>2
    <2>4. Weights(d) \in Seq(Uint16s) /\ j \in 1..Len(Weights(d))
      BY WeightsType
    <2> QED BY <2>3, <2>4, SumsPositive
  <1>2. WordSum(d) = Total(Weights(d))
    BY WordSumIs
  <1>3. WordSum(d) <= 65535 * 32768
    <2>1. Total(Words(d)) \in Nat /\ Total(Words(d)) <= 65535 * n
      <3>1. Words(d) \in Seq(Uint16s) /\ Len(Words(d)) = n
        BY WordsType
      <3>2. \A k \in 0..Len(Words(d)) : Sums(Words(d))[k] \in Nat /\ Sums(Words(d))[k] <= 65535 * k
        BY <3>1, SumsBound
      <3> QED BY <1>0, <3>1, <3>2 DEF Total
    <2>2. Len(d) % 2 = 0 => WordSum(d) = Total(Words(d))
      BY <2>1 DEF WordSum
    <2>3. Len(d) % 2 # 0 => WordSum(d) <= Total(Words(d)) + 65280
      <3>1. d[Len(d)] \in Nat /\ d[Len(d)] < 256
        BY <1>0
      <3> QED BY <2>1, <3>1 DEF WordSum
    <2> HIDE DEF n
    <2> QED BY <1>0, <1>1, <1>2, <2>1, <2>2, <2>3
  <1>4. /\ Checksum(d) \in Nat /\ Checksum(d) < 65536
        /\ (WordSum(d) + Checksum(d)) % 65535 = 0
    BY <1>1, <1>2, <1>3, ChecksumFacts
  <1>5. Checksum(d) \in Uint16s
    BY <1>4 DEF Uint16s
  <1> DEFINE p == Patch(d, at, Checksum(d))
  <1>6. Total(Weights(p)) = Total(Weights(d)) + Checksum(d)
    BY <1>5, PatchSum DEF Room
  <1>7. Total(Weights(p)) > 0 /\ Total(Weights(p)) % 65535 = 0
    BY <1>1, <1>2, <1>4, <1>6
  <1> QED BY <1>5, <1>7 DEF Verifies, Weights

-----------------------------------------------------------------------------
(* The bytes t lie in p behind its first o bytes. *)
At(p, o, t) == \A i \in 1..Len(t) : p[o + i] = t[i]

(* Bytes behind bytes. *)
LEMMA Cat ==
    ASSUME NEW s \in Seq(Octets), NEW t \in Seq(Octets)
    PROVE  s \o t \in Seq(Octets) /\ Len(s \o t) = Len(s) + Len(t)
  BY ConcatProperties

(* s o t lies at a place if s does and t behind it. *)
LEMMA AtCat ==
    ASSUME NEW p, NEW o \in Nat, NEW s \in Seq(Octets), NEW t \in Seq(Octets)
    PROVE  At(p, o, s \o t) <=> At(p, o, s) /\ At(p, o + Len(s), t)
  <1> DEFINE c == s \o t
  <1>0. Len(s) \in Nat /\ Len(t) \in Nat
    OBVIOUS
  <1>1. /\ Len(c) = Len(s) + Len(t)
        /\ \A i \in 1..Len(s) + Len(t) : c[i] = IF i <= Len(s) THEN s[i] ELSE t[i - Len(s)]
    BY ConcatProperties
  <1> HIDE DEF c
  <1>2. /\ \A i \in 1..Len(s) : i \in 1..Len(c) /\ c[i] = s[i]
        /\ \A i \in 1..Len(t) : Len(s) + i \in 1..Len(c) /\ c[Len(s) + i] = t[i]
    BY <1>0, <1>1
  <1>3. ASSUME At(p, o, c) PROVE At(p, o, s) /\ At(p, o + Len(s), t)
    <2>1. \A i \in 1..Len(s) : p[o + i] = s[i]
      BY <1>2, <1>3 DEF At
    <2>2. \A i \in 1..Len(t) : p[o + (Len(s) + i)] = t[i]
      BY <1>2, <1>3 DEF At
    <2>3. \A i \in 1..Len(t) : o + (Len(s) + i) = (o + Len(s)) + i
      BY <1>0
    <2> QED BY <2>1, <2>2, <2>3 DEF At
  <1>4. ASSUME At(p, o, s), At(p, o + Len(s), t) PROVE At(p, o, c)
    <2>1. ASSUME NEW i \in 1..Len(c) PROVE p[o + i] = c[i]
      <3>1. CASE i <= Len(s)
        BY <1>0, <1>1, <1>4, <3>1 DEF At
      <3>2. CASE i > Len(s)
        <4>1. i - Len(s) \in 1..Len(t) /\ (o + Len(s)) + (i - Len(s)) = o + i
          BY <1>0, <1>1, <3>2
        <4>2. c[i] = t[i - Len(s)]
          BY <1>0, <1>1, <3>2
        <4> QED BY <1>4, <4>1, <4>2 DEF At
      <3> QED BY <1>0, <1>1, <3>1, <3>2
    <2> QED BY <2>1 DEF At
  <1> QED BY <1>3, <1>4 DEF c

(* What lies at a place is the part of p from there. *)
LEMMA AtSub ==
    ASSUME NEW p \in Seq(Octets), NEW o \in Nat, NEW t \in Seq(Octets),
           At(p, o, t), o + Len(t) <= Len(p)
    PROVE  SubSeq(p, o + 1, o + Len(t)) = t
  <1> DEFINE u == SubSeq(p, o + 1, o + Len(t))
  <1>0. Len(p) \in Nat /\ Len(t) \in Nat /\ o + 1 \in Int /\ o + Len(t) \in Int
    OBVIOUS
  <1>1. \A i \in o + 1..o + Len(t) : p[i] \in Octets
    BY <1>0
  <1>2. /\ u \in Seq(Octets) /\ Len(u) = (IF o + 1 <= o + Len(t) THEN (o + Len(t)) - (o + 1) + 1 ELSE 0)
        /\ \A i \in 1..((o + Len(t)) - (o + 1) + 1) : u[i] = p[(o + 1) + i - 1]
    BY <1>0, <1>1, SubSeqProperties
  <1> HIDE DEF u
  <1>3. Len(u) = Len(t) /\ (o + Len(t)) - (o + 1) + 1 = Len(t)
    BY <1>0, <1>2
  <1>4. ASSUME NEW i \in 1..Len(u) PROVE u[i] = t[i]
    <2>1. (o + 1) + i - 1 = o + i /\ i \in 1..Len(t)
      BY <1>0, <1>3
    <2>2. u[i] = p[o + i]
      BY <1>2, <1>3, <2>1
    <2> QED BY <2>1, <2>2 DEF At
  <1>5. u = t
    BY <1>2, <1>3, <1>4, SeqEqual
  <1> QED BY <1>5 DEF u

(* Writing into the second part is writing into the whole, further on. *)
LEMMA PatchBehind ==
    ASSUME NEW s \in Seq(Octets), NEW t \in Seq(Octets), NEW at \in 1..Len(t), at + 1 <= Len(t),
           NEW v \in Nat
    PROVE  s \o Patch(t, at, v) = Patch(s \o t, Len(s) + at, v)
  <1> DEFINE c == s \o t
             p == Patch(t, at, v)
             q == Patch(c, Len(s) + at, v)
  <1>0. Len(s) \in Nat /\ Len(t) \in Nat /\ at \in Nat
    OBVIOUS
  <1>1. p \in Seq(Octets) /\ Len(p) = Len(t)
    BY PatchFacts
  <1>2. /\ p[at] = Put(v)[1] /\ p[at + 1] = Put(v)[2]
        /\ \A i \in 1..Len(t) : i \notin {at, at + 1} => p[i] = t[i]
    BY PatchFacts
  <1>3. /\ c \in Seq(Octets) /\ Len(c) = Len(s) + Len(t)
        /\ \A i \in 1..Len(s) + Len(t) : c[i] = IF i <= Len(s) THEN s[i] ELSE t[i - Len(s)]
    BY ConcatProperties
  <1>4. Len(s) + at \in 1..Len(c) /\ (Len(s) + at) + 1 <= Len(c)
    BY <1>0, <1>3
  <1>5. q \in Seq(Octets) /\ Len(q) = Len(c)
    BY <1>3, <1>4, PatchFacts
  <1>6. /\ q[Len(s) + at] = Put(v)[1] /\ q[(Len(s) + at) + 1] = Put(v)[2]
        /\ \A i \in 1..Len(c) : i \notin {Len(s) + at, (Len(s) + at) + 1} => q[i] = c[i]
    BY <1>3, <1>4, PatchFacts
  <1> HIDE DEF c, p, q
  <1>7. /\ s \o p \in Seq(Octets) /\ Len(s \o p) = Len(s) + Len(p)
        /\ \A i \in 1..Len(s) + Len(p) : (s \o p)[i] = IF i <= Len(s) THEN s[i] ELSE p[i - Len(s)]
    BY <1>1, ConcatProperties
  <1>8. ASSUME NEW i \in 1..Len(s \o p) PROVE (s \o p)[i] = q[i]
    <2>0. i \in Nat /\ i \in 1..Len(c) /\ i \in 1..Len(s) + Len(t) /\ i \in 1..Len(s) + Len(p)
      BY <1>0, <1>1, <1>3, <1>7
    <2>1. CASE i <= Len(s)
      <3>1. (s \o p)[i] = s[i] /\ c[i] = s[i]
        BY <1>3, <1>7, <2>0, <2>1
      <3>2. i \notin {Len(s) + at, (Len(s) + at) + 1}
        BY <1>0, <2>0, <2>1
      <3> QED BY <1>6, <2>0, <3>1, <3>2
    <2>2. CASE i > Len(s)
      <3>1. (s \o p)[i] = p[i - Len(s)] /\ c[i] = t[i - Len(s)]
        BY <1>0, <1>3, <1>7, <2>0, <2>2
      <3>2. CASE i = Len(s) + at
        BY <1>0, <1>2, <1>6, <3>1, <3>2
      <3>3. CASE i = (Len(s) + at) + 1
        <4>1. i - Len(s) = at + 1
          BY <1>0, <3>3
        <4> QED BY <1>2, <1>6, <3>1, <3>3, <4>1
      <3>4. CASE i \notin {Len(s) + at, (Len(s) + at) + 1}
        <4>1. i - Len(s) \in 1..Len(t) /\ i - Len(s) \notin {at, at + 1}
          BY <1>0, <1>1, <2>0, <2>2, <3>4
        <4> QED BY <1>2, <1>6, <2>0, <3>1, <3>4, <4>1
      <3> QED BY <3>2, <3>3, <3>4
    <2> QED BY <1>0, <2>0, <2>1, <2>2
  <1>9. s \o p = q
    BY <1>1, <1>3, <1>5, <1>7, <1>8, SeqEqual
  <1> QED BY <1>9 DEF c, p, q

-----------------------------------------------------------------------------
(* n bytes *)
Block(s, n) == s \in Seq(Octets) /\ Len(s) = n

(* Cat, with the lengths named. *)
LEMMA CatBlock ==
    ASSUME NEW m \in Nat, NEW n \in Nat, NEW k, m + n = k,
           NEW s, Block(s, m), NEW t, Block(t, n)
    PROVE  Block(s \o t, k)
  <1>1. s \o t \in Seq(Octets) /\ Len(s \o t) = Len(s) + Len(t)
    BY Cat DEF Block
  <1> QED BY <1>1 DEF Block

(* AtCat, with the lengths named. *)
LEMMA AtBlocks ==
    ASSUME NEW m \in Nat, NEW n \in Nat, NEW o \in Nat, NEW k, o + m = k,
           NEW s, Block(s, m), NEW t, Block(t, n), NEW p
    PROVE  At(p, o, s \o t) <=> At(p, o, s) /\ At(p, k, t)
  <1>1. At(p, o, s \o t) <=> At(p, o, s) /\ At(p, o + Len(s), t)
    BY AtCat DEF Block
  <1>2. o + Len(s) = k
    BY DEF Block
  <1> QED BY <1>1, <1>2

(* p lies in itself. *)
LEMMA AtSelf == ASSUME NEW p, Len(p) \in Nat PROVE At(p, 0, p)
  BY DEF At

(* Literal sequences of bytes. *)
LEMMA Two == ASSUME NEW a \in Octets, NEW b \in Octets PROVE Block(<<a, b>>, 2) /\ <<a, b>>[1] = a
  BY DEF Block

LEMMA Four ==
    ASSUME NEW a \in Octets, NEW b \in Octets, NEW c \in Octets, NEW d \in Octets
    PROVE  Block(<<a, b, c, d>>, 4)
  BY DEF Block

LEMMA Six ==
    ASSUME NEW a \in Octets, NEW b \in Octets, NEW c \in Octets, NEW d \in Octets,
           NEW e \in Octets, NEW f \in Octets
    PROVE  Block(<<a, b, c, d, e, f>>, 6)
  BY DEF Block

(* The fields of a connection have the lengths of the headers' fields. *)
LEMMA ConnFields ==
    ASSUME NEW c \in ConnInfo
    PROVE  /\ Block(c.SrcIP, 4) /\ Block(c.DstIP, 4) /\ Block(c.SrcPort, 2) /\ Block(c.DstPort, 2)
           /\ Block(c.Seq, 4) /\ Block(c.Ack, 4)
  <1>1. /\ c.SrcIP \in [1..4 -> Octets] /\ c.DstIP \in [1..4 -> Octets]
        /\ c.SrcPort \in [1..2 -> Octets] /\ c.DstPort \in [1..2 -> Octets]
        /\ c.Seq \in [1..4 -> Octets] /\ c.Ack \in [1..4 -> Octets]
    BY Zenon DEF ConnInfo, Octets
  <1>2. ASSUME NEW n \in Nat, NEW s \in [1..n -> Octets] PROVE Block(s, n)
    BY DEF Block
  <1> QED BY <1>1, <1>2

(* The TCP header before its checksum is known. *)
LEMMA TCPParts ==
    ASSUME NEW c \in ConnInfo, NEW h, h = buildTCPHeader(c)
    PROVE  /\ Block(h, 20) /\ h[17] = 0 /\ h[18] = 0
           /\ At(h, 0, c.SrcPort) /\ At(h, 2, c.DstPort) /\ At(h, 4, c.Seq) /\ At(h, 8, c.Ack)
  <1> DEFINE z == <<0, 0, 0, 0>>
             a == <<80, 24>>
             w == Put(502)
  <1>2. Block(z, 4) /\ Block(a, 2) /\ z[1] = 0 /\ z[2] = 0
    <2>1. 80 \in Octets /\ 24 \in Octets /\ 0 \in Octets
      BY OctetType
    <2> QED BY <2>1, Two, Four
  <1>3. Block(w, 2)
    BY PutFacts DEF Block
  <1> HIDE DEF z, a, w
  <1>4. PICK h1 : h1 = c.SrcPort \o c.DstPort
    OBVIOUS
  <1>5. PICK h2 : h2 = h1 \o c.Seq
    OBVIOUS
  <1>6. PICK h3 : h3 = h2 \o c.Ack
    OBVIOUS
  <1>7. PICK h4 : h4 = h3 \o a
    OBVIOUS
  <1>8. PICK h5 : h5 = h4 \o w
    OBVIOUS
  <1>9. h = h5 \o z
    BY <1>4, <1>5, <1>6, <1>7, <1>8, Zenon DEF buildTCPHeader, z, a, w
  <1>10. Block(h1, 4)
    BY <1>4, ConnFields, CatBlock, SMT
  <1>11. Block(h2, 8)
    BY <1>5, <1>10, ConnFields, CatBlock, SMT
  <1>12. Block(h3, 12)
    BY <1>6, <1>11, ConnFields, CatBlock, SMT
  <1>13. Block(h4, 14)
    BY <1>2, <1>7, <1>12, CatBlock, SMT
  <1>14. Block(h5, 16)
    BY <1>3, <1>8, <1>13, CatBlock, SMT
  <1>15. Block(h, 20)
    BY <1>2, <1>9, <1>14, CatBlock, SMT
  <1>16. At(h, 0, h)
    BY <1>15, AtSelf DEF Block
  <1>17. At(h, 0, h5) /\ At(h, 16, z)
    BY <1>2, <1>9, <1>14, <1>16, AtBlocks, SMT
  <1>18. h[17] = 0 /\ h[18] = 0
    <2>1. h[16 + 1] = z[1] /\ h[16 + 2] = z[2]
      BY <1>2, <1>17 DEF At, Block
    <2> QED BY <1>2, <2>1
  <1>19. At(h, 0, h4)
    BY <1>3, <1>8, <1>13, <1>17, AtBlocks, SMT
  <1>20. At(h, 0, h3)
    BY <1>2, <1>7, <1>12, <1>19, AtBlocks, SMT
  <1>21. At(h, 0, h2) /\ At(h, 8, c.Ack)
    BY <1>6, <1>11, <1>20, ConnFields, AtBlocks, SMT
  <1>22. At(h, 0, h1) /\ At(h, 4, c.Seq)
    BY <1>5, <1>10, <1>21, ConnFields, AtBlocks, SMT
  <1>23. At(h, 0, c.SrcPort) /\ At(h, 2, c.DstPort)
    <2>1. PICK s : s = c.SrcPort
      OBVIOUS
    <2>2. PICK d : d = c.DstPort
      OBVIOUS
    <2>3. Block(s, 2) /\ Block(d, 2) /\ h1 = s \o d
      BY <1>4, <2>1, <2>2, ConnFields
    <2>4. At(h, 0, s \o d)
      BY <1>22, <2>3, Zenon
    <2>5. 2 \in Nat /\ 0 \in Nat /\ 0 + 2 = 2
      OBVIOUS
    <2>6. At(h, 0, s) /\ At(h, 2, d)
      BY <2>3, <2>4, <2>5, AtBlocks
    <2> QED BY <2>1, <2>2, <2>6, Zenon
  <1> QED BY <1>15, <1>18, <1>21, <1>22, <1>23

(* The IP header before its checksum is known: w is the length, n the ID,  *)
(* m what follows them up to the addresses.                                *)
IPBytes(c, v, w, n, m) == v \o w \o n \o m \o c.SrcIP \o c.DstIP

IPLaid(h, c, v, w, m) ==
    /\ Block(h, 20) /\ h[1] = v[1]
    /\ At(h, 2, w) /\ At(h, 6, m) /\ At(h, 12, c.SrcIP) /\ At(h, 16, c.DstIP)

(* Where the parts of IPBytes lie. *)
LEMMA IPParts ==
    ASSUME NEW c \in ConnInfo, NEW w, Block(w, 2), NEW n, Block(n, 2), NEW m, Block(m, 6),
           NEW v, Block(v, 2)
    PROVE  IPLaid(IPBytes(c, v, w, n, m), c, v, w, m)
  <1>1. PICK h : h = IPBytes(c, v, w, n, m)
    OBVIOUS
  <1>2. PICK h1 : h1 = v \o w
    OBVIOUS
  <1>3. PICK h2 : h2 = h1 \o n
    OBVIOUS
  <1>4. PICK h3 : h3 = h2 \o m
    OBVIOUS
  <1>5. PICK h4 : h4 = h3 \o c.SrcIP
    OBVIOUS
  <1>6. h = h4 \o c.DstIP
    BY <1>1, <1>2, <1>3, <1>4, <1>5, Zenon DEF IPBytes
  <1>7. Block(h1, 4)
    BY <1>2, CatBlock, SMT
  <1>8. Block(h2, 6)
    BY <1>3, <1>7, CatBlock, SMT
  <1>9. Block(h3, 12)
    BY <1>4, <1>8, CatBlock, SMT
  <1>10. Block(h4, 16)
    BY <1>5, <1>9, ConnFields, CatBlock, SMT
  <1>11. Block(h, 20)
    BY <1>6, <1>10, ConnFields, CatBlock, SMT
  <1>12. At(h, 0, h)
    BY <1>11, AtSelf DEF Block
  <1>13. At(h, 0, h4) /\ At(h, 16, c.DstIP)
    BY <1>6, <1>10, <1>12, ConnFields, AtBlocks, SMT
  <1>14. At(h, 0, h3) /\ At(h, 12, c.SrcIP)
    BY <1>5, <1>9, <1>13, ConnFields, AtBlocks, SMT
  <1>15. At(h, 0, h2) /\ At(h, 6, m)
    BY <1>4, <1>8, <1>14, AtBlocks, SMT
  <1>16. At(h, 0, h1)
    BY <1>3, <1>7, <1>15, AtBlocks, SMT
  <1>17. At(h, 0, v) /\ At(h, 2, w)
    BY <1>2, <1>16, AtBlocks, SMT
  <1>18. h[1] = v[1]
    <2>1. 1 \in 1..Len(v)
      BY DEF Block
    <2>2. h[0 + 1] = v[1]
      BY <1>17, <2>1 DEF At
    <2> QED BY <2>2
  <1> QED BY <1>1, <1>11, <1>13, <1>14, <1>15, <1>17, <1>18, Zenon DEF IPLaid

(* Both byte orders take two bytes. *)
LEMMA PutBlocks ==
    ASSUME NEW v \in Nat
    PROVE  Block(Put(v), 2) /\ Block(PutLittle(v), 2)
  <1>1. PICK a : a = (v \div 256) % 256
    OBVIOUS
  <1>2. PICK b : b = v % 256
    OBVIOUS
  <1>3. a \in Octets /\ b \in Octets
    <2>1. /\ (v \div 256) % 256 \in Nat /\ (v \div 256) % 256 < 256
          /\ v % 256 \in Nat /\ v % 256 < 256
      OBVIOUS
    <2> QED BY <1>1, <1>2, <2>1, OctetType
  <1>4. Block(<<a, b>>, 2) /\ Block(<<b, a>>, 2)
    BY <1>3, Two
  <1>5. Put(v) = <<a, b>> /\ PutLittle(v) = <<b, a>>
    BY <1>1, <1>2, SMT DEF Put, PutLittle
  <1> QED BY <1>4, <1>5, Zenon

(* Writing a checksum into the room for it changes nothing else. *)
SameBut(g, h, n, at) == \A i \in 1..n : i \notin {at, at + 1} => h[i] = g[i]

(* PatchFacts, for n bytes. *)
LEMMA PatchBlock ==
    ASSUME NEW n \in Nat, NEW g, Block(g, n), NEW at \in Nat, 1 <= at, at + 1 <= n,
           NEW v \in Nat, NEW h, h = Patch(g, at, v)
    PROVE  Block(h, n) /\ SameBut(g, h, n, at)
  <1>1. g \in Seq(Octets) /\ Len(g) = n
    BY DEF Block
  <1>2. at \in 1..Len(g) /\ at + 1 <= Len(g)
    BY <1>1
  <1>3. /\ h \in Seq(Octets) /\ Len(h) = Len(g)
        /\ \A i \in 1..Len(g) : i \notin {at, at + 1} => h[i] = g[i]
    BY <1>1, <1>2, PatchFacts, Zenon
  <1> QED BY <1>1, <1>3, Zenon DEF Block, SameBut

(* A checksum written into the room for it verifies and changes nothing else. *)
LEMMA Sealed ==
    ASSUME NEW n \in Nat, NEW g, Block(g, n), NEW at, Room(g, at),
           NEW h, h = Patch(g, at, Checksum(g))
    PROVE  Block(h, n) /\ Verifies(h) /\ SameBut(g, h, n, at)
  <1>1. g \in Seq(Octets) /\ Len(g) = n
    BY DEF Block
  <1>2. Checksum(g) \in Uint16s /\ Verifies(h)
    BY <1>1, Checksummed, Zenon
  <1>3. Checksum(g) \in Nat
    BY <1>2 DEF Uint16s
  <1>4. at \in 1..Len(g) /\ at + 1 <= Len(g)
    BY DEF Room
  <1>5. /\ h \in Seq(Octets) /\ Len(h) = Len(g)
        /\ \A i \in 1..Len(g) : i \notin {at, at + 1} => h[i] = g[i]
    BY <1>1, <1>3, <1>4, PatchFacts, Zenon
  <1> QED BY <1>1, <1>2, <1>5, Zenon DEF Block, SameBut

(* What lies apart from two bytes stays when only those change. *)
LEMMA AtApart ==
    ASSUME NEW n \in Nat, NEW at \in Nat, NEW g, NEW h, SameBut(g, h, n, at),
           NEW o \in Nat, NEW k \in Nat, NEW t, Block(t, k), At(g, o, t),
           o + k <= n, o + k < at \/ at + 1 <= o
    PROVE  At(h, o, t)
  <1>1. Len(t) = k
    BY DEF Block
  <1>2. ASSUME NEW i \in 1..Len(t) PROVE h[o + i] = t[i]
    <2>1. o + i \in 1..n /\ o + i \notin {at, at + 1}
      BY <1>1
    <2> QED BY <2>1 DEF At, SameBut
  <1> QED BY <1>2 DEF At

(* The IP header as it is sent: its checksum is right, and the rest is     *)
(* what it was before that was known.                                      *)
IPSent(h, c, life, w) ==
    /\ Block(h, 20) /\ Verifies(h) /\ h[9] = life % 256
    /\ At(h, 2, w) /\ At(h, 12, c.SrcIP) /\ At(h, 16, c.DstIP)

LEMMA IPHeader ==
    ASSUME NEW c \in ConnInfo, NEW life \in Int, NEW n \in Nat, NEW little \in BOOLEAN,
           NEW h, h = buildIPHeader(c, life, n, little),
           NEW w, w = IF little THEN PutLittle(20 + n) ELSE Put(20 + n)
    PROVE  IPSent(h, c, life, w)
  <1>1. w = IF little THEN PutLittle(20 + n) ELSE Put(20 + n)
    OBVIOUS
  <1>2. PICK id : id = IF little THEN PutLittle(4660) ELSE Put(4660)
    OBVIOUS
  <1>3. PICK m : m = <<0, 0, life % 256, 6, 0, 0>>
    OBVIOUS
  <1>4. PICK v : v = <<69, 0>>
    OBVIOUS
  <1>5. PICK g : g = v \o w \o id \o m \o c.SrcIP \o c.DstIP
    OBVIOUS
  <1>6. h = Patch(g, 11, Checksum(g))
    BY <1>1, <1>2, <1>3, <1>4, <1>5, SMT DEF buildIPHeader
  <1>17. g = IPBytes(c, v, w, id, m)
    BY <1>5, Zenon DEF IPBytes
  <1>7. Block(w, 2) /\ Block(id, 2)
    <2>1. 20 + n \in Nat /\ 4660 \in Nat
      OBVIOUS
    <2> QED BY <1>1, <1>2, <2>1, PutBlocks
  <1>8. Block(m, 6) /\ m[3] = life % 256 /\ m[5] = 0 /\ m[6] = 0 /\ Block(v, 2) /\ v[1] = 69
    <2>1. life % 256 \in Octets /\ 6 \in Octets /\ 0 \in Octets /\ 69 \in Octets
      <3>1. life % 256 \in Nat /\ life % 256 < 256
        OBVIOUS
      <3> QED BY <3>1, OctetType
    <2>2. Block(m, 6) /\ Block(v, 2)
      BY <1>3, <1>4, <2>1, Two, Six
    <2> QED BY <1>3, <1>4, <2>2
  <1>9. /\ Block(g, 20) /\ g[1] = 69
        /\ At(g, 2, w) /\ At(g, 6, m) /\ At(g, 12, c.SrcIP) /\ At(g, 16, c.DstIP)
    <2>1. IPLaid(g, c, v, w, m)
      BY <1>7, <1>8, <1>17, IPParts, SMT
    <2> QED BY <1>8, <2>1, Zenon DEF IPLaid
  <1>10. g[9] = life % 256 /\ g[11] = 0 /\ g[12] = 0
    <2>1. Len(m) = 6
      BY <1>8 DEF Block
    <2>2. g[6 + 3] = m[3] /\ g[6 + 5] = m[5] /\ g[6 + 6] = m[6]
      BY <1>9, <2>1 DEF At
    <2> QED BY <1>8, <2>2
  <1>11. Room(g, 11)
    <2>1. Len(g) = 20
      BY <1>9 DEF Block
    <2> QED BY <1>9, <1>10, <2>1 DEF Room
  <1>12. /\ Block(h, 20) /\ Verifies(h)
         /\ SameBut(g, h, 20, 11)
    BY <1>6, <1>9, <1>11, Sealed, SMT
  <1>13. h[9] = g[9]
    BY <1>12 DEF SameBut
  <1>18. At(g, 2, w) /\ Block(w, 2) /\ SameBut(g, h, 20, 11)
    BY <1>7, <1>9, <1>12
  <1>14. At(h, 2, w)
    BY <1>18, AtApart, SMT
  <1>15. At(h, 12, c.SrcIP)
    BY <1>9, <1>18, ConnFields, AtApart, SMT
  <1>16. At(h, 16, c.DstIP)
    BY <1>9, <1>18, ConnFields, AtApart, SMT
  <1> QED BY <1>10, <1>12, <1>13, <1>14, <1>15, <1>16 DEF IPSent

(* The bytes before the segment: their sixth is the protocol number. *)
LEMMA PseudoParts ==
    ASSUME NEW c \in ConnInfo, NEW n \in Nat, NEW h, h = PseudoHeader(c, n)
    PROVE  Block(h, 12) /\ h[10] = 6
  <1>1. PICK a : a = <<0, 6>>
    OBVIOUS
  <1>2. PICK w : w = Put(n)
    OBVIOUS
  <1>3. PICK h1 : h1 = c.SrcIP \o c.DstIP
    OBVIOUS
  <1>4. PICK h2 : h2 = h1 \o a
    OBVIOUS
  <1>5. h = h2 \o w
    BY <1>1, <1>2, <1>3, <1>4, Zenon DEF PseudoHeader
  <1>6. Block(a, 2) /\ a[2] = 6
    <2>1. 0 \in Octets /\ 6 \in Octets
      BY OctetType
    <2>2. Block(a, 2)
      BY <1>1, <2>1, Two
    <2> QED BY <1>1, <2>2
  <1>7. Block(w, 2)
    BY <1>2, PutBlocks
  <1>8. Block(h1, 8)
    BY <1>3, ConnFields, CatBlock, SMT
  <1>9. Block(h2, 10)
    BY <1>4, <1>6, <1>8, CatBlock, SMT
  <1>10. Block(h, 12)
    BY <1>5, <1>7, <1>9, CatBlock, SMT
  <1>11. At(h, 0, h)
    BY <1>10, AtSelf DEF Block
  <1>12. At(h, 0, h2)
    BY <1>5, <1>7, <1>9, <1>11, AtBlocks, SMT
  <1>13. At(h, 8, a)
    BY <1>4, <1>6, <1>8, <1>12, AtBlocks, SMT
  <1>14. h[8 + 2] = a[2]
    <2>1. 2 \in 1..Len(a)
      BY <1>6 DEF Block
    <2> QED BY <1>13, <2>1 DEF At
  <1> QED BY <1>6, <1>10, <1>14

(* What lies in the beginning of s lies in s at the same place. *)
LEMMA AtFront ==
    ASSUME NEW s, NEW n \in Nat, NEW h, Block(h, n), At(s, 0, h),
           NEW o \in Nat, NEW m \in Nat, NEW t, Block(t, m), At(h, o, t), o + m <= n
    PROVE  At(s, o, t)
  <1>1. Len(h) = n /\ Len(t) = m
    BY DEF Block
  <1>2. ASSUME NEW i \in 1..Len(t) PROVE s[o + i] = t[i]
    <2>1. o + i \in 1..Len(h) /\ 0 + (o + i) = o + i
      BY <1>1
    <2>2. s[0 + (o + i)] = h[o + i]
      BY <2>1 DEF At
    <2>3. h[o + i] = t[i]
      BY DEF At
    <2> QED BY <2>1, <2>2, <2>3
  <1> QED BY <1>2 DEF At

(* The segment as it is sent: with the pseudo header its checksum is right, *)
(* and the rest is the header of the connection and the payload.            *)
Fits(k) == k \in Nat /\ 40 + k < 65536

LEMMA Segment ==
    ASSUME NEW c \in ConnInfo, NEW k \in Nat, Fits(k), NEW d, Block(d, k),
           NEW s, s = buildTCPHeader(c) \o d, NEW u, u = PseudoHeader(c, Len(s)),
           NEW q, q = Patch(s, 17, Checksum(u \o s))
    PROVE  /\ Block(q, 20 + k) /\ Verifies(u \o q) /\ At(q, 20, d)
           /\ At(q, 0, c.SrcPort) /\ At(q, 2, c.DstPort) /\ At(q, 4, c.Seq) /\ At(q, 8, c.Ack)
  <1>1. PICK h : h = buildTCPHeader(c)
    OBVIOUS
  <1>2. /\ Block(h, 20) /\ h[17] = 0 /\ h[18] = 0
        /\ At(h, 0, c.SrcPort) /\ At(h, 2, c.DstPort) /\ At(h, 4, c.Seq) /\ At(h, 8, c.Ack)
    BY <1>1, TCPParts, Zenon
  <1>3. s = h \o d
    BY <1>1
  <1>4. Block(s, 20 + k)
    BY <1>2, <1>3, CatBlock, SMT
  <1>5. s \in Seq(Octets) /\ Len(s) = 20 + k
    BY <1>4 DEF Block
  <1>6. Block(u, 12) /\ u[10] = 6
    BY <1>5, PseudoParts
  <1>7. PICK f : f = u \o s
    OBVIOUS
  <1>8. Block(f, 32 + k)
    BY <1>4, <1>6, <1>7, CatBlock, SMT
  <1>9. At(f, 0, u) /\ At(f, 12, s)
    <2>1. At(f, 0, f)
      BY <1>8, AtSelf DEF Block
    <2> QED BY <1>4, <1>6, <1>7, <2>1, AtBlocks, SMT
  <1>10. At(s, 0, h) /\ At(s, 20, d)
    <2>1. At(s, 0, s)
      BY <1>4, AtSelf DEF Block
    <2> QED BY <1>2, <1>3, <2>1, AtBlocks, SMT
  <1>11. Room(f, 29)
    <2>1. Len(f) = 32 + k /\ Len(h) = 20 /\ Len(u) = 12
      BY <1>2, <1>6, <1>8 DEF Block
    <2>2. \A i \in 1..20 : s[i] = h[i]
      <3>1. \A i \in 1..20 : s[0 + i] = h[i]
        BY <1>10, <2>1 DEF At
      <3>2. \A i \in 1..20 : 0 + i = i
        OBVIOUS
      <3> QED BY <3>1, <3>2
    <2>3. f[29] = s[17] /\ f[30] = s[18]
      <3>1. \A i \in 1..20 + k : f[12 + i] = s[i]
        BY <1>5, <1>9 DEF At
      <3>2. 17 \in 1..20 + k /\ 18 \in 1..20 + k /\ 12 + 17 = 29 /\ 12 + 18 = 30
        OBVIOUS
      <3> QED BY <3>1, <3>2
    <2>4. f[0 + 10] = u[10]
      BY <1>9, <2>1 DEF At
    <2>5. f[29] = 0 /\ f[30] = 0 /\ f[10] = 6
      <3>2. 17 \in 1..20 /\ 18 \in 1..20
        OBVIOUS
      <3>3. s[17] = h[17] /\ s[18] = h[18]
        BY <2>2, <3>2, Zenon
      <3>1. s[17] = 0 /\ s[18] = 0
        BY <1>2, <3>3, Zenon
      <3> QED BY <1>6, <2>3, <2>4, <3>1
    <2> QED BY <2>1, <2>5 DEF Room, Fits
  <1>12. PICK g : g = Patch(f, 29, Checksum(f))
    OBVIOUS
  <1>13. /\ Block(g, 32 + k) /\ Verifies(g)
         /\ SameBut(f, g, 32 + k, 29)
    BY <1>8, <1>11, <1>12, Sealed, SMT
  <1>14. Checksum(f) \in Nat
    <2>1. f \in Seq(Octets)
      BY <1>8 DEF Block
    <2> QED BY <1>11, <2>1, Checksummed DEF Uint16s
  <1>15. u \o q = g
    <2>1. u \in Seq(Octets) /\ Len(u) + 17 = 29
      BY <1>6 DEF Block
    <2>2. 17 \in 1..Len(s) /\ 17 + 1 <= Len(s)
      BY <1>5
    <2>4. \A v \in Nat : u \o Patch(s, 17, v) = Patch(u \o s, Len(u) + 17, v)
      BY <1>5, <2>1, <2>2, PatchBehind
    <2>3. u \o Patch(s, 17, Checksum(f)) = Patch(u \o s, Len(u) + 17, Checksum(f))
      BY <1>14, <2>4, Zenon
    <2> QED BY <1>7, <1>12, <2>1, <2>3
  <1>16. Block(q, 20 + k) /\ SameBut(s, q, 20 + k, 17)
    <2>1. 20 + k \in Nat /\ 17 + 1 <= 20 + k
      OBVIOUS
    <2>2. q = Patch(s, 17, Checksum(f))
      BY <1>7
    <2> QED BY <1>4, <1>14, <2>1, <2>2, PatchBlock, SMT
  <1>17. /\ At(s, 0, c.SrcPort) /\ At(s, 2, c.DstPort) /\ At(s, 4, c.Seq) /\ At(s, 8, c.Ack)
    <2>1. At(s, 0, h) /\ Block(h, 20)
      BY <1>2, <1>10
    <2>2. At(s, 0, c.SrcPort)
      BY <1>2, <2>1, ConnFields, AtFront, SMT
    <2>3. At(s, 2, c.DstPort)
      BY <1>2, <2>1, ConnFields, AtFront, SMT
    <2>4. At(s, 4, c.Seq)
      BY <1>2, <2>1, ConnFields, AtFront, SMT
    <2>5. At(s, 8, c.Ack)
      BY <1>2, <2>1, ConnFields, AtFront, SMT
    <2> QED BY <2>2, <2>3, <2>4, <2>5
  <1>18. At(q, 20, d)
    BY <1>10, <1>16, AtApart, SMT
  <1>19. At(q, 0, c.SrcPort)
    BY <1>16, <1>17, ConnFields, AtApart, SMT
  <1>20. At(q, 2, c.DstPort)
    BY <1>16, <1>17, ConnFields, AtApart, SMT
  <1>21. At(q, 4, c.Seq)
    BY <1>16, <1>17, ConnFields, AtApart, SMT
  <1>22. At(q, 8, c.Ack)
    BY <1>16, <1>17, ConnFields, AtApart, SMT
  <1>23. Verifies(u \o q)
    BY <1>13, <1>15
  <1> QED BY <1>16, <1>18, <1>19, <1>20, <1>21, <1>22, <1>23

(* What lies in t, which lies in p, lies in p. *)
PartOf(h, n, o, t, m) == Block(h, n) /\ Block(t, m) /\ At(h, o, t) /\ o + m <= n

(* AtFront's other case: h lies further on in p. *)
LEMMA AtBack ==
    ASSUME NEW p, NEW e \in Nat, NEW n \in Nat, NEW h, At(p, e, h),
           NEW o \in Nat, NEW m \in Nat, NEW t, PartOf(h, n, o, t, m)
    PROVE  At(p, e + o, t)
  <1>1. Len(h) = n /\ Len(t) = m /\ o + m <= n /\ At(h, o, t)
    BY DEF Block, PartOf
  <1>2. ASSUME NEW i \in 1..Len(t) PROVE p[(e + o) + i] = t[i]
    <2>1. o + i \in 1..Len(h) /\ e + (o + i) = (e + o) + i
      BY <1>1
    <2>2. p[e + (o + i)] = h[o + i]
      BY <2>1 DEF At
    <2>3. h[o + i] = t[i]
      BY <1>1 DEF At
    <2> QED BY <2>1, <2>2, <2>3
  <1> QED BY <1>2 DEF At

(* AtSub, with the lengths named. *)
LEMMA SubBlock ==
    ASSUME NEW n \in Nat, NEW p, Block(p, n), NEW o \in Nat, NEW k \in Nat, NEW t, Block(t, k),
           At(p, o, t), o + k <= n
    PROVE  SubSeq(p, o + 1, o + k) = t
  <1>1. p \in Seq(Octets) /\ Len(p) = n /\ t \in Seq(Octets) /\ Len(t) = k
    BY DEF Block
  <1>2. SubSeq(p, o + 1, o + Len(t)) = t
    BY <1>1, AtSub
  <1> QED BY <1>1, <1>2

(* The addresses, ports and numbers of a connection, as they follow each other. *)
Addressed(c) == c.SrcIP \o c.DstIP \o c.SrcPort \o c.DstPort \o c.Seq \o c.Ack

(* They lie in a packet when each of them does. *)
LEMMA AddressedParts ==
    ASSUME NEW c \in ConnInfo, NEW p, At(p, 12, c.SrcIP), At(p, 16, c.DstIP), At(p, 20, c.SrcPort),
           At(p, 22, c.DstPort), At(p, 24, c.Seq), At(p, 28, c.Ack)
    PROVE  Block(Addressed(c), 20) /\ At(p, 12, Addressed(c))
  <1>1. PICK h1 : h1 = c.SrcIP \o c.DstIP
    OBVIOUS
  <1>2. PICK h2 : h2 = h1 \o c.SrcPort
    OBVIOUS
  <1>3. PICK h3 : h3 = h2 \o c.DstPort
    OBVIOUS
  <1>4. PICK h4 : h4 = h3 \o c.Seq
    OBVIOUS
  <1>5. PICK h : h = h4 \o c.Ack
    OBVIOUS
  <1>6. h = Addressed(c)
    BY <1>1, <1>2, <1>3, <1>4, <1>5, Zenon DEF Addressed
  <1>7. Block(h1, 8)
    BY <1>1, ConnFields, CatBlock, SMT
  <1>8. Block(h2, 10)
    BY <1>2, <1>7, ConnFields, CatBlock, SMT
  <1>9. Block(h3, 12)
    BY <1>3, <1>8, ConnFields, CatBlock, SMT
  <1>10. Block(h4, 16)
    BY <1>4, <1>9, ConnFields, CatBlock, SMT
  <1>11. Block(h, 20)
    BY <1>5, <1>10, ConnFields, CatBlock, SMT
  <1>12. At(p, 12, h1)
    BY <1>1, ConnFields, AtBlocks, SMT
  <1>13. At(p, 12, h2)
    BY <1>2, <1>7, <1>12, ConnFields, AtBlocks, SMT
  <1>14. At(p, 12, h3)
    BY <1>3, <1>8, <1>13, ConnFields, AtBlocks, SMT
  <1>15. At(p, 12, h4)
    BY <1>4, <1>9, <1>14, ConnFields, AtBlocks, SMT
  <1>16. At(p, 12, h)
    BY <1>5, <1>10, <1>15, ConnFields, AtBlocks, SMT
  <1> QED BY <1>6, <1>11, <1>16

(* A packet, for every connection, payload, TTL and platform. *)
Sound(p, c, k, d, life, w) ==
    /\ Block(p, 40 + k)
    /\ SubSeq(p, 3, 4) = w
    /\ Verifies(SubSeq(p, 1, 20))
    /\ Len(SubSeq(p, 21, 40 + k)) = 20 + k
    /\ Verifies(PseudoHeader(c, 20 + k) \o SubSeq(p, 21, 40 + k))
    /\ SubSeq(p, 13, 32) = Addressed(c)
    /\ p[9] = life % 256
    /\ SubSeq(p, 41, 40 + k) = d

(* BuildPacket's result is Sound. *)
LEMMA PacketFacts ==
    ASSUME NEW c \in ConnInfo, NEW k \in Nat, Fits(k), NEW d, Block(d, k), NEW life \in Int,
           NEW little \in BOOLEAN, NEW p, p = BuildPacket(c, d, life, little),
           NEW w, w = IF little THEN PutLittle(40 + k) ELSE Put(40 + k)
    PROVE  Sound(p, c, k, d, life, w)
  <1>1. PICK s : s = buildTCPHeader(c) \o d
    OBVIOUS
  <1>2. PICK u : u = PseudoHeader(c, Len(s))
    OBVIOUS
  <1>3. PICK q : q = Patch(s, 17, Checksum(u \o s))
    OBVIOUS
  <1>4. PICK h : h = buildIPHeader(c, life, Len(s), little)
    OBVIOUS
  <1>5. p = h \o q
    BY <1>1, <1>2, <1>3, <1>4, Zenon DEF BuildPacket
  <1>6. Len(s) = 20 + k
    <2>1. PICK g : g = buildTCPHeader(c)
      OBVIOUS
    <2>2. Block(g, 20)
      BY <2>1, TCPParts, Zenon
    <2>3. Block(s, 20 + k)
      BY <1>1, <2>1, <2>2, CatBlock, SMT
    <2> QED BY <2>3 DEF Block
  <1>7. /\ Block(q, 20 + k) /\ Verifies(u \o q) /\ At(q, 20, d)
        /\ At(q, 0, c.SrcPort) /\ At(q, 2, c.DstPort) /\ At(q, 4, c.Seq) /\ At(q, 8, c.Ack)
    BY <1>1, <1>2, <1>3, Segment, Zenon
  <1>8. w = IF little THEN PutLittle(40 + k) ELSE Put(40 + k)
    OBVIOUS
  <1>9. /\ Block(h, 20) /\ Verifies(h) /\ At(h, 2, w) /\ h[9] = life % 256
        /\ At(h, 12, c.SrcIP) /\ At(h, 16, c.DstIP)
    <2>3. PICK n : n = 20 + k
      OBVIOUS
    <2>1. n \in Nat /\ 20 + n = 40 + k /\ h = buildIPHeader(c, life, n, little)
      BY <1>4, <1>6, <2>3
    <2>2. w = IF little THEN PutLittle(20 + n) ELSE Put(20 + n)
      BY <1>8, <2>1
    <2>4. IPSent(h, c, life, w)
      BY <2>1, <2>2, IPHeader, SMT
    <2> QED BY <2>4 DEF IPSent
  <1>10. Block(w, 2)
    <2>1. 40 + k \in Nat
      OBVIOUS
    <2> QED BY <1>8, <2>1, PutBlocks
  <1>11. Block(p, 40 + k)
    BY <1>5, <1>7, <1>9, CatBlock, SMT
  <1>12. At(p, 0, h) /\ At(p, 20, q)
    <2>1. At(p, 0, p)
      BY <1>11, AtSelf DEF Block
    <2> QED BY <1>5, <1>7, <1>9, <2>1, AtBlocks, SMT
  <1>13. At(p, 2, w)
    BY <1>9, <1>10, <1>12, AtFront, SMT
  <1>14. At(p, 12, c.SrcIP) /\ At(p, 16, c.DstIP)
    <2>1. At(p, 12, c.SrcIP)
      BY <1>9, <1>12, ConnFields, AtFront, SMT
    <2>2. At(p, 16, c.DstIP)
      BY <1>9, <1>12, ConnFields, AtFront, SMT
    <2> QED BY <2>1, <2>2
  <1>25. PICK n \in Nat : n = 20 + k
    OBVIOUS
  <1>26. \A o \in Nat, m \in Nat : \A t : PartOf(q, n, o, t, m) => At(p, 20 + o, t)
    <2>1. 20 \in Nat
      OBVIOUS
    <2> QED BY <1>12, <1>25, <2>1, AtBack, Zenon
  <1>15. At(p, 20, c.SrcPort) /\ At(p, 22, c.DstPort) /\ At(p, 24, c.Seq) /\ At(p, 28, c.Ack)
    <2>1. /\ PartOf(q, n, 0, c.SrcPort, 2) /\ PartOf(q, n, 2, c.DstPort, 2)
          /\ PartOf(q, n, 4, c.Seq, 4) /\ PartOf(q, n, 8, c.Ack, 4)
      BY <1>7, <1>25, ConnFields DEF PartOf
    <2>2. 0 \in Nat /\ 2 \in Nat /\ 4 \in Nat /\ 8 \in Nat
      OBVIOUS
    <2>3. /\ At(p, 20 + 0, c.SrcPort) /\ At(p, 20 + 2, c.DstPort)
          /\ At(p, 20 + 4, c.Seq) /\ At(p, 20 + 8, c.Ack)
      BY <1>26, <2>1, <2>2, Zenon
    <2> QED BY <2>3
  <1>16. At(p, 40, d)
    <2>1. PartOf(q, n, 20, d, k) /\ 20 \in Nat
      BY <1>7, <1>25 DEF PartOf
    <2>2. At(p, 20 + 20, d)
      BY <1>26, <2>1, Zenon
    <2> QED BY <2>2
  <1>27. \A o \in Nat, j \in Nat : \A t :
           Block(t, j) /\ At(p, o, t) /\ o + j <= 40 + k => SubSeq(p, o + 1, o + j) = t
    <2>1. 40 + k \in Nat
      OBVIOUS
    <2> QED BY <1>11, <2>1, SubBlock, Zenon
  <1>28. /\ 0 \in Nat /\ 2 \in Nat /\ 12 \in Nat /\ 20 \in Nat /\ 40 \in Nat /\ 20 + k \in Nat
         /\ 0 + 20 <= 40 + k /\ 2 + 2 <= 40 + k /\ 12 + 20 <= 40 + k
         /\ 20 + (20 + k) <= 40 + k
    OBVIOUS
  <1>17. SubSeq(p, 3, 4) = w
    <2>1. SubSeq(p, 2 + 1, 2 + 2) = w
      BY <1>10, <1>13, <1>27, <1>28, Zenon
    <2> QED BY <2>1
  <1>18. SubSeq(p, 1, 20) = h
    <2>1. SubSeq(p, 0 + 1, 0 + 20) = h
      BY <1>9, <1>12, <1>27, <1>28, Zenon
    <2> QED BY <2>1
  <1>19. SubSeq(p, 21, 40 + k) = q
    <2>1. SubSeq(p, 20 + 1, 20 + (20 + k)) = q
      BY <1>7, <1>12, <1>27, <1>28, Zenon
    <2>2. 20 + (20 + k) = 40 + k
      OBVIOUS
    <2> QED BY <2>1, <2>2
  <1>20. SubSeq(p, 13, 32) = Addressed(c)
    <2>1. Block(Addressed(c), 20) /\ At(p, 12, Addressed(c))
      BY <1>14, <1>15, AddressedParts
    <2>2. SubSeq(p, 12 + 1, 12 + 20) = Addressed(c)
      BY <1>27, <1>28, <2>1, Zenon
    <2> QED BY <2>2
  <1>21. SubSeq(p, 41, 40 + k) = d
    <2>1. 40 + k <= 40 + k
      OBVIOUS
    <2>2. SubSeq(p, 40 + 1, 40 + k) = d
      BY <1>16, <1>27, <1>28, <2>1, Zenon
    <2> QED BY <2>2
  <1>22. p[9] = life % 256
    <2>1. 9 \in 1..Len(h)
      BY <1>9 DEF Block
    <2>2. p[0 + 9] = h[9]
      BY <1>12, <2>1 DEF At
    <2> QED BY <1>9, <2>2
  <1>23. Len(q) = 20 + k
    BY <1>7 DEF Block
  <1>24. Verifies(PseudoHeader(c, 20 + k) \o q)
    BY <1>2, <1>6, <1>7
  <1> QED BY <1>8, <1>9, <1>11, <1>17, <1>18, <1>19, <1>20, <1>21, <1>22, <1>23, <1>24, Zenon DEF Sound

-----------------------------------------------------------------------------
(* What BuildPacket is called with. *)
PacketTyped ==
    /\ conn \in ConnInfo /\ ttl \in Int /\ bsd \in BOOLEAN
    /\ payload \in Seq(Octets) /\ Len(payload) <= MaxPayload

(* PacketTyped is enough for PacketSound. *)
LEMMA TypedSound == ASSUME PacketTyped PROVE PacketSound
  <1>6. PICK p : p = BuildPacket(conn, payload, ttl, bsd)
    OBVIOUS
  <1>1. PICK k : k = Len(payload)
    OBVIOUS
  <1>2. k \in Nat /\ Fits(k) /\ Block(payload, k)
    BY <1>1, PacketAssumption DEF PacketTyped, Fits, Block
  <1>7. PICK w : w = IF bsd THEN PutLittle(40 + k) ELSE Put(40 + k)
    OBVIOUS
  <1>8. conn \in ConnInfo /\ ttl \in Int /\ bsd \in BOOLEAN
    BY Zenon DEF PacketTyped
  <1>3. Sound(p, conn, k, payload, ttl, w)
    BY <1>2, <1>6, <1>7, <1>8, PacketFacts, SMT
  <1>4. Len(p) = 40 + k
    BY <1>3, Zenon DEF Block, Sound
  <1>5. ttl \in 0..255 => ttl % 256 = ttl
    OBVIOUS
  <1>9. /\ Len(p) = 40 + Len(payload)
        /\ SubSeq(p, 3, 4) = (IF bsd THEN PutLittle(Len(p)) ELSE Put(Len(p)))
        /\ Verifies(SubSeq(p, 1, 20))
        /\ Verifies(PseudoHeader(conn, Len(SubSeq(p, 21, Len(p)))) \o SubSeq(p, 21, Len(p)))
        /\ SubSeq(p, 13, 32) = Addressed(conn)
        /\ ttl \in 0..255 => p[9] = ttl
        /\ SubSeq(p, 41, Len(p)) = payload
    BY <1>1, <1>3, <1>4, <1>5, <1>7, Zenon DEF Sound
  <1> QED BY <1>6, <1>9, Zenon DEF PacketSound, Addressed

(* PacketAssumption without its bounds. *)
LEMMA PacketInputs ==
    /\ Conns \subseteq ConnInfo /\ TTLs \subseteq Int /\ PayloadBytes \subseteq Octets
    /\ MaxPayload \in Nat
  BY PacketAssumption, SMT DEF Octets

(* PacketTyped is inductive. *)
LEMMA PacketTypedAlways == PacketSpec => []PacketTyped
  <1>1. PacketInit => PacketTyped
    <2> SUFFICES ASSUME PacketInit PROVE PacketTyped
      OBVIOUS
    <2>1. payload \in Seq(Octets) /\ Len(payload) <= MaxPayload
      BY PacketInputs DEF PacketInit
    <2> QED BY <2>1, PacketInputs, Zenon DEF PacketInit, PacketTyped
  <1>2. PacketTyped /\ [Lengthen]_packetVars => PacketTyped'
    <2> SUFFICES ASSUME PacketTyped, [Lengthen]_packetVars PROVE PacketTyped'
      OBVIOUS
    <2>1. CASE UNCHANGED packetVars
      BY <2>1, Zenon DEF packetVars, PacketTyped
    <2>2. CASE Lengthen
      <3>1. PICK b \in PayloadBytes : payload' = Append(payload, b)
        BY <2>2 DEF Lengthen
      <3>2. b \in Octets
        BY PacketInputs
      <3>3. payload' \in Seq(Octets) /\ Len(payload') = Len(payload) + 1
        BY <3>1, <3>2 DEF PacketTyped
      <3>4. Len(payload') <= MaxPayload
        BY <2>2, <3>3, PacketInputs DEF Lengthen, PacketTyped
      <3> QED BY <2>2, <3>3, <3>4, Zenon DEF Lengthen, PacketTyped
    <2> QED BY <2>1, <2>2
  <1> QED BY <1>1, <1>2, PTL DEF PacketSpec

(* BuildPacket, for every connection, TTL, platform and payload whose      *)
(* packet an IPv4 length can hold: the headers are in their places and     *)
(* both checksums verify.                                                  *)
THEOREM PacketSoundAlways == PacketSpec => []PacketSound
  <1>1. PacketTyped => PacketSound
    BY TypedSound
  <1> QED BY <1>1, PacketTypedAlways, PTL

-----------------------------------------------------------------------------
(* The declared record, which the data holds. *)
Limit == 5 + Word(3)

Window ==
    /\ label # "panic"
    /\ label = "record" => pos = 0 /\ end = Len(data)
    /\ label \in (Fields \ {"record"}) \cup {"found"} =>
        /\ 5 <= Len(data)
        /\ Limit <= Len(data)
        /\ end <= Limit
    /\ label = "found" => pos <= end

IInv == ParserTypeOK /\ Window

USE DEF Fields, Ends

(* A byte of the data, a length field of two or three bytes. *)
LEMMA ByteType ==
    ASSUME data \in Seq(0..255), NEW i \in Nat, i < Len(data)
    PROVE  Byte(i) \in 0..255
  <1>1. i + 1 \in 1..Len(data)
    OBVIOUS
  <1> QED
    BY <1>1, ElementOfSeq DEF Byte

(* Two bytes make a number of 16 bits. *)
LEMMA WordType ==
    ASSUME data \in Seq(0..255), NEW i \in Nat, i + 1 < Len(data)
    PROVE  Word(i) \in Nat
  <1>1. Len(data) \in Nat
    OBVIOUS
  <1>2. i < Len(data) /\ i + 1 \in Nat
    BY <1>1
  <1>3. Byte(i) \in 0..255
    BY <1>2, ByteType
  <1>4. Byte(i + 1) \in 0..255
    BY <1>2, ByteType
  <1>5. \A a, b \in 0..255 : 256 * a + b \in Nat
    OBVIOUS
  <1> QED
    BY <1>3, <1>4, <1>5, Zenon DEF Word

(* The length of a handshake message. *)
LEMMA Word3Type ==
    ASSUME data \in Seq(0..255), NEW i \in Nat, i + 2 < Len(data)
    PROVE  Word3(i) \in Nat
  <1>1. Len(data) \in Nat
    OBVIOUS
  <1>2. i < Len(data) /\ i + 1 \in Nat /\ (i + 1) + 1 < Len(data)
    BY <1>1
  <1>3. Byte(i) \in 0..255
    BY <1>2, ByteType
  <1>4. Word(i + 1) \in Nat
    BY <1>2, WordType
  <1>5. PICK a \in 0..255 : Byte(i) = a
    BY <1>3
  <1>6. PICK b \in Nat : Word(i + 1) = b
    BY <1>4
  <1>7. Word3(i) = 65536 * a + b
    BY <1>5, <1>6 DEF Word3
  <1>8. 65536 * a + b \in Nat
    OBVIOUS
  <1> QED
    BY <1>7, <1>8

(* A step that does not change the data and ends in a window it may enter. *)
LEMMA EnterKeeps ==
    ASSUME IInv, data' = data, label' \in (Fields \ {"record"}) \cup {"found"},
           pos' \in Nat, end' \in Nat, 5 <= Len(data), Limit <= Len(data),
           end' <= Limit, label' = "found" => pos' <= end'
    PROVE  IInv'
  BY DEF IInv, ParserTypeOK, Window, Limit, Word, Byte

(* A step that returns without a name. *)
LEMMA NoneKeeps ==
    ASSUME IInv, Return("none")
    PROVE  IInv'
  BY DEF IInv, ParserTypeOK, Window, Return

(* ParseSNI starts inside the window. *)
LEMMA InitIInv ==
    ASSUME ParserInit
    PROVE  IInv
  <1>1. data \in Seq(0..255)
    BY InputsAssumption DEF ParserInit
  <1> QED
    BY <1>1 DEF ParserInit, IInv, ParserTypeOK, Window

(* What holds while the fields of the record are read. *)
Inside ==
    /\ data \in Seq(0..255)
    /\ pos \in Nat
    /\ end \in Nat
    /\ 5 <= Len(data)
    /\ Limit <= Len(data)
    /\ end <= Limit

(* Behind the record's header the parser is inside the data. *)
LEMMA InsideRecord ==
    ASSUME IInv, label \in Fields \ {"record"}
    PROVE  Inside
  BY DEF IInv, ParserTypeOK, Window, Inside

(* The end of the declared record is a number. *)
LEMMA LimitType ==
    ASSUME Inside
    PROVE  Limit \in Nat
  <1>1. Len(data) \in Nat
    BY DEF Inside
  <1>2. 3 \in Nat /\ 3 + 1 < Len(data) /\ data \in Seq(0..255)
    BY <1>1 DEF Inside
  <1>3. Word(3) \in Nat
    BY <1>2, WordType
  <1> QED
    BY <1>3 DEF Limit

(* A length field whose bytes lie in the window. *)
LEMMA InsideTypes ==
    ASSUME Inside, NEW i \in Nat
    PROVE  /\ i < end => Byte(i) \in 0..255
           /\ i + 1 < end => Word(i) \in Nat
           /\ i + 2 < end => Word3(i) \in Nat
  <1>1. Len(data) \in Nat /\ Limit \in Nat
    BY LimitType DEF Inside
  <1>2. end <= Len(data) /\ end \in Nat /\ data \in Seq(0..255)
    BY <1>1 DEF Inside
  <1>3. i < end => Byte(i) \in 0..255
    <2> SUFFICES ASSUME i < end
                 PROVE  Byte(i) \in 0..255
      OBVIOUS
    <2>1. i < Len(data)
      BY <1>1, <1>2
    <2> QED
      BY <1>2, <2>1, ByteType
  <1>4. i + 1 < end => Word(i) \in Nat
    BY <1>1, <1>2, WordType
  <1>5. i + 2 < end => Word3(i) \in Nat
    BY <1>1, <1>2, Word3Type
  <1> QED
    BY <1>3, <1>4, <1>5

(* A step into a window that lies in the current one, and a step on in it. *)
LEMMA EnterStep ==
    ASSUME IInv, Inside, NEW l \in (Fields \ {"record"}) \cup {"found"},
           NEW from \in Nat, NEW to \in Nat, from <= to, to <= end, Enter(l, from, to)
    PROVE  IInv'
  <1>1. label' = l /\ pos' = from /\ end' = to /\ data' = data
    BY DEF Enter
  <1>2. Limit \in Nat
    BY LimitType
  <1>3. to <= Limit
    BY <1>2 DEF Inside
  <1> QED
    BY <1>1, <1>3, EnterKeeps DEF Inside

(* Skipping a field keeps IInv. *)
LEMMA SkipStep ==
    ASSUME IInv, Inside, NEW l \in Fields \ {"record"}, NEW to \in Nat, Skip(l, to)
    PROVE  IInv'
  BY EnterKeeps DEF Skip, Inside

(* The record is entered from the whole of the data. *)
LEMMA RecordKeeps ==
    ASSUME IInv, Record
    PROVE  IInv'
  <1>1. data \in Seq(0..255) /\ pos = 0 /\ end = Len(data) /\ Len(data) \in Nat
    BY DEF IInv, ParserTypeOK, Window, Record, Field
  <1>2. CASE ~(Left >= 5 /\ Byte(0) = 22)
    BY <1>2, NoneKeeps DEF Record, Field
  <1>3. CASE Left >= 5 /\ Byte(0) = 22
    <2>1. 5 <= Len(data)
      BY <1>1, <1>3 DEF Left
    <2>2. Word(3) \in Nat
      <3>1. 3 \in Nat /\ 3 + 1 < Len(data)
        BY <1>1, <2>1
      <3> QED
        BY <1>1, <3>1, WordType
    <2>3. CASE Len(data) < 5 + Word(3)
      BY <1>1, <1>3, <2>1, <2>3, NoneKeeps DEF Record, Field, Left
    <2>4. CASE ~(Len(data) < 5 + Word(3))
      <3>1. Enter("handshake", 5, 5 + Word(3))
        BY <1>1, <1>3, <2>1, <2>4 DEF Record, Field, Left
      <3>2. label' = "handshake" /\ pos' = 5 /\ end' = 5 + Word(3) /\ data' = data
        BY <1>1, <2>2, <2>4, <3>1 DEF Enter
      <3>3. end' = Limit /\ Limit \in Nat /\ Limit <= Len(data)
        BY <1>1, <2>2, <2>4, <3>2 DEF Limit
      <3>4. pos' \in Nat /\ end' \in Nat /\ end' <= Limit
        BY <3>2, <3>3
      <3> QED
        BY <2>1, <3>2, <3>3, <3>4, EnterKeeps
    <2> QED
      BY <2>3, <2>4
  <1> QED
    BY <1>2, <1>3

LEMMA HandshakeKeeps ==
    ASSUME IInv, Handshake
    PROVE  IInv'
  <1>1. Inside /\ pos \in Nat /\ end \in Nat
    BY InsideRecord DEF Handshake, Field, Inside
  <1>2. CASE ~(Left >= 4 /\ Byte(pos) = 1)
    BY <1>2, NoneKeeps DEF Handshake, Field
  <1>3. CASE Left >= 4 /\ Byte(pos) = 1
    <2>1. Word3(pos + 1) \in Nat
      BY <1>1, <1>3, InsideTypes DEF Left
    <2>2. CASE Left < 4 + Word3(pos + 1)
      BY <1>1, <1>3, <2>1, <2>2, NoneKeeps DEF Handshake, Field, Left
    <2>3. CASE ~(Left < 4 + Word3(pos + 1))
      <3>1. Enter("random", pos + 4, pos + 4 + Word3(pos + 1))
        BY <1>1, <1>3, <2>1, <2>3 DEF Handshake, Field, Left
      <3>2. pos + 4 \in Nat /\ pos + 4 + Word3(pos + 1) \in Nat /\ pos + 4 <= pos + 4 + Word3(pos + 1) /\ pos + 4 + Word3(pos + 1) <= end
        BY <1>1, <1>3, <2>1, <2>3 DEF Left
      <3> QED
        BY <1>1, <3>1, <3>2, EnterStep
    <2> QED
      BY <2>2, <2>3
  <1> QED
    BY <1>2, <1>3

LEMMA RandomKeeps ==
    ASSUME IInv, Random
    PROVE  IInv'
  <1>1. Inside /\ pos \in Nat /\ end \in Nat
    BY InsideRecord DEF Random, Field, Inside
  <1>2. CASE ~(Left >= 34)
    BY <1>2, NoneKeeps DEF Random, Field
  <1>3. CASE Left >= 34
    <2>1. Skip("session", pos + 34) /\ pos + 34 \in Nat
      BY <1>1, <1>3 DEF Random, Field, Left
    <2> QED
      BY <1>1, <2>1, SkipStep
  <1> QED
    BY <1>2, <1>3

LEMMA SessionIDKeeps ==
    ASSUME IInv, SessionID
    PROVE  IInv'
  <1>1. Inside /\ pos \in Nat /\ end \in Nat
    BY InsideRecord DEF SessionID, Field, Inside
  <1>2. CASE ~(Left > 0)
    BY <1>2, NoneKeeps DEF SessionID, Field
  <1>3. CASE Left > 0
    <2>1. Byte(pos) \in 0..255
      BY <1>1, <1>3, InsideTypes DEF Left
    <2>2. pos + 1 + Byte(pos) \in Nat
      BY <1>1, <2>1
    <2>3. Skip("ciphers", pos + 1 + Byte(pos))
      BY <1>1, <1>3 DEF SessionID, Field, Left
    <2> QED
      BY <1>1, <2>2, <2>3, SkipStep
  <1> QED
    BY <1>2, <1>3

LEMMA CipherSuitesKeeps ==
    ASSUME IInv, CipherSuites
    PROVE  IInv'
  <1>1. Inside /\ pos \in Nat /\ end \in Nat
    BY InsideRecord DEF CipherSuites, Field, Inside
  <1>2. CASE ~(Left >= 2)
    BY <1>2, NoneKeeps DEF CipherSuites, Field
  <1>3. CASE Left >= 2
    <2>1. Word(pos) \in Nat
      BY <1>1, <1>3, InsideTypes DEF Left
    <2>2. pos + 2 + Word(pos) \in Nat
      BY <1>1, <2>1
    <2>3. Skip("compression", pos + 2 + Word(pos))
      BY <1>1, <1>3 DEF CipherSuites, Field, Left
    <2> QED
      BY <1>1, <2>2, <2>3, SkipStep
  <1> QED
    BY <1>2, <1>3

LEMMA CompressionKeeps ==
    ASSUME IInv, Compression
    PROVE  IInv'
  <1>1. Inside /\ pos \in Nat /\ end \in Nat
    BY InsideRecord DEF Compression, Field, Inside
  <1>2. CASE ~(Left > 0)
    BY <1>2, NoneKeeps DEF Compression, Field
  <1>3. CASE Left > 0
    <2>1. Byte(pos) \in 0..255
      BY <1>1, <1>3, InsideTypes DEF Left
    <2>2. pos + 1 + Byte(pos) \in Nat
      BY <1>1, <2>1
    <2>3. Skip("extensions", pos + 1 + Byte(pos))
      BY <1>1, <1>3 DEF Compression, Field, Left
    <2> QED
      BY <1>1, <2>2, <2>3, SkipStep
  <1> QED
    BY <1>2, <1>3

LEMMA ExtensionsKeeps ==
    ASSUME IInv, Extensions
    PROVE  IInv'
  <1>1. Inside /\ pos \in Nat /\ end \in Nat
    BY InsideRecord DEF Extensions, Field, Inside
  <1>2. CASE ~(Left >= 2)
    BY <1>2, NoneKeeps DEF Extensions, Field
  <1>3. CASE Left >= 2
    <2>1. Word(pos) \in Nat
      BY <1>1, <1>3, InsideTypes DEF Left
    <2>2. CASE Left < 2 + Word(pos)
      BY <1>1, <1>3, <2>1, <2>2, NoneKeeps DEF Extensions, Field, Left
    <2>3. CASE ~(Left < 2 + Word(pos))
      <3>1. Enter("extension", pos + 2, pos + 2 + Word(pos))
        BY <1>1, <1>3, <2>1, <2>3 DEF Extensions, Field, Left
      <3>2. pos + 2 \in Nat /\ pos + 2 + Word(pos) \in Nat /\ pos + 2 <= pos + 2 + Word(pos) /\ pos + 2 + Word(pos) <= end
        BY <1>1, <1>3, <2>1, <2>3 DEF Left
      <3> QED
        BY <1>1, <3>1, <3>2, EnterStep
    <2> QED
      BY <2>2, <2>3
  <1> QED
    BY <1>2, <1>3

LEMMA ExtensionKeeps ==
    ASSUME IInv, Extension
    PROVE  IInv'
  <1>1. Inside /\ pos \in Nat /\ end \in Nat
    BY InsideRecord DEF Extension, Field, Inside
  <1>2. CASE ~(Left >= 4)
    BY <1>2, NoneKeeps DEF Extension, Field
  <1>3. CASE Left >= 4
    <2>1. Word(pos + 2) \in Nat
      BY <1>1, <1>3, InsideTypes DEF Left
    <2>2. CASE pos + 4 + Word(pos + 2) > end
      BY <1>1, <1>3, <2>1, <2>2, NoneKeeps DEF Extension, Field, Left
    <2>3. CASE ~(pos + 4 + Word(pos + 2) > end)
      <3>1. CASE Word(pos) = 0
        <4>1. Enter("names", pos + 4, pos + 4 + Word(pos + 2))
          BY <1>1, <1>3, <2>1, <2>3, <3>1 DEF Extension, Field, Left
        <4>2. pos + 4 \in Nat /\ pos + 4 + Word(pos + 2) \in Nat /\ pos + 4 <= pos + 4 + Word(pos + 2) /\ pos + 4 + Word(pos + 2) <= end
          BY <1>1, <1>3, <2>1, <2>3 DEF Left
        <4> QED
          BY <1>1, <4>1, <4>2, EnterStep
      <3>2. CASE Word(pos) # 0
        <4>1. Enter("extension", pos + 4 + Word(pos + 2), end)
          BY <1>1, <1>3, <2>1, <2>3, <3>2 DEF Extension, Field, Left
        <4>2. pos + 4 + Word(pos + 2) \in Nat /\ end \in Nat /\ pos + 4 + Word(pos + 2) <= end /\ end <= end
          BY <1>1, <1>3, <2>1, <2>3 DEF Left
        <4> QED
          BY <1>1, <4>1, <4>2, EnterStep
      <3> QED
        BY <3>1, <3>2
    <2> QED
      BY <2>2, <2>3
  <1> QED
    BY <1>2, <1>3

LEMMA NamesKeeps ==
    ASSUME IInv, Names
    PROVE  IInv'
  <1>1. Inside /\ pos \in Nat /\ end \in Nat
    BY InsideRecord DEF Names, Field, Inside
  <1>2. CASE ~(Left >= 2)
    BY <1>2, NoneKeeps DEF Names, Field
  <1>3. CASE Left >= 2
    <2>1. Word(pos) \in Nat
      BY <1>1, <1>3, InsideTypes DEF Left
    <2>2. CASE Left < 2 + Word(pos)
      BY <1>1, <1>3, <2>1, <2>2, NoneKeeps DEF Names, Field, Left
    <2>3. CASE ~(Left < 2 + Word(pos))
      <3>1. Enter("name", pos + 2, pos + 2 + Word(pos))
        BY <1>1, <1>3, <2>1, <2>3 DEF Names, Field, Left
      <3>2. pos + 2 \in Nat /\ pos + 2 + Word(pos) \in Nat /\ pos + 2 <= pos + 2 + Word(pos) /\ pos + 2 + Word(pos) <= end
        BY <1>1, <1>3, <2>1, <2>3 DEF Left
      <3> QED
        BY <1>1, <3>1, <3>2, EnterStep
    <2> QED
      BY <2>2, <2>3
  <1> QED
    BY <1>2, <1>3

LEMMA NameKeeps ==
    ASSUME IInv, Name
    PROVE  IInv'
  <1>1. Inside /\ pos \in Nat /\ end \in Nat
    BY InsideRecord DEF Name, Field, Inside
  <1>2. CASE ~(Left >= 3)
    BY <1>2, NoneKeeps DEF Name, Field
  <1>3. CASE Left >= 3
    <2>1. Word(pos + 1) \in Nat
      BY <1>1, <1>3, InsideTypes DEF Left
    <2>2. CASE pos + 3 + Word(pos + 1) > end
      BY <1>1, <1>3, <2>1, <2>2, NoneKeeps DEF Name, Field, Left
    <2>3. CASE ~(pos + 3 + Word(pos + 1) > end)
      <3>1. CASE Byte(pos) = 0
        <4>1. Enter("found", pos + 3, pos + 3 + Word(pos + 1))
          BY <1>1, <1>3, <2>1, <2>3, <3>1 DEF Name, Field, Left
        <4>2. pos + 3 \in Nat /\ pos + 3 + Word(pos + 1) \in Nat /\ pos + 3 <= pos + 3 + Word(pos + 1) /\ pos + 3 + Word(pos + 1) <= end
          BY <1>1, <1>3, <2>1, <2>3 DEF Left
        <4> QED
          BY <1>1, <4>1, <4>2, EnterStep
      <3>2. CASE Byte(pos) # 0
        <4>1. Enter("name", pos + 3 + Word(pos + 1), end)
          BY <1>1, <1>3, <2>1, <2>3, <3>2 DEF Name, Field, Left
        <4>2. pos + 3 + Word(pos + 1) \in Nat /\ end \in Nat /\ pos + 3 + Word(pos + 1) <= end /\ end <= end
          BY <1>1, <1>3, <2>1, <2>3 DEF Left
        <4> QED
          BY <1>1, <4>1, <4>2, EnterStep
      <3> QED
        BY <3>1, <3>2
    <2> QED
      BY <2>2, <2>3
  <1> QED
    BY <1>2, <1>3

(* Every step of ParseSNI keeps IInv. *)
LEMMA InductiveIInv ==
    ASSUME IInv, [ParserNext]_parserVars
    PROVE  IInv'
  <1>1. CASE ParserNext
    BY <1>1, RecordKeeps, HandshakeKeeps, RandomKeeps, SessionIDKeeps, CipherSuitesKeeps,
       CompressionKeeps, ExtensionsKeeps, ExtensionKeeps, NamesKeeps, NameKeeps
       DEF ParserNext
  <1>2. CASE UNCHANGED parserVars
    BY <1>2 DEF parserVars, IInv, ParserTypeOK, Window, Limit, Word, Byte
  <1> QED
    BY <1>1, <1>2

(***************************************************************************)
(* What the runs check on about a hundred inputs, for every one: ParseSNI *)
(* never reads or slices out of range, and the name it returns lies in the *)
(* declared record.                                                        *)
(***************************************************************************)
THEOREM NeverPanicsAlways == ParserSpec => []NeverPanics
  <1>1. IInv => NeverPanics
    BY DEF IInv, Window, NeverPanics, Limit
  <1> QED
    BY <1>1, InitIInv, InductiveIInv, PTL DEF ParserSpec

HIDE DEF Fields, Ends

-----------------------------------------------------------------------------
(* The function behind FlattenSeq. *)
Flat(ss) ==
    LET flatten[i \in 1..Len(ss)] == IF i = 1 THEN ss[i] ELSE flatten[i-1] \o ss[i]
    IN  flatten

(* The first n sequences of ss, one behind the other. *)
Joined(ss, n) == IF n = 0 THEN <<>> ELSE Flat(ss)[n]

(* Flat is defined: by induction there is a function that meets its equation. *)
LEMMA FlatDef ==
    ASSUME NEW ss, Len(ss) \in Nat
    PROVE  \A k \in 1..Len(ss) : Flat(ss)[k] = IF k = 1 THEN ss[k] ELSE Flat(ss)[k - 1] \o ss[k]
  <1> DEFINE Def(g) == [k \in 1..Len(ss) |-> IF k = 1 THEN ss[k] ELSE g[k - 1] \o ss[k]]
             Upto(m) == \E g : /\ g = [k \in 1..m |-> g[k]]
                               /\ \A k \in 1..m : g[k] = IF k = 1 THEN ss[k] ELSE g[k - 1] \o ss[k]
             G == {m \in 0..Len(ss) : Upto(m)}
  <1>1. 0 \in G
    <2> DEFINE g == [k \in 1..0 |-> 0]
    <2>1. g = [k \in 1..0 |-> g[k]]
      OBVIOUS
    <2>2. \A k \in 1..0 : g[k] = IF k = 1 THEN ss[k] ELSE g[k - 1] \o ss[k]
      <3>1. ~ \E k : k \in 1..0
        OBVIOUS
      <3> QED BY <3>1, Zenon
    <2> HIDE DEF g
    <2>3. Upto(0)
      BY <2>1, <2>2
    <2> HIDE DEF Upto
    <2> QED BY <2>3
  <1>2. ASSUME NEW m \in 1..Len(ss), m - 1 \in G PROVE m \in G
    <2>1. PICK g : /\ g = [k \in 1..m-1 |-> g[k]]
                   /\ \A k \in 1..m-1 : g[k] = IF k = 1 THEN ss[k] ELSE g[k - 1] \o ss[k]
      BY <1>2
    <2> DEFINE h == [k \in 1..m |-> IF k = m THEN (IF k = 1 THEN ss[k] ELSE g[k - 1] \o ss[k]) ELSE g[k]]
    <2>2. h = [k \in 1..m |-> h[k]]
      OBVIOUS
    <2>3. ASSUME NEW k \in 1..m PROVE h[k] = IF k = 1 THEN ss[k] ELSE h[k - 1] \o ss[k]
      <3>1. k # 1 => h[k - 1] = g[k - 1]
        OBVIOUS
      <3>2. CASE k = m
        BY <3>1, <3>2
      <3>3. CASE k # m
        <4>1. k \in 1..m-1 /\ h[k] = g[k]
          BY <3>3
        <4> QED BY <2>1, <3>1, <4>1
      <3> QED BY <3>2, <3>3
    <2> HIDE DEF h
    <2>4. Upto(m)
      BY <2>2, <2>3
    <2>5. m \in 0..Len(ss)
      OBVIOUS
    <2> HIDE DEF Upto
    <2> QED BY <2>4, <2>5
  <1>3. Len(ss) \in G
    <2> HIDE DEF G
    <2>1. G \in SUBSET (0..Len(ss))
      BY DEF G
    <2> QED BY <1>1, <1>2, <2>1, Steps
  <1>4. \E g : g = Def(g)
    <2>1. PICK g : /\ g = [k \in 1..Len(ss) |-> g[k]]
                   /\ \A k \in 1..Len(ss) : g[k] = IF k = 1 THEN ss[k] ELSE g[k - 1] \o ss[k]
      BY <1>3
    <2>2. [k \in 1..Len(ss) |-> g[k]] = Def(g)
      BY <2>1, Zenon
    <2>3. g = Def(g)
      BY <2>1, <2>2, Zenon
    <2> QED BY <2>3, Zenon
  <1>5. Flat(ss) = CHOOSE g : g = Def(g)
    BY Zenon DEF Flat
  <1>6. Flat(ss) = Def(Flat(ss))
    <2> HIDE DEF Def
    <2> QED BY <1>4, <1>5
  <1>7. \A k \in 1..Len(ss) : Def(Flat(ss))[k] = IF k = 1 THEN ss[k] ELSE Flat(ss)[k - 1] \o ss[k]
    OBVIOUS
  <1> HIDE DEF Def
  <1> QED BY <1>6, <1>7, Zenon

(* FlattenSeq, step by step. *)
LEMMA JoinedDef ==
    ASSUME NEW ss \in Seq(Seq(Octets))
    PROVE  /\ FlattenSeq(ss) = Joined(ss, Len(ss)) /\ Len(ss) \in Nat
           /\ Joined(ss, 0) = <<>>
           /\ \A k \in 1..Len(ss) : Joined(ss, k) = Joined(ss, k - 1) \o ss[k]
  <1>1. Len(ss) \in Nat
    OBVIOUS
  <1>2. \A k \in 1..Len(ss) : Flat(ss)[k] = IF k = 1 THEN ss[k] ELSE Flat(ss)[k - 1] \o ss[k]
    BY <1>1, FlatDef
  <1>3. Joined(ss, 0) = <<>>
    BY DEF Joined
  <1>4. ASSUME NEW k \in 1..Len(ss) PROVE Joined(ss, k) = Joined(ss, k - 1) \o ss[k]
    <2>1. ss[k] \in Seq(Octets) /\ Joined(ss, k) = Flat(ss)[k]
      BY DEF Joined
    <2>2. CASE k = 1
      <3>1. <<>> \o ss[k] = ss[k]
        BY <2>1, ConcatEmptySeq
      <3>2. Joined(ss, k - 1) = <<>>
        BY <2>2, <1>3
      <3> QED BY <1>2, <2>1, <2>2, <3>1, <3>2, Zenon
    <2>3. CASE k # 1
      <3>1. Joined(ss, k - 1) = Flat(ss)[k - 1]
        BY <2>3 DEF Joined
      <3> QED BY <1>2, <2>1, <2>3, <3>1, Zenon
    <2> QED BY <2>2, <2>3
  <1>5. FlattenSeq(ss) = Joined(ss, Len(ss))
    <2>1. CASE Len(ss) = 0
      <3>1. ss = <<>>
        BY <2>1, EmptySeq
      <3> QED BY <1>3, <2>1, <3>1 DEF FlattenSeq
    <2>2. CASE Len(ss) # 0
      <3>1. FlattenSeq(ss) = Flat(ss)[Len(ss)]
        BY <2>2, Zenon DEF FlattenSeq, Flat
      <3> QED BY <2>2, <3>1, Zenon DEF Joined
    <2> QED BY <2>1, <2>2
  <1> QED BY <1>1, <1>3, <1>4, <1>5

(* The first n sequences joined are a sequence of octets. *)
LEMMA JoinedType ==
    ASSUME NEW ss \in Seq(Seq(Octets))
    PROVE  \A n \in 0..Len(ss) : Joined(ss, n) \in Seq(Octets)
  <1> DEFINE G == {n \in 0..Len(ss) : Joined(ss, n) \in Seq(Octets)}
  <1>0. /\ Len(ss) \in Nat /\ Joined(ss, 0) = <<>>
        /\ \A k \in 1..Len(ss) : Joined(ss, k) = Joined(ss, k - 1) \o ss[k]
    BY JoinedDef, Zenon
  <1>1. 0 \in G
    <2>1. 0 \in 0..Len(ss)
      OBVIOUS
    <2>2. <<>> \in Seq(Octets)
      OBVIOUS
    <2> QED BY <1>0, <2>1, <2>2, Zenon
  <1>2. ASSUME NEW n \in 1..Len(ss), n - 1 \in G PROVE n \in G
    <2>1. ss[n] \in Seq(Octets)
      OBVIOUS
    <2>3. Joined(ss, n) = Joined(ss, n - 1) \o ss[n]
      BY <1>0, Zenon
    <2>2. Joined(ss, n) \in Seq(Octets)
      BY <1>2, <2>1, <2>3, Cat, Zenon
    <2> QED BY <2>2
  <1>3. ASSUME NEW n \in 0..Len(ss) PROVE n \in G
    <2>1. G \in SUBSET (0..Len(ss)) /\ n \in Nat
      OBVIOUS
    <2>2. Len(ss) \in Nat
      OBVIOUS
    <2> HIDE DEF G
    <2> QED BY <1>1, <1>2, <2>1, <2>2, Steps
  <1> QED BY <1>3

(* Where the k-th sequence lies in all of them. *)
LEMMA JoinedAt ==
    ASSUME NEW ss \in Seq(Seq(Octets)), NEW k \in 1..Len(ss)
    PROVE  \A n \in k..Len(ss) :
              /\ At(Joined(ss, n), Len(Joined(ss, k - 1)), ss[k])
              /\ Len(Joined(ss, k)) <= Len(Joined(ss, n))
  <1> DEFINE o == Len(Joined(ss, k - 1))
             Good(n) == At(Joined(ss, n), o, ss[k]) /\ Len(Joined(ss, k)) <= Len(Joined(ss, n))
             G == {n \in 0..Len(ss) : n >= k => Good(n)}
  <1>0. Len(ss) \in Nat /\ k \in Nat /\ k - 1 \in 0..Len(ss) /\ ss[k] \in Seq(Octets)
    OBVIOUS
  <1>1. /\ o \in Nat /\ Joined(ss, k - 1) \in Seq(Octets)
        /\ \A n \in 1..Len(ss) : Joined(ss, n) = Joined(ss, n - 1) \o ss[n]
        /\ \A n \in 0..Len(ss) : Joined(ss, n) \in Seq(Octets) /\ Len(Joined(ss, n)) \in Nat
    <2>1. \A n \in 1..Len(ss) : Joined(ss, n) = Joined(ss, n - 1) \o ss[n]
      BY JoinedDef, Zenon
    <2>2. \A n \in 0..Len(ss) : Joined(ss, n) \in Seq(Octets)
      BY JoinedType, Zenon
    <2>3. \A s \in Seq(Octets) : Len(s) \in Nat
      OBVIOUS
    <2> QED BY <1>0, <2>1, <2>2, <2>3, Zenon
  <1>2. Len(Joined(ss, k)) = o + Len(ss[k])
    BY <1>0, <1>1, Cat
  <1> HIDE DEF o
  <1>3. Good(k)
    <2>1. At(Joined(ss, k), 0, Joined(ss, k))
      BY <1>0, <1>1, AtSelf
    <2>2. At(Joined(ss, k), 0 + Len(Joined(ss, k - 1)), ss[k])
      <3>1. ss[k] \in Seq(Octets) /\ Joined(ss, k) = Joined(ss, k - 1) \o ss[k] /\ 0 \in Nat
        BY <1>0, <1>1
      <3>2. PICK a : a = Joined(ss, k - 1)
        OBVIOUS
      <3>3. PICK j : j = Joined(ss, k)
        OBVIOUS
      <3>4. a \in Seq(Octets) /\ j = a \o ss[k] /\ At(j, 0, j)
        BY <1>1, <2>1, <3>1, <3>2, <3>3, Zenon
      <3>5. At(j, 0, a \o ss[k])
        BY <3>4, Zenon
      <3>6. At(j, 0 + Len(a), ss[k])
        BY <3>1, <3>4, <3>5, AtCat, Zenon
      <3> QED BY <3>2, <3>3, <3>6, Zenon
    <2>3. 0 + Len(Joined(ss, k - 1)) = o
      BY <1>1 DEF o
    <2> QED BY <1>0, <1>1, <2>2, <2>3
  <1>4. ASSUME NEW n \in 1..Len(ss), n - 1 \in G, n > k PROVE Good(n)
    <2>1. /\ Joined(ss, n) = Joined(ss, n - 1) \o ss[n] /\ ss[n] \in Seq(Octets)
          /\ Joined(ss, n - 1) \in Seq(Octets)
      <3>1. n - 1 \in 0..Len(ss) /\ ss[n] \in Seq(Octets)
        BY <1>0
      <3> QED BY <1>1, <3>1, Zenon
    <2>2. Good(n - 1)
      BY <1>0, <1>4
    <2>3. Len(Joined(ss, n)) = Len(Joined(ss, n - 1)) + Len(ss[n])
      BY <2>1, Cat
    <2>4. At(Joined(ss, n), 0, Joined(ss, n - 1))
      <3>1. At(Joined(ss, n), 0, Joined(ss, n))
        BY <1>0, <1>1, AtSelf
      <3> QED BY <2>1, <3>1, AtCat
    <2>5. At(Joined(ss, n), o, ss[k])
      <3>1. Block(Joined(ss, n - 1), Len(Joined(ss, n - 1))) /\ Block(ss[k], Len(ss[k]))
        BY <1>0, <2>1 DEF Block
      <3>2. o + Len(ss[k]) <= Len(Joined(ss, n - 1)) /\ Len(Joined(ss, n - 1)) \in Nat /\ Len(ss[k]) \in Nat
        BY <1>0, <1>2, <2>1, <2>2
      <3> QED BY <1>1, <2>2, <2>4, <3>1, <3>2, AtFront
    <2>6. Len(Joined(ss, k)) <= Len(Joined(ss, n))
      <3>1. Len(Joined(ss, k)) \in Nat /\ Len(Joined(ss, n - 1)) \in Nat /\ Len(ss[n]) \in Nat
        <4>1. \A s \in Seq(Octets) : Len(s) \in Nat
          OBVIOUS
        <4>2. k \in 0..Len(ss)
          BY <1>0
        <4> QED BY <1>1, <2>1, <4>1, <4>2, Zenon
      <3>2. Len(Joined(ss, k)) <= Len(Joined(ss, n - 1))
        BY <2>2, Zenon
      <3>3. \A a, b, c \in Nat : \A d : d = b + c /\ a <= b => a <= d
        OBVIOUS
      <3> QED BY <2>3, <3>1, <3>2, <3>3, Zenon
    <2> QED BY <2>5, <2>6
  <1>5. ASSUME NEW n \in 0..Len(ss) PROVE n \in G
    <2>1. G \in SUBSET (0..Len(ss)) /\ n \in Nat
      OBVIOUS
    <2>2. 0 \in G
      BY <1>0
    <2>3. ASSUME NEW m \in 1..Len(ss), m - 1 \in G PROVE m \in G
      <3>1. CASE m < k
        BY <1>0, <3>1
      <3>2. CASE m = k
        BY <1>0, <1>3, <3>2
      <3>3. CASE m > k
        BY <1>0, <1>4, <2>3, <3>3
      <3> QED BY <1>0, <3>1, <3>2, <3>3
    <2> HIDE DEF G
    <2> QED BY <1>0, <2>1, <2>2, <2>3, Steps
  <1> QED BY <1>0, <1>5 DEF o

(* Sequences of two octets each. *)
LEMMA JoinedTwos ==
    ASSUME NEW ss \in Seq(Seq(Octets)), \A k \in 1..Len(ss) : Len(ss[k]) = 2
    PROVE  \A n \in 0..Len(ss) : Len(Joined(ss, n)) = 2 * n
  <1> DEFINE G == {n \in 0..Len(ss) : Len(Joined(ss, n)) = 2 * n}
  <1>0. Len(ss) \in Nat
    OBVIOUS
  <1>1. 0 \in G
    <2>1. Joined(ss, 0) = <<>>
      BY JoinedDef, Zenon
    <2> QED BY <2>1
  <1>2. ASSUME NEW n \in 1..Len(ss), n - 1 \in G PROVE n \in G
    <2>1. ss[n] \in Seq(Octets) /\ n - 1 \in 0..Len(ss)
      BY <1>0
    <2>2. Joined(ss, n) = Joined(ss, n - 1) \o ss[n]
      BY JoinedDef, Zenon
    <2>3. Joined(ss, n - 1) \in Seq(Octets)
      BY <2>1, JoinedType, Zenon
    <2>4. Len(Joined(ss, n)) = Len(Joined(ss, n - 1)) + Len(ss[n])
      BY <2>1, <2>2, <2>3, Cat, Zenon
    <2>5. Len(Joined(ss, n - 1)) = 2 * (n - 1) /\ Len(ss[n]) = 2 /\ n \in Nat
      BY <1>2
    <2>6. Len(Joined(ss, n)) = 2 * n
      <3>1. n \in Nat => 2 * (n - 1) + 2 = 2 * n
        OBVIOUS
      <3> QED BY <2>4, <2>5, <3>1, Zenon
    <2> QED BY <2>6
  <1>3. ASSUME NEW n \in 0..Len(ss) PROVE n \in G
    <2>1. G \in SUBSET (0..Len(ss)) /\ n \in Nat
      OBVIOUS
    <2> HIDE DEF G
    <2> QED BY <1>0, <1>1, <1>2, <2>1, Steps
  <1> QED BY <1>3

(* The bytes of a sequence of sequences. *)
LEMMA FlattenType == ASSUME NEW ss \in Seq(Seq(Octets)) PROVE FlattenSeq(ss) \in Seq(Octets)
  <1>1. FlattenSeq(ss) = Joined(ss, Len(ss)) /\ Len(ss) \in Nat
    BY JoinedDef, Zenon
  <1>2. Len(ss) \in 0..Len(ss)
    BY <1>1
  <1> QED BY <1>1, <1>2, JoinedType, Zenon

(* appendUint16 writes what Put does. *)
LEMMA Word16 == \A v \in Nat : appendUint16(v) = Put(v) /\ Block(appendUint16(v), 2)
  <1> TAKE v \in Nat
  <1>1. appendUint16(v) = Put(v)
    BY Zenon DEF appendUint16, Put
  <1> QED BY <1>1, PutBlocks, Zenon

(* A list of numbers, written one behind the other. *)
LEMMA ConcatWords ==
    ASSUME NEW vs \in Seq(Nat)
    PROVE  Block(Concat(appendUint16, vs), 2 * Len(vs)) /\ Len(vs) \in Nat
  <1> DEFINE ss == [k \in DOMAIN vs |-> appendUint16(vs[k])]
  <1>0. Concat(appendUint16, vs) = FlattenSeq(ss)
    BY Zenon DEF Concat
  <1>1. Len(vs) \in Nat /\ DOMAIN vs = 1..Len(vs) /\ \A k \in 1..Len(vs) : vs[k] \in Nat
    OBVIOUS
  <1>2. \A k \in 1..Len(vs) : appendUint16(vs[k]) \in Seq(Octets) /\ Len(appendUint16(vs[k])) = 2
    BY <1>1, Word16, Zenon DEF Block
  <1>3. /\ ss \in Seq(Seq(Octets)) /\ Len(ss) = Len(vs)
        /\ \A k \in 1..Len(vs) : ss[k] = appendUint16(vs[k])
    BY <1>1, <1>2
  <1>4. \A k \in 1..Len(ss) : Len(ss[k]) = 2
    BY <1>2, <1>3
  <1> HIDE DEF ss
  <1>5. FlattenSeq(ss) = Joined(ss, Len(ss))
    BY <1>3, JoinedDef, Zenon
  <1>6. Len(ss) \in 0..Len(ss)
    BY <1>1, <1>3
  <1>7. Len(Joined(ss, Len(ss))) = 2 * Len(ss)
    BY <1>3, <1>4, <1>6, JoinedTwos, Zenon
  <1>8. FlattenSeq(ss) \in Seq(Octets)
    BY <1>3, FlattenType, Zenon
  <1> QED BY <1>0, <1>1, <1>3, <1>5, <1>7, <1>8 DEF Block

(* A sequence behind its length. *)
LEMMA Prefixed ==
    ASSUME NEW s \in Seq(Octets)
    PROVE  Block(Prefixed16(s), 2 + Len(s)) /\ Block(Prefixed8(s), 1 + Len(s)) /\ Len(s) \in Nat
  <1>1. Len(s) \in Nat /\ Block(s, Len(s)) /\ 2 \in Nat /\ 1 \in Nat
    BY DEF Block
  <1>2. Block(appendUint16(Len(s)), 2)
    BY <1>1, Word16
  <1>3. Block(Prefixed16(s), 2 + Len(s))
    BY <1>1, <1>2, CatBlock, Zenon DEF Prefixed16
  <1>6. PICK b : b = <<Len(s) % 256>>
    OBVIOUS
  <1>4. Block(b, 1)
    <2>1. Len(s) % 256 \in Octets
      <3>1. Len(s) % 256 \in Nat /\ Len(s) % 256 < 256
        BY <1>1
      <3> QED BY <3>1, OctetType
    <2> QED BY <1>6, <2>1 DEF Block
  <1>7. Block(b \o s, 1 + Len(s))
    BY <1>1, <1>4, CatBlock, Zenon
  <1>5. Block(Prefixed8(s), 1 + Len(s))
    BY <1>6, <1>7, Zenon DEF Prefixed8
  <1> QED BY <1>1, <1>3, <1>5

(* A list of numbers behind its length. *)
LEMMA ListBlock ==
    ASSUME NEW vs \in Seq(Nat)
    PROVE  Block(appendUint16List(vs), 2 + 2 * Len(vs))
  <1>1. Block(Concat(appendUint16, vs), 2 * Len(vs)) /\ Len(vs) \in Nat
    BY ConcatWords
  <1>2. 2 * Len(vs) \in Nat /\ 2 \in Nat
    BY <1>1
  <1>3. PICK w : w = appendUint16(2 * Len(vs))
    OBVIOUS
  <1>4. PICK c : c = Concat(appendUint16, vs)
    OBVIOUS
  <1>5. PICK n : n = 2 * Len(vs)
    OBVIOUS
  <1>6. Block(w, 2) /\ Block(c, n) /\ n \in Nat
    BY <1>1, <1>2, <1>3, <1>4, <1>5, Word16
  <1>7. Block(w \o c, 2 + n)
    BY <1>2, <1>6, CatBlock, Zenon
  <1> QED BY <1>3, <1>4, <1>5, <1>7, Zenon DEF appendUint16List

(* The random bytes. *)
LEMMA NoiseBytes ==
    ASSUME NEW n \in Nat
    PROVE  Block(Bytes(n), n)
  <1>1. Noise \in Octets
    BY ProfilesAssumption, SMT DEF Octets
  <1> QED BY <1>1 DEF Bytes, Block

(* The contents of an extension that has any. *)
ExtensionBytes(p, b) ==
    b \in {serverNameExtension(p.ServerName), appendUint16List(p.SupportedGroups), <<1, 0>>,
           appendUint16List(p.SignatureAlgorithms), alpnExtension(p.ALPN),
           versionExtension(p.SupportedVersions), <<1, 1>>,
           keyShareExtension(p.KeyShareGroup, Bytes(32))}

(* The fields of a profile. *)
LEMMA ProfileFields ==
    ASSUME NEW p \in ClientHelloProfile
    PROVE  /\ p.ServerName \in Seq(Octets) /\ p.ALPN \in Seq(Seq(Octets)) /\ p.KeyShareGroup \in Nat
           /\ p.CipherSuites \in Seq(Nat) /\ p.SupportedGroups \in Seq(Nat)
           /\ p.SignatureAlgorithms \in Seq(Nat) /\ p.SupportedVersions \in Seq(Nat)
           /\ p.ExtensionOrder \in Seq(Nat)
  BY SMT DEF ClientHelloProfile, Octets

(* The contents of every extension are octets. *)
LEMMA BytesType ==
    ASSUME NEW p \in ClientHelloProfile, NEW b, ExtensionBytes(p, b)
    PROVE  b \in Seq(Octets)
  <1>1. serverNameExtension(p.ServerName) \in Seq(Octets)
    <2>1. Prefixed16(p.ServerName) \in Seq(Octets)
      BY ProfileFields, Prefixed, Zenon DEF Block
    <2>2. <<0>> \in Seq(Octets)
      BY OctetType
    <2>3. <<0>> \o Prefixed16(p.ServerName) \in Seq(Octets)
      BY <2>1, <2>2, Cat, Zenon
    <2> QED BY <2>3, Prefixed, Zenon DEF Block, serverNameExtension
  <1>2. /\ appendUint16List(p.SupportedGroups) \in Seq(Octets)
        /\ appendUint16List(p.SignatureAlgorithms) \in Seq(Octets)
    BY ProfileFields, ListBlock, Zenon DEF Block
  <1>3. alpnExtension(p.ALPN) \in Seq(Octets)
    <2> DEFINE ss == [k \in DOMAIN p.ALPN |-> Prefixed8(p.ALPN[k])]
    <2>1. p.ALPN \in Seq(Seq(Octets))
      BY ProfileFields
    <2>2. DOMAIN p.ALPN = 1..Len(p.ALPN) /\ \A k \in DOMAIN p.ALPN : p.ALPN[k] \in Seq(Octets)
      BY <2>1
    <2>3. \A k \in DOMAIN p.ALPN : Prefixed8(p.ALPN[k]) \in Seq(Octets)
      BY <2>2, Prefixed, Zenon DEF Block
    <2>4. ss \in Seq(Seq(Octets))
      BY <2>1, <2>2, <2>3
    <2>5. Concat(Prefixed8, p.ALPN) = FlattenSeq(ss)
      BY Zenon DEF Concat
    <2>6. Concat(Prefixed8, p.ALPN) \in Seq(Octets)
      BY <2>4, <2>5, FlattenType, Zenon
    <2> QED BY <2>6, Prefixed, Zenon DEF Block, alpnExtension
  <1>4. versionExtension(p.SupportedVersions) \in Seq(Octets)
    <2>1. Concat(appendUint16, p.SupportedVersions) \in Seq(Octets)
      BY ProfileFields, ConcatWords, Zenon DEF Block
    <2> QED BY <2>1, Prefixed, Zenon DEF Block, versionExtension
  <1>5. keyShareExtension(p.KeyShareGroup, Bytes(32)) \in Seq(Octets)
    <2>1. Bytes(32) \in Seq(Octets)
      BY NoiseBytes DEF Block
    <2>2. Prefixed16(Bytes(32)) \in Seq(Octets) /\ appendUint16(p.KeyShareGroup) \in Seq(Octets)
      BY <2>1, ProfileFields, Prefixed, Word16, Zenon DEF Block
    <2>3. appendUint16(p.KeyShareGroup) \o Prefixed16(Bytes(32)) \in Seq(Octets)
      BY <2>2, Cat, Zenon
    <2> QED BY <2>3, Prefixed, Zenon DEF Block, keyShareExtension
  <1>6. <<1, 0>> \in Seq(Octets) /\ <<1, 1>> \in Seq(Octets)
    BY OctetType
  <1> QED BY <1>1, <1>2, <1>3, <1>4, <1>5, <1>6, Zenon DEF ExtensionBytes

(* An extension: its type, the length of its contents, and those. *)
Extended(t, b) == appendUint16(t) \o Prefixed16(b)

(* What appendExtension appends: nothing, or an extension of a type it knows. *)
LEMMA ExtensionShape ==
    ASSUME NEW p \in ClientHelloProfile, NEW t \in Nat, NEW e, e = appendExtension(p, t)
    PROVE  \/ e = <<>> /\ t # 0
           \/ \E b \in Seq(Octets) : /\ e = Extended(t, b) /\ t < 256
                                     /\ t = 0 => b = serverNameExtension(p.ServerName)
  <1> DEFINE Has(b) == ExtensionBytes(p, b) /\ e = Extended(t, b) /\ t < 256
                       /\ (t = 0 => b = serverNameExtension(p.ServerName))
  <1>1. (e = <<>> /\ t # 0) \/ \E b : Has(b)
    <2>1. CASE t = 0
      <3>1. e = Extended(0, serverNameExtension(p.ServerName))
        BY <2>1, SMT DEF appendExtension, Extended, extServerName, extSupportedGroups,
           extECPointFormats, extSignatureAlgs, extALPN, extSupportedVersions, extPSKModes, extKeyShare
      <3>2. Has(serverNameExtension(p.ServerName))
        BY <2>1, <3>1 DEF ExtensionBytes
      <3> QED BY <3>2
    <2>2. CASE t = 10
      <3>1. e = Extended(t, appendUint16List(p.SupportedGroups))
        BY <2>2, SMT DEF appendExtension, Extended, extServerName, extSupportedGroups,
           extECPointFormats, extSignatureAlgs, extALPN, extSupportedVersions, extPSKModes, extKeyShare
      <3>2. Has(appendUint16List(p.SupportedGroups))
        BY <2>2, <3>1 DEF ExtensionBytes
      <3> QED BY <3>2
    <2>3. CASE t = 11
      <3>1. e = Extended(t, <<1, 0>>)
        BY <2>3, SMT DEF appendExtension, Extended, extServerName, extSupportedGroups,
           extECPointFormats, extSignatureAlgs, extALPN, extSupportedVersions, extPSKModes, extKeyShare
      <3>2. Has(<<1, 0>>)
        BY <2>3, <3>1 DEF ExtensionBytes
      <3> QED BY <3>2
    <2>4. CASE t = 13
      <3>1. e = Extended(t, appendUint16List(p.SignatureAlgorithms))
        BY <2>4, SMT DEF appendExtension, Extended, extServerName, extSupportedGroups,
           extECPointFormats, extSignatureAlgs, extALPN, extSupportedVersions, extPSKModes, extKeyShare
      <3>2. Has(appendUint16List(p.SignatureAlgorithms))
        BY <2>4, <3>1 DEF ExtensionBytes
      <3> QED BY <3>2
    <2>5. CASE t = 16
      <3>1. CASE p.ALPN = <<>>
        <4>1. e = <<>>
          BY <2>5, <3>1, SMT DEF appendExtension, extServerName, extSupportedGroups,
             extECPointFormats, extSignatureAlgs, extALPN, extSupportedVersions, extPSKModes, extKeyShare
        <4> QED BY <2>5, <4>1
      <3>2. CASE p.ALPN # <<>>
        <4>1. e = Extended(t, alpnExtension(p.ALPN))
          BY <2>5, <3>2, SMT DEF appendExtension, Extended, extServerName, extSupportedGroups,
             extECPointFormats, extSignatureAlgs, extALPN, extSupportedVersions, extPSKModes, extKeyShare
        <4>2. Has(alpnExtension(p.ALPN))
          BY <2>5, <4>1 DEF ExtensionBytes
        <4> QED BY <4>2
      <3> QED BY <3>1, <3>2
    <2>6. CASE t = 43
      <3>1. e = Extended(t, versionExtension(p.SupportedVersions))
        BY <2>6, SMT DEF appendExtension, Extended, extServerName, extSupportedGroups,
           extECPointFormats, extSignatureAlgs, extALPN, extSupportedVersions, extPSKModes, extKeyShare
      <3>2. Has(versionExtension(p.SupportedVersions))
        BY <2>6, <3>1 DEF ExtensionBytes
      <3> QED BY <3>2
    <2>7. CASE t = 45
      <3>1. e = Extended(t, <<1, 1>>)
        BY <2>7, SMT DEF appendExtension, Extended, extServerName, extSupportedGroups,
           extECPointFormats, extSignatureAlgs, extALPN, extSupportedVersions, extPSKModes, extKeyShare
      <3>2. Has(<<1, 1>>)
        BY <2>7, <3>1 DEF ExtensionBytes
      <3> QED BY <3>2
    <2>8. CASE t = 51
      <3>1. e = Extended(t, keyShareExtension(p.KeyShareGroup, Bytes(32)))
        BY <2>8, SMT DEF appendExtension, Extended, extServerName, extSupportedGroups,
           extECPointFormats, extSignatureAlgs, extALPN, extSupportedVersions, extPSKModes, extKeyShare
      <3>2. Has(keyShareExtension(p.KeyShareGroup, Bytes(32)))
        BY <2>8, <3>1 DEF ExtensionBytes
      <3> QED BY <3>2
    <2>9. CASE t \notin {0, 10, 11, 13, 16, 43, 45, 51}
      BY <2>9, SMT DEF appendExtension, extServerName, extSupportedGroups,
         extECPointFormats, extSignatureAlgs, extALPN, extSupportedVersions, extPSKModes, extKeyShare
    <2> QED BY <2>1, <2>2, <2>3, <2>4, <2>5, <2>6, <2>7, <2>8, <2>9
  <1>2. \A b : Has(b) => b \in Seq(Octets)
    BY BytesType, Zenon
  <1> QED BY <1>1, <1>2, Zenon
-----------------------------------------------------------------------------
(* The number at place o of d. *)
At16(d, o) == 256 * d[o + 1] + d[o + 2]

(* The extensions one by one, and all of them. *)
Each(p) == [k \in DOMAIN p.ExtensionOrder |-> appendExtension(p, p.ExtensionOrder[k])]
All(p) == FlattenSeq(Each(p))

(* The extensions of a profile, one for each type in its order. *)
LEMMA EachType ==
    ASSUME NEW p \in ClientHelloProfile
    PROVE  /\ Each(p) \in Seq(Seq(Octets)) /\ Len(Each(p)) = Len(p.ExtensionOrder)
           /\ Len(p.ExtensionOrder) \in Nat
           /\ DOMAIN p.ExtensionOrder = 1..Len(p.ExtensionOrder)
           /\ \A k \in 1..Len(p.ExtensionOrder) :
                /\ p.ExtensionOrder[k] \in Nat
                /\ Each(p)[k] = appendExtension(p, p.ExtensionOrder[k])
  <1>1. /\ Len(p.ExtensionOrder) \in Nat /\ DOMAIN p.ExtensionOrder = 1..Len(p.ExtensionOrder)
        /\ \A k \in 1..Len(p.ExtensionOrder) : p.ExtensionOrder[k] \in Nat
    <2>1. p.ExtensionOrder \in Seq(Nat)
      BY ProfileFields
    <2> QED BY <2>1
  <1>2. \A k \in DOMAIN p.ExtensionOrder : appendExtension(p, p.ExtensionOrder[k]) \in Seq(Octets)
    <2>1. TAKE k \in DOMAIN p.ExtensionOrder
    <2>2. PICK t : t = p.ExtensionOrder[k]
      OBVIOUS
    <2>3. PICK e : e = appendExtension(p, t)
      OBVIOUS
    <2>4. t \in Nat
      BY <1>1, <2>2
    <2>5. e = <<>> \/ \E b \in Seq(Octets) : e = Extended(t, b)
      <3>1. \/ e = <<>> /\ t # 0
            \/ \E b \in Seq(Octets) : /\ e = Extended(t, b) /\ t < 256
                                      /\ t = 0 => b = serverNameExtension(p.ServerName)
        BY <2>3, <2>4, ExtensionShape
      <3> QED BY <3>1, Zenon
    <2>6. <<>> \in Seq(Octets)
      OBVIOUS
    <2>7. ASSUME NEW b \in Seq(Octets) PROVE Extended(t, b) \in Seq(Octets)
      <3>1. appendUint16(t) \in Seq(Octets) /\ Prefixed16(b) \in Seq(Octets)
        BY <2>4, Word16, Prefixed, Zenon DEF Block
      <3> QED BY <3>1, Cat, Zenon DEF Extended
    <2> QED BY <2>2, <2>3, <2>5, <2>6, <2>7, Zenon
  <1> QED BY <1>1, <1>2 DEF Each

(* The parts of a ClientHello's body that depend on the profile. *)
LEMMA BodyBlock ==
    ASSUME NEW p \in ClientHelloProfile
    PROVE  /\ Block(appendUint16List(p.CipherSuites), 2 + 2 * Len(p.CipherSuites))
           /\ Block(All(p), Len(All(p))) /\ Len(All(p)) \in Nat /\ Len(p.CipherSuites) \in Nat
           /\ Block(Prefixed16(All(p)), 2 + Len(All(p)))
           /\ ClientHelloBody(p) =
                <<3, 3>> \o Bytes(32) \o Prefixed8(Bytes(32)) \o appendUint16List(p.CipherSuites)
                    \o <<1, 0>> \o Prefixed16(All(p))
  <1>1. p.CipherSuites \in Seq(Nat)
    BY ProfileFields
  <1>2. Block(appendUint16List(p.CipherSuites), 2 + 2 * Len(p.CipherSuites))
    BY <1>1, ListBlock
  <1>3. All(p) \in Seq(Octets)
    BY EachType, FlattenType, Zenon DEF All
  <1>4. Concat(LAMBDA t : appendExtension(p, t), p.ExtensionOrder) = All(p)
    BY Zenon DEF Concat, All, Each
  <1>5. ClientHelloBody(p) =
                <<3, 3>> \o Bytes(32) \o Prefixed8(Bytes(32)) \o appendUint16List(p.CipherSuites)
                    \o <<1, 0>> \o Prefixed16(All(p))
    BY <1>4, Zenon DEF ClientHelloBody
  <1>6. Len(p.CipherSuites) \in Nat
    BY <1>1
  <1>7. Block(Prefixed16(All(p)), 2 + Len(All(p))) /\ Len(All(p)) \in Nat
    BY <1>3, Prefixed
  <1>8. Block(All(p), Len(All(p)))
    BY <1>3 DEF Block
  <1> QED BY <1>2, <1>5, <1>6, <1>7, <1>8

(* What a ClientHello's body is put together from. *)
Pieces(a, y, z, c, m, e, q, x) ==
    /\ m \in Nat /\ x \in Nat /\ Block(a, 2) /\ Block(y, 32) /\ Block(z, 33)
    /\ Block(c, m) /\ Block(e, 2) /\ Block(q, x)

(* The body's length, and where its parts lie in d if it starts at 9. *)
Parted(d, b, z, c, m, e, q, x) ==
    /\ Block(b, 69 + m + x)
    /\ At(d, 9, b) => At(d, 43, z) /\ At(d, 76, c) /\ At(d, 76 + m, e) /\ At(d, 78 + m, q)

(* How long a body is, and where in the data its parts lie. *)
LEMMA BodyParts ==
    ASSUME NEW a, NEW y, NEW z, NEW c, NEW m, NEW e, NEW q, NEW x, Pieces(a, y, z, c, m, e, q, x), NEW d
    PROVE  Parted(d, a \o y \o z \o c \o e \o q, z, c, m, e, q, x)
  <1>0. /\ m \in Nat /\ x \in Nat /\ Block(a, 2) /\ Block(y, 32) /\ Block(z, 33)
        /\ Block(c, m) /\ Block(e, 2) /\ Block(q, x)
    BY Zenon DEF Pieces
  <1>1. PICK b1 : b1 = a \o y
    OBVIOUS
  <1>2. PICK b2 : b2 = b1 \o z
    OBVIOUS
  <1>3. PICK b3 : b3 = b2 \o c
    OBVIOUS
  <1>4. PICK b4 : b4 = b3 \o e
    OBVIOUS
  <1>5. PICK b5 : b5 = b4 \o q
    OBVIOUS
  <1>6. b5 = a \o y \o z \o c \o e \o q
    BY <1>1, <1>2, <1>3, <1>4, <1>5, Zenon
  <1>7. Block(b1, 34)
    BY <1>0, <1>1, CatBlock
  <1>8. Block(b2, 67)
    BY <1>0, <1>2, <1>7, CatBlock
  <1>9. Block(b3, 67 + m) /\ 67 + m \in Nat
    BY <1>0, <1>3, <1>8, CatBlock
  <1>10. Block(b4, 69 + m) /\ 69 + m \in Nat
    <2>1. (67 + m) + 2 = 69 + m
      BY <1>0
    <2> QED BY <1>0, <1>4, <1>9, <2>1, CatBlock
  <1>11. Block(b5, 69 + m + x)
    BY <1>0, <1>5, <1>10, CatBlock
  <1>12. At(d, 9, b5) => At(d, 9, b4) /\ At(d, 78 + m, q)
    <2>1. 9 + (69 + m) = 78 + m
      BY <1>0
    <2> QED BY <1>0, <1>5, <1>10, <2>1, AtBlocks
  <1>13. At(d, 9, b4) => At(d, 9, b3) /\ At(d, 76 + m, e)
    <2>1. 9 + (67 + m) = 76 + m
      BY <1>0
    <2> QED BY <1>0, <1>4, <1>9, <2>1, AtBlocks
  <1>14. At(d, 9, b3) => At(d, 9, b2) /\ At(d, 76, c)
    <2>1. 9 + 67 = 76
      OBVIOUS
    <2> QED BY <1>0, <1>3, <1>8, <2>1, AtBlocks
  <1>15. At(d, 9, b2) => At(d, 43, z)
    <2>1. 9 + 34 = 43
      OBVIOUS
    <2> QED BY <1>0, <1>2, <1>7, <2>1, AtBlocks
  <1>16. Parted(d, b5, z, c, m, e, q, x)
    BY <1>11, <1>12, <1>13, <1>14, <1>15, Zenon DEF Parted
  <1> QED BY <1>6, <1>16, Zenon

(* A ClientHello's length, and where its parts lie in d if it starts at 0. *)
Fronted(d, h, r, w, t, v, b, n) ==
    /\ Block(h, 9 + n)
    /\ At(d, 0, h) => At(d, 0, r) /\ At(d, 3, w) /\ At(d, 5, t) /\ At(d, 7, v) /\ At(d, 9, b)

(* How long a ClientHello is, and where in the data the headers and the body lie. *)
LEMMA FrontParts ==
    ASSUME NEW n \in Nat, NEW r, Block(r, 3), NEW w, Block(w, 2), NEW t, Block(t, 2), NEW v, Block(v, 2),
           NEW b, Block(b, n), NEW d
    PROVE  Fronted(d, r \o (w \o (t \o (v \o b))), r, w, t, v, b, n)
  <1>1. PICK h1 : h1 = v \o b
    OBVIOUS
  <1>2. PICK h2 : h2 = t \o h1
    OBVIOUS
  <1>3. PICK h3 : h3 = w \o h2
    OBVIOUS
  <1>4. PICK h4 : h4 = r \o h3
    OBVIOUS
  <1>5. h4 = r \o (w \o (t \o (v \o b)))
    BY <1>1, <1>2, <1>3, <1>4, Zenon
  <1>6. Block(h1, 2 + n) /\ 2 + n \in Nat
    BY <1>1, CatBlock
  <1>7. Block(h2, 4 + n) /\ 4 + n \in Nat
    <2>1. 2 + (2 + n) = 4 + n
      OBVIOUS
    <2> QED BY <1>2, <1>6, <2>1, CatBlock
  <1>8. Block(h3, 6 + n) /\ 6 + n \in Nat
    <2>1. 2 + (4 + n) = 6 + n
      OBVIOUS
    <2> QED BY <1>3, <1>7, <2>1, CatBlock
  <1>9. Block(h4, 9 + n)
    <2>1. 3 + (6 + n) = 9 + n
      OBVIOUS
    <2> QED BY <1>4, <1>8, <2>1, CatBlock
  <1>10. At(d, 0, h4) => At(d, 0, r) /\ At(d, 3, h3)
    BY <1>4, <1>8, AtBlocks
  <1>11. At(d, 3, h3) => At(d, 3, w) /\ At(d, 5, h2)
    BY <1>3, <1>7, AtBlocks
  <1>12. At(d, 5, h2) => At(d, 5, t) /\ At(d, 7, h1)
    BY <1>2, <1>6, AtBlocks
  <1>13. At(d, 7, h1) => At(d, 7, v) /\ At(d, 9, b)
    BY <1>1, AtBlocks
  <1>14. Fronted(d, h4, r, w, t, v, b, n)
    BY <1>9, <1>10, <1>11, <1>12, <1>13, Zenon DEF Fronted
  <1> QED BY <1>5, <1>14, Zenon

(* A number that was put is read. *)
LEMMA ReadsPut ==
    ASSUME NEW d, NEW o \in Nat, NEW v \in Uint16s, At(d, o, Put(v))
    PROVE  At16(d, o) = v
  <1>1. v \in Nat
    BY DEF Uint16s
  <1>2. Len(Put(v)) = 2 /\ 256 * Put(v)[1] + Put(v)[2] = v
    BY <1>1, PutFacts
  <1>3. d[o + 1] = Put(v)[1] /\ d[o + 2] = Put(v)[2]
    BY <1>2 DEF At
  <1> QED BY <1>2, <1>3 DEF At16

(* A uint16. *)
LEMMA Uint16Type == \A v : v \in Uint16s <=> v \in Nat /\ v < 65536
  BY DEF Uint16s

(* How many bytes a profile's cipher suites take, and the whole ClientHello. *)
SuiteBytes(p) == 2 * Len(p.CipherSuites)
HelloBytes(p) == Len(buildClientHello(p))

(* The lengths and types that ParseSNI reads of a ClientHello of l bytes, n of them *)
(* cipher suites and x extensions.                                                  *)
Laid(d, n, x, l) ==
    /\ d[1] = 22 /\ d[2] = 3 /\ d[6] = 1 /\ d[7] = 0
    /\ At16(d, 3) = l - 5 /\ At16(d, 7) = l - 9
    /\ d[44] = 32 /\ At16(d, 76) = n /\ d[79 + n] = 1 /\ At16(d, 80 + n) = x

(* What the profiles are assumed to be. *)
LEMMA HelloFields ==
    ASSUME NEW p \in Profiles
    PROVE  /\ p \in ClientHelloProfile /\ Len(buildClientHello(p)) < 5 + 65536
           /\ \E k \in DOMAIN p.ExtensionOrder : p.ExtensionOrder[k] = 0
  BY ProfilesAssumption DEF extServerName

(* Data that starts with a profile's ClientHello has its lengths and types where ParseSNI reads them. *)
LEMMA HelloLaid ==
    ASSUME NEW p \in Profiles
    PROVE  \E n, x, l \in Nat :
              /\ n = SuiteBytes(p) /\ x = Len(All(p)) /\ l = HelloBytes(p)
              /\ l = 82 + n + x /\ l < 65541
              /\ Block(buildClientHello(p), l)
              /\ \A d : At(d, 0, buildClientHello(p)) => Laid(d, n, x, l) /\ At(d, 82 + n, All(p))
  <1>1. p \in ClientHelloProfile
    BY HelloFields
  <1>21. PICK n : n = 2 * Len(p.CipherSuites)
    OBVIOUS
  <1>22. PICK x : x = Len(All(p))
    OBVIOUS
  <1>23. PICK l : l = Len(buildClientHello(p))
    OBVIOUS
  <1>2. PICK c : c = appendUint16List(p.CipherSuites)
    OBVIOUS
  <1>3. PICK q : q = Prefixed16(All(p))
    OBVIOUS
  <1>4. PICK b : b = ClientHelloBody(p)
    OBVIOUS
  <1>5. PICK z : z = Prefixed8(Bytes(32))
    OBVIOUS
  <1>6. PICK y : y = Bytes(32)
    OBVIOUS
  <1>7. /\ n \in Nat /\ x \in Nat /\ Block(c, 2 + n) /\ Block(q, 2 + x) /\ Block(All(p), x)
        /\ b = <<3, 3>> \o y \o z \o c \o <<1, 0>> \o q
    <2>1. /\ Block(appendUint16List(p.CipherSuites), 2 + 2 * Len(p.CipherSuites))
          /\ Block(All(p), Len(All(p))) /\ Len(All(p)) \in Nat /\ Len(p.CipherSuites) \in Nat
          /\ Block(Prefixed16(All(p)), 2 + Len(All(p)))
          /\ ClientHelloBody(p) =
               <<3, 3>> \o Bytes(32) \o Prefixed8(Bytes(32)) \o appendUint16List(p.CipherSuites)
                   \o <<1, 0>> \o Prefixed16(All(p))
      BY <1>1, BodyBlock
    <2>2. n \in Nat
      BY <1>21, <2>1
    <2> QED BY <1>21, <1>22, <1>2, <1>3, <1>4, <1>5, <1>6, <2>1, <2>2, Zenon
  <1>8. Block(y, 32) /\ Block(z, 33) /\ z = <<32>> \o y
    <2>1. Block(y, 32)
      BY <1>6, NoiseBytes
    <2>2. Len(y) = 32 /\ y \in Seq(Octets)
      BY <2>1 DEF Block
    <2>3. z = <<Len(y) % 256>> \o y
      BY <1>5, <1>6, Zenon DEF Prefixed8
    <2>4. Len(y) % 256 = 32
      BY <2>2
    <2>5. z = <<32>> \o y
      BY <2>3, <2>4, Zenon
    <2>6. Block(z, 1 + Len(y))
      BY <1>5, <1>6, <2>2, Prefixed, Zenon
    <2> QED BY <2>1, <2>2, <2>5, <2>6
  <1>9. Block(<<3, 3>>, 2) /\ Block(<<1, 0>>, 2) /\ Block(<<22, 3, 1>>, 3) /\ Block(<<32>>, 1)
    BY OctetType DEF Block
  <1>10. PICK m : m = 2 + n
    OBVIOUS
  <1>16. PICK k : k = 2 + x
    OBVIOUS
  <1>17. PICK a : a = <<3, 3>>
    OBVIOUS
  <1>18. PICK e : e = <<1, 0>>
    OBVIOUS
  <1>19. /\ m \in Nat /\ k \in Nat /\ Block(a, 2) /\ Block(e, 2) /\ Block(c, m) /\ Block(q, k)
         /\ b = a \o y \o z \o c \o e \o q
    <2>1. m \in Nat /\ k \in Nat
      BY <1>7, <1>10, <1>16
    <2> QED BY <1>7, <1>9, <1>10, <1>16, <1>17, <1>18, <2>1, Zenon
  <1>20. \A d : /\ Block(b, 69 + m + k)
                /\ At(d, 9, b) => /\ At(d, 43, z) /\ At(d, 76, c) /\ At(d, 76 + m, e) /\ At(d, 78 + m, q)
    <2> TAKE d
    <2>1. Pieces(a, y, z, c, m, e, q, k)
      BY <1>8, <1>19, Zenon DEF Pieces
    <2>2. Parted(d, a \o y \o z \o c \o e \o q, z, c, m, e, q, k)
      BY <2>1, BodyParts, Zenon
    <2>3. Parted(d, b, z, c, m, e, q, k)
      BY <1>19, <2>2, Zenon
    <2> QED BY <2>3, Zenon DEF Parted
  <1>11. Block(b, 73 + n + x) /\ Len(b) = 73 + n + x
    <2>1. 69 + m + k = 73 + n + x
      <3>1. \A i, j \in Nat : 69 + (2 + i) + (2 + j) = 73 + i + j
        OBVIOUS
      <3> QED BY <1>7, <1>10, <1>16, <3>1, Zenon
    <2>2. Block(b, 69 + m + k)
      BY <1>20, Zenon
    <2>3. Block(b, 73 + n + x)
      BY <2>1, <2>2, Zenon
    <2> QED BY <2>3, Zenon DEF Block
  <1>12. ASSUME NEW d, At(d, 9, b)
         PROVE  At(d, 43, z) /\ At(d, 76, c) /\ At(d, 78 + n, <<1, 0>>) /\ At(d, 80 + n, q)
    <2>1. At(d, 43, z) /\ At(d, 76, c) /\ At(d, 76 + m, e) /\ At(d, 78 + m, q)
      BY <1>12, <1>20, Zenon
    <2>2. 76 + m = 78 + n /\ 78 + m = 80 + n
      BY <1>7, <1>10
    <2> QED BY <1>18, <2>1, <2>2, Zenon
  <1>13. PICK u : u = (Len(b) \div 65536) % 256
    OBVIOUS
  <1>14. PICK s : s = <<1, u>> \o Prefixed16(b)
    OBVIOUS
  <1>15. buildClientHello(p) = <<22, 3, 1>> \o (Put(Len(s)) \o (<<1, u>> \o (Put(Len(b)) \o b)))
    <2>1. buildClientHello(p) = <<22, 3, 1>> \o Prefixed16(s)
      BY <1>4, <1>13, <1>14, SMT DEF buildClientHello
    <2>2. Len(b) \in Nat
      BY <1>11 DEF Block
    <2>3. Len(s) \in Nat
      <3>1. u \in Octets
        <4>1. u \in Nat /\ u < 256
          BY <1>13, <2>2, SMT
        <4> QED BY <4>1, OctetType
      <3>2. <<1, u>> \in Seq(Octets)
        BY <3>1, OctetType
      <3>3. Prefixed16(b) \in Seq(Octets)
        BY <1>11, Prefixed, Zenon DEF Block
      <3>4. s \in Seq(Octets)
        BY <1>14, <3>2, <3>3, Cat, Zenon
      <3> QED BY <3>4
    <2>4. appendUint16(Len(s)) = Put(Len(s)) /\ appendUint16(Len(b)) = Put(Len(b))
      BY <2>2, <2>3, Word16
    <2>5. Prefixed16(s) = Put(Len(s)) \o s /\ Prefixed16(b) = Put(Len(b)) \o b
      BY <2>4, Zenon DEF Prefixed16
    <2> QED BY <1>14, <2>1, <2>5, Zenon
  <1>24. PICK h : h = buildClientHello(p)
    OBVIOUS
  <1>25. PICK r : r = <<22, 3, 1>>
    OBVIOUS
  <1>26. PICK t : t = <<1, u>>
    OBVIOUS
  <1>27. PICK w : w = Put(Len(s))
    OBVIOUS
  <1>28. PICK v : v = Put(Len(b))
    OBVIOUS
  <1>29. PICK j : j = Len(b)
    OBVIOUS
  <1>30. j \in Nat /\ j = 73 + n + x /\ u \in Octets
    <2>1. j \in Nat /\ j = 73 + n + x
      BY <1>7, <1>11, <1>29
    <2>2. u \in Nat /\ u < 256
      BY <1>13, <1>29, <2>1, SMT
    <2> QED BY <2>1, <2>2, OctetType
  <1>31. Block(t, 2) /\ Block(v, 2) /\ Block(b, j) /\ Block(s, 4 + j)
    <2>1. Block(t, 2)
      BY <1>26, <1>30, OctetType, Two
    <2>2. Block(v, 2)
      BY <1>28, <1>29, <1>30, PutBlocks
    <2>3. Block(b, j)
      BY <1>11, <1>29, <1>30, Zenon
    <2>4. Prefixed16(b) = v \o b
      <3>1. appendUint16(j) = Put(j)
        BY <1>30, Word16
      <3> QED BY <1>28, <1>29, <3>1, Zenon DEF Prefixed16
    <2>5. Block(v \o b, 2 + j) /\ 2 + j \in Nat
      BY <1>30, <2>2, <2>3, CatBlock
    <2>6. 2 + (2 + j) = 4 + j
      BY <1>30
    <2>7. Block(t \o (v \o b), 4 + j)
      BY <2>1, <2>5, <2>6, CatBlock
    <2> QED BY <1>14, <1>26, <2>1, <2>2, <2>3, <2>4, <2>7, Zenon
  <1>32. Len(s) = 4 + j /\ 4 + j \in Nat /\ Block(w, 2) /\ Block(r, 3)
    <2>1. Len(s) = 4 + j /\ 4 + j \in Nat
      BY <1>30, <1>31 DEF Block
    <2>2. Block(w, 2)
      BY <1>27, <2>1, PutBlocks
    <2> QED BY <1>9, <1>25, <2>1, <2>2, Zenon
  <1>33. \A d : Fronted(d, h, r, w, t, v, b, j)
    <2> TAKE d
    <2>1. Fronted(d, r \o (w \o (t \o (v \o b))), r, w, t, v, b, j)
      BY <1>30, <1>31, <1>32, FrontParts, Zenon
    <2> QED BY <1>15, <1>24, <1>25, <1>26, <1>27, <1>28, <2>1, Zenon
  <1>34. Block(h, 9 + j) /\ l = 82 + n + x /\ l \in Nat /\ 9 + j = l
    <2>1. Block(h, 9 + j)
      BY <1>33, Zenon DEF Fronted
    <2>2. l = 9 + j
      BY <1>23, <1>24, <2>1, Zenon DEF Block
    <2> QED BY <1>7, <1>30, <2>1, <2>2
  <1>35. l < 65541
    <2>1. l < 5 + 65536
      BY <1>23, HelloFields, SMT
    <2> QED BY <1>34, <2>1
  <1>36. u = 0
    BY <1>13, <1>29, <1>30, <1>34, <1>35, SMT
  <1>37. ASSUME NEW d, At(d, 0, h) PROVE Laid(d, n, x, l) /\ At(d, 82 + n, All(p))
    <2>1. At(d, 0, r) /\ At(d, 3, w) /\ At(d, 5, t) /\ At(d, 7, v) /\ At(d, 9, b)
      BY <1>33, <1>37, Zenon DEF Fronted
    <2>2. At(d, 43, z) /\ At(d, 76, c) /\ At(d, 78 + n, <<1, 0>>) /\ At(d, 80 + n, q)
      BY <1>12, <2>1, Zenon
    <2>3. d[1] = 22 /\ d[2] = 3
      BY <1>25, <2>1, SMT DEF At
    <2>4. d[6] = 1 /\ d[7] = 0
      BY <1>26, <1>36, <2>1, SMT DEF At
    <2>5. At16(d, 3) = l - 5
      <3>1. 4 + j \in Uint16s /\ 4 + j = l - 5
        <4>1. 4 + j \in Nat /\ 4 + j < 65536 /\ 4 + j = l - 5
          BY <1>30, <1>34, <1>35
        <4> QED BY <4>1, Uint16Type
      <3> QED BY <1>27, <1>32, <2>1, <3>1, ReadsPut
    <2>6. At16(d, 7) = l - 9
      <3>1. j \in Uint16s /\ j = l - 9
        <4>1. j \in Nat /\ j < 65536 /\ j = l - 9
          BY <1>30, <1>34, <1>35
        <4> QED BY <4>1, Uint16Type
      <3> QED BY <1>28, <1>29, <2>1, <3>1, ReadsPut
    <2>7. d[44] = 32
      <3>1. At(d, 43, <<32>>)
        BY <1>8, <1>9, <2>2, AtBlocks
      <3> QED BY <3>1, SMT DEF At
    <2>8. At16(d, 76) = n
      <3>1. PICK g : g = Put(n)
        OBVIOUS
      <3>2. PICK f : f = Concat(appendUint16, p.CipherSuites)
        OBVIOUS
      <3>3. p.CipherSuites \in Seq(Nat)
        BY <1>1, ProfileFields
      <3>4. Block(g, 2) /\ Block(f, n) /\ c = g \o f
        <4>1. appendUint16(n) = Put(n) /\ Block(g, 2)
          BY <1>7, <3>1, Word16, PutBlocks
        <4>2. Block(f, n)
          BY <1>21, <3>2, <3>3, ConcatWords
        <4>3. c = appendUint16(n) \o f
          BY <1>2, <1>21, <3>2, Zenon DEF appendUint16List
        <4> QED BY <3>1, <4>1, <4>2, <4>3
      <3>5. At(d, 76, g)
        <4>1. 76 + 2 = 78
          OBVIOUS
        <4> QED BY <1>7, <2>2, <3>4, <4>1, AtBlocks
      <3>6. n \in Uint16s
        <4>1. n \in Nat /\ n < 65536
          BY <1>7, <1>34, <1>35
        <4> QED BY <4>1, Uint16Type
      <3> QED BY <1>7, <3>1, <3>5, <3>6, ReadsPut
    <2>9. d[79 + n] = 1
      <3>1. d[(78 + n) + 1] = 1
        BY <2>2, SMT DEF At
      <3>2. (78 + n) + 1 = 79 + n
        BY <1>7
      <3> QED BY <3>1, <3>2, Zenon
    <2>10. At16(d, 80 + n) = x /\ At(d, 82 + n, All(p))
      <3>1. PICK g : g = Put(x)
        OBVIOUS
      <3>2. PICK f : f = All(p)
        OBVIOUS
      <3>3. q = g \o f /\ Block(g, 2) /\ Block(f, x)
        <4>1. appendUint16(x) = Put(x) /\ Block(g, 2)
          BY <1>7, <3>1, Word16, PutBlocks
        <4>2. q = appendUint16(x) \o f
          BY <1>3, <1>22, <3>2, Zenon DEF Prefixed16
        <4> QED BY <1>7, <3>1, <3>2, <4>1, <4>2, Zenon
      <3>4. 80 + n \in Nat /\ (80 + n) + 2 = 82 + n /\ x \in Uint16s
        <4>1. 80 + n \in Nat /\ (80 + n) + 2 = 82 + n /\ x \in Nat /\ x < 65536
          BY <1>7, <1>34, <1>35
        <4> QED BY <4>1, Uint16Type
      <3>5. At(d, 80 + n, g) /\ At(d, 82 + n, f)
        BY <1>7, <2>2, <3>3, <3>4, AtBlocks
      <3> QED BY <1>7, <3>1, <3>2, <3>4, <3>5, ReadsPut
    <2>11. Laid(d, n, x, l)
      BY <2>3, <2>4, <2>5, <2>6, <2>7, <2>8, <2>9, <2>10, Zenon DEF Laid
    <2> QED BY <2>10, <2>11
  <1>38. n \in Nat /\ x \in Nat /\ l \in Nat /\ l = 82 + n + x /\ l < 65541 /\ Block(h, l)
    BY <1>7, <1>34, <1>35
  <1>39. n = SuiteBytes(p) /\ x = Len(All(p)) /\ l = HelloBytes(p)
    BY <1>21, <1>22, <1>23, Zenon DEF SuiteBytes, HelloBytes
  <1> QED BY <1>24, <1>37, <1>38, <1>39

(* From one place to another that is not empty there is a first one that is not. *)
LEMMA NextExtension ==
    ASSUME NEW ss \in Seq(Seq(Octets)), NEW j \in 1..Len(ss), NEW k \in 1..j, ss[j] # <<>>
    PROVE  \E m \in k..j : ss[m] # <<>> /\ Joined(ss, m - 1) = Joined(ss, k - 1)
  <1> DEFINE B == {m \in k..j : ss[m] # <<>>}
  <1>0. Len(ss) \in Nat /\ j \in Nat /\ k \in Nat /\ j <= Len(ss) /\ 1 <= k /\ k <= j
    OBVIOUS
  <1>1. B \in SUBSET Nat /\ j \in B
    BY <1>0
  <1>2. PICK m \in B : \A i \in B : m <= i
    <2> HIDE DEF B
    <2> QED BY <1>1, MinNat
  <1>3. m \in k..j /\ m \in Nat /\ ss[m] # <<>> /\ \A i \in k..m-1 : ss[i] = <<>>
    BY <1>0, <1>2
  <1> DEFINE G == {i \in 0..m - k : Joined(ss, k + i - 1) = Joined(ss, k - 1)}
  <1>4. m - k \in Nat /\ G \in SUBSET (0..m - k)
    BY <1>0, <1>3
  <1>5. 0 \in G
    <2>1. k + 0 - 1 = k - 1
      BY <1>0
    <2>2. 0 \in 0..m - k
      BY <1>4
    <2> QED BY <2>1, <2>2
  <1>6. ASSUME NEW i \in 1..m - k, i - 1 \in G PROVE i \in G
    <2>1. /\ k + (i - 1) - 1 = k + i - 2 /\ k + i - 1 \in 1..Len(ss) /\ k + i - 1 \in k..m-1
          /\ (k + i - 1) - 1 = k + i - 2 /\ k + i - 2 \in 0..Len(ss) /\ i \in 0..m - k
      BY <1>0, <1>3, <1>4
    <2>2. Joined(ss, k + (i - 1) - 1) = Joined(ss, k - 1)
      BY <1>6
    <2>3. PICK e : e = k + i - 1
      OBVIOUS
    <2>4. Joined(ss, e) = Joined(ss, e - 1) \o ss[e]
      BY <2>1, <2>3, JoinedDef
    <2>5. ss[e] = <<>>
      BY <1>3, <2>1, <2>3
    <2>6. Joined(ss, e - 1) \in Seq(Octets) /\ Joined(ss, e - 1) = Joined(ss, k - 1)
      BY <2>1, <2>2, <2>3, JoinedType
    <2>7. Joined(ss, e - 1) \o <<>> = Joined(ss, e - 1)
      BY <2>6, ConcatEmptySeq
    <2>8. Joined(ss, k + i - 1) = Joined(ss, k - 1)
      BY <2>3, <2>4, <2>5, <2>6, <2>7, Zenon
    <2> QED BY <2>1, <2>8
  <1>7. m - k \in G
    <2>1. m - k \in 0..m - k
      BY <1>4
    <2> HIDE DEF G
    <2> QED BY <1>4, <1>5, <1>6, <2>1, Steps
  <1>8. k + (m - k) - 1 = m - 1
    BY <1>0, <1>3
  <1>9. Joined(ss, m - 1) = Joined(ss, k - 1)
    BY <1>7, <1>8
  <1> QED BY <1>3, <1>9

(* An extension's type, the length of its contents, and its contents, in d at o. *)
ExtendedAt(d, o, t, b, n) == At16(d, o) = t /\ At16(d, o + 2) = n /\ At(d, o + 4, b)

(* An extension that is put is read. *)
LEMMA ExtendedParts ==
    ASSUME NEW t \in Nat, t < 256, NEW b, NEW n \in Uint16s, Block(b, n)
    PROVE  /\ Block(Extended(t, b), 4 + n)
           /\ \A d : \A o \in Nat : At(d, o, Extended(t, b)) => ExtendedAt(d, o, t, b, n)
  <1>0. n \in Nat /\ t \in Uint16s
    BY Uint16Type
  <1>1. PICK v : v = Put(t)
    OBVIOUS
  <1>2. PICK w : w = Put(n)
    OBVIOUS
  <1>3. Block(v, 2) /\ Block(w, 2)
    BY <1>0, <1>1, <1>2, PutBlocks
  <1>4. Extended(t, b) = v \o (w \o b)
    <2>1. appendUint16(t) = Put(t) /\ appendUint16(n) = Put(n)
      BY <1>0, Word16
    <2>2. Len(b) = n
      BY DEF Block
    <2> QED BY <1>1, <1>2, <2>1, <2>2, Zenon DEF Extended, Prefixed16
  <1>5. PICK c : c = w \o b
    OBVIOUS
  <1>6. PICK e : e = Extended(t, b)
    OBVIOUS
  <1>7. Block(c, 2 + n) /\ 2 + n \in Nat
    BY <1>0, <1>3, <1>5, CatBlock
  <1>8. Block(e, 4 + n) /\ e = v \o c
    <2>1. e = v \o c
      BY <1>4, <1>5, <1>6, Zenon
    <2>2. 2 + (2 + n) = 4 + n
      BY <1>0
    <2> QED BY <1>3, <1>7, <2>1, <2>2, CatBlock
  <1>9. ASSUME NEW d, NEW o \in Nat, At(d, o, e) PROVE ExtendedAt(d, o, t, b, n)
    <2>1. o + 2 \in Nat /\ (o + 2) + 2 = o + 4
      OBVIOUS
    <2>2. At(d, o, v) /\ At(d, o + 2, c)
      BY <1>0, <1>3, <1>7, <1>8, <1>9, <2>1, AtBlocks
    <2>3. At(d, o + 2, w) /\ At(d, o + 4, b)
      BY <1>0, <1>3, <1>5, <2>1, <2>2, AtBlocks
    <2>4. At16(d, o) = t
      BY <1>0, <1>1, <2>2, ReadsPut
    <2>5. At16(d, o + 2) = n
      BY <1>2, <2>1, <2>3, ReadsPut
    <2> QED BY <2>3, <2>4, <2>5, Zenon DEF ExtendedAt
  <1> QED BY <1>6, <1>8, <1>9

(* An entry of the list of server names, and the list. *)
Entry(name) == <<0>> \o Prefixed16(name)

(* The list of names, with one entry, is read. *)
LEMMA NameParts ==
    ASSUME NEW s, NEW n \in Nat, Block(s, n), n + 3 \in Uint16s
    PROVE  /\ Block(serverNameExtension(s), 5 + n)
           /\ \A d : \A o \in Nat :
                /\ At(d, o, serverNameExtension(s)) => At16(d, o) = n + 3 /\ At(d, o + 2, Entry(s))
                /\ At(d, o, Entry(s)) => d[o + 1] = 0 /\ At16(d, o + 1) = n /\ At(d, o + 3, s)
  <1>1. PICK w : w = Put(n)
    OBVIOUS
  <1>2. PICK c : c = w \o s
    OBVIOUS
  <1>3. PICK z : z = <<0>>
    OBVIOUS
  <1>4. PICK e : e = Entry(s)
    OBVIOUS
  <1>5. PICK v : v = Put(n + 3)
    OBVIOUS
  <1>6. PICK g : g = serverNameExtension(s)
    OBVIOUS
  <1>7. n + 3 \in Nat /\ 2 + n \in Nat /\ n \in Uint16s
    BY Uint16Type
  <1>8. Block(w, 2) /\ Block(v, 2) /\ Block(z, 1) /\ Block(c, 2 + n)
    <2>1. Block(w, 2) /\ Block(v, 2)
      BY <1>1, <1>5, <1>7, PutBlocks
    <2>2. Block(z, 1)
      BY <1>3, OctetType DEF Block
    <2> QED BY <1>2, <2>1, <2>2, CatBlock
  <1>9. e = z \o c /\ Block(e, n + 3)
    <2>1. Len(s) = n
      BY DEF Block
    <2>2. appendUint16(n) = Put(n)
      BY Word16
    <2>3. e = z \o c
      BY <1>1, <1>2, <1>3, <1>4, <2>1, <2>2, Zenon DEF Entry, Prefixed16
    <2>4. 1 + (2 + n) = n + 3
      OBVIOUS
    <2> QED BY <1>7, <1>8, <2>3, <2>4, CatBlock
  <1>10. g = v \o e /\ Block(g, 5 + n)
    <2>1. Len(e) = n + 3
      BY <1>9 DEF Block
    <2>2. appendUint16(n + 3) = Put(n + 3)
      BY <1>7, Word16
    <2>3. g = Prefixed16(e)
      BY <1>4, <1>6, Zenon DEF Entry, serverNameExtension
    <2>4. g = v \o e
      BY <1>5, <2>1, <2>2, <2>3, Zenon DEF Prefixed16
    <2>5. 2 + (n + 3) = 5 + n
      OBVIOUS
    <2> QED BY <1>7, <1>8, <1>9, <2>4, <2>5, CatBlock
  <1>11. ASSUME NEW d, NEW o \in Nat, At(d, o, g) PROVE At16(d, o) = n + 3 /\ At(d, o + 2, e)
    <2>1. At(d, o, v) /\ At(d, o + 2, e)
      BY <1>7, <1>8, <1>9, <1>10, <1>11, AtBlocks
    <2> QED BY <1>5, <1>7, <2>1, ReadsPut
  <1>12. ASSUME NEW d, NEW o \in Nat, At(d, o, e)
         PROVE  d[o + 1] = 0 /\ At16(d, o + 1) = n /\ At(d, o + 3, s)
    <2>1. o + 1 \in Nat /\ (o + 1) + 2 = o + 3
      OBVIOUS
    <2>2. At(d, o, z) /\ At(d, o + 1, c)
      BY <1>7, <1>8, <1>9, <1>12, AtBlocks
    <2>3. At(d, o + 1, w) /\ At(d, o + 3, s)
      BY <1>2, <1>8, <2>1, <2>2, AtBlocks
    <2>4. d[o + 1] = 0
      BY <1>3, <2>2, SMT DEF At
    <2>5. At16(d, o + 1) = n
      BY <1>1, <1>7, <2>1, <2>3, ReadsPut
    <2> QED BY <2>3, <2>4, <2>5
  <1> QED BY <1>4, <1>6, <1>10, <1>11, <1>12

(* How long a profile's ClientHello is. *)
LEMMA HelloSize ==
    ASSUME NEW p \in Profiles
    PROVE  /\ SuiteBytes(p) \in Nat /\ Len(All(p)) \in Nat /\ HelloBytes(p) \in Nat
           /\ HelloBytes(p) = 82 + SuiteBytes(p) + Len(All(p)) /\ HelloBytes(p) < 65541
           /\ Block(buildClientHello(p), HelloBytes(p))
  BY HelloLaid

(* What data that starts with it holds. *)
LEMMA HelloRead ==
    ASSUME NEW p \in Profiles, NEW d, At(d, 0, buildClientHello(p))
    PROVE  /\ Laid(d, SuiteBytes(p), Len(All(p)), HelloBytes(p))
           /\ At(d, 82 + SuiteBytes(p), All(p))
  BY HelloLaid

(* Where the k-th extension starts among the extensions. *)
Offset(p, k) == Len(Joined(Each(p), k - 1))

(* The extensions lie one behind the other. *)
LEMMA Offsets ==
    ASSUME NEW p \in Profiles
    PROVE  /\ Offset(p, 1) = 0
           /\ \A k \in 1..Len(Each(p)) : /\ Offset(p, k) \in Nat
                                         /\ Offset(p, k + 1) = Offset(p, k) + Len(Each(p)[k])
                                         /\ Offset(p, k + 1) <= Len(All(p))
  <1>1. PICK ss : ss = Each(p)
    OBVIOUS
  <1>2. ss \in Seq(Seq(Octets)) /\ Len(ss) \in Nat
    BY <1>1, HelloFields, EachType
  <1>3. /\ FlattenSeq(ss) = Joined(ss, Len(ss)) /\ Joined(ss, 0) = <<>>
        /\ \A k \in 1..Len(ss) : Joined(ss, k) = Joined(ss, k - 1) \o ss[k]
    BY <1>2, JoinedDef
  <1>4. ASSUME NEW k \in 1..Len(ss)
        PROVE  /\ Len(Joined(ss, k - 1)) \in Nat
               /\ Len(Joined(ss, k)) = Len(Joined(ss, k - 1)) + Len(ss[k])
               /\ Len(Joined(ss, k)) <= Len(All(p))
    <2>1. k - 1 \in 0..Len(ss) /\ ss[k] \in Seq(Octets) /\ Len(ss) \in k..Len(ss)
      BY <1>2
    <2>2. Joined(ss, k - 1) \in Seq(Octets)
      BY <1>2, <2>1, JoinedType
    <2>3. Len(Joined(ss, k)) = Len(Joined(ss, k - 1)) + Len(ss[k])
      BY <1>3, <2>1, <2>2, Cat
    <2>4. All(p) = Joined(ss, Len(ss))
      BY <1>1, <1>3, Zenon DEF All
    <2>5. Len(Joined(ss, k)) <= Len(Joined(ss, Len(ss)))
      BY <1>2, <2>1, JoinedAt
    <2>6. Len(Joined(ss, k - 1)) \in Nat
      BY <2>2
    <2> QED BY <2>3, <2>4, <2>5, <2>6, Zenon
  <1>5. ASSUME NEW k \in 1..Len(ss)
        PROVE  Offset(p, k) = Len(Joined(ss, k - 1)) /\ Offset(p, k + 1) = Len(Joined(ss, k))
    <2>1. PICK m : m = k + 1
      OBVIOUS
    <2>2. m - 1 = k
      BY <1>2, <2>1
    <2>3. Offset(p, m) = Len(Joined(ss, m - 1)) /\ Offset(p, k) = Len(Joined(ss, k - 1))
      BY <1>1, Zenon DEF Offset
    <2> QED BY <2>1, <2>2, <2>3, Zenon
  <1>6. Offset(p, 1) = 0
    <2>1. 1 - 1 = 0 /\ Len(<<>>) = 0
      OBVIOUS
    <2> QED BY <1>1, <1>3, <2>1, Zenon DEF Offset
  <1> QED BY <1>1, <1>4, <1>5, <1>6, Zenon

(* The k-th extension, of type t, has the n bytes b. *)
Holds(p, k, t, b, n) ==
    /\ t \in Nat /\ t < 256 /\ n \in Uint16s /\ Block(b, n) /\ t = p.ExtensionOrder[k]
    /\ t = 0 => b = serverNameExtension(p.ServerName)
    /\ Offset(p, k + 1) = Offset(p, k) + (4 + n)
    /\ \A d : At(d, 82 + SuiteBytes(p), All(p)) =>
                 ExtendedAt(d, (82 + SuiteBytes(p)) + Offset(p, k), t, b, n)

(* An extension that is not empty has a type and contents that can be read where it lies. *)
LEMMA ExtensionHolds ==
    ASSUME NEW p \in Profiles, NEW k \in 1..Len(Each(p)), Each(p)[k] # <<>>
    PROVE  \E t, b, n : Holds(p, k, t, b, n)
  <1>1. PICK ss : ss = Each(p)
    OBVIOUS
  <1>2. /\ p \in ClientHelloProfile /\ ss \in Seq(Seq(Octets)) /\ Len(ss) \in Nat
        /\ Len(ss) = Len(p.ExtensionOrder) /\ k \in 1..Len(ss)
        /\ p.ExtensionOrder[k] \in Nat /\ ss[k] = appendExtension(p, p.ExtensionOrder[k])
    BY <1>1, HelloFields, EachType
  <1>3. PICK t : t = p.ExtensionOrder[k]
    OBVIOUS
  <1>4. PICK e : e = ss[k]
    OBVIOUS
  <1>5. t \in Nat /\ e = appendExtension(p, t) /\ e # <<>>
    BY <1>1, <1>2, <1>3, <1>4
  <1>6. PICK b \in Seq(Octets) : /\ e = Extended(t, b) /\ t < 256
                                 /\ t = 0 => b = serverNameExtension(p.ServerName)
    BY <1>2, <1>5, ExtensionShape
  <1>7. PICK n : n = Len(b)
    OBVIOUS
  <1>8. n \in Nat /\ Block(b, n)
    BY <1>7 DEF Block
  <1>9. Len(e) = 4 + n
    <2>1. Block(Prefixed16(b), 2 + n)
      BY <1>7, Prefixed
    <2>2. Block(appendUint16(t), 2)
      BY <1>5, Word16
    <2>3. 2 + n \in Nat /\ 2 + (2 + n) = 4 + n
      BY <1>8
    <2>4. Block(e, 4 + n)
      BY <1>6, <2>1, <2>2, <2>3, CatBlock DEF Extended
    <2> QED BY <2>4, Zenon DEF Block
  <1>10. /\ Offset(p, k) \in Nat /\ Offset(p, k + 1) = Offset(p, k) + (4 + n)
         /\ Offset(p, k + 1) <= Len(All(p))
    BY <1>1, <1>4, <1>9, Offsets
  <1>11. n \in Uint16s
    <2>1. n < 65536
      BY <1>8, <1>10, HelloSize
    <2> QED BY <1>8, <2>1, Uint16Type
  <1>12. ASSUME NEW d, At(d, 82 + SuiteBytes(p), All(p))
         PROVE  ExtendedAt(d, (82 + SuiteBytes(p)) + Offset(p, k), t, b, n)
    <2>1. PICK o : o = 82 + SuiteBytes(p)
      OBVIOUS
    <2>2. PICK a : a = Offset(p, k)
      OBVIOUS
    <2>3. o \in Nat /\ a \in Nat /\ o + a \in Nat
      BY <1>10, <2>1, <2>2, HelloSize
    <2>4. PICK j : j = All(p)
      OBVIOUS
    <2>5. PICK x : x = Len(All(p))
      OBVIOUS
    <2>6. PartOf(j, x, a, e, 4 + n)
      <3>1. j = Joined(ss, Len(ss)) /\ Len(ss) \in k..Len(ss)
        <4>1. FlattenSeq(ss) = Joined(ss, Len(ss))
          BY <1>2, JoinedDef
        <4>2. Len(ss) \in k..Len(ss)
          BY <1>2
        <4> QED BY <1>1, <2>4, <4>1, <4>2, Zenon DEF All
      <3>2. At(j, Len(Joined(ss, k - 1)), ss[k])
        BY <1>2, <3>1, JoinedAt
      <3>3. At(j, a, e)
        BY <1>1, <1>4, <2>2, <3>2, Zenon DEF Offset
      <3>4. j \in Seq(Octets) /\ e \in Seq(Octets)
        <4>1. j \in Seq(Octets)
          <5>1. Len(ss) \in 0..Len(ss)
            BY <1>2
          <5> QED BY <1>2, <3>1, <5>1, JoinedType
        <4>2. e \in Seq(Octets)
          BY <1>2, <1>4
        <4> QED BY <4>1, <4>2
      <3>5. Block(j, x) /\ Block(e, 4 + n)
        BY <1>9, <2>4, <2>5, <3>4, Zenon DEF Block
      <3>6. a + (4 + n) <= x
        BY <1>10, <2>2, <2>5
      <3> QED BY <3>3, <3>5, <3>6, Zenon DEF PartOf
    <2>7. At(d, o, j)
      BY <1>12, <2>1, <2>4, Zenon
    <2>8. x \in Nat /\ 4 + n \in Nat
      BY <1>8, <2>5, HelloSize
    <2>9. At(d, o + a, e)
      BY <2>3, <2>6, <2>7, <2>8, AtBack, Zenon
    <2>10. ExtendedAt(d, o + a, t, b, n)
      <3>1. At(d, o + a, Extended(t, b))
        BY <1>6, <2>9, Zenon
      <3> QED BY <1>5, <1>6, <1>8, <1>11, <2>3, <3>1, ExtendedParts
    <2> QED BY <2>1, <2>2, <2>10, Zenon
  <1>13. Holds(p, k, t, b, n)
    BY <1>3, <1>5, <1>6, <1>8, <1>10, <1>11, <1>12, Zenon DEF Holds
  <1> QED BY <1>13

(* An extension names the server. *)
LEMMA NamedExtension ==
    ASSUME NEW p \in Profiles
    PROVE  \E k \in 1..Len(Each(p)) : p.ExtensionOrder[k] = 0 /\ Each(p)[k] # <<>>
  <1>1. PICK k \in 1..Len(Each(p)) : p.ExtensionOrder[k] = 0
    BY HelloFields, EachType
  <1>2. Each(p)[k] # <<>>
    <2>1. PICK e : e = appendExtension(p, 0)
      OBVIOUS
    <2>2. PICK b \in Seq(Octets) : e = Extended(0, b)
      BY <2>1, HelloFields, ExtensionShape
    <2>3. Block(e, 4 + Len(b)) /\ Len(b) \in Nat
      <3>1. Block(Prefixed16(b), 2 + Len(b)) /\ Len(b) \in Nat
        BY Prefixed
      <3>2. Block(appendUint16(0), 2)
        BY Word16
      <3>3. PICK n : n = Len(b)
        OBVIOUS
      <3>4. n \in Nat /\ 2 + n \in Nat /\ 2 + (2 + n) = 4 + n /\ Block(Prefixed16(b), 2 + n)
        BY <3>1, <3>3
      <3>5. Block(e, 4 + n)
        BY <2>2, <3>2, <3>4, CatBlock DEF Extended
      <3> QED BY <3>1, <3>3, <3>5
    <2>4. e # <<>>
      BY <2>3 DEF Block
    <2> QED BY <1>1, <2>1, <2>4, HelloFields, EachType
  <1> QED BY <1>2, <1>1

(* The name and its headers are short enough for their lengths to be written. *)
LEMMA NameFits ==
    ASSUME NEW p \in Profiles
    PROVE  /\ Len(p.ServerName) \in Nat /\ Len(p.ServerName) + 3 \in Uint16s
           /\ Block(p.ServerName, Len(p.ServerName))
  <1>1. p.ServerName \in Seq(Octets)
    BY HelloFields, ProfileFields
  <1>2. Len(p.ServerName) \in Nat
    BY <1>1
  <1>3. PICK k \in 1..Len(Each(p)) : p.ExtensionOrder[k] = 0 /\ Each(p)[k] # <<>>
    BY NamedExtension
  <1>5. PICK t, b, n : Holds(p, k, t, b, n)
    BY <1>3, ExtensionHolds
  <1>6. t = 0 /\ b = serverNameExtension(p.ServerName) /\ Len(b) = n
    BY <1>3, <1>5 DEF Holds, Block
  <1>9. n \in Nat /\ n < 65536
    BY <1>5, Uint16Type DEF Holds
  <1>7. Len(b) = 5 + Len(p.ServerName)
    <2>1. PICK s : s = p.ServerName
      OBVIOUS
    <2>2. PICK q : q = Prefixed16(s)
      OBVIOUS
    <2>3. PICK m : m = Len(s)
      OBVIOUS
    <2>4. m \in Nat /\ Block(q, 2 + m) /\ s \in Seq(Octets)
      BY <1>1, <2>1, <2>2, <2>3, Prefixed
    <2>5. Block(<<0>>, 1)
      BY OctetType DEF Block
    <2>6. Block(<<0>> \o q, 3 + m)
      <3>1. 2 + m \in Nat /\ 1 + (2 + m) = 3 + m
        BY <2>4
      <3> QED BY <2>4, <2>5, <3>1, CatBlock
    <2>7. Block(Prefixed16(<<0>> \o q), 2 + (3 + m))
      <3>1. <<0>> \o q \in Seq(Octets) /\ Len(<<0>> \o q) = 3 + m
        BY <2>6 DEF Block
      <3> QED BY <3>1, Prefixed
    <2>8. b = Prefixed16(<<0>> \o q)
      BY <1>6, <2>1, <2>2, Zenon DEF serverNameExtension
    <2> QED BY <2>1, <2>3, <2>4, <2>7, <2>8 DEF Block
  <1>8. Len(p.ServerName) + 3 < 65536
    BY <1>2, <1>6, <1>7, <1>9
  <1> QED BY <1>1, <1>2, <1>8, Uint16Type DEF Block

-----------------------------------------------------------------------------
(* The data is the ClientHello of p and what follows it, or a part of it without its end. *)
Whole(p) == At(data, 0, buildClientHello(p)) /\ HelloBytes(p) <= Len(data)
Part(p) == At(buildClientHello(p), 0, data) /\ Len(data) < HelloBytes(p)

Place(l, from, to) == label = l /\ pos = from /\ end = to

(* ParseSNI is at an extension, behind which or at which is the one with the name. *)
AtExtension(p) ==
    \E j \in 1..Len(Each(p)) : \E k \in 1..j :
        /\ p.ExtensionOrder[j] = 0 /\ Each(p)[j] # <<>>
        /\ Place("extension", (82 + SuiteBytes(p)) + Offset(p, k), HelloBytes(p))

(* ParseSNI is at the list of names, or at the name, or has found it. *)
AtName(p) ==
    \E o \in Nat :
        \/ At(data, o, serverNameExtension(p.ServerName)) /\ Place("names", o, o + 5 + Len(p.ServerName))
        \/ At(data, o, Entry(p.ServerName)) /\ Place("name", o, o + 3 + Len(p.ServerName))
        \/ At(data, o, p.ServerName) /\ Place("found", o, o + Len(p.ServerName))

(* How far ParseSNI has come in the whole ClientHello: it always goes on. *)
Progress(p) ==
    \/ Place("record", 0, Len(data))
    \/ Place("handshake", 5, HelloBytes(p))
    \/ Place("random", 9, HelloBytes(p))
    \/ Place("session", 43, HelloBytes(p))
    \/ Place("ciphers", 76, HelloBytes(p))
    \/ Place("compression", 78 + SuiteBytes(p), HelloBytes(p))
    \/ Place("extensions", 80 + SuiteBytes(p), HelloBytes(p))
    \/ AtExtension(p)
    \/ AtName(p)

(* In a part of it ParseSNI sees at once that the record is not complete. *)
Refused == Place("record", 0, Len(data)) \/ label = "none"

(* What ParseSNI reads of the data. *)
LEMMA WordReads ==
    \A i \in Nat : Byte(i) = data[i + 1] /\ Word(i) = At16(data, i)
  BY DEF Byte, Word, At16

(* The numbers that the steps through the whole ClientHello meet. *)
Sizes(p) ==
    /\ SuiteBytes(p) \in Nat /\ Len(All(p)) \in Nat /\ Len(data) \in Nat
    /\ HelloBytes(p) = 82 + SuiteBytes(p) + Len(All(p)) /\ HelloBytes(p) <= Len(data)

(* A whole ClientHello: its sizes, and what ParseSNI reads of it. *)
LEMMA WholeSizes ==
    ASSUME NEW p \in Profiles, Whole(p), ParserTypeOK
    PROVE  Sizes(p) /\ Laid(data, SuiteBytes(p), Len(All(p)), HelloBytes(p)) /\ At(data, 82 + SuiteBytes(p), All(p))
  <1>1. At(data, 0, buildClientHello(p)) /\ HelloBytes(p) <= Len(data)
    BY DEF Whole
  <1>2. Len(data) \in Nat
    BY DEF ParserTypeOK
  <1>3. Sizes(p)
    BY <1>1, <1>2, HelloSize DEF Sizes
  <1> QED BY <1>1, <1>3, HelloRead

(* The record's header is read. *)
LEMMA RecordStep ==
    ASSUME NEW p \in Profiles, Whole(p), ParserTypeOK, Place("record", 0, Len(data)), Record
    PROVE  Place("handshake", 5, HelloBytes(p))' /\ UNCHANGED data
  <1>1. Sizes(p) /\ data[1] = 22 /\ At16(data, 3) = HelloBytes(p) - 5
    BY WholeSizes DEF Laid
  <1>2. Byte(0) = 22 /\ Word(3) = HelloBytes(p) - 5
    <2>1. Byte(0) = data[0 + 1] /\ Word(3) = At16(data, 3)
      BY WordReads
    <2> QED BY <1>1, <2>1
  <1>3. pos = 0 /\ end = Len(data) /\ Len(data) \in Nat /\ Left = Len(data) - 0
    BY <1>1 DEF Place, Sizes, Left
  <1>4. Left >= 5 /\ ~(pos + 5 > end) /\ 5 + Word(3) = HelloBytes(p) /\ 5 <= HelloBytes(p) /\ HelloBytes(p) <= end
    BY <1>1, <1>2, <1>3 DEF Sizes
  <1>5. ~(Len(data) < 5 + Word(3))
    BY <1>1, <1>4 DEF Sizes
  <1>6. Enter("handshake", 5, 5 + Word(3))
    BY <1>2, <1>4, <1>5, Zenon DEF Record, Field
  <1> QED BY <1>4, <1>6, Zenon DEF Enter, Place

(* The handshake's header is read. *)
LEMMA HandshakeStep ==
    ASSUME NEW p \in Profiles, Whole(p), ParserTypeOK, Place("handshake", 5, HelloBytes(p)), Handshake
    PROVE  Place("random", 9, HelloBytes(p))' /\ UNCHANGED data
  <1>1. Sizes(p) /\ data[6] = 1 /\ data[7] = 0 /\ At16(data, 7) = HelloBytes(p) - 9
    BY WholeSizes DEF Laid
  <1>2. pos = 5 /\ end = HelloBytes(p) /\ Left = HelloBytes(p) - 5
    BY DEF Place, Left
  <1>3. Byte(pos) = 1 /\ Word3(pos + 1) = HelloBytes(p) - 9
    <2>1. Byte(5) = data[5 + 1] /\ Word3(6) = 65536 * data[6 + 1] + At16(data, 6 + 1)
      BY WordReads DEF Word3, Byte
    <2>2. Byte(5) = 1
      BY <1>1, <2>1
    <2>3. Word3(6) = HelloBytes(p) - 9
      BY <1>1, <2>1 DEF Sizes
    <2>4. pos + 1 = 6
      BY <1>2
    <2> QED BY <1>2, <2>2, <2>3, <2>4
  <1>4. /\ Left >= 4 /\ ~(pos + 4 > end) /\ ~(Left < 4 + Word3(pos + 1)) /\ pos + 4 = 9
        /\ pos + 4 + Word3(pos + 1) = HelloBytes(p) /\ 9 <= HelloBytes(p)
    BY <1>1, <1>2, <1>3 DEF Sizes
  <1>5. Enter("random", pos + 4, pos + 4 + Word3(pos + 1))
    BY <1>3, <1>4, Zenon DEF Handshake, Field
  <1>6. pos + 4 <= pos + 4 + Word3(pos + 1) /\ pos + 4 + Word3(pos + 1) <= end
    BY <1>1, <1>2, <1>4 DEF Sizes
  <1> QED BY <1>4, <1>5, <1>6, Zenon DEF Enter, Place

(* The version and the random bytes are skipped. *)
LEMMA RandomStep ==
    ASSUME NEW p \in Profiles, Whole(p), ParserTypeOK, Place("random", 9, HelloBytes(p)), Random
    PROVE  Place("session", 43, HelloBytes(p))' /\ UNCHANGED data
  <1>1. Sizes(p)
    BY WholeSizes
  <1>2. pos = 9 /\ end = HelloBytes(p) /\ Left = HelloBytes(p) - 9
    BY DEF Place, Left
  <1>3. Left >= 34 /\ ~(pos + 0 > end) /\ pos + 34 = 43
    BY <1>1, <1>2 DEF Sizes
  <1>4. Skip("session", pos + 34)
    BY <1>3, Zenon DEF Random, Field
  <1> QED BY <1>2, <1>3, <1>4, Zenon DEF Skip, Place

(* The session ID is skipped. *)
LEMMA SessionIDStep ==
    ASSUME NEW p \in Profiles, Whole(p), ParserTypeOK, Place("session", 43, HelloBytes(p)), SessionID
    PROVE  Place("ciphers", 76, HelloBytes(p))' /\ UNCHANGED data
  <1>1. Sizes(p) /\ data[44] = 32
    BY WholeSizes DEF Laid
  <1>2. pos = 43 /\ end = HelloBytes(p) /\ Left = HelloBytes(p) - 43
    BY DEF Place, Left
  <1>3. Byte(pos) = 32
    <2>1. Byte(43) = data[43 + 1]
      BY WordReads
    <2> QED BY <1>1, <1>2, <2>1
  <1>4. Left > 0 /\ ~(pos + 1 > end) /\ pos + 1 + Byte(pos) = 76
    BY <1>1, <1>2, <1>3 DEF Sizes
  <1>5. Skip("ciphers", pos + 1 + Byte(pos))
    BY <1>4, Zenon DEF SessionID, Field
  <1> QED BY <1>2, <1>4, <1>5, Zenon DEF Skip, Place

(* The cipher suites are skipped. *)
LEMMA CipherSuitesStep ==
    ASSUME NEW p \in Profiles, Whole(p), ParserTypeOK, Place("ciphers", 76, HelloBytes(p)), CipherSuites
    PROVE  Place("compression", 78 + SuiteBytes(p), HelloBytes(p))' /\ UNCHANGED data
  <1>1. Sizes(p) /\ At16(data, 76) = SuiteBytes(p)
    BY WholeSizes DEF Laid
  <1>2. pos = 76 /\ end = HelloBytes(p) /\ Left = HelloBytes(p) - 76
    BY DEF Place, Left
  <1>3. Word(pos) = SuiteBytes(p)
    BY <1>1, <1>2, WordReads
  <1>4. Left >= 2 /\ ~(pos + 2 > end) /\ pos + 2 + Word(pos) = 78 + SuiteBytes(p)
    BY <1>1, <1>2, <1>3 DEF Sizes
  <1>5. Skip("compression", pos + 2 + Word(pos))
    BY <1>4, Zenon DEF CipherSuites, Field
  <1> QED BY <1>2, <1>4, <1>5, Zenon DEF Skip, Place

(* The compression methods are skipped. *)
LEMMA CompressionStep ==
    ASSUME NEW p \in Profiles, Whole(p), ParserTypeOK,
           Place("compression", 78 + SuiteBytes(p), HelloBytes(p)), Compression
    PROVE  Place("extensions", 80 + SuiteBytes(p), HelloBytes(p))' /\ UNCHANGED data
  <1>1. Sizes(p) /\ data[79 + SuiteBytes(p)] = 1
    BY WholeSizes DEF Laid
  <1>2. pos = 78 + SuiteBytes(p) /\ end = HelloBytes(p) /\ Left = HelloBytes(p) - (78 + SuiteBytes(p))
    BY DEF Place, Left
  <1>3. Byte(pos) = 1
    <2>1. pos \in Nat /\ pos + 1 = 79 + SuiteBytes(p)
      BY <1>1, <1>2 DEF Sizes
    <2> QED BY <1>1, <2>1, WordReads
  <1>4. Left > 0 /\ ~(pos + 1 > end) /\ pos + 1 + Byte(pos) = 80 + SuiteBytes(p)
    BY <1>1, <1>2, <1>3 DEF Sizes
  <1>5. Skip("extensions", pos + 1 + Byte(pos))
    BY <1>4, Zenon DEF Compression, Field
  <1> QED BY <1>2, <1>4, <1>5, Zenon DEF Skip, Place

(* The extensions are entered. *)
LEMMA ExtensionsStep ==
    ASSUME NEW p \in Profiles, Whole(p), ParserTypeOK,
           Place("extensions", 80 + SuiteBytes(p), HelloBytes(p)), Extensions
    PROVE  AtExtension(p)' /\ UNCHANGED data
  <1>1. Sizes(p) /\ At16(data, 80 + SuiteBytes(p)) = Len(All(p))
    BY WholeSizes DEF Laid
  <1>2. pos = 80 + SuiteBytes(p) /\ end = HelloBytes(p) /\ Left = HelloBytes(p) - (80 + SuiteBytes(p))
    BY DEF Place, Left
  <1>3. Word(pos) = Len(All(p))
    <2>1. pos \in Nat
      BY <1>1, <1>2 DEF Sizes
    <2> QED BY <1>1, <1>2, <2>1, WordReads
  <1>4. /\ Left >= 2 /\ ~(pos + 2 > end) /\ ~(Left < 2 + Word(pos)) /\ pos + 2 = 82 + SuiteBytes(p)
        /\ pos + 2 + Word(pos) = HelloBytes(p)
        /\ pos + 2 <= pos + 2 + Word(pos) /\ pos + 2 + Word(pos) <= end
    BY <1>1, <1>2, <1>3 DEF Sizes
  <1>5. Enter("extension", pos + 2, pos + 2 + Word(pos))
    BY <1>4, Zenon DEF Extensions, Field
  <1>6. UNCHANGED data /\ Place("extension", 82 + SuiteBytes(p), HelloBytes(p))'
    BY <1>4, <1>5, Zenon DEF Enter, Place
  <1>7. PICK j \in 1..Len(Each(p)) : p.ExtensionOrder[j] = 0 /\ Each(p)[j] # <<>>
    BY NamedExtension
  <1>8. 1 \in 1..j /\ Offset(p, 1) = 0
    BY Offsets
  <1>9. (82 + SuiteBytes(p)) + Offset(p, 1) = 82 + SuiteBytes(p)
    BY <1>1, <1>8 DEF Sizes
  <1> QED BY <1>6, <1>7, <1>8, <1>9, Zenon DEF AtExtension, Place

(* An extension is skipped, or it is the one with the name. *)
LEMMA ExtensionStep ==
    ASSUME NEW p \in Profiles, Whole(p), ParserTypeOK, AtExtension(p), Extension
    PROVE  (AtExtension(p)' \/ AtName(p)') /\ UNCHANGED data
  <1>1. Sizes(p) /\ At(data, 82 + SuiteBytes(p), All(p))
    BY WholeSizes
  <1>2. PICK j \in 1..Len(Each(p)) : \E k \in 1..j :
          /\ p.ExtensionOrder[j] = 0 /\ Each(p)[j] # <<>>
          /\ Place("extension", (82 + SuiteBytes(p)) + Offset(p, k), HelloBytes(p))
    BY Zenon DEF AtExtension
  <1>3. PICK k \in 1..j : /\ p.ExtensionOrder[j] = 0 /\ Each(p)[j] # <<>>
                          /\ Place("extension", (82 + SuiteBytes(p)) + Offset(p, k), HelloBytes(p))
    BY <1>2
  <1>4. PICK m \in k..j : Each(p)[m] # <<>> /\ Joined(Each(p), m - 1) = Joined(Each(p), k - 1)
    <2>1. Each(p) \in Seq(Seq(Octets))
      BY HelloFields, EachType
    <2> QED BY <1>3, <2>1, NextExtension
  <1>5. /\ j \in Nat /\ k \in Nat /\ m \in Nat /\ m \in 1..Len(Each(p)) /\ m \in 1..j
        /\ m # j => m + 1 \in 1..j
    <2>1. Len(Each(p)) \in Nat
      BY HelloFields, EachType
    <2> QED BY <2>1
  <1>6. PICK t, b, n : Holds(p, m, t, b, n)
    BY <1>4, <1>5, ExtensionHolds
  <1>7. PICK f : f = 82 + SuiteBytes(p)
    OBVIOUS
  <1>8. PICK o : o = f + Offset(p, m)
    OBVIOUS
  <1>9. /\ pos = o /\ end = HelloBytes(p) /\ o \in Nat /\ f \in Nat /\ n \in Nat /\ t \in Nat
        /\ o + 4 + n = f + Offset(p, m + 1) /\ o + 4 + n <= HelloBytes(p)
    <2>1. Offset(p, m) = Offset(p, k)
      BY <1>4, Zenon DEF Offset
    <2>2. pos = o /\ end = HelloBytes(p)
      BY <1>3, <1>7, <1>8, <2>1, Zenon DEF Place
    <2>3. n \in Nat /\ t \in Nat /\ Offset(p, m + 1) = Offset(p, m) + (4 + n)
      BY <1>6, Uint16Type DEF Holds
    <2>4. Offset(p, m) \in Nat /\ Offset(p, m + 1) <= Len(All(p))
      BY <1>5, Offsets
    <2>5. f \in Nat /\ Len(All(p)) \in Nat /\ HelloBytes(p) = f + Len(All(p))
      BY <1>1, <1>7, SMT DEF Sizes
    <2>6. PICK i : i = Offset(p, m)
      OBVIOUS
    <2>7. PICK y : y = Offset(p, m + 1)
      OBVIOUS
    <2>8. PICK x : x = Len(All(p))
      OBVIOUS
    <2>9. i \in Nat /\ y = i + (4 + n) /\ y <= x /\ x \in Nat /\ o = f + i /\ HelloBytes(p) = f + x
      BY <1>8, <2>3, <2>4, <2>5, <2>6, <2>7, <2>8, Zenon
    <2>10. o \in Nat /\ o + 4 + n = f + y /\ o + 4 + n <= f + x
      BY <2>3, <2>5, <2>9
    <2>11. o \in Nat /\ o + 4 + n = f + Offset(p, m + 1) /\ o + 4 + n <= HelloBytes(p)
      BY <2>7, <2>9, <2>10, Zenon
    <2> QED BY <2>2, <2>3, <2>5, <2>11, Zenon
  <1>10. Word(pos) = t /\ Word(pos + 2) = n /\ At(data, o + 4, b)
    <2>1. ExtendedAt(data, o, t, b, n)
      BY <1>1, <1>6, <1>7, <1>8, Zenon DEF Holds
    <2>2. o + 2 \in Nat
      BY <1>9
    <2>3. Word(o) = At16(data, o) /\ Word(o + 2) = At16(data, o + 2)
      BY <1>9, <2>2, WordReads, Zenon
    <2> QED BY <1>9, <2>1, <2>3, Zenon DEF ExtendedAt
  <1>11. /\ Left >= 4 /\ ~(pos + 4 > end) /\ ~(pos + 4 + Word(pos + 2) > end)
         /\ pos + 4 + Word(pos + 2) = o + 4 + n /\ pos + 4 = o + 4
         /\ pos + 4 <= pos + 4 + Word(pos + 2) /\ pos + 4 + Word(pos + 2) <= end /\ end <= end
    <2>1. PICK l : l = HelloBytes(p)
      OBVIOUS
    <2>2. PICK e : e = o + 4 + n
      OBVIOUS
    <2>3. PICK w : w = Word(pos + 2)
      OBVIOUS
    <2>4. w = n /\ pos = o /\ end = l /\ e <= l /\ l \in Nat
      BY <1>9, <1>10, <2>1, <2>2, <2>3, HelloSize
    <2>5. o + 4 \in Nat /\ e \in Nat /\ o + 4 <= e /\ o + 4 + w = e /\ l - o >= 4 /\ o + 4 <= l
      BY <1>9, <2>2, <2>4
    <2>6. Left = l - o
      BY <2>4, Zenon DEF Left
    <2>7. ~(o + 4 > l) /\ ~(e > l) /\ l <= l
      BY <2>4, <2>5
    <2> QED BY <2>2, <2>3, <2>4, <2>5, <2>6, <2>7, Zenon
  <1>12. CASE t = 0
    <2>1. Enter("names", pos + 4, pos + 4 + Word(pos + 2))
      BY <1>3, <1>10, <1>11, <1>12, Zenon DEF Extension, Field
    <2>2. UNCHANGED data /\ Place("names", o + 4, o + 4 + n)'
      BY <1>11, <2>1, Zenon DEF Enter, Place
    <2>3. b = serverNameExtension(p.ServerName) /\ n = 5 + Len(p.ServerName)
      <3>1. b = serverNameExtension(p.ServerName) /\ Block(b, n)
        BY <1>6, <1>12, Zenon DEF Holds
      <3>2. Block(serverNameExtension(p.ServerName), 5 + Len(p.ServerName))
        BY NameFits, NameParts
      <3> QED BY <3>1, <3>2, Zenon DEF Block
    <2>4. o + 4 \in Nat /\ o + 4 + n = (o + 4) + 5 + Len(p.ServerName)
      <3>1. Len(p.ServerName) \in Nat
        BY NameFits
      <3>2. \A i, l \in Nat : i + 4 \in Nat /\ i + 4 + (5 + l) = (i + 4) + 5 + l
        OBVIOUS
      <3> QED BY <1>9, <2>3, <3>1, <3>2, Zenon
    <2>5. PICK a : a = o + 4
      OBVIOUS
    <2>6. At(data', a, serverNameExtension(p.ServerName)) /\ Place("names", a, a + 5 + Len(p.ServerName))'
      BY <1>10, <2>2, <2>3, <2>4, <2>5, Zenon
    <2>7. AtName(p)'
      BY <2>4, <2>5, <2>6, Zenon DEF AtName
    <2> QED BY <2>2, <2>7
  <1>13. CASE t # 0
    <2>1. Enter("extension", pos + 4 + Word(pos + 2), end)
      BY <1>3, <1>10, <1>11, <1>13, Zenon DEF Extension, Field
    <2>2. UNCHANGED data /\ Place("extension", o + 4 + n, HelloBytes(p))'
      BY <1>9, <1>11, <2>1, Zenon DEF Enter, Place
    <2>3. m + 1 \in 1..j
      BY <1>3, <1>5, <1>6, <1>13 DEF Holds
    <2>4. PICK i : i = m + 1
      OBVIOUS
    <2>5. i \in 1..j /\ Place("extension", (82 + SuiteBytes(p)) + Offset(p, i), HelloBytes(p))'
      BY <1>7, <1>9, <2>2, <2>3, <2>4, Zenon
    <2>6. AtExtension(p)'
      BY <1>3, <2>5, Zenon DEF AtExtension
    <2> QED BY <2>2, <2>6
  <1> QED BY <1>12, <1>13

(* The list of names is entered. *)
LEMMA NamesStep ==
    ASSUME NEW p \in Profiles, NEW o \in Nat, At(data, o, serverNameExtension(p.ServerName)),
           Place("names", o, o + 5 + Len(p.ServerName)), Names
    PROVE  AtName(p)' /\ UNCHANGED data
  <1>1. PICK n : n = Len(p.ServerName)
    OBVIOUS
  <1>2. n \in Nat /\ At16(data, o) = n + 3 /\ At(data, o + 2, Entry(p.ServerName))
    BY <1>1, NameFits, NameParts
  <1>3. pos = o /\ end = o + 5 + n /\ Left = (o + 5 + n) - o
    BY <1>1, Zenon DEF Place, Left
  <1>4. Word(pos) = n + 3
    BY <1>2, <1>3, WordReads
  <1>5. PICK a : a = o + 2
    OBVIOUS
  <1>6. /\ Left >= 2 /\ ~(pos + 2 > end) /\ ~(Left < 2 + Word(pos)) /\ pos + 2 = a /\ a \in Nat
        /\ pos + 2 + Word(pos) = a + 3 + n /\ a <= a + 3 + n /\ a + 3 + n <= end
    BY <1>2, <1>3, <1>4, <1>5
  <1>7. Enter("name", pos + 2, pos + 2 + Word(pos))
    BY <1>6, Zenon DEF Names, Field
  <1>8. UNCHANGED data /\ Place("name", a, a + 3 + n)'
    BY <1>6, <1>7, Zenon DEF Enter, Place
  <1>9. At(data', a, Entry(p.ServerName)) /\ Place("name", a, a + 3 + Len(p.ServerName))'
    BY <1>1, <1>2, <1>5, <1>8, Zenon
  <1>10. AtName(p)'
    BY <1>6, <1>9, Zenon DEF AtName
  <1> QED BY <1>8, <1>10

(* The name is found. *)
LEMMA NameStep ==
    ASSUME NEW p \in Profiles, NEW o \in Nat, At(data, o, Entry(p.ServerName)),
           Place("name", o, o + 3 + Len(p.ServerName)), Name
    PROVE  AtName(p)' /\ UNCHANGED data
  <1>1. PICK n : n = Len(p.ServerName)
    OBVIOUS
  <1>2. n \in Nat /\ data[o + 1] = 0 /\ At16(data, o + 1) = n /\ At(data, o + 3, p.ServerName)
    BY <1>1, NameFits, NameParts
  <1>3. pos = o /\ end = o + 3 + n /\ Left = (o + 3 + n) - o
    BY <1>1, Zenon DEF Place, Left
  <1>4. Byte(pos) = 0 /\ Word(pos + 1) = n
    <2>1. pos \in Nat /\ pos + 1 \in Nat
      BY <1>3
    <2>2. Byte(pos) = data[pos + 1] /\ Word(pos + 1) = At16(data, pos + 1)
      BY <2>1, WordReads, Zenon
    <2> QED BY <1>2, <1>3, <2>2, Zenon
  <1>5. PICK a : a = o + 3
    OBVIOUS
  <1>6. /\ Left >= 3 /\ ~(pos + 3 > end) /\ ~(pos + 3 + Word(pos + 1) > end) /\ pos + 3 = a /\ a \in Nat
        /\ pos + 3 + Word(pos + 1) = a + n /\ a <= a + n /\ a + n <= end
    BY <1>2, <1>3, <1>4, <1>5
  <1>7. Enter("found", pos + 3, pos + 3 + Word(pos + 1))
    BY <1>4, <1>6, Zenon DEF Name, Field
  <1>8. UNCHANGED data /\ Place("found", a, a + n)'
    BY <1>6, <1>7, Zenon DEF Enter, Place
  <1>9. At(data', a, p.ServerName) /\ Place("found", a, a + Len(p.ServerName))'
    BY <1>1, <1>2, <1>5, <1>8, Zenon
  <1>10. AtName(p)'
    BY <1>6, <1>9, Zenon DEF AtName
  <1> QED BY <1>8, <1>10

(* What is left after a cut: the record declares more than the data holds. *)
LEMMA PartReads ==
    ASSUME NEW p \in Profiles, Part(p), ParserTypeOK, Len(data) >= 5
    PROVE  Word(3) = HelloBytes(p) - 5 /\ Len(data) < 5 + Word(3)
  <1>1. PICK h : h = buildClientHello(p)
    OBVIOUS
  <1>2. Len(h) = HelloBytes(p) /\ HelloBytes(p) \in Nat
    BY <1>1, HelloSize DEF Block
  <1>3. At(h, 0, h)
    BY <1>2, AtSelf
  <1>4. At16(h, 3) = HelloBytes(p) - 5
    BY <1>1, <1>3, HelloRead DEF Laid
  <1>5. h[4] = data[4] /\ h[5] = data[5]
    <2>1. At(h, 0, data) /\ Len(data) \in Nat
      BY <1>1 DEF Part, ParserTypeOK
    <2>2. 4 \in 1..Len(data) /\ 5 \in 1..Len(data) /\ 0 + 4 = 4 /\ 0 + 5 = 5
      BY <2>1
    <2>3. h[0 + 4] = data[4] /\ h[0 + 5] = data[5]
      BY <2>1, <2>2, Zenon DEF At
    <2> QED BY <2>2, <2>3
  <1>6. Word(3) = At16(h, 3)
    <2>1. Word(3) = At16(data, 3)
      BY WordReads
    <2> QED BY <1>5, <2>1 DEF At16
  <1>7. Len(data) < HelloBytes(p)
    BY DEF Part
  <1> QED BY <1>2, <1>4, <1>6, <1>7

(* So ParseSNI returns at the record's header. *)
LEMMA RecordRefuses ==
    ASSUME NEW p \in Profiles, Part(p), ParserTypeOK, Place("record", 0, Len(data)), Record
    PROVE  label' = "none" /\ UNCHANGED data
  <1>1. pos = 0 /\ end = Len(data) /\ Left = Len(data) - 0 /\ Len(data) \in Nat
    BY DEF Place, Left, ParserTypeOK
  <1>2. Return("none")
    <2>1. CASE Left >= 5 /\ Byte(0) = 22
      <3>1. ~(pos + 5 > end) /\ Len(data) >= 5
        BY <1>1, <2>1
      <3>2. Len(data) < 5 + Word(3)
        BY <3>1, PartReads
      <3> QED BY <2>1, <3>1, <3>2, Zenon DEF Record, Field
    <2>2. CASE ~(Left >= 5 /\ Byte(0) = 22)
      BY <2>2, Zenon DEF Record, Field
    <2> QED BY <2>1, <2>2
  <1> QED BY <1>2, Zenon DEF Return

(* However ParseSNI is called: a whole ClientHello is read on and on, a part of one refused. *)
HelloRun ==
    \A p \in Profiles : (Whole(p) => Progress(p)) /\ (Part(p) => Refused)

(* The field that is read tells the place. *)
LEMMA Places ==
    ASSUME NEW p \in Profiles, Progress(p)
    PROVE  /\ label = "record" => Place("record", 0, Len(data))
           /\ label = "handshake" => Place("handshake", 5, HelloBytes(p))
           /\ label = "random" => Place("random", 9, HelloBytes(p))
           /\ label = "session" => Place("session", 43, HelloBytes(p))
           /\ label = "ciphers" => Place("ciphers", 76, HelloBytes(p))
           /\ label = "compression" => Place("compression", 78 + SuiteBytes(p), HelloBytes(p))
           /\ label = "extensions" => Place("extensions", 80 + SuiteBytes(p), HelloBytes(p))
           /\ label = "extension" => AtExtension(p)
           /\ label \in {"names", "name", "found"} => AtName(p)
           /\ label \notin {"none", "panic"}
  <1>1. AtExtension(p) => label = "extension"
    BY DEF AtExtension, Place
  <1>2. AtName(p) => label \in {"names", "name", "found"}
    BY DEF AtName, Place
  <1> QED BY <1>1, <1>2 DEF Progress, Place

(* Where the name lies. *)
LEMMA NamePlaces ==
    ASSUME NEW p \in Profiles, AtName(p)
    PROVE  \E o \in Nat :
             /\ label = "names" => /\ At(data, o, serverNameExtension(p.ServerName))
                                   /\ Place("names", o, o + 5 + Len(p.ServerName))
             /\ label = "name" => /\ At(data, o, Entry(p.ServerName))
                                  /\ Place("name", o, o + 3 + Len(p.ServerName))
             /\ label = "found" => At(data, o, p.ServerName) /\ Place("found", o, o + Len(p.ServerName))
  BY DEF AtName, Place

(* The field that a step reads. *)
LEMMA FieldRead ==
    /\ Record => label = "record"
    /\ Handshake => label = "handshake"
    /\ Random => label = "random"
    /\ SessionID => label = "session"
    /\ CipherSuites => label = "ciphers"
    /\ Compression => label = "compression"
    /\ Extensions => label = "extensions"
    /\ Extension => label = "extension"
    /\ Names => label = "names"
    /\ Name => label = "name"
  BY Zenon DEF Record, Handshake, Random, SessionID, CipherSuites, Compression, Extensions,
     Extension, Names, Name, Field

(* No step changes the data. *)
LEMMA DataStays == ParserNext => UNCHANGED data
  BY SMT DEF ParserNext, Record, Handshake, Random, SessionID, CipherSuites, Compression, Extensions,
     Extension, Names, Name, Field, Enter, Skip, Return

(* Each step through the whole ClientHello goes on in it. *)
LEMMA WholeGoesOn ==
    ASSUME NEW p \in Profiles, Whole(p), ParserTypeOK, Progress(p), ParserNext
    PROVE  Progress(p)'
  <1>0. UNCHANGED data
    BY DataStays
  <1>1. CASE Record
    <2>1. Place("handshake", 5, HelloBytes(p))'
      BY <1>1, FieldRead, Places, RecordStep
    <2> QED BY <2>1, Zenon DEF Progress
  <1>2. CASE Handshake
    <2>1. Place("random", 9, HelloBytes(p))'
      BY <1>2, FieldRead, Places, HandshakeStep
    <2> QED BY <2>1, Zenon DEF Progress
  <1>3. CASE Random
    <2>1. Place("session", 43, HelloBytes(p))'
      BY <1>3, FieldRead, Places, RandomStep
    <2> QED BY <2>1, Zenon DEF Progress
  <1>4. CASE SessionID
    <2>1. Place("ciphers", 76, HelloBytes(p))'
      BY <1>4, FieldRead, Places, SessionIDStep
    <2> QED BY <2>1, Zenon DEF Progress
  <1>5. CASE CipherSuites
    <2>1. Place("compression", 78 + SuiteBytes(p), HelloBytes(p))'
      BY <1>5, FieldRead, Places, CipherSuitesStep
    <2> QED BY <2>1, Zenon DEF Progress
  <1>6. CASE Compression
    <2>1. Place("extensions", 80 + SuiteBytes(p), HelloBytes(p))'
      BY <1>6, FieldRead, Places, CompressionStep
    <2> QED BY <2>1, Zenon DEF Progress
  <1>7. CASE Extensions
    <2>1. AtExtension(p)'
      BY <1>7, FieldRead, Places, ExtensionsStep
    <2> QED BY <2>1, Zenon DEF Progress
  <1>8. CASE Extension
    <2>1. AtExtension(p)' \/ AtName(p)'
      BY <1>8, FieldRead, Places, ExtensionStep
    <2> QED BY <2>1, Zenon DEF Progress
  <1>9. CASE Names
    <2>1. AtName(p) /\ label = "names"
      BY <1>9, FieldRead, Places
    <2>2. PICK o \in Nat : /\ At(data, o, serverNameExtension(p.ServerName))
                           /\ Place("names", o, o + 5 + Len(p.ServerName))
      BY <2>1, NamePlaces
    <2>3. AtName(p)'
      BY <1>9, <2>2, NamesStep
    <2> QED BY <2>3, Zenon DEF Progress
  <1>10. CASE Name
    <2>1. AtName(p) /\ label = "name"
      BY <1>10, FieldRead, Places
    <2>2. PICK o \in Nat : At(data, o, Entry(p.ServerName)) /\ Place("name", o, o + 3 + Len(p.ServerName))
      BY <2>1, NamePlaces
    <2>3. AtName(p)'
      BY <1>10, <2>2, NameStep
    <2> QED BY <2>3, Zenon DEF Progress
  <1> QED BY <1>1, <1>2, <1>3, <1>4, <1>5, <1>6, <1>7, <1>8, <1>9, <1>10, Zenon DEF ParserNext

(* A part of a ClientHello stays refused. *)
LEMMA PartRefused ==
    ASSUME NEW p \in Profiles, Part(p), ParserTypeOK, Refused, ParserNext
    PROVE  Refused'
  <1>1. label = "record"
    BY FieldRead, Zenon DEF Refused, Place, ParserNext
  <1>2. Place("record", 0, Len(data)) /\ Record
    BY <1>1, FieldRead, Zenon DEF Refused, Place, ParserNext
  <1> QED BY <1>2, RecordRefuses, Zenon DEF Refused

(* HelloRun holds when ParseSNI is called. *)
LEMMA InitHelloRun == ParserInit => HelloRun
  BY Zenon DEF ParserInit, HelloRun, Progress, Refused, Place

(* Every step of ParseSNI keeps HelloRun. *)
LEMMA HelloRunKept == ParserTypeOK /\ HelloRun /\ [ParserNext]_parserVars => HelloRun'
  <1>1. SUFFICES ASSUME ParserTypeOK, HelloRun, [ParserNext]_parserVars, NEW p \in Profiles
                 PROVE  (Whole(p) => Progress(p))' /\ (Part(p) => Refused)'
    BY Zenon DEF HelloRun
  <1>2. (Whole(p) => Progress(p)) /\ (Part(p) => Refused)
    BY <1>1, Zenon DEF HelloRun
  <1>3. UNCHANGED data
    BY <1>1, DataStays, Zenon DEF parserVars
  <1>4. (Whole(p)' <=> Whole(p)) /\ (Part(p)' <=> Part(p))
    BY <1>3, Zenon DEF Whole, Part, At
  <1>5. CASE ParserNext
    BY <1>1, <1>2, <1>4, <1>5, WholeGoesOn, PartRefused, Zenon
  <1>6. CASE UNCHANGED parserVars
    <2>1. UNCHANGED <<data, label, pos, end>>
      BY <1>6 DEF parserVars
    <2>2. AtExtension(p)' <=> AtExtension(p)
      BY <2>1 DEF AtExtension, Place
    <2>3. AtName(p)' <=> AtName(p)
      BY <2>1 DEF AtName, Place, At
    <2>4. Progress(p)' <=> Progress(p)
      BY <2>1, <2>2, <2>3 DEF Progress, Place
    <2>5. Refused' <=> Refused
      BY <2>1 DEF Refused, Place
    <2> QED BY <1>2, <1>4, <2>4, <2>5, Zenon
  <1> QED BY <1>1, <1>5, <1>6

(* A prefix of t lies in t at 0. *)
LEMMA PrefixAt ==
    ASSUME NEW s \in Seq(Octets), NEW t \in Seq(Octets), IsPrefix(s, t)
    PROVE  At(t, 0, s) /\ Len(s) <= Len(t)
  <1>1. /\ Len(s) <= Len(t) /\ SubSeq(s, 1, Len(s)) = SubSeq(t, 1, Len(s))
        /\ Len(s) \in Nat /\ Len(t) \in Nat
    BY DEF IsPrefix
  <1>2. ASSUME NEW i \in 1..Len(s) PROVE t[0 + i] = s[i]
    <2>1. i \in 1..(Len(s) - 1 + 1) /\ 1 + i - 1 = i /\ 0 + i = i
      BY <1>1
    <2>2. SubSeq(s, 1, Len(s))[i] = s[i]
      BY <1>1
    <2>3. SubSeq(t, 1, Len(s))[i] = t[i]
      BY <1>1
    <2> QED BY <1>1, <2>1, <2>2, <2>3, Zenon
  <1> QED BY <1>1, <1>2 DEF At

(* The bytes of the two headers are numbers. *)
LEMMA FirstBytes ==
    ASSUME ParserTypeOK, Len(data) >= 9
    PROVE  \A i \in 1..9 : data[i] \in Nat
  <1>1. data \in Seq(Octets)
    BY DEF ParserTypeOK, Octets
  <1>2. ASSUME NEW i \in 1..9 PROVE data[i] \in Nat
    <2>1. i \in 1..Len(data)
      BY <1>1
    <2>2. data[i] \in Octets
      BY <1>1, <2>1
    <2> QED BY <2>2, OctetType
  <1> QED BY <1>2

(* Router mode sees a ClientHello in the whole one. *)
LEMMA LooksWhole ==
    ASSUME NEW p \in Profiles, Whole(p), ParserTypeOK
    PROVE  LooksLikeTLSClientHello(data)
  <1>1. /\ Sizes(p) /\ data[1] = 22 /\ data[2] = 3 /\ data[6] = 1 /\ data[7] = 0
        /\ At16(data, 3) = HelloBytes(p) - 5 /\ At16(data, 7) = HelloBytes(p) - 9
    BY WholeSizes DEF Laid
  <1>2. Len(data) >= 9
    BY <1>1 DEF Sizes
  <1>3. /\ data[4] \in Nat /\ data[5] \in Nat /\ data[8] \in Nat /\ data[9] \in Nat
    BY <1>2, FirstBytes
  <1>4. 256 * data[4] + data[5] = HelloBytes(p) - 5 /\ 256 * data[8] + data[9] = HelloBytes(p) - 9
    <2>1. At16(data, 3) = 256 * data[4] + data[5] /\ At16(data, 7) = 256 * data[8] + data[9]
      BY DEF At16
    <2> QED BY <1>1, <2>1, Zenon
  <1>5. PICK v : v = 256 * data[4] + data[5]
    OBVIOUS
  <1>6. PICK w : w = 256 * data[8] + data[9]
    OBVIOUS
  <1>7. v = HelloBytes(p) - 5 /\ w = HelloBytes(p) - 9
    BY <1>4, <1>5, <1>6, Zenon
  <1>8. 4 <= v /\ 5 + v <= Len(data) /\ w > 0 /\ w \in Nat
    <2>1. PICK l : l = HelloBytes(p)
      OBVIOUS
    <2>2. l \in Nat /\ 82 <= l /\ l <= Len(data) /\ Len(data) \in Nat
      BY <1>1, <2>1 DEF Sizes
    <2>3. v = l - 5 /\ w = l - 9
      BY <1>7, <2>1, Zenon
    <2> QED BY <2>2, <2>3
  <1>9. 65536 * data[7] + 256 * data[8] + data[9] > 0
    BY <1>1, <1>3, <1>6, <1>8
  <1> QED BY <1>1, <1>2, <1>5, <1>8, <1>9, SMT DEF LooksLikeTLSClientHello

(* It sees none in a part of it. *)
LEMMA LooksPart ==
    ASSUME NEW p \in Profiles, Part(p), ParserTypeOK, LooksLikeTLSClientHello(data)
    PROVE  FALSE
  <1>1. Len(data) >= 9 /\ 5 + (256 * data[4] + data[5]) <= Len(data)
    BY SMT DEF LooksLikeTLSClientHello
  <1>2. Len(data) \in Nat
    BY DEF ParserTypeOK
  <1>3. Len(data) >= 5
    BY <1>1, <1>2
  <1>4. Len(data) < 5 + Word(3)
    BY <1>3, PartReads
  <1>5. Word(3) = 256 * data[4] + data[5]
    <2>1. Word(3) = At16(data, 3)
      BY WordReads
    <2>2. At16(data, 3) = 256 * data[4] + data[5]
      BY DEF At16
    <2> QED BY <2>1, <2>2, Zenon
  <1>6. data[4] \in Nat /\ data[5] \in Nat
    BY <1>1, FirstBytes
  <1>7. PICK v : v = 256 * data[4] + data[5]
    OBVIOUS
  <1>8. v \in Nat /\ 5 + v <= Len(data) /\ Len(data) < 5 + v
    BY <1>1, <1>4, <1>5, <1>6, <1>7
  <1> QED BY <1>2, <1>8

(* Where every call of ParseSNI has come to when it ends is what HelloUnderstood says. *)
LEMMA RunUnderstood == IInv /\ HelloRun => HelloUnderstood
  <1>1. SUFFICES ASSUME IInv, HelloRun, label \in Ends, NEW p \in Profiles, NEW h, h = Hellos[p],
                        IsPrefix(h, data) \/ IsPrefix(data, h)
                 PROVE  /\ label = (IF Len(h) <= Len(data) THEN "found" ELSE "none")
                        /\ Len(h) <= Len(data) => ParseSNI = p.ServerName
                        /\ LooksLikeTLSClientHello(data) <=> Len(h) <= Len(data)
    BY Zenon DEF HelloUnderstood
  <1>2. h = buildClientHello(p)
    BY <1>1 DEF Hellos
  <1>3. ParserTypeOK /\ data \in Seq(Octets) /\ h \in Seq(Octets) /\ Len(h) = HelloBytes(p)
    <2>1. h \in Seq(Octets) /\ Len(h) = HelloBytes(p)
      BY <1>2, HelloSize DEF Block
    <2>2. ParserTypeOK
      BY <1>1 DEF IInv
    <2>3. data \in Seq(Octets)
      BY <2>2 DEF ParserTypeOK, Octets
    <2> QED BY <2>1, <2>2, <2>3
  <1>4. HelloBytes(p) \in Nat /\ Len(data) \in Nat
    BY <1>3
  <1>5. IF HelloBytes(p) <= Len(data) THEN Whole(p) ELSE Part(p)
    <2>1. CASE IsPrefix(h, data)
      BY <1>2, <1>3, <2>1, PrefixAt, Zenon DEF Whole
    <2>2. CASE IsPrefix(data, h)
      <3>1. At(h, 0, data) /\ Len(data) <= Len(h)
        BY <1>3, <2>2, PrefixAt
      <3>2. CASE Len(data) < Len(h)
        BY <1>2, <1>3, <1>4, <3>1, <3>2 DEF Part
      <3>3. CASE Len(data) = Len(h)
        <4>1. At(data, 0, h)
          <5>1. ASSUME NEW i \in 1..Len(h) PROVE data[0 + i] = h[i]
            <6>1. i \in 1..Len(data) /\ 0 + i = i
              BY <3>3
            <6>2. h[0 + i] = data[i]
              BY <3>1, <6>1, Zenon DEF At
            <6> QED BY <6>1, <6>2, Zenon
          <5> QED BY <5>1 DEF At
        <4> QED BY <1>2, <1>3, <1>4, <3>3, <4>1 DEF Whole
      <3> QED BY <1>3, <1>4, <3>1, <3>2, <3>3
    <2> QED BY <1>1, <2>1, <2>2
  <1>6. CASE HelloBytes(p) <= Len(data)
    <2>1. Whole(p) /\ Progress(p)
      BY <1>1, <1>5, <1>6, Zenon DEF HelloRun
    <2>2. label = "found" /\ AtName(p)
      BY <1>1, <2>1, Places DEF Ends
    <2>3. PICK o \in Nat : At(data, o, p.ServerName) /\ Place("found", o, o + Len(p.ServerName))
      BY <2>2, NamePlaces
    <2>4. PICK n : n = Len(p.ServerName)
      OBVIOUS
    <2>5. pos = o /\ end = o + n /\ n \in Nat /\ Block(p.ServerName, n)
      BY <2>3, <2>4, NameFits, Zenon DEF Place
    <2>6. o + n <= Len(data)
      <3>1. pos <= end /\ end <= Limit /\ Limit <= Len(data)
        BY <1>1, <2>2 DEF IInv, Window
      <3>2. Word(3) = At16(data, 3) /\ At16(data, 3) = HelloBytes(p) - 5
        BY <1>3, <2>1, WordReads, WholeSizes DEF Laid
      <3> QED BY <1>4, <2>5, <3>1, <3>2 DEF Limit
    <2>7. SubSeq(data, o + 1, o + n) = p.ServerName
      <3>1. Block(data, Len(data))
        BY <1>3 DEF Block
      <3> QED BY <1>4, <2>3, <2>5, <2>6, <3>1, SubBlock
    <2>8. ParseSNI = p.ServerName
      BY <2>2, <2>5, <2>7, Zenon DEF ParseSNI
    <2>9. LooksLikeTLSClientHello(data)
      BY <1>3, <2>1, LooksWhole
    <2> QED BY <1>3, <1>6, <2>2, <2>8, <2>9, Zenon
  <1>7. CASE ~(HelloBytes(p) <= Len(data))
    <2>1. Part(p) /\ Refused
      BY <1>1, <1>5, <1>7, Zenon DEF HelloRun
    <2>2. label = "none"
      BY <1>1, <2>1 DEF Refused, Place, Ends
    <2>3. ~LooksLikeTLSClientHello(data)
      BY <1>3, <2>1, LooksPart
    <2> QED BY <1>3, <1>7, <2>2, <2>3, Zenon
  <1> QED BY <1>6, <1>7

(***************************************************************************)
(* ParseSNI and router mode's check understand every profile's fake        *)
(* ClientHello, whole and cut short, whatever follows it: HelloUnderstood. *)
(***************************************************************************)
THEOREM HelloUnderstoodAlways == ParserSpec => []HelloUnderstood
  <1>1. IInv => ParserTypeOK
    BY DEF IInv
  <1> QED
    BY <1>1, InitIInv, InductiveIInv, InitHelloRun, HelloRunKept, RunUnderstood, PTL DEF ParserSpec
=============================================================================
