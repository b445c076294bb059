---------------------------- MODULE ResolvConfLines ----------------------------
(***************************************************************************)
(* pkg/dns/system_linux.go line by line.  The file is the sequence of its  *)
(* lines; a line is what strings.HasPrefix can tell apart, so its text is  *)
(* reduced to its kind and, where there is one, the server it names.       *)
(***************************************************************************)
EXTENDS ResolvConf, Integers, SequencesExt

Marker        == <<"marker">>           \* "# gecit: DoH DNS active ..."
Other         == <<"other">>            \* search, options, foreign comments
Blank         == <<"blank">>
Nameserver(s) == <<"nameserver", s>>
Saved(s)      == <<"saved", s>>         \* "# gecit-saved: nameserver s"

Lines == {Marker, Other, Blank}
         \cup {Nameserver(s) : s \in Servers} \cup {Saved(s) : s \in Servers}

OfKind(kinds) == {l \in Lines : l[1] \in kinds}

MapLines(op(_), f) == [k \in DOMAIN f |-> op(f[k])]

(* The loop over the lines of f: kept[n] is what it has kept of the first  *)
(* n, the lines that are in S.  (SelectSeq does the same, but TLAPS does   *)
(* not know its definition.)                                               *)
Kept(f, S) ==
    LET kept[n \in 0..Len(f)] ==
            IF n = 0 THEN <<>>
            ELSE IF f[n] \in S THEN Append(kept[n - 1], f[n]) ELSE kept[n - 1]
    IN  kept

Select(f, S) == Kept(f, S)[Len(f)]

SetLinesServersOnly(f) ==   \* mutant: search and options lines are lost
    <<Marker, Nameserver(Local)>>
        \o MapLines(LAMBDA l : Saved(l[2]), Select(f, OfKind({"nameserver"})))

(* A line SetSystemDNS comes to, and the line it makes of it. *)
Save(l) == IF l[1] = "nameserver" THEN Saved(l[2]) ELSE l

SetLines(f) ==
    <<Marker, Nameserver(Local)>> \o MapLines(Save, Select(f, OfKind({"nameserver", "other"})))

HasState(f) == \E k \in DOMAIN f : f[k][1] \in {"marker", "saved"}

Unsave(l) == IF l[1] = "saved" THEN Nameserver(l[2]) ELSE l

Restored(f) == MapLines(Unsave, Select(f, Lines \ {Marker, Blank, Nameserver(Local)}))

RestoreNoFallback(f) ==     \* mutant: no safe fallback
    IF HasState(f) THEN Restored(f) ELSE f

RestoreForgets(f) ==        \* mutant: every "# gecit" line is removed
    LET kept == Select(f, OfKind({"nameserver", "other"}) \ {Nameserver(Local)})
    IN  IF ~HasState(f) THEN f
        ELSE IF kept = <<>> THEN <<Nameserver(Fallback)>> ELSE kept

RestoreLines(f) ==
    IF ~HasState(f) THEN f
    ELSE IF Restored(f) = <<>> THEN <<Nameserver(Fallback)>>
    ELSE Restored(f)

(* The reduction of a file to the record of ResolvConf. *)
Digest(f) ==
    [marker |-> Contains(f, Marker),
     active |-> {s \in Servers : Contains(f, Nameserver(s))},
     saved  |-> {s \in Servers : Contains(f, Saved(s))},
     other  |-> Contains(f, Other)]

-----------------------------------------------------------------------------
(***************************************************************************)
(* Histories of a file: the host writes any file of at most MaxLines       *)
(* lines, and then gecit's two functions are applied in any order, as by   *)
(* runs, crashes, re-runs and cleanups.                                    *)
(***************************************************************************)
CONSTANT MaxLines      \* bound: lines in a file the host writes

ASSUME LinesAssumption == MaxLines \in Nat

VARIABLES
    file,       \* the file now
    before,     \* the file as it was before the pending calls of SetLines
    sets        \* calls of SetLines since the last RestoreLines, at most 2
vars == <<file, before, sets>>

HostFiles == {f \in BoundedSeq(Lines, MaxLines) : ~HasState(f)}

Init == file \in HostFiles /\ before = file /\ sets = 0

Set == /\ sets < 2
       /\ file' = SetLines(file)
       /\ before' = IF sets = 0 THEN file ELSE before
       /\ sets' = sets + 1

Restore == /\ file' = RestoreLines(file)
           /\ sets' = 0
           /\ UNCHANGED before

Next == Set \/ Restore

Spec == Init /\ [][Next]_vars

-----------------------------------------------------------------------------
NotBlank(f) == Select(f, Lines \ {Blank})

HasServer(f) == \E k \in DOMAIN f : f[k][1] = "nameserver"

(***************************************************************************)
(* After one SetSystemDNS, RestoreSystemDNS gives back the lines it read in *)
(* their order, whatever they are: a name server 127.0.0.1 of the host's   *)
(* own is not mistaken for gecit's.  Only blank lines are lost.            *)
(***************************************************************************)
RoundTrip ==
    sets = 1 /\ HasServer(before)
        => NotBlank(RestoreLines(file)) = NotBlank(before)

(***************************************************************************)
(* Both functions commute with the reduction to ResolvConf, so what the    *)
(* lifecycle model says of reduced files holds of real ones.               *)
(***************************************************************************)
DigestCommutes ==
    /\ Digest(SetLines(file)) = SetSystemDNS(Digest(file))
    /\ Digest(RestoreLines(file)) = Recovered(Digest(file))

(***************************************************************************)
(* No sequence of runs and cleanups leaves the host without a name server  *)
(* if it had one: RestoreSystemDNS never produces a file without           *)
(* name servers from a file with some.                                     *)
(***************************************************************************)
NeverServerless == HasServer(before) => HasServer(file)
=============================================================================
