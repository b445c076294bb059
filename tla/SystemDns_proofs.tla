---------------------------- MODULE SystemDns_proofs ----------------------------
(***************************************************************************)
(* The settings of macOS and Windows hosts, for any services, settings and *)
(* addresses, and any sequence of runs, crashes, failures and cleanups.    *)
(***************************************************************************)
EXTENDS SystemDns, SequenceTheorems, TLAPS

(***************************************************************************)
(* What a restore may leave, what a backup file may say, and the steps of  *)
(* a run that have a file of their own.                                    *)
(***************************************************************************)
Ok == accidents \subseteq {"narrowed", "beside"}

Values == HostSettings \cup {<<>>} \cup {<<x>> : x \in Addrs}

Kept(s, v) ==
    \/ v = own[s]
    \/ /\ "narrowed" \in accidents
       /\ \/ v \in {<<>>, <<Lease>>}
          \/ own[s] # <<>> /\ v = <<own[s][1]>>

Good(s, v) == Kept(s, v) /\ (platform = "windows" => Len(v) <= 1)

Backup(v, s) == Append(WordsFor(v), s)

Saves(s) == \E v \in Values : Good(s, v) /\ backup = {Backup(v, s)}

EarlyPcs == {"down", "detect", "readBack", "putBack", "get", "truncate", "unlisten"}
LatePcs == {"point", "route", "up", "reread", "undo", "remove"}

OrphanInv == orphaned \subseteq Redirected

(* The settings and the file as long as there was no accident. *)
SettingInv ==
    /\ \A s \in Services : setting[s] = <<Loopback>> \/ Kept(s, setting[s])
    /\ \A s \in Redirected : Saves(s)
    /\ (rpc \in {"write", "point", "remove"} \/ cpc = "remove") => Redirected = {}
    /\ rpc \in EarlyPcs => Redirected \subseteq orphaned

FileInv ==
    /\ rpc \in EarlyPcs => backup = NoFile \/ \E s \in Services : Saves(s)
    /\ rpc = "truncate" => Redirected # {} \/ Good(svc, savedDNS)
    /\ rpc \in LatePcs \cup {"write"} => Good(svc, savedDNS)
    /\ rpc = "write" => backup = {<<>>}
    /\ rpc \in LatePcs => backup = {Backup(savedDNS, svc)}

(* A file that has been read is still there. *)
HeldInv ==
    /\ rpc = "putBack" => held["run"] = backup
    /\ rpc = "undo" /\ platform = "windows" => held["run"] = backup
    /\ cpc \in {"undo", "remove"} =>
          rpc = "down" /\ held["cleanup"] = backup /\ backup # NoFile

RestoreInv == Ok => SettingInv /\ FileInv /\ HeldInv

(* Who may still have to take the routes away. *)
RoutesInv ==
    /\ cpc = "routes" => platform = "windows"
    /\ cpc = "fallback" => platform = "darwin"
    /\ cpc # "idle" /\ "beside" \notin accidents => rpc = "down"
    /\ /\ platform = "windows" /\ cpc \in {"read", "undo", "remove"}
       /\ accidents \cap {"beside", "unset"} = {}
       => ~routes

-----------------------------------------------------------------------------
(***************************************************************************)
(* Settings, words and what commands do.                                   *)
(***************************************************************************)
LEMMA One ==
    ASSUME NEW S, NEW x \in S
    PROVE  <<x>> \in Seq(S) /\ Len(<<x>>) = 1 /\ <<x>>[1] = x /\ <<x>> # <<>>
OBVIOUS

LEMMA WordsTyped ==
    ASSUME NEW v \in Seq(Addrs \cup {Loopback})
    PROVE  /\ WordsFor(v) \in Seq(Addrs \cup {Loopback, Dhcp})
           /\ WordsFor(v) = <<Dhcp>> \/ WordsFor(v) \in Seq(Addrs \cup {Loopback})
           /\ WordsFor(v) = <<Dhcp>> <=> v = <<>>
<1> DEFINE A == Addrs \cup {Loopback}
           B == Addrs \cup {Loopback, Dhcp}
<1>1. A \subseteq B /\ Dhcp \in B /\ Dhcp \notin A
    BY WordsAssumption
<1>2. <<Dhcp>> \in Seq(B) /\ v \in Seq(B)
    <2> HIDE DEF B
    <2>1. <<Dhcp>> \in Seq(B)
        BY <1>1, One
    <2>2. v \in Seq(B)
        <3> HIDE DEF A
        <3>1. \A w \in Seq(A) : w \in Seq(B)
            BY <1>1
        <3>2. QED BY <3>1 DEF A
    <2>3. QED BY <2>1, <2>2
<1>3. v # <<Dhcp>>
    <2>1. SUFFICES ASSUME v = <<Dhcp>> PROVE FALSE
        OBVIOUS
    <2>2. Len(v) = 1 /\ v[1] = Dhcp
        BY <2>1
    <2>3. v[1] \in A
        BY <2>2, ElementOfSeq
    <2>4. QED BY <1>1, <2>2, <2>3
<1>4. QED BY <1>2, <1>3 DEF WordsFor

LEMMA CommandTyped ==
    ASSUME DnsTypeOK, NEW s, NEW words, NEW ok \in BOOLEAN, Command(s, words, ok)
    PROVE  /\ setting' \in [Services -> Seq(Addrs \cup {Loopback})]
           /\ orphaned' \subseteq Services
           /\ orphaned' \subseteq Redirected'
<1>1. setting' \in [Services -> Seq(Addrs \cup {Loopback})]
    <2>1. CASE ok /\ ValidWords(s, words)
        <3> DEFINE w == IF words = <<Dhcp>> THEN <<>> ELSE words
                   A == Addrs \cup {Loopback}
        <3>1. w \in Seq(A)
            <4>1. <<>> \in Seq(A)
                BY EmptySeq
            <4>2. words = <<Dhcp>> \/ words \in Seq(A)
                BY <2>1 DEF ValidWords
            <4>3. QED BY <4>1, <4>2
        <3>2. setting' = [setting EXCEPT ![s] = w]
            BY <2>1 DEF Command
        <3>3. QED
            <4> HIDE DEF w
            <4>1. setting \in [Services -> Seq(A)]
                BY DEF DnsTypeOK
            <4>2. QED BY <3>1, <3>2, <4>1
    <2>2. CASE ~(ok /\ ValidWords(s, words))
        BY <2>2 DEF Command, DnsTypeOK
    <2>3. QED BY <2>1, <2>2
<1>2. QED BY <1>1 DEF Command, DnsTypeOK, Redirected

LEMMA FilesTyped ==
    /\ IsFile(NoFile)
    /\ \A c \in Seq(BackupLines) : IsFile({c})
    /\ \A f : IsFile(f) => \A c \in f : c \in Seq(BackupLines) /\ f = {c}
BY DEF IsFile, NoFile

LEMMA HeldTyped ==
    ASSUME DnsTypeOK, NEW p \in {"run", "cleanup"}, ReadBackup(p) \/ DropHeld(p)
    PROVE  /\ DOMAIN held' = {"run", "cleanup"}
           /\ IsFile(held'["run"]) /\ IsFile(held'["cleanup"])
           /\ \A q \in {"run", "cleanup"} \ {p} : held'[q] = held[q]
           /\ ReadBackup(p) => held'[p] = backup
BY FilesTyped DEF DnsTypeOK, ReadBackup, DropHeld

LEMMA CurrentTyped ==
    ASSUME DnsTypeOK, NEW s \in Services
    PROVE  getCurrentDNS(s) \subseteq Seq(Addrs \cup {Loopback})
<1> DEFINE A == Addrs \cup {Loopback}
<1>1. setting[s] \in Seq(A)
    BY DEF DnsTypeOK
<1>2. <<>> \in Seq(A)
    BY EmptySeq
<1>3. <<Lease>> \in Seq(A)
    BY WordsAssumption, One
<1>4. ASSUME setting[s] # <<>> PROVE <<setting[s][1]>> \in Seq(A)
    <2>1. 1 \in 1 .. Len(setting[s])
        BY <1>1, <1>4, EmptySeq
    <2>2. setting[s][1] \in A
        BY <1>1, <2>1, ElementOfSeq
    <2>3. QED BY <2>2, One
<1>5. CASE setting[s] = <<>>
    BY <1>2, <1>3, <1>5 DEF getCurrentDNS
<1>6. CASE setting[s] # <<>> /\ setting[s] = <<Loopback>>
    BY <1>2, <1>6 DEF getCurrentDNS
<1>7. CASE setting[s] # <<>> /\ setting[s] # <<Loopback>>
    BY <1>2, <1>4, <1>7 DEF getCurrentDNS
<1>8. QED BY <1>5, <1>6, <1>7

(* A backup file is made of lines. *)
LEMMA BackupTyped ==
    ASSUME NEW v \in Seq(Addrs \cup {Loopback}), NEW s \in Services
    PROVE  Append(WordsFor(v), s) \in Seq(BackupLines)
<1>1. WordsFor(v) \in Seq(Addrs \cup {Loopback, Dhcp})
    BY WordsTyped
<1>2. Addrs \cup {Loopback, Dhcp} \subseteq BackupLines /\ s \in BackupLines
    BY DEF BackupLines
<1>3. WordsFor(v) \in Seq(BackupLines)
    BY <1>1, <1>2, SeqMonotonic
<1>4. QED BY <1>2, <1>3, AppendProperties

LEMMA Typing == DnsTypeOK /\ [DnsNext]_dnsVars => DnsTypeOK' /\ (OrphanInv => OrphanInv')
<1> SUFFICES ASSUME DnsTypeOK, [DnsNext]_dnsVars PROVE DnsTypeOK' /\ (OrphanInv => OrphanInv')
    OBVIOUS
<1> USE FilesTyped DEF hostVars, runVars, Accident, DnsPcs, SetDnsPcs, StopDnsPcs, CleanupPcs, Accidents, OrphanInv
<1>0. UNCHANGED setting => Redirected' = Redirected
    BY DEF Redirected
<1>1. CASE Listen \/ Detect \/ MgrStartTun \/ MgrStopTun
    <2>1. /\ UNCHANGED <<hostVars, setting, active, backup, savedDNS, held, cpc, orphaned>>
          /\ svc' = svc \/ svc' = active
          /\ routes' \in {routes, TRUE, FALSE}
        BY <1>1 DEF Listen, Detect, MgrStartTun, MgrStopTun
    <2>2. rpc' \in DnsPcs /\ accidents' \subseteq Accidents
        BY <1>1 DEF Listen, Detect, MgrStartTun, MgrStopTun, Restoring, DnsTypeOK
    <2>3. QED BY <2>1, <2>2 DEF DnsTypeOK, Redirected
<1>2. CASE ReadBack \/ Reread
    BY <1>2, HeldTyped DEF ReadBack, Reread, DnsTypeOK, Redirected
<1>3. CASE PutBack
    <2>1. UNCHANGED <<setting, orphaned>>
          \/ \E s, words : \E ok \in BOOLEAN : Command(s, words, ok)
        BY <1>3 DEF PutBack
    <2>2. /\ setting' \in [Services -> Seq(Addrs \cup {Loopback})]
          /\ orphaned' \subseteq Services
          /\ OrphanInv => orphaned' \subseteq Redirected'
        BY <2>1, CommandTyped DEF DnsTypeOK, Redirected
    <2>3. QED BY <1>3, <2>2, HeldTyped DEF PutBack, DnsTypeOK
<1>4. CASE Get
    <2>1. savedDNS' \in Seq(Addrs \cup {Loopback}) /\ accidents' \subseteq Accidents
        <3> DEFINE A == Addrs \cup {Loopback}
        <3>1. setting[svc] \in Seq(A) /\ savedDNS \in Seq(A)
            BY DEF DnsTypeOK
        <3>2. savedDNS' = setting[svc] \/ savedDNS' = savedDNS
            BY <1>4 DEF Get
        <3>3. accidents' = accidents \/ accidents' = accidents \cup {"unsaved"}
            BY <1>4 DEF Get
        <3>4. accidents' \subseteq Accidents
            BY <3>3 DEF DnsTypeOK
        <3> HIDE DEF A
        <3>5. savedDNS' \in Seq(A)
            BY <3>1, <3>2
        <3>6. QED BY <3>4, <3>5 DEF A
    <2>2. QED BY <1>0, <1>4, <2>1 DEF Get, DnsTypeOK
<1>5. CASE GetCurrent
    <2>1. savedDNS' \in Seq(Addrs \cup {Loopback})
        BY <1>5, CurrentTyped DEF GetCurrent, DnsTypeOK
    <2>2. QED BY <1>5, <2>1 DEF GetCurrent, DnsTypeOK, Redirected
<1>6. CASE TruncateBackup
    <2>1. <<>> \in Seq(BackupLines)
        BY EmptySeq
    <2>2. IsFile(backup')
        <3>1. IsFile({<<>>}) /\ IsFile(backup)
            BY <2>1 DEF DnsTypeOK
        <3>2. backup' = {<<>>} \/ backup' = backup
            BY <1>6 DEF TruncateBackup
        <3>3. QED BY <3>1, <3>2
    <2>3. accidents' \subseteq Accidents /\ rpc' \in DnsPcs
        BY <1>6 DEF TruncateBackup, DnsTypeOK
    <2>4. QED BY <1>0, <1>6, <2>2, <2>3 DEF TruncateBackup, DnsTypeOK
<1>7. CASE WriteBackup
    <2>1. Append(WordsFor(savedDNS), svc) \in Seq(BackupLines)
        BY BackupTyped DEF DnsTypeOK
    <2>2. IsFile(backup')
        <3> DEFINE c == Append(WordsFor(savedDNS), svc)
        <3>1. IsFile({c}) /\ IsFile(backup)
            BY <2>1 DEF DnsTypeOK
        <3>2. backup' = {c} \/ backup' = backup
            BY <1>7 DEF WriteBackup
        <3>3. QED BY <3>1, <3>2
    <2>3. QED BY <1>0, <1>7, <2>2 DEF WriteBackup, DnsTypeOK
<1>8. CASE Point
    <2>1. /\ <<Loopback>> \in Seq(Addrs \cup {Loopback})
          /\ setting \in [Services -> Seq(Addrs \cup {Loopback})]
        BY One DEF DnsTypeOK
    <2>2. setting' \in [Services -> Seq(Addrs \cup {Loopback})]
        <3>1. setting' = setting \/ setting' = [setting EXCEPT ![svc] = <<Loopback>>]
            BY <1>8 DEF Point
        <3>2. QED BY <2>1, <3>1
    <2>3. \/ orphaned' = orphaned /\ UNCHANGED setting
          \/ orphaned' = orphaned \ {svc} /\ setting' = [setting EXCEPT ![svc] = <<Loopback>>]
        BY <1>8 DEF Point
    <2>4. orphaned' \subseteq Services /\ (OrphanInv => OrphanInv')
        <3>1. orphaned' \subseteq Services /\ setting \in [Services -> Seq(Addrs \cup {Loopback})]
            BY <2>3 DEF DnsTypeOK
        <3>2. \A s \in Services : s \in orphaned' => s \in orphaned /\ setting'[s] = setting[s]
            BY <2>3, <3>1
        <3>3. QED BY <3>1, <3>2 DEF Redirected
    <2>5. QED BY <1>8, <2>2, <2>4 DEF Point, DnsTypeOK
<1>9. CASE Undo
    <2>1. \E s, words : \E ok \in BOOLEAN : Command(s, words, ok)
        <3>1. PICK ok \in BOOLEAN : CommandRestored(ok)
            BY <1>9 DEF Undo
        <3>2. CASE platform = "darwin"
            BY <3>1, <3>2 DEF CommandRestored
        <3>3. CASE platform # "darwin"
            BY <3>1, <3>3 DEF CommandRestored
        <3>4. QED BY <3>2, <3>3
    <2>2. /\ setting' \in [Services -> Seq(Addrs \cup {Loopback})]
          /\ orphaned' \subseteq Services
          /\ orphaned' \subseteq Redirected'
        BY <2>1, CommandTyped
    <2>3. QED BY <1>9, <2>2, HeldTyped DEF Undo, DnsTypeOK
<1>10. CASE RemoveBackup \/ CleanDies \/ CleanRemove
    BY <1>10, HeldTyped DEF RemoveBackup, CleanDies, CleanRemove, Overlapping, DnsTypeOK, Redirected
<1>11. CASE Unlisten \/ Crash
    <2>1. <<>> \in Seq(Addrs \cup {Loopback})
        BY EmptySeq
    <2>2. DropHeld("run") /\ svc' \in Services /\ savedDNS' \in Seq(Addrs \cup {Loopback})
        BY <1>11, <2>1, WordsAssumption DEF Unlisten, Crash, Forget
    <2>3. routes' \in BOOLEAN /\ accidents' \subseteq Accidents /\ rpc' \in DnsPcs
        BY <1>11 DEF Unlisten, Crash, DnsTypeOK
    <2>4. orphaned' \subseteq Services /\ (OrphanInv => OrphanInv')
        BY <1>11 DEF Unlisten, Crash, DnsTypeOK, Redirected
    <2>5. QED BY <1>11, <2>2, <2>3, <2>4, HeldTyped DEF Unlisten, Crash, DnsTypeOK
<1>12. CASE CleanupStarts \/ CleanRoutes
    BY <1>12 DEF CleanupStarts, CleanRoutes, Overlapping, DnsTypeOK, Redirected
<1>13. CASE CleanReadBackup
    BY <1>13, HeldTyped DEF CleanReadBackup, Overlapping, DnsTypeOK, Redirected
<1>14. CASE CleanUndo
    <2>1. \E s, words : \E ok \in BOOLEAN : Command(s, words, ok)
        BY <1>14 DEF CleanUndo
    <2>2. /\ setting' \in [Services -> Seq(Addrs \cup {Loopback})]
          /\ orphaned' \subseteq Services
          /\ orphaned' \subseteq Redirected'
        BY <2>1, CommandTyped
    <2>3. QED BY <1>14, <2>2 DEF CleanUndo, Overlapping, DnsTypeOK
<1>15. CASE CleanFallback
    <2>1. UNCHANGED <<setting, orphaned>>
          \/ \E s, words : \E ok \in BOOLEAN : Command(s, words, ok)
        BY <1>15 DEF CleanFallback
    <2>2. /\ setting' \in [Services -> Seq(Addrs \cup {Loopback})]
          /\ orphaned' \subseteq Services
          /\ OrphanInv => orphaned' \subseteq Redirected'
        BY <2>1, CommandTyped DEF DnsTypeOK, Redirected
    <2>3. accidents' \subseteq Accidents
        BY <1>15 DEF CleanFallback, DnsTypeOK
    <2>4. QED BY <1>15, <2>2, <2>3 DEF CleanFallback, DnsTypeOK
<1>16. CASE Move \/ UNCHANGED dnsVars
    <2>1. /\ UNCHANGED <<platform, own, setting, backup, routes, rpc, svc, savedDNS, held, cpc,
                        orphaned, accidents>>
          /\ active' \in Services
        BY <1>16 DEF Move, dnsVars, DnsTypeOK
    <2>2. DnsTypeOK'
        BY <2>1 DEF DnsTypeOK
    <2>3. QED BY <1>0, <2>1, <2>2
<1>17. QED
    BY <1>1, <1>2, <1>3, <1>4, <1>5, <1>6, <1>7, <1>8, <1>9, <1>10, <1>11, <1>12, <1>13,
       <1>14, <1>15, <1>16
    DEF DnsNext, Run, Cleanup

LEMMA RoutesStep == DnsTypeOK /\ RoutesInv /\ [DnsNext]_dnsVars => RoutesInv'
<1> SUFFICES ASSUME DnsTypeOK, RoutesInv, [DnsNext]_dnsVars PROVE RoutesInv'
    OBVIOUS
<1> USE DEF RoutesInv, hostVars, runVars, Accident
<1>1. CASE Listen \/ Detect \/ ReadBack \/ PutBack \/ Get \/ GetCurrent \/ TruncateBackup
    BY <1>1 DEF Listen, Detect, ReadBack, PutBack, Get, GetCurrent, TruncateBackup
<1>2. CASE WriteBackup \/ Point \/ MgrStartTun \/ MgrStopTun \/ Reread \/ Undo \/ RemoveBackup \/ Unlisten
    BY <1>2 DEF WriteBackup, Point, MgrStartTun, MgrStopTun, Reread, Undo, RemoveBackup, Unlisten
<1>3. CASE Crash
    BY <1>3 DEF Crash
<1>4. CASE CleanupStarts
    BY <1>4 DEF CleanupStarts, DnsTypeOK
<1>5. CASE CleanRoutes
    BY <1>5 DEF CleanRoutes, Overlapping
<1>6. CASE CleanReadBackup
    BY <1>6 DEF CleanReadBackup, Overlapping, DnsTypeOK
<1>7. CASE CleanUndo \/ CleanRemove \/ CleanDies
    <2>1. /\ UNCHANGED <<platform, routes, rpc>>
          /\ cpc # "idle" /\ cpc' \in {"idle", "remove", "fallback"}
          /\ cpc' = "remove" => cpc = "undo"
          /\ cpc' = "fallback" => platform = "darwin"
        BY <1>7 DEF CleanUndo, CleanRemove, CleanDies
    <2>2. accidents \subseteq accidents'
        BY <1>7 DEF CleanUndo, CleanRemove, CleanDies
    <2>3. QED BY <2>1, <2>2
<1>8. CASE CleanFallback
    BY <1>8 DEF CleanFallback
<1>9. CASE Move \/ UNCHANGED dnsVars
    BY <1>9 DEF Move, dnsVars
<1>10. QED
    BY <1>1, <1>2, <1>3, <1>4, <1>5, <1>6, <1>7, <1>8, <1>9 DEF DnsNext, Run, Cleanup

LEMMA InitTyped == DnsInit => DnsTypeOK /\ OrphanInv /\ RoutesInv
<1> SUFFICES ASSUME DnsInit PROVE DnsTypeOK /\ OrphanInv /\ RoutesInv
    OBVIOUS
<1>1. \A S, T : S \subseteq T => \A v \in Seq(S) : v \in Seq(T)
    BY SeqMonotonic
<1>2. own \in [Services -> HostSettings] /\ setting = own
    BY DEF DnsInit
<1>3. setting \in [Services -> Seq(Addrs \cup {Loopback})]
    <2>1. \A s \in Services : own[s] \in Seq(Addrs)
        BY <1>2, WordsAssumption
    <2>2. \A s \in Services : own[s] \in Seq(Addrs \cup {Loopback})
        BY <1>1, <2>1
    <2>3. QED BY <1>2, <2>2
<1>4. <<>> \in Seq(Addrs \cup {Loopback})
    BY EmptySeq
<1>5. DnsTypeOK
    BY <1>3, <1>4, WordsAssumption, FilesTyped
    DEF DnsInit, DnsTypeOK, DnsPcs, SetDnsPcs, StopDnsPcs, CleanupPcs
<1>6. QED BY <1>5 DEF DnsInit, OrphanInv, RoutesInv

(***************************************************************************)
(* Settings stay lists of addresses and the backup file lines of words,    *)
(* whatever runs and cleanups read from it: the commands refuse the rest.  *)
(***************************************************************************)
THEOREM TypeCorrect == DnsSpec => []DnsTypeOK
<1>1. DnsTypeOK /\ [DnsNext]_dnsVars => DnsTypeOK'
    BY Typing
<1>2. QED BY <1>1, InitTyped, PTL DEF DnsSpec

(***************************************************************************)
(* A cleanup that goes through, without a run beside it and with all its   *)
(* commands obeyed, frees a host of gecit's routes or of a redirected      *)
(* Wi-Fi, for any services, settings and addresses.                        *)
(***************************************************************************)
THEOREM CleanupFreesAlways == DnsSpec => CleanupFrees
<1>1. DnsTypeOK /\ RoutesInv /\ [DnsNext]_dnsVars => (DnsTypeOK /\ RoutesInv)'
    BY Typing, RoutesStep
<1> DEFINE Frees ==
        (CleanReadBackup \/ CleanRemove \/ CleanFallback) /\ cpc' = "idle"
            /\ accidents' \cap {"beside", "unset"} = {}
        => IF platform = "darwin" THEN setting'[DefaultService] # <<Loopback>> ELSE ~routes'
<1>2. DnsTypeOK /\ RoutesInv => [Frees]_dnsVars
    <2> SUFFICES ASSUME DnsTypeOK, RoutesInv, cpc' = "idle", accidents' \cap {"beside", "unset"} = {},
                        CleanReadBackup \/ CleanRemove \/ CleanFallback
                 PROVE  IF platform = "darwin" THEN setting'[DefaultService] # <<Loopback>> ELSE ~routes'
        OBVIOUS
    <2>1. CASE CleanReadBackup \/ CleanRemove
        <3>1. platform # "darwin" /\ cpc \in {"read", "remove"} /\ routes' = routes
            BY <2>1 DEF CleanReadBackup, CleanRemove, NoFile
        <3>2. accidents \subseteq accidents'
            BY <2>1 DEF CleanReadBackup, CleanRemove
        <3>3. QED BY <3>1, <3>2 DEF RoutesInv, DnsTypeOK
    <2>2. CASE CleanFallback
        <3>1. platform = "darwin"
            BY <2>2 DEF CleanFallback, RoutesInv
        <3>2. CASE setting[DefaultService] = <<Loopback>>
            <4>1. Command(DefaultService, <<Dhcp>>, TRUE)
                BY <2>2, <3>2 DEF CleanFallback
            <4>2. setting' = [setting EXCEPT ![DefaultService] = <<>>]
                BY <4>1, WordsAssumption DEF Command, ValidWords
            <4>3. setting'[DefaultService] = <<>>
                BY <4>2, WordsAssumption DEF DnsTypeOK
            <4>4. QED BY <3>1, <4>3
        <3>3. CASE setting[DefaultService] # <<Loopback>>
            BY <2>2, <3>1, <3>3 DEF CleanFallback
        <3>4. QED BY <3>2, <3>3
    <2>3. QED BY <2>1, <2>2
<1>3. QED BY <1>1, <1>2, InitTyped, PTL DEF DnsSpec, CleanupFrees

-----------------------------------------------------------------------------
(***************************************************************************)
(* Backup files.                                                           *)
(***************************************************************************)
LEMMA ValuesTyped ==
    /\ Values \subseteq Seq(Addrs)
    /\ \A v \in Values : v \in Seq(Addrs \cup {Loopback}) /\ v # <<Loopback>>
<1>1. ASSUME NEW v \in Values PROVE v \in Seq(Addrs)
    <2>1. <<>> \in Seq(Addrs)
        BY EmptySeq
    <2>2. \A x \in Addrs : <<x>> \in Seq(Addrs)
        BY One
    <2>3. v \in HostSettings \/ v = <<>> \/ \E x \in Addrs : v = <<x>>
        BY DEF Values
    <2>4. QED BY <2>1, <2>2, <2>3, WordsAssumption
<1>2. ASSUME NEW v \in Seq(Addrs) PROVE v \in Seq(Addrs \cup {Loopback})
    BY SeqMonotonic
<1>3. ASSUME NEW v \in Seq(Addrs) PROVE v # <<Loopback>>
    <2> SUFFICES ASSUME v = <<Loopback>> PROVE FALSE
        OBVIOUS
    <2>1. Len(v) = 1 /\ v[1] = Loopback
        OBVIOUS
    <2>2. v[1] \in Addrs
        BY <2>1, ElementOfSeq
    <2>3. QED BY <2>1, <2>2, WordsAssumption
<1>4. QED BY <1>1, <1>2, <1>3

LEMMA KeptTyped ==
    ASSUME DnsTypeOK, NEW s \in Services, NEW v, Kept(s, v)
    PROVE  v \in Values
<1>1. own[s] \in HostSettings /\ own[s] \in Seq(Addrs)
    BY WordsAssumption DEF DnsTypeOK
<1>2. ASSUME own[s] # <<>> PROVE own[s][1] \in Addrs
    <2>1. 1 \in 1 .. Len(own[s])
        BY <1>1, <1>2, EmptySeq
    <2>2. QED BY <1>1, <2>1, ElementOfSeq
<1>3. QED BY <1>1, <1>2, WordsAssumption DEF Kept, Values

(* What the code reads from a backup file: its words, two of its lines. *)
LEMMA BackupFacts ==
    ASSUME NEW v \in Values, NEW s \in Services
    PROVE  LET c == Backup(v, s) IN
           /\ c # <<>> /\ Len(c) \in Nat /\ Len(c) >= 2 /\ c[Len(c)] = s
           /\ SubSeq(c, 1, Len(c) - 1) = WordsFor(v)
           /\ Prev(c) = WordsFor(v)[1] /\ Prev(c) \in Addrs \cup {Dhcp}
           /\ Len(v) <= 1 => c[2] = s /\ <<Prev(c)>> = WordsFor(v)
           /\ c[2] \in Services => Len(v) <= 1
           /\ c \notin Seq(Addrs \cup {Loopback}) /\ c # <<Dhcp>> /\ c # <<Loopback>>
<1> DEFINE A == Addrs \cup {Dhcp}
           w == WordsFor(v)
           c == Backup(v, s)
<1>1. v \in Seq(Addrs)
    BY ValuesTyped
<1>2. w \in Seq(A) /\ w # <<>> /\ (Len(v) <= 1 => Len(w) = 1) /\ (Len(w) = 1 => Len(v) <= 1)
    <2>1. CASE v = <<>>
        BY <2>1, One DEF WordsFor
    <2>2. CASE v # <<>>
        <3>1. w = v /\ Len(v) \in Nat \ {0}
            BY <1>1, <2>2, EmptySeq DEF WordsFor
        <3>2. v \in Seq(A)
            BY <1>1, SeqMonotonic
        <3>3. \A n \in Nat \ {0} : n <= 1 <=> n = 1
            OBVIOUS
        <3> HIDE DEF w, A
        <3>4. QED BY <2>2, <3>1, <3>2, <3>3
    <2>3. QED BY <2>1, <2>2
<1> DEFINE L == BackupLines
<1>3. A \subseteq L /\ s \in L /\ s \notin A /\ s # Loopback
    BY WordsAssumption DEF BackupLines
<1> HIDE DEF A, L, w
<1>4. w \in Seq(L) /\ Len(w) \in Nat \ {0} /\ w[1] \in A
    <2>1. w \in Seq(L)
        BY <1>2, <1>3, SeqMonotonic
    <2>2. Len(w) \in Nat \ {0}
        BY <1>2, EmptySeq
    <2>3. 1 \in 1 .. Len(w)
        BY <2>2
    <2>4. QED BY <1>2, <2>1, <2>2, <2>3, ElementOfSeq
<1>5. /\ c \in Seq(L) /\ c # <<>> /\ Len(c) = Len(w) + 1
      /\ \A i \in 1 .. Len(w) : c[i] = w[i]
      /\ c[Len(w) + 1] = s
    BY <1>3, <1>4, AppendProperties DEF Backup, w
<1> HIDE DEF c
<1>6. /\ Len(c) \in Nat /\ Len(c) >= 2 /\ c[Len(c)] = s /\ c[1] = w[1]
    BY <1>4, <1>5
<1>7. Prev(c) = w[1] /\ Prev(c) \in A
    BY <1>4, <1>5, <1>6 DEF Prev
<1>8. ASSUME Len(v) <= 1 PROVE c[2] = s /\ <<Prev(c)>> = w
    <2>1. Len(w) = 1
        BY <1>2, <1>8
    <2>2. w = <<w[1]>>
        BY <1>4, <2>1
    <2>3. QED BY <1>5, <1>7, <2>1, <2>2
<1>9. ASSUME c[2] \in Services PROVE Len(v) <= 1
    <2>1. CASE Len(w) = 1
        BY <1>2, <2>1
    <2>2. CASE Len(w) # 1
        <3>0. \A n \in Nat \ {0} : n # 1 => 2 \in 1 .. n
            OBVIOUS
        <3>1. 2 \in 1 .. Len(w)
            <4>1. Len(w) \in Nat \ {0} /\ Len(w) # 1
                BY <1>4, <2>2
            <4> DEFINE n == Len(w)
            <4>2. n \in Nat \ {0} /\ n # 1
                BY <4>1
            <4> HIDE DEF n
            <4>3. 2 \in 1 .. n
                BY <3>0, <4>2
            <4>4. QED BY <4>3 DEF n
        <3>2. c[2] \in A
            BY <1>2, <1>5, <3>1, ElementOfSeq
        <3>3. QED BY <1>9, <3>2, WordsAssumption DEF A
    <2>3. QED BY <2>1, <2>2
<1>10. c \notin Seq(Addrs \cup {Loopback})
    <2> DEFINE B == Addrs \cup {Loopback}
    <2>1. s \notin B
        BY WordsAssumption
    <2> HIDE DEF B
    <2>2. ASSUME c \in Seq(B) PROVE FALSE
        <3>1. Len(c) \in 1 .. Len(c)
            BY <1>6
        <3>2. c[Len(c)] \in B
            BY <2>2, <3>1, ElementOfSeq
        <3>3. QED BY <1>6, <2>1, <3>2
    <2>3. QED BY <2>2 DEF B
<1>11. \A x : Len(<<x>>) = 1
    OBVIOUS
<1>12. SubSeq(c, 1, Len(c) - 1) = w
    <2> DEFINE u == SubSeq(c, 1, Len(w))
    <2>1. Len(w) \in Int /\ Len(w) - 1 + 1 = Len(w) /\ 1 <= Len(w)
        BY <1>4
    <2>2. \A i \in 1 .. Len(w) : c[i] \in L
        BY <1>4, <1>5, ElementOfSeq
    <2>3. /\ u \in Seq(L)
          /\ Len(u) = IF 1 <= Len(w) THEN Len(w) - 1 + 1 ELSE 0
          /\ \A i \in 1 .. Len(w) - 1 + 1 : u[i] = c[1 + i - 1]
        BY <2>1, <2>2, SubSeqProperties
    <2>4. Len(u) = Len(w) /\ \A i \in 1 .. Len(w) : u[i] = c[i]
        BY <2>1, <2>3
    <2> HIDE DEF u
    <2>5. u = w
        BY <1>4, <1>5, <2>3, <2>4, SeqEqual
    <2>6. Len(c) - 1 = Len(w)
        BY <1>4, <1>5
    <2>7. QED BY <2>5, <2>6 DEF u
<1>13. QED
    BY <1>5, <1>6, <1>7, <1>8, <1>9, <1>10, <1>11, <1>12 DEF c, w, A

(* A file saves one service. *)
LEMMA SavesOne ==
    ASSUME NEW v \in Values, NEW s \in Services, NEW t \in Services,
           backup = {Backup(v, s)}, Saves(t)
    PROVE  t = s
<1>1. PICK u \in Values : backup = {Backup(u, t)}
    BY DEF Saves
<1>2. Backup(u, t) = Backup(v, s)
    BY <1>1
<1>3. QED BY <1>2, BackupFacts

LEMMA CommandSets ==
    ASSUME DnsTypeOK, NEW s \in Services, NEW v \in Values, NEW ok \in BOOLEAN,
           Command(s, WordsFor(v), ok)
    PROVE  /\ ValidWords(s, WordsFor(v))
           /\ setting' = IF ok THEN [setting EXCEPT ![s] = v] ELSE setting
           /\ orphaned' = {t \in orphaned : setting'[t] = <<Loopback>>}
<1>1. v \in Seq(Addrs \cup {Loopback})
    BY ValuesTyped
<1>2. ValidWords(s, WordsFor(v))
    BY <1>1, WordsTyped DEF ValidWords
<1>3. (IF WordsFor(v) = <<Dhcp>> THEN <<>> ELSE WordsFor(v)) = v
    BY <1>1, WordsTyped DEF WordsFor
<1>4. QED BY <1>2, <1>3 DEF Command

(* Nothing is redirected that was not; what is restored is not any more. *)
LEMMA RestoreKept ==
    ASSUME DnsTypeOK, NEW s \in Services, NEW v \in Values,
           setting' = [setting EXCEPT ![s] = v],
           orphaned' = {t \in orphaned : setting'[t] = <<Loopback>>}, OrphanInv
    PROVE  /\ Redirected' = Redirected \ {s}
           /\ orphaned' = orphaned \ {s}
           /\ setting'[s] = v
           /\ \A t \in Services \ {s} : setting'[t] = setting[t]
<1>1. setting'[s] = v /\ \A t \in Services \ {s} : setting'[t] = setting[t]
    BY DEF DnsTypeOK
<1>2. v # <<Loopback>>
    BY ValuesTyped
<1>3. QED BY <1>1, <1>2 DEF Redirected, OrphanInv

LEMMA KeptStays ==
    [DnsNext]_dnsVars =>
        /\ accidents \subseteq accidents' /\ UNCHANGED <<own, platform>>
        /\ Ok' => Ok
        /\ \A s, v : Kept(s, v) => Kept(s, v)'
        /\ \A s, v : Good(s, v) => Good(s, v)'
        /\ UNCHANGED backup => \A s : Saves(s) => Saves(s)'
<1> SUFFICES ASSUME [DnsNext]_dnsVars
             PROVE  /\ accidents \subseteq accidents' /\ UNCHANGED <<own, platform>>
                    /\ Ok' => Ok
                    /\ \A s, v : Kept(s, v) => Kept(s, v)'
                    /\ \A s, v : Good(s, v) => Good(s, v)'
                    /\ UNCHANGED backup => \A s : Saves(s) => Saves(s)'
    OBVIOUS
<1> USE DEF hostVars
<1>1. UNCHANGED <<own, platform>>
    BY DEF DnsNext, Run, Cleanup, Move, dnsVars, Listen, Detect, ReadBack, PutBack, Get, GetCurrent,
           TruncateBackup, WriteBackup, Point, MgrStartTun, MgrStopTun, Reread, Undo, RemoveBackup, Unlisten, Crash,
           CleanupStarts, CleanRoutes, CleanReadBackup, CleanUndo, CleanRemove, CleanFallback,
           CleanDies
<1>2. accidents \subseteq accidents'
    <2>1. CASE Run
        BY <2>1
        DEF Run, Listen, Detect, ReadBack, PutBack, Get, GetCurrent, TruncateBackup, WriteBackup, Point,
            MgrStartTun, MgrStopTun, Reread, Undo, RemoveBackup, Unlisten, Crash
    <2>2. CASE Cleanup
        BY <2>2
        DEF Cleanup, CleanupStarts, CleanRoutes, CleanReadBackup, CleanUndo, CleanRemove,
            CleanFallback, CleanDies
    <2>3. CASE Move \/ UNCHANGED dnsVars
        BY <2>3 DEF Move, dnsVars
    <2>4. QED BY <2>1, <2>2, <2>3 DEF DnsNext
<1>3. \A s, v : Kept(s, v) => Kept(s, v)'
    BY <1>1, <1>2 DEF Kept
<1>4. \A s, v : Good(s, v) => Good(s, v)'
    BY <1>1, <1>3 DEF Good
<1>5. QED BY <1>1, <1>2, <1>3, <1>4 DEF Ok, Saves, Values, Backup, WordsFor

(* The file of a run past its write saves svc. *)
LEMMA LateSaves ==
    ASSUME DnsTypeOK, SettingInv, FileInv, rpc \in LatePcs
    PROVE  /\ svc \in Services /\ savedDNS \in Values /\ Kept(svc, savedDNS)
           /\ Good(svc, savedDNS) /\ backup = {Backup(savedDNS, svc)} /\ Saves(svc)
           /\ \A s \in Redirected : s = svc
<1>1. svc \in Services /\ Good(svc, savedDNS) /\ backup = {Backup(savedDNS, svc)}
    BY DEF FileInv, DnsTypeOK
<1>2. savedDNS \in Values /\ Kept(svc, savedDNS)
    BY <1>1, KeptTyped DEF Good
<1>3. Saves(svc)
    BY <1>1, <1>2 DEF Saves
<1>4. \A s \in Redirected : s = svc
    BY <1>1, <1>2, SavesOne DEF SettingInv, Redirected
<1>5. QED BY <1>1, <1>2, <1>3, <1>4

(***************************************************************************)
(* What a start puts back from the file, and what Undo and cleanup restore *)
(* without an accident, is kept of the setting of the service it is for.   *)
(***************************************************************************)
LEMMA PutBackRestores ==
    ASSUME DnsTypeOK, OrphanInv, FileInv, HeldInv, PutBack
    PROVE  \/ UNCHANGED <<setting, orphaned>>
           \/ \E s \in Services, v \in Values :
                 /\ Kept(s, v)
                 /\ setting' = [setting EXCEPT ![s] = v]
                 /\ orphaned' = {t \in orphaned : setting'[t] = <<Loopback>>}
<1>1. SUFFICES ASSUME ~(UNCHANGED <<setting, orphaned>>)
               PROVE  \E s \in Services, v \in Values :
                         /\ Kept(s, v)
                         /\ setting' = [setting EXCEPT ![s] = v]
                         /\ orphaned' = {t \in orphaned : setting'[t] = <<Loopback>>}
    OBVIOUS
<1> DEFINE commands == UNION {PutBackCommand(c) : c \in held["run"]}
<1>2. PICK a \in commands, ok \in BOOLEAN : Command(a[1], a[2], ok)
    BY <1>1 DEF PutBack
<1>3. rpc = "putBack" /\ held["run"] = backup
    BY DEF PutBack, HeldInv
<1>4. PICK c \in backup : a \in PutBackCommand(c)
    BY <1>3
<1>5. PICK s \in Services, v \in Values : Good(s, v) /\ backup = {Backup(v, s)}
    BY <1>3, <1>4 DEF FileInv, Saves, NoFile, EarlyPcs
<1>6. c = Backup(v, s)
    BY <1>5
<1>7. CASE platform = "darwin"
    <2>1. Command(svc, c, ok)
        BY <1>2, <1>4, <1>7 DEF PutBackCommand
    <2>2. ~ValidWords(svc, c)
        BY <1>6, BackupFacts DEF ValidWords
    <2>3. setting' = setting
        BY <2>1, <2>2 DEF Command
    <2>4. orphaned' = {t \in orphaned : setting[t] = <<Loopback>>}
        BY <2>1, <2>3 DEF Command
    <2>5. orphaned' = orphaned
        BY <2>4 DEF OrphanInv, Redirected
    <2>6. QED BY <1>1, <2>3, <2>5
<1>8. CASE platform # "darwin"
    <2>1. a = <<c[2], <<c[1]>>>>
        BY <1>4, <1>8 DEF PutBackCommand
    <2>2. Len(v) <= 1 /\ Kept(s, v)
        BY <1>5, <1>8 DEF Good, DnsTypeOK
    <2>3. c[2] = s /\ <<c[1]>> = WordsFor(v)
        BY <1>6, <2>2, BackupFacts DEF Prev
    <2>4. Command(s, WordsFor(v), ok)
        BY <1>2, <2>1, <2>3
    <2>5. /\ setting' = IF ok THEN [setting EXCEPT ![s] = v] ELSE setting
          /\ orphaned' = {t \in orphaned : setting'[t] = <<Loopback>>}
        BY <2>4, CommandSets
    <2>6. CASE ok
        BY <2>2, <2>5, <2>6
    <2>7. CASE ~ok
        <3>1. setting' = setting
            BY <2>5, <2>7
        <3>2. orphaned' = orphaned
            BY <2>5, <3>1 DEF OrphanInv, Redirected
        <3>3. QED BY <1>1, <3>1, <3>2
    <2>8. QED BY <2>6, <2>7
<1>9. QED BY <1>7, <1>8

LEMMA UndoRestores ==
    ASSUME DnsTypeOK, SettingInv, FileInv, HeldInv, Undo, Ok'
    PROVE  /\ rpc' = "remove"
           /\ setting' = [setting EXCEPT ![svc] = savedDNS]
           /\ orphaned' = {t \in orphaned : setting'[t] = <<Loopback>>}
<1>1. rpc = "undo"
    BY DEF Undo
<1>2. /\ svc \in Services /\ savedDNS \in Values /\ Good(svc, savedDNS)
      /\ backup = {Backup(savedDNS, svc)}
    BY <1>1, LateSaves DEF LatePcs
<1>3. platform = "windows" => held["run"] = backup
    BY <1>1 DEF HeldInv
<1>4. rpc' = "remove"
    BY <1>2, <1>3 DEF Undo, NoFile
<1>5. PICK ok \in BOOLEAN : CommandRestored(ok) /\ accidents' = accidents \cup Accident(~ok, "unset")
    BY DEF Undo
<1>6. ok
    BY <1>5 DEF Ok, Accident
<1>7. Command(svc, WordsFor(savedDNS), TRUE)
    <2>1. CASE platform = "darwin"
        BY <1>5, <1>6, <2>1 DEF CommandRestored
    <2>2. CASE platform = "windows"
        <3> DEFINE c == Backup(savedDNS, svc)
        <3>1. Len(savedDNS) <= 1
            BY <1>2, <2>2 DEF Good
        <3>2. Len(c) >= 2 /\ c[2] = svc /\ <<Prev(c)>> = WordsFor(savedDNS)
            BY <1>2, <3>1, BackupFacts
        <3>3. Service(c, svc) = svc
            BY <3>2 DEF Service
        <3>4. held["run"] = {c} /\ held["run"] # NoFile
            BY <1>2, <1>3, <2>2 DEF NoFile
        <3>5. Command(Service(c, svc), <<Prev(c)>>, ok)
            BY <1>5, <2>2, <3>4 DEF CommandRestored
        <3>6. QED BY <1>6, <3>2, <3>3, <3>5
    <2>3. QED BY <2>1, <2>2 DEF DnsTypeOK
<1>8. QED BY <1>2, <1>4, <1>7, CommandSets

LEMMA CleanUndoRestores ==
    ASSUME DnsTypeOK, FileInv, HeldInv, CleanUndo, Ok'
    PROVE  \E s \in Services, v \in Values :
              /\ Kept(s, v) /\ backup = {Backup(v, s)}
              /\ setting' = [setting EXCEPT ![s] = v]
              /\ orphaned' = {t \in orphaned : setting'[t] = <<Loopback>>}
<1>1. rpc = "down" /\ held["cleanup"] = backup /\ backup # NoFile
    BY DEF CleanUndo, HeldInv
<1>2. PICK s \in Services, v \in Values : Good(s, v) /\ backup = {Backup(v, s)}
    BY <1>1 DEF FileInv, Saves, EarlyPcs
<1> DEFINE c == Backup(v, s)
<1>3. PICK d \in held["cleanup"], ok \in BOOLEAN :
          /\ Command(Service(d, DefaultService), <<Prev(d)>>, ok)
          /\ accidents' = accidents \cup Overlapping(TRUE) \cup Accident(~ok, "unset")
                      \cup Accident(~ValidWords(Service(d, DefaultService), <<Prev(d)>>), "misread")
    BY DEF CleanUndo
<1>4. d = c
    BY <1>1, <1>2
<1>5. ok /\ ValidWords(Service(c, DefaultService), <<Prev(c)>>)
    BY <1>3, <1>4 DEF Ok, Accident
<1>6. Service(c, DefaultService) = c[2]
    BY <1>2, BackupFacts DEF Service
<1>7. c[2] = s /\ <<Prev(c)>> = WordsFor(v)
    BY <1>2, <1>5, <1>6, BackupFacts DEF ValidWords
<1>8. Command(s, WordsFor(v), ok) /\ ok
    BY <1>3, <1>4, <1>5, <1>6, <1>7
<1>9. /\ setting' = [setting EXCEPT ![s] = v]
      /\ orphaned' = {t \in orphaned : setting'[t] = <<Loopback>>}
    BY <1>8, CommandSets
<1>10. QED BY <1>2, <1>9 DEF Good

(* Wi-Fi is not redirected when there is no file. *)
LEMMA FallbackRests ==
    ASSUME DnsTypeOK, SettingInv, CleanFallback, Ok'
    PROVE  UNCHANGED <<setting, orphaned>>
<1>1. {"unset", "overlap"} \cap accidents' = {}
    BY DEF Ok
<1>2. CASE setting[DefaultService] = <<Loopback>>
    <2>1. Saves(DefaultService)
        BY <1>2, WordsAssumption DEF SettingInv, Redirected
    <2>2. backup # NoFile
        BY <2>1 DEF Saves, NoFile
    <2>3. QED BY <1>1, <1>2, <2>2 DEF CleanFallback, Accident
<1>3. CASE setting[DefaultService] # <<Loopback>>
    BY <1>3 DEF CleanFallback
<1>4. QED BY <1>2, <1>3

-----------------------------------------------------------------------------
(***************************************************************************)
(* Without an accident, each step keeps what RestoreInv says.              *)
(***************************************************************************)
LEMMA RestoreStep ==
    DnsTypeOK /\ OrphanInv /\ RestoreInv /\ [DnsNext]_dnsVars => RestoreInv'
<1> SUFFICES ASSUME DnsTypeOK, OrphanInv, Ok, Ok', SettingInv, FileInv, HeldInv, [DnsNext]_dnsVars
             PROVE  SettingInv' /\ FileInv' /\ HeldInv'
    BY KeptStays DEF RestoreInv
<1>a. /\ UNCHANGED <<own, platform>>
      /\ \A s, v : Kept(s, v) => Kept(s, v)'
      /\ \A s, v : Good(s, v) => Good(s, v)'
      /\ UNCHANGED backup => \A s : Saves(s) => Saves(s)'
      /\ UNCHANGED setting => Redirected' = Redirected
      /\ Redirected \subseteq Services
    BY KeptStays DEF Redirected
<1>b. rpc # "down" => cpc \notin {"undo", "remove"}
    BY DEF HeldInv
<1>c. "unsaved" \notin accidents'
    BY DEF Ok
<1> USE DEF hostVars, runVars, EarlyPcs, LatePcs, Accident
<1>1. CASE Listen \/ Detect
    <2>1. UNCHANGED <<setting, backup, held, savedDNS, orphaned, cpc>>
        BY <1>1 DEF Listen, Detect
    <2>2. rpc \in {"down", "detect"} /\ rpc' \in {"detect", "readBack", "unlisten"}
        BY <1>1 DEF Listen, Detect
    <2>3. cpc \notin {"undo", "remove"}
        BY <1>1, <1>b DEF Listen, Detect, Ok
    <2>4. SettingInv'
        BY <1>a, <2>1, <2>2, <2>3 DEF SettingInv
    <2>5. FileInv'
        BY <1>a, <2>1, <2>2 DEF FileInv
    <2>6. HeldInv'
        BY <2>1, <2>2, <2>3 DEF HeldInv
    <2>7. QED BY <2>4, <2>5, <2>6
<1>2. CASE ReadBack \/ Reread
    <2>1. UNCHANGED <<setting, backup, svc, savedDNS, orphaned, cpc>>
        BY <1>2 DEF ReadBack, Reread
    <2>2. /\ cpc \notin {"undo", "remove"}
          /\ \/ rpc = "readBack" /\ rpc' = "putBack"
             \/ rpc = "reread" /\ rpc' = "undo"
        BY <1>2, <1>b DEF ReadBack, Reread
    <2>3. held'["run"] = backup
        <3>1. ReadBackup("run")
            BY <1>2 DEF ReadBack, Reread
        <3>2. QED BY <3>1, HeldTyped
    <2>4. SettingInv'
        BY <1>a, <2>1, <2>2 DEF SettingInv
    <2>5. FileInv'
        BY <1>a, <2>1, <2>2 DEF FileInv
    <2>6. HeldInv'
        BY <2>1, <2>2, <2>3 DEF HeldInv
    <2>7. QED BY <2>4, <2>5, <2>6
<1>3. CASE PutBack
    <2>1. /\ UNCHANGED <<backup, svc, savedDNS, cpc>> /\ rpc = "putBack" /\ rpc' = "get"
          /\ cpc \notin {"undo", "remove"} /\ held["run"] = backup
        BY <1>3, <1>b DEF PutBack, HeldInv
    <2>2. \/ UNCHANGED <<setting, orphaned>>
          \/ \E s \in Services, v \in Values :
                /\ Kept(s, v)
                /\ setting' = [setting EXCEPT ![s] = v]
                /\ orphaned' = {t \in orphaned : setting'[t] = <<Loopback>>}
        BY <1>3, PutBackRestores
    <2>3. /\ \A s \in Services : setting'[s] = <<Loopback>> \/ Kept(s, setting'[s])
          /\ Redirected' \subseteq Redirected /\ Redirected' \subseteq orphaned'
        <3>1. CASE UNCHANGED <<setting, orphaned>>
            BY <1>a, <2>1, <3>1 DEF SettingInv
        <3>2. CASE ~(UNCHANGED <<setting, orphaned>>)
            <4>1. PICK s \in Services, v \in Values :
                      /\ Kept(s, v)
                      /\ setting' = [setting EXCEPT ![s] = v]
                      /\ orphaned' = {t \in orphaned : setting'[t] = <<Loopback>>}
                BY <2>2, <3>2
            <4>2. /\ Redirected' = Redirected \ {s} /\ orphaned' = orphaned \ {s}
                  /\ setting'[s] = v
                  /\ \A t \in Services \ {s} : setting'[t] = setting[t]
                BY <4>1, RestoreKept
            <4>3. Redirected \subseteq orphaned
                BY <2>1 DEF SettingInv
            <4>4. QED BY <4>1, <4>2, <4>3 DEF SettingInv
        <3>3. QED BY <3>1, <3>2
    <2>4. SettingInv'
        BY <1>a, <2>1, <2>3 DEF SettingInv
    <2>5. FileInv'
        BY <1>a, <2>1 DEF FileInv
    <2>6. HeldInv'
        BY <2>1 DEF HeldInv
    <2>7. QED BY <2>4, <2>5, <2>6
<1>4. CASE Get \/ GetCurrent
    <2>1. /\ UNCHANGED <<setting, backup, svc, held, orphaned, cpc>>
          /\ rpc = "get" /\ rpc' = "truncate" /\ cpc \notin {"undo", "remove"}
        BY <1>4, <1>b DEF Get, GetCurrent, Ok
    <2>2. ASSUME Redirected = {} PROVE Good(svc, savedDNS)'
        <3>1. svc \in Services /\ setting[svc] # <<Loopback>> /\ Kept(svc, setting[svc])
            BY <2>2 DEF DnsTypeOK, SettingInv, Redirected
        <3>2. CASE Get
            <4>1. savedDNS' = setting[svc] /\ platform = "darwin"
                BY <1>4, <3>2 DEF Get, Ok
            <4>2. QED BY <1>a, <2>1, <3>1, <4>1 DEF Good
        <3>3. CASE GetCurrent
            <4>1. /\ savedDNS' \in getCurrentDNS(svc)
                  /\ savedDNS' # setting[svc] => "narrowed" \in accidents'
                BY <3>3 DEF GetCurrent
            <4>2. \/ savedDNS' \in {<<>>, <<Lease>>}
                  \/ setting[svc] # <<>> /\ savedDNS' = <<setting[svc][1]>>
                BY <3>1, <4>1 DEF getCurrentDNS
            <4>3. \A x : Len(<<x>>) = 1 /\ <<x>>[1] = x
                OBVIOUS
            <4>4. Len(savedDNS') <= 1
                <5>1. CASE savedDNS' = <<>>
                    BY <5>1
                <5>2. CASE \E x : savedDNS' = <<x>>
                    BY <4>3, <5>2
                <5>3. QED BY <4>2, <5>1, <5>2
            <4>5. Kept(svc, savedDNS)'
                <5>1. CASE savedDNS' = setting[svc]
                    BY <1>a, <2>1, <3>1, <5>1
                <5>2. CASE savedDNS' \in {<<>>, <<Lease>>} /\ savedDNS' # setting[svc]
                    BY <2>1, <4>1, <5>2 DEF Kept
                <5>3. CASE /\ setting[svc] # <<>> /\ savedDNS' = <<setting[svc][1]>>
                           /\ savedDNS' # setting[svc]
                    <6>1. setting[svc] = own[svc]
                        BY <3>1, <4>3, <5>3 DEF Kept
                    <6>2. QED BY <1>a, <2>1, <4>1, <5>3, <6>1 DEF Kept
                <5>4. QED BY <4>2, <5>1, <5>2, <5>3
            <4>6. QED BY <4>4, <4>5, <2>1 DEF Good
        <3>4. QED BY <1>4, <3>2, <3>3
    <2>3. SettingInv'
        BY <1>a, <2>1 DEF SettingInv
    <2>4. FileInv'
        BY <1>a, <2>1, <2>2 DEF FileInv
    <2>5. HeldInv'
        BY <2>1 DEF HeldInv
    <2>6. QED BY <2>3, <2>4, <2>5
<1>5. CASE TruncateBackup
    <2>1. /\ UNCHANGED <<setting, svc, savedDNS, held, orphaned, cpc>>
          /\ backup' = {<<>>} /\ rpc = "truncate" /\ rpc' = "write" /\ Redirected = {}
          /\ cpc \notin {"undo", "remove"}
        BY <1>5, <1>b DEF TruncateBackup, Ok
    <2>2. SettingInv'
        BY <1>a, <2>1 DEF SettingInv
    <2>3. FileInv'
        BY <1>a, <2>1 DEF FileInv
    <2>4. HeldInv'
        BY <2>1 DEF HeldInv
    <2>5. QED BY <2>2, <2>3, <2>4
<1>6. CASE WriteBackup
    <2>1. /\ UNCHANGED <<setting, svc, savedDNS, held, orphaned, cpc>>
          /\ backup' = {Backup(savedDNS, svc)} /\ rpc = "write" /\ rpc' = "point"
          /\ cpc \notin {"undo", "remove"}
        BY <1>6, <1>b DEF WriteBackup, Ok, Backup
    <2>2. SettingInv'
        BY <1>a, <2>1 DEF SettingInv
    <2>3. FileInv'
        BY <1>a, <2>1 DEF FileInv, Backup, WordsFor
    <2>4. HeldInv'
        BY <2>1 DEF HeldInv
    <2>5. QED BY <2>2, <2>3, <2>4
<1>7. CASE Point
    <2>1. /\ UNCHANGED <<backup, svc, savedDNS, held, cpc>> /\ svc \in Services
          /\ rpc = "point" /\ Redirected = {} /\ cpc \notin {"undo", "remove"}
        BY <1>7, <1>b DEF Point, SettingInv, DnsTypeOK
    <2>5. Saves(svc)
        BY <2>1, LateSaves
    <2>2. CASE rpc' = "unlisten"
        <3>1. UNCHANGED setting
            BY <1>7, <2>2 DEF Point
        <3>2. SettingInv'
            BY <1>a, <2>1, <2>2, <3>1 DEF SettingInv
        <3>3. FileInv'
            BY <1>a, <2>1, <2>2, LateSaves DEF FileInv
        <3>4. HeldInv'
            BY <2>1, <2>2 DEF HeldInv
        <3>5. QED BY <3>2, <3>3, <3>4
    <2>3. CASE rpc' # "unlisten"
        <3>1. rpc' = "route" /\ setting' = [setting EXCEPT ![svc] = <<Loopback>>]
            BY <1>7, <2>3 DEF Point
        <3>2. /\ Redirected' \subseteq {svc}
              /\ \A s \in Services : setting'[s] = <<Loopback>> \/ Kept(s, setting'[s])
            BY <2>1, <3>1 DEF SettingInv, Redirected, DnsTypeOK
        <3>3. SettingInv'
            BY <1>a, <2>1, <2>5, <3>1, <3>2 DEF SettingInv
        <3>4. FileInv'
            BY <1>a, <2>1, <3>1 DEF FileInv, Backup, WordsFor
        <3>5. HeldInv'
            BY <2>1, <3>1 DEF HeldInv
        <3>6. QED BY <3>3, <3>4, <3>5
    <2>4. QED BY <2>2, <2>3
<1>8. CASE MgrStartTun \/ MgrStopTun
    <2>1. /\ UNCHANGED <<setting, backup, svc, savedDNS, held, orphaned, cpc>>
          /\ rpc \in {"route", "up"} /\ rpc' \in {"up", "undo", "reread"}
          /\ rpc' = "undo" => platform = "darwin"
          /\ cpc \notin {"undo", "remove"}
        BY <1>8, <1>b DEF MgrStartTun, MgrStopTun, Restoring
    <2>2. SettingInv'
        BY <1>a, <2>1 DEF SettingInv
    <2>3. FileInv'
        BY <1>a, <2>1 DEF FileInv, Backup, WordsFor
    <2>4. HeldInv'
        BY <1>a, <2>1, WordsAssumption DEF HeldInv
    <2>5. QED BY <2>2, <2>3, <2>4
<1>9. CASE Undo
    <2>1. /\ UNCHANGED <<backup, svc, savedDNS, cpc>> /\ rpc = "undo" /\ svc \in Services
          /\ cpc \notin {"undo", "remove"}
        BY <1>9, <1>b DEF Undo, DnsTypeOK
    <2>2. /\ savedDNS \in Values /\ Kept(svc, savedDNS) /\ Good(svc, savedDNS)
          /\ backup = {Backup(savedDNS, svc)} /\ \A s \in Redirected : s = svc
        BY <2>1, LateSaves
    <2>3. /\ rpc' = "remove"
          /\ setting' = [setting EXCEPT ![svc] = savedDNS]
          /\ orphaned' = {t \in orphaned : setting'[t] = <<Loopback>>}
        BY <1>9, UndoRestores
    <2>4. /\ Redirected' = {}
          /\ \A s \in Services : setting'[s] = <<Loopback>> \/ Kept(s, setting'[s])
        <3>1. Redirected' = Redirected \ {svc} /\ setting'[svc] = savedDNS
              /\ \A t \in Services \ {svc} : setting'[t] = setting[t]
            BY <2>1, <2>2, <2>3, RestoreKept
        <3>2. QED BY <2>1, <2>2, <3>1 DEF SettingInv
    <2>5. SettingInv'
        BY <1>a, <2>1, <2>3, <2>4 DEF SettingInv
    <2>6. FileInv'
        BY <1>a, <2>1, <2>2, <2>3 DEF FileInv, Backup, WordsFor
    <2>7. HeldInv'
        BY <2>1, <2>3 DEF HeldInv
    <2>8. QED BY <2>5, <2>6, <2>7
<1>10. CASE RemoveBackup
    <2>1. /\ UNCHANGED <<setting, svc, savedDNS, held, orphaned, cpc>>
          /\ backup' = NoFile /\ rpc = "remove" /\ rpc' = "unlisten" /\ Redirected = {}
          /\ cpc \notin {"undo", "remove"}
        BY <1>10, <1>b DEF RemoveBackup, SettingInv
    <2>2. SettingInv'
        BY <1>a, <2>1 DEF SettingInv
    <2>3. FileInv'
        BY <2>1 DEF FileInv
    <2>4. HeldInv'
        BY <2>1 DEF HeldInv
    <2>5. QED BY <2>2, <2>3, <2>4
<1>11. CASE Unlisten \/ Crash
    <2>1. /\ UNCHANGED <<setting, backup, cpc>> /\ rpc' = "down" /\ rpc # "down" /\ rpc # "write"
          /\ cpc \notin {"undo", "remove"}
        <3>1. CASE Unlisten
            BY <1>b, <3>1 DEF Unlisten
        <3>2. CASE Crash
            <4>1. rpc = "write" => "unsaved" \in accidents'
                BY <3>2 DEF Crash
            <4>2. UNCHANGED <<setting, backup, cpc>> /\ rpc' = "down" /\ rpc # "down"
                BY <3>2 DEF Crash
            <4>3. QED BY <1>b, <1>c, <4>1, <4>2
        <3>3. QED BY <1>11, <3>1, <3>2
    <2>2. Redirected \subseteq orphaned'
        BY <1>11 DEF Unlisten, Crash, SettingInv
    <2>3. backup = NoFile \/ \E s \in Services : Saves(s)
        <3>1. rpc \in EarlyPcs \cup LatePcs
            BY <2>1 DEF DnsTypeOK, DnsPcs, SetDnsPcs, StopDnsPcs
        <3>2. CASE rpc \in EarlyPcs
            BY <3>2 DEF FileInv
        <3>3. CASE rpc \in LatePcs
            BY <3>3, LateSaves
        <3>4. QED BY <3>1, <3>2, <3>3
    <2>4. cpc # "remove"
        BY <2>1
    <2>5. SettingInv'
        BY <1>a, <2>1, <2>2 DEF SettingInv
    <2>6. FileInv'
        BY <1>a, <2>1, <2>3 DEF FileInv
    <2>7. HeldInv'
        BY <2>1 DEF HeldInv
    <2>8. QED BY <2>5, <2>6, <2>7
<1>12. CASE CleanupStarts \/ CleanRoutes \/ Move \/ UNCHANGED dnsVars
    <2>1. /\ UNCHANGED <<setting, backup, svc, savedDNS, held, orphaned, rpc>>
          /\ cpc' = cpc \/ cpc' \in {"routes", "read"}
        BY <1>12 DEF CleanupStarts, CleanRoutes, Move, dnsVars
    <2>2. SettingInv'
        BY <1>a, <2>1 DEF SettingInv
    <2>3. FileInv'
        BY <1>a, <2>1 DEF FileInv, Backup, WordsFor
    <2>4. HeldInv'
        BY <1>a, <2>1 DEF HeldInv
    <2>5. QED BY <2>2, <2>3, <2>4
<1>13. CASE CleanReadBackup
    <2>1. /\ UNCHANGED <<setting, backup, svc, savedDNS, orphaned, rpc>>
          /\ cpc' \in {"undo", "fallback", "idle"} /\ ReadBackup("cleanup")
          /\ cpc' = "undo" => backup # NoFile /\ rpc = "down"
        BY <1>13 DEF CleanReadBackup, Overlapping, Ok
    <2>2. held'["cleanup"] = backup /\ held'["run"] = held["run"]
        BY <2>1, HeldTyped
    <2>3. SettingInv'
        BY <1>a, <2>1 DEF SettingInv
    <2>4. FileInv'
        BY <1>a, <2>1 DEF FileInv, Backup, WordsFor
    <2>5. HeldInv'
        BY <1>a, <2>1, <2>2 DEF HeldInv
    <2>6. QED BY <2>3, <2>4, <2>5
<1>14. CASE CleanUndo
    <2>1. /\ UNCHANGED <<backup, svc, savedDNS, held, rpc>> /\ cpc = "undo" /\ cpc' = "remove"
          /\ rpc = "down" /\ held["cleanup"] = backup /\ backup # NoFile
        BY <1>14 DEF CleanUndo, HeldInv
    <2>2. PICK s \in Services, v \in Values :
              /\ Kept(s, v) /\ backup = {Backup(v, s)}
              /\ setting' = [setting EXCEPT ![s] = v]
              /\ orphaned' = {t \in orphaned : setting'[t] = <<Loopback>>}
        BY <1>14, CleanUndoRestores
    <2>3. /\ Redirected' = Redirected \ {s} /\ setting'[s] = v
          /\ \A t \in Services \ {s} : setting'[t] = setting[t]
        BY <2>2, RestoreKept
    <2>4. /\ Redirected' = {}
          /\ \A t \in Services : setting'[t] = <<Loopback>> \/ Kept(t, setting'[t])
        <3>1. \A t \in Redirected : t = s
            BY <1>a, <2>2, SavesOne DEF SettingInv
        <3>2. QED BY <2>2, <2>3, <3>1 DEF SettingInv
    <2>5. SettingInv'
        BY <1>a, <2>1, <2>4 DEF SettingInv
    <2>6. FileInv'
        BY <1>a, <2>1 DEF FileInv
    <2>7. HeldInv'
        BY <2>1 DEF HeldInv
    <2>8. QED BY <2>5, <2>6, <2>7
<1>15. CASE CleanRemove
    <2>1. /\ UNCHANGED <<setting, svc, savedDNS, orphaned, rpc>> /\ DropHeld("cleanup")
          /\ backup' = NoFile /\ cpc = "remove" /\ cpc' \in {"fallback", "idle"}
          /\ Redirected = {} /\ rpc = "down"
        BY <1>15 DEF CleanRemove, SettingInv, HeldInv
    <2>2. SettingInv'
        BY <1>a, <2>1 DEF SettingInv
    <2>3. FileInv'
        BY <2>1 DEF FileInv
    <2>4. HeldInv'
        BY <2>1 DEF HeldInv
    <2>5. QED BY <2>2, <2>3, <2>4
<1>16. CASE CleanFallback
    <2>1. /\ UNCHANGED <<backup, svc, savedDNS, held, rpc>> /\ cpc' = "idle"
        BY <1>16 DEF CleanFallback
    <2>2. UNCHANGED <<setting, orphaned>>
        BY <1>16, FallbackRests
    <2>3. SettingInv'
        BY <1>a, <2>1, <2>2 DEF SettingInv
    <2>4. FileInv'
        BY <1>a, <2>1, <2>2 DEF FileInv, Backup, WordsFor
    <2>5. HeldInv'
        BY <1>a, <2>1 DEF HeldInv
    <2>6. QED BY <2>3, <2>4, <2>5
<1>17. CASE CleanDies
    <2>1. /\ UNCHANGED <<setting, backup, svc, savedDNS, orphaned, rpc>> /\ DropHeld("cleanup")
          /\ cpc' = "idle"
        BY <1>17 DEF CleanDies
    <2>2. held'["run"] = held["run"]
        BY <2>1, HeldTyped
    <2>3. SettingInv'
        BY <1>a, <2>1 DEF SettingInv
    <2>4. FileInv'
        BY <1>a, <2>1 DEF FileInv, Backup, WordsFor
    <2>5. HeldInv'
        BY <1>a, <2>1, <2>2 DEF HeldInv
    <2>6. QED BY <2>3, <2>4, <2>5
<1>18. QED
    BY <1>1, <1>2, <1>3, <1>4, <1>5, <1>6, <1>7, <1>8, <1>9, <1>10, <1>11, <1>12, <1>13,
       <1>14, <1>15, <1>16, <1>17
    DEF DnsNext, Run, Cleanup

LEMMA InitRestore == DnsInit => RestoreInv /\ Redirected = {}
<1> SUFFICES ASSUME DnsInit PROVE RestoreInv /\ Redirected = {}
    OBVIOUS
<1>1. DnsTypeOK
    BY InitTyped
<1>2. \A s \in Services : Kept(s, setting[s])
    BY DEF DnsInit, Kept
<1>3. \A s \in Services : setting[s] # <<Loopback>>
    BY <1>1, <1>2, KeptTyped, ValuesTyped
<1>4. Redirected = {}
    BY <1>3 DEF Redirected
<1>5. QED
    BY <1>2, <1>4
    DEF DnsInit, RestoreInv, SettingInv, FileInv, HeldInv, EarlyPcs, LatePcs

LEMMA RestoreAlways == DnsSpec => [](DnsTypeOK /\ OrphanInv /\ RestoreInv)
<1> DEFINE IInv == DnsTypeOK /\ OrphanInv /\ RestoreInv
<1>1. DnsInit => IInv
    BY InitTyped, InitRestore
<1>2. IInv /\ [DnsNext]_dnsVars => IInv'
    BY Typing, RestoreStep
<1>3. QED BY <1>1, <1>2, PTL DEF DnsSpec

(***************************************************************************)
(* The host has its own settings back when neither a run nor a file is     *)
(* left and no accident has happened, for any services and settings.       *)
(***************************************************************************)
THEOREM HostRestoredAlways == DnsSpec => []HostRestored
<1>1. DnsTypeOK /\ OrphanInv /\ RestoreInv => HostRestored
    <2> SUFFICES ASSUME DnsTypeOK, SettingInv, backup = NoFile, Ok, NEW s \in Services
                 PROVE  Kept(s, setting[s])
        BY DEF HostRestored, RestoreInv, Kept, Ok
    <2>1. ~Saves(s)
        BY DEF Saves, NoFile
    <2>2. setting[s] # <<Loopback>>
        BY <2>1 DEF SettingInv, Redirected
    <2>3. QED BY <2>2 DEF SettingInv
<1>2. QED BY <1>1, RestoreAlways, PTL

-----------------------------------------------------------------------------
(***************************************************************************)
(* DnsRedirection.  What its `saved` stands for is what Saves says.        *)
(***************************************************************************)
SavedServices == {s \in Services : SavesSetting(s)}

(* The file is empty, or it saves a service. *)
LEMMA FileCases ==
    ASSUME DnsTypeOK, FileInv
    PROVE  backup = NoFile \/ backup = {<<>>} \/ \E s \in Services : Saves(s)
<1>1. rpc \in EarlyPcs \cup LatePcs \cup {"write"}
    BY DEF DnsTypeOK, DnsPcs, SetDnsPcs, StopDnsPcs, EarlyPcs, LatePcs
<1>2. CASE rpc \in LatePcs
    <2>1. svc \in Services /\ Good(svc, savedDNS) /\ backup = {Backup(savedDNS, svc)}
        BY <1>2 DEF FileInv, DnsTypeOK
    <2>2. savedDNS \in Values
        BY <2>1, KeptTyped DEF Good
    <2>3. QED BY <2>1, <2>2 DEF Saves
<1>3. QED BY <1>1, <1>2 DEF FileInv

LEMMA SavedIsSaves ==
    DnsTypeOK /\ Ok /\ FileInv => SavedServices = {s \in Services : Saves(s)}
<1> SUFFICES ASSUME DnsTypeOK, Ok, FileInv, NEW t \in Services
             PROVE  SavesSetting(t) <=> Saves(t)
    BY DEF SavedServices
<1>1. CASE backup = NoFile \/ backup = {<<>>}
    <2>1. ~SavesSetting(t)
        BY <1>1 DEF SavesSetting, NoFile
    <2>2. ~Saves(t)
        BY <1>1, BackupFacts DEF Saves, NoFile
    <2>3. QED BY <2>1, <2>2
<1>2. CASE \E s \in Services, v \in Values : Good(s, v) /\ backup = {Backup(v, s)}
    <2>1. PICK s \in Services, v \in Values : Good(s, v) /\ backup = {Backup(v, s)}
        BY <1>2
    <2> DEFINE c == Backup(v, s)
    <2>2. /\ Len(c) >= 2 /\ c[Len(c)] = s /\ SubSeq(c, 1, Len(c) - 1) = WordsFor(v)
          /\ Prev(c) = WordsFor(v)[1]
        BY BackupFacts
    <2>3. Saves(s)
        BY <2>1 DEF Saves
    <2>4. SavesSetting(s)
        <3> HIDE DEF c
        <3>1. backup = {c}
            BY <2>1 DEF c
        <3>2. CASE v = own[s]
            BY <2>2, <3>1, <3>2 DEF SavesSetting
        <3>3. CASE v # own[s]
            <4>1. "narrowed" \in accidents
                BY <2>1, <3>3 DEF Good, Kept
            <4>2. \A x : <<x>>[1] = x /\ <<x>> # <<>>
                OBVIOUS
            <4>3. WordsFor(v)[1] \in {Dhcp, Lease, WordsFor(own[s])[1]}
                BY <2>1, <3>3, <4>2 DEF Good, Kept, WordsFor
            <4>4. QED BY <2>2, <3>1, <4>1, <4>3 DEF SavesSetting
        <3>4. QED BY <3>2, <3>3
    <2>5. SavesSetting(t) => t = s
        BY <2>1, <2>2 DEF SavesSetting
    <2>6. Saves(t) => t = s
        BY <2>1, SavesOne
    <2>7. QED BY <2>3, <2>4, <2>5, <2>6
<1>3. backup = NoFile \/ backup = {<<>>} \/ \E s \in Services : Saves(s)
    BY FileCases
<1>4. QED BY <1>1, <1>2, <1>3 DEF Saves

LEMMA SavedIsSavesNext ==
    (DnsTypeOK /\ Ok /\ FileInv)' => SavedServices' = {s \in Services : Saves(s)'}
<1>1. (DnsTypeOK /\ Ok /\ FileInv => SavedServices = {s \in Services : Saves(s)})'
    BY SavedIsSaves, PTL
<1>2. QED BY <1>1

(* The steps of DnsRedirection as this module sees them. *)
Serving == rpc # "down"
Same == UNCHANGED <<Redirected, SavedServices, orphaned>>
Undoes(s) == Redirected' = Redirected \ {s} /\ orphaned' = orphaned \ {s}

Fits ==
    \/ (Serving' <=> Serving) /\ Same
    \/ ~Serving /\ Serving' /\ Same
    \/ /\ Serving' <=> Serving
       /\ UNCHANGED <<Redirected, orphaned>> /\ Redirected \subseteq SavedServices'
    \/ /\ Serving /\ Serving' /\ UNCHANGED SavedServices
       /\ \E s \in SavedServices :
             Redirected' = Redirected \cup {s} /\ orphaned' = orphaned \ {s}
    \/ /\ Serving' <=> Serving
       /\ UNCHANGED SavedServices /\ \E s \in Services : Undoes(s)
    \/ Serving /\ ~Serving' /\ Redirected \subseteq orphaned /\ Same
    \/ /\ Serving /\ ~Serving' /\ UNCHANGED <<Redirected, SavedServices>>
       /\ orphaned' = Redirected

LEMMA PromiseSteps ==
    ASSUME Ok, Ok', Fits
    PROVE  [DnsPromise!Next]_(DnsPromise!vars)
<1> DEFINE saved == {s \in Services : SavesSetting(s)}
           intact == accidents \subseteq {"narrowed", "beside"}
<1>1. intact /\ intact' = TRUE
    BY DEF Ok
<1>2. /\ saved = SavedServices /\ saved' = SavedServices' /\ saved' \subseteq Services
      /\ SavedServices \subseteq Services
    BY DEF SavedServices
<1>3. QED
    BY <1>1, <1>2
    DEF Fits, Same, Undoes, Serving, DnsPromise!Next, DnsPromise!vars, DnsPromise!Promised,
        DnsPromise!Serve, DnsPromise!Save, DnsPromise!Redirect, DnsPromise!Undo, DnsPromise!Unserve,
        DnsPromise!Die, SavedServices, Ok

(* What is saved stays so as long as the file does. *)
LEMMA SavedStays ==
    ASSUME DnsTypeOK, Ok, FileInv, (DnsTypeOK /\ Ok /\ FileInv)', [DnsNext]_dnsVars, UNCHANGED backup
    PROVE  SavedServices' = SavedServices
<1>1. /\ SavedServices = {s \in Services : Saves(s)}
      /\ SavedServices' = {s \in Services : Saves(s)'}
    BY SavedIsSaves, SavedIsSavesNext
<1>2. ASSUME NEW s \in Services, Saves(s) PROVE Saves(s)'
    BY <1>2, KeptStays
<1>3. ASSUME NEW s \in Services, Saves(s)' PROVE Saves(s)
    <2>1. PICK v \in Values : backup = {Backup(v, s)}
        BY <1>3 DEF Saves, Values, Backup, WordsFor
    <2>2. ~(backup = NoFile \/ backup = {<<>>})
        BY <2>1, BackupFacts DEF NoFile
    <2>3. PICK t \in Services : Saves(t)
        BY <2>2, FileCases
    <2>4. s = t
        BY <2>1, <2>3, SavesOne
    <2>5. QED BY <2>3, <2>4
<1>4. QED BY <1>1, <1>2, <1>3

LEMMA FitsStep ==
    ASSUME DnsTypeOK, OrphanInv, SettingInv, FileInv, HeldInv, Ok,
           (DnsTypeOK /\ SettingInv /\ FileInv /\ Ok)', [DnsNext]_dnsVars
    PROVE  Fits
<1>a. UNCHANGED backup => UNCHANGED SavedServices
    BY SavedStays
<1>b. UNCHANGED setting => UNCHANGED Redirected
    BY DEF Redirected
<1>c. UNCHANGED <<setting, orphaned, backup>> => Same
    BY <1>a, <1>b DEF Same
<1> USE DEF Serving, Accident
<1>1. CASE Listen
    BY <1>1, <1>c DEF Listen, Fits
<1>2. CASE \/ Detect \/ ReadBack \/ Get \/ GetCurrent \/ MgrStartTun \/ MgrStopTun \/ Reread
           \/ CleanupStarts \/ CleanRoutes \/ CleanReadBackup \/ CleanDies \/ Move
           \/ UNCHANGED dnsVars
    <2>1. UNCHANGED <<setting, orphaned, backup>> /\ (Serving' <=> Serving)
        BY <1>2
        DEF Detect, ReadBack, Get, GetCurrent, MgrStartTun, MgrStopTun, Reread, Restoring,
            CleanupStarts, CleanRoutes, CleanReadBackup, CleanDies, Move, dnsVars
    <2>2. QED BY <2>1, <1>c DEF Fits
<1>3. ASSUME NEW s \in Services, NEW v \in Values,
             setting' = [setting EXCEPT ![s] = v],
             orphaned' = {t \in orphaned : setting'[t] = <<Loopback>>},
             UNCHANGED backup, Serving' <=> Serving
      PROVE  Fits
    <2>1. Undoes(s)
        BY <1>3, RestoreKept DEF Undoes
    <2>2. QED BY <1>a, <1>3, <2>1 DEF Fits
<1>4. CASE PutBack
    <2>1. UNCHANGED backup /\ (Serving' <=> Serving)
        BY <1>4 DEF PutBack
    <2>2. CASE UNCHANGED <<setting, orphaned>>
        BY <1>c, <2>1, <2>2 DEF Fits
    <2>3. CASE ~(UNCHANGED <<setting, orphaned>>)
        <3>1. PICK s \in Services, v \in Values :
                  /\ setting' = [setting EXCEPT ![s] = v]
                  /\ orphaned' = {t \in orphaned : setting'[t] = <<Loopback>>}
            BY <1>4, <2>3, PutBackRestores
        <3>2. QED BY <1>3, <2>1, <3>1
    <2>4. QED BY <2>2, <2>3
<1>5. CASE TruncateBackup \/ WriteBackup \/ RemoveBackup \/ CleanRemove
    <2>1. UNCHANGED <<setting, orphaned>> /\ (Serving' <=> Serving)
        BY <1>5 DEF TruncateBackup, WriteBackup, RemoveBackup, CleanRemove
    <2>2. Redirected = {}
        <3>1. CASE TruncateBackup
            BY <3>1 DEF TruncateBackup, Ok
        <3>2. CASE WriteBackup \/ RemoveBackup \/ CleanRemove
            BY <3>2 DEF WriteBackup, RemoveBackup, CleanRemove, SettingInv
        <3>3. QED BY <1>5, <3>1, <3>2
    <2>3. QED BY <1>b, <2>1, <2>2 DEF Fits
<1>6. CASE Point
    <2>1. rpc = "point" /\ UNCHANGED backup
        BY <1>6 DEF Point
    <2>2. CASE rpc' = "unlisten"
        BY <1>6, <1>c, <2>1, <2>2 DEF Point, Fits
    <2>3. CASE rpc' # "unlisten"
        <3>1. /\ rpc' = "route" /\ setting' = [setting EXCEPT ![svc] = <<Loopback>>]
              /\ orphaned' = orphaned \ {svc}
            BY <1>6, <2>3 DEF Point
        <3>2. svc \in Services /\ Saves(svc)
            BY <2>1, LateSaves DEF LatePcs
        <3>3. svc \in SavedServices
            BY <3>2, SavedIsSaves
        <3>4. Redirected' = Redirected \cup {svc}
            BY <3>1, <3>2 DEF Redirected, DnsTypeOK
        <3>5. QED BY <1>a, <2>1, <3>1, <3>3, <3>4 DEF Fits
    <2>4. QED BY <2>2, <2>3
<1>7. CASE Undo
    <2>1. rpc = "undo" /\ UNCHANGED backup /\ svc \in Services
        BY <1>7 DEF Undo, DnsTypeOK
    <2>2. savedDNS \in Values
        BY <2>1, LateSaves DEF LatePcs
    <2>3. /\ rpc' = "remove"
          /\ setting' = [setting EXCEPT ![svc] = savedDNS]
          /\ orphaned' = {t \in orphaned : setting'[t] = <<Loopback>>}
        BY <1>7, UndoRestores
    <2>4. QED BY <1>3, <2>1, <2>2, <2>3
<1>8. CASE CleanUndo
    <2>1. UNCHANGED <<backup, rpc>>
        BY <1>8 DEF CleanUndo
    <2>2. PICK s \in Services, v \in Values :
              /\ setting' = [setting EXCEPT ![s] = v]
              /\ orphaned' = {t \in orphaned : setting'[t] = <<Loopback>>}
        BY <1>8, CleanUndoRestores
    <2>3. QED BY <1>3, <2>1, <2>2
<1>9. CASE CleanFallback
    <2>1. UNCHANGED <<setting, orphaned>>
        BY <1>9, FallbackRests
    <2>2. UNCHANGED <<backup, rpc>>
        BY <1>9 DEF CleanFallback
    <2>3. QED BY <1>c, <2>1, <2>2 DEF Fits
<1>10. CASE Unlisten
    <2>1. /\ UNCHANGED <<setting, orphaned, backup>> /\ Serving /\ ~Serving'
          /\ Redirected \subseteq orphaned
        BY <1>10 DEF Unlisten, SettingInv, EarlyPcs
    <2>2. QED BY <1>c, <2>1 DEF Fits
<1>11. CASE Crash
    <2>1. /\ UNCHANGED <<setting, backup>> /\ Serving /\ ~Serving'
          /\ orphaned' = Redirected
        BY <1>11 DEF Crash
    <2>2. QED BY <1>a, <1>b, <2>1 DEF Fits
<1>12. QED
    BY <1>1, <1>2, <1>4, <1>5, <1>6, <1>7, <1>8, <1>9, <1>10, <1>11 DEF DnsNext, Run, Cleanup

(***************************************************************************)
(* SetSystemDNS, RestoreSystemDNS, crashes and cleanups on any number of   *)
(* services implement DnsRedirection: a setting is redirected only while   *)
(* the server runs and once a file saves it, and the server goes before    *)
(* the redirection is undone only if the process dies or there was an      *)
(* accident.                                                               *)
(***************************************************************************)
THEOREM PromiseKeptAlways == DnsSpec => DnsPromiseKept
<1> DEFINE IInv == DnsTypeOK /\ OrphanInv /\ RestoreInv
<1>1. DnsInit => DnsPromise!Init
    <2> SUFFICES ASSUME DnsInit PROVE DnsPromise!Init
        OBVIOUS
    <2>1. Redirected = {}
        BY InitRestore
    <2>2. QED BY <2>1 DEF DnsInit, DnsPromise!Init
<1>2. IInv /\ IInv' /\ [DnsNext]_dnsVars => [DnsPromise!Next]_(DnsPromise!vars)
    <2> SUFFICES ASSUME IInv, IInv', [DnsNext]_dnsVars
                 PROVE  [DnsPromise!Next]_(DnsPromise!vars)
        OBVIOUS
    <2>1. CASE Ok'
        <3>1. Ok
            BY <2>1, KeptStays
        <3>2. Fits
            BY <2>1, <3>1, FitsStep DEF RestoreInv
        <3>3. QED BY <2>1, <3>1, <3>2, PromiseSteps
    <2>2. CASE ~Ok'
        BY <2>2 DEF Ok, DnsPromise!Next
    <2>3. QED BY <2>1, <2>2
<1>3. QED BY <1>1, <1>2, RestoreAlways, PTL DEF DnsSpec, DnsPromiseKept, DnsPromise!Spec
=============================================================================
