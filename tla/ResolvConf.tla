------------------------------ MODULE ResolvConf ------------------------------
(***************************************************************************)
(* /etc/resolv.conf as pkg/dns/system_linux.go sees it, reduced to what    *)
(* decides where the host's lookups go and what gecit can put back:        *)
(*                                                                         *)
(*   marker   the "# gecit: ..." header line is present                    *)
(*   active   the servers of the "nameserver" lines                        *)
(*   saved    the servers of the "# gecit-saved: nameserver" lines         *)
(*   other    some line of another kind (search, options, comments)        *)
(*                                                                         *)
(* The order of the lines, which the code keeps, is modelled in            *)
(* ResolvConfLines, and shown there to commute with this reduction.        *)
(***************************************************************************)
EXTENDS FiniteSets

CONSTANTS
    Servers,    \* name server addresses
    Local,      \* 127.0.0.1, where gecit's own server listens
    Fallback    \* 8.8.8.8, written when nothing else is left

ASSUME ServersAssumption ==
    /\ Local \in Servers
    /\ Fallback \in Servers
    /\ Local # Fallback

Files == [marker : BOOLEAN, active : SUBSET Servers,
          saved : SUBSET Servers, other : BOOLEAN]

(***************************************************************************)
(* A file that gecit has not touched, and the file that os.WriteFile       *)
(* leaves between its truncation and its write.                            *)
(***************************************************************************)
Plain(S) == [marker |-> FALSE, active |-> S, saved |-> {}, other |-> TRUE]

Truncated == [marker |-> FALSE, active |-> {}, saved |-> {}, other |-> FALSE]

hasGecitDNSState(f) == f.marker \/ f.saved # {}

(***************************************************************************)
(* The contents SetSystemDNS writes for a file it has read.  Every line    *)
(* that starts with "# gecit" is skipped, and that includes the saved      *)
(* name servers of an earlier run.                                         *)
(***************************************************************************)
SetNothingSaved(f) ==       \* mutant: the original lines are dropped
    [marker |-> TRUE, active |-> {Local}, saved |-> {}, other |-> f.other]

SetSystemDNS(f) ==
    [marker |-> TRUE, active |-> {Local}, saved |-> f.active, other |-> f.other]

(***************************************************************************)
(* The contents RestoreSystemDNS writes for a file with gecit state.       *)
(***************************************************************************)
RestoreKeepsLocal(f) ==     \* mutant: gecit's own line is left in
    [marker |-> FALSE, active |-> f.saved \cup f.active, saved |-> {}, other |-> f.other]

RestoreSystemDNS(f) ==
    LET servers == f.saved \cup (f.active \ {Local})
    IN  [marker |-> FALSE,
         active |-> IF servers = {} /\ ~f.other THEN {Fallback} ELSE servers,
         saved  |-> {},
         other  |-> f.other]

(* What `gecit cleanup` makes of a file: nothing, when it has no gecit state. *)
Recovered(f) == IF hasGecitDNSState(f) THEN RestoreSystemDNS(f) ELSE f

(* The host's lookups are sent to gecit's server. *)
Hijacked(f) == f.marker /\ Local \in f.active
=============================================================================
