---------------------------- MODULE DnsRedirection ----------------------------
(***************************************************************************)
(* What gecit promises to a host whose DNS setting it redirects to its own *)
(* server: a setting is redirected only while the server runs and only     *)
(* once what it was is saved where `gecit cleanup` finds it; it is saved   *)
(* as long as the redirection lasts; and the server goes away before the   *)
(* redirection is undone only if the process dies or undoing it fails.     *)
(***************************************************************************)
CONSTANT Services       \* what has a DNS setting: network services, a file

VARIABLES
    served,         \* gecit's DNS server answers
    redirected,     \* the services whose lookups go to it
    saved,          \* the services whose own setting is on disk
    orphaned,       \* the redirections that the process has left behind
    intact          \* FALSE once an accident has voided the promise

vars == <<served, redirected, saved, orphaned, intact>>

Init ==
    /\ served \in BOOLEAN
    /\ redirected = {}
    /\ saved \in SUBSET Services
    /\ orphaned = {}
    /\ intact = TRUE

Serve ==
    /\ ~served
    /\ served' = TRUE
    /\ UNCHANGED <<redirected, saved, orphaned>>

(* Contents may be saved or discarded that no redirection depends on. *)
Save ==
    /\ saved' \in SUBSET Services
    /\ redirected \subseteq saved'
    /\ UNCHANGED <<served, redirected, orphaned>>

Redirect(s) ==
    /\ served
    /\ s \in saved
    /\ redirected' = redirected \cup {s}
    /\ orphaned' = orphaned \ {s}
    /\ UNCHANGED <<served, saved>>

Undo(s) ==
    /\ redirected' = redirected \ {s}
    /\ orphaned' = orphaned \ {s}
    /\ UNCHANGED <<served, saved>>

(* What undoes the redirection fails. *)
Abandon(s) ==
    /\ s \in redirected
    /\ orphaned' = orphaned \cup {s}
    /\ UNCHANGED <<served, redirected, saved>>

Unserve ==
    /\ served
    /\ redirected \subseteq orphaned
    /\ served' = FALSE
    /\ UNCHANGED <<redirected, saved, orphaned>>

Die ==
    /\ served
    /\ served' = FALSE
    /\ orphaned' = redirected
    /\ UNCHANGED <<redirected, saved>>

Promised ==
    \/ Serve \/ Save \/ Unserve \/ Die
    \/ \E s \in Services : Redirect(s) \/ Undo(s) \/ Abandon(s)

Next ==
    \/ intact /\ intact' = TRUE /\ Promised
    \/ intact' = FALSE

Spec == Init /\ [][Next]_vars
=============================================================================
