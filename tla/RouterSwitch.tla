----------------------------- MODULE RouterSwitch -----------------------------
(***************************************************************************)
(* What `gecit router run` promises the host: its rules are in the kernel  *)
(* as long as an engine is on, they go in before it and out after it, and  *)
(* whoever stops using them removes them.  The first part is for engines   *)
(* that have the table to themselves, the last one for all of them.        *)
(***************************************************************************)
CONSTANT Engines

VARIABLES
    installed,      \* the rules are in the kernel
    on,             \* the engines that have a worker
    busy,           \* the engines that have a call in progress on the table
    alone,          \* FALSE once two calls have used the table at once
    left            \* a process has died, or a removal has failed

vars == <<installed, on, busy, alone, left>>

Init ==
    /\ installed = FALSE
    /\ on = {}
    /\ busy = {}
    /\ alone = TRUE
    /\ left = FALSE

Install(e) ==
    /\ on = {} /\ busy = {}
    /\ installed' = TRUE
    /\ busy' = {e}
    /\ UNCHANGED <<on, left>>

SwitchOn(e) ==
    /\ installed
    /\ e \in busy
    /\ on' = on \cup {e}
    /\ UNCHANGED <<installed, busy, left>>

Started(e) ==
    /\ e \in on
    /\ busy' = busy \ {e}
    /\ UNCHANGED <<installed, on, left>>

SwitchOff(e) ==
    /\ e \in on
    /\ on' = on \ {e}
    /\ busy' = busy \cup {e}
    /\ UNCHANGED <<installed, left>>

Remove(e) ==
    /\ e \in busy \ on
    /\ installed' = FALSE
    /\ busy' = busy \ {e}
    /\ UNCHANGED <<on, left>>

RemoveFails(e) ==
    /\ e \in busy \ on
    /\ busy' = busy \ {e}
    /\ left' = TRUE
    /\ UNCHANGED <<installed, on>>

Die(e) ==
    /\ on' = on \ {e}
    /\ busy' = busy \ {e}
    /\ left' = TRUE
    /\ UNCHANGED installed

Promised(e) ==
    \/ Install(e) \/ SwitchOn(e) \/ Started(e) \/ SwitchOff(e)
    \/ Remove(e) \/ RemoveFails(e) \/ Die(e)

Owned == installed => left \/ on \cup busy # {}

Next ==
    \/ alone /\ alone' = TRUE /\ \E e \in Engines : Promised(e)
    \/ alone' = FALSE /\ Owned'

Spec == Init /\ [][Next]_vars
=============================================================================
