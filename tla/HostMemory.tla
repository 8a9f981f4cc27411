----------------------------- MODULE HostMemory -----------------------------
(***************************************************************************)
(* What the guest-memory access domain promises the memory capture path:   *)
(* between a freeze and its end no device worker writes guest memory, and  *)
(* every page one writes in a tracked generation is in the inventory.      *)
(***************************************************************************)
CONSTANTS Ram   \* pages of registered guest RAM

VARIABLES
    mode,      \* Resident, Tracking or Frozen, as the capture path sees it
    dirty,     \* the pages of the inventory
    valid,     \* every announcement stayed inside registered RAM
    written    \* history: pages written since the inventory was last emptied

hostVars == <<mode, dirty, valid, written>>

Init == mode = "Resident" /\ dirty = {} /\ valid = FALSE /\ written = {}

\* A worker announces what it is about to write; an untracked one need not.
Announce ==
    /\ mode # "Frozen"
    /\ \E pages \in SUBSET Ram : dirty' = dirty \cup pages
    /\ valid' \in {valid, FALSE}
    /\ UNCHANGED <<mode, written>>

\* A worker writes a page; a tracked one only what it announced.
Write(page) ==
    /\ mode # "Frozen"
    /\ mode = "Tracking" /\ valid => page \in dirty
    /\ written' = written \cup {page}
    /\ UNCHANGED <<mode, dirty, valid>>

Freeze ==
    /\ mode # "Frozen"
    /\ mode' = "Frozen"
    /\ UNCHANGED <<dirty, valid, written>>

\* The inventory is emptied; its validity outlives a harvest but not a new one.
Harvest ==
    /\ mode = "Frozen"
    /\ dirty' = {} /\ written' = {}
    /\ UNCHANGED <<mode, valid>>

Replace ==
    /\ mode = "Frozen"
    /\ dirty' = {} /\ written' = {} /\ valid' = TRUE
    /\ UNCHANGED mode

\* Access reopens in the generation it had, in a new tracked one with an empty
\* inventory, or without one.
ThawMode(m) ==
    /\ mode = "Frozen"
    /\ mode' = m
    /\ UNCHANGED <<dirty, valid, written>>

ThawTracking ==
    /\ mode = "Frozen"
    /\ mode' = "Tracking" /\ dirty' = {} /\ valid' = TRUE /\ written' = {}

ThawResident ==
    /\ mode = "Frozen"
    /\ mode' = "Resident" /\ dirty' = {} /\ valid' = FALSE /\ written' = {}

Next == \/ Announce \/ Freeze \/ Harvest \/ Replace \/ ThawTracking \/ ThawResident
        \/ \E page \in Ram : Write(page)
        \/ \E m \in {"Resident", "Tracking"} : ThawMode(m)

Spec == Init /\ [][Next]_hostVars

=============================================================================
