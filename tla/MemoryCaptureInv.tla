-------------------------- MODULE MemoryCaptureInv --------------------------
(***************************************************************************)
(* The inductive invariant of MemoryCapture: model-checked with it and     *)
(* proved in MemoryCaptureProofs.                                          *)
(***************************************************************************)
EXTENDS MemoryCapture

\* A pending candidate holds the boundary: the VM is paused, host writers are
\* frozen and the mode to give back is known.
PendingHolds ==
    /\ HasPending => mode = "Frozen" /\ execution = "paused" /\ access # "None"
    /\ HasPending => ledger.pending < ledger.next
    /\ ~HasPending => pendingDirty = {}

\* The published generation was handed out, and its tokens name handed-out ones.
LedgerOrdered ==
    /\ ledger.published < ledger.next
    /\ ledger.covered => ledger.published # None
    /\ \A g \in issued : g < ledger.next

\* Slots agree with the flags unless they are marked for repair.
SlotsKnown ==
    /\ ~needsRearm => vm.logging = IF active THEN Ram ELSE {}
    /\ ~needsRearm => vm.tracking = active
    /\ execution # "paused" => ~needsRearm

\* Valid coverage has both trackers behind it.
CoverageTracked ==
    ledger.covered /\ ~exhausted =>
        /\ active /\ ~needsRearm
        /\ mode = "Frozen" => access = "Tracking"
        /\ mode # "Frozen" => mode = "Tracking"

\* The inductive invariant: the capture operations keep the boundary, the slots
\* and the trackers in step with what the ledger says.
CaptureInv ==
    /\ TypeOK
    /\ PendingHolds
    /\ LedgerOrdered
    /\ SlotsKnown
    /\ CoverageTracked
    /\ FreezeOwned
    /\ CandidateExact
    /\ CoverageKept

=============================================================================
