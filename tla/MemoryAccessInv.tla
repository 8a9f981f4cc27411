--------------------------- MODULE MemoryAccessInv ---------------------------
(***************************************************************************)
(* The inductive invariant behind the freeze boundary of MemoryAccess.     *)
(***************************************************************************)
EXTENDS MemoryAccess

\* The participant is inside begin_request with its count taken.
Counted(p) == IF pc[p] \in {"counted", "marking", "reject"} THEN 1 ELSE 0

\* Freeze has looked at the participant and moved on.
Drained(p) == phase = "held" \/ (phase = "draining" /\ p < draining)

\* The access mode requests are admitted in, or were before the freeze.
AdmissionMode == IF phase = "open" THEN state.mode ELSE previous

\* The count is the number of requests under way.
CountAgrees(p) == active[p] = Cardinality(admitted[p]) + Counted(p)

\* begin_request goes past its first load only in an open mode, and works on a
\* head the queue does not own yet.
RequestSound(p) ==
    /\ pc[p] \in {"loaded", "counted", "marking", "reject"} => seen[p].mode # Frozen
    /\ pc[p] \notin {"idle", "notify"} => wanted[p].head \notin admitted[p]
    /\ pc[p] = "marking" => seen[p].mode = AdmissionMode

\* A drained participant owns nothing and cannot come to own anything.
DrainSound(p) == Drained(p) => admitted[p] = {} /\ pc[p] # "marking"

\* What an admitted request may write has been marked.
Announced(p) ==
    trackingEnabled /\ bitmap.valid =>
        \A h \in admitted[p] : exposed[p][h] \cap Ram \subseteq bitmap.dirty

ParticipantSound(p) == CountAgrees(p) /\ RequestSound(p) /\ DrainSound(p) /\ Announced(p)

ModeSound ==
    /\ (state.mode = Frozen) <=> (phase # "open")
    /\ trackingEnabled <=> (AdmissionMode = Tracking)
    /\ trackingEnabled => bitmap.installed

\* Inductive strengthening of FreezeExcludes and DirtyCovers.
AccessInv ==
    /\ TypeOK
    /\ ModeSound /\ DirtyCovers
    /\ \A p \in Participants : ParticipantSound(p)

=============================================================================
