---------------------------- MODULE MemoryCapture ----------------------------
(***************************************************************************)
(* Guest-memory generations: the ledger of src/src/vmm/src/memory_state.rs *)
(* and the capture operations of Vmm in src/src/vmm/src/lib.rs, over the   *)
(* KVM dirty log of src/src/vmm/src/linux/vstate.rs and the host-writer    *)
(* epochs, taken from their abstract specification HostMemory.  An         *)
(* operation runs under the VMM's mutex and is one action; its failures    *)
(* are alternatives.  Refused calls (not paused, a capture pending or not, *)
(* FullRequired, a drain timeout) change nothing and are left out.         *)
(***************************************************************************)
EXTENDS Integers

CONSTANTS
    Ram,           \* pages of registered RAM; a page stands for its KVM slot too
    MaxGeneration  \* the generation number the ledger cannot hand out (u64::MAX)

ASSUME GenerationAssumption == MaxGeneration \in Nat /\ MaxGeneration > 1

VARIABLES
    mode, dirty, valid, written,  \* the host-writer epochs: see HostMemory
    exhausted,     \* the access domain has used its last generation
    execution,     \* paused, running or indeterminate
    ledger,        \* next_generation, published, dirty_coverage_valid, pending
    plan,          \* the MemoryCapturePlan of the pending generation
    access,        \* pending_access_mode
    pendingDirty, carriedDirty,
    active, needsRearm,  \* memory_tracking_active, memory_tracking_needs_rearm
    vm,            \* dirty_tracking, the slots that log, the logged pages
    issued,        \* history: the baselines callers hold a token of
    since          \* history: per generation, the pages its image has wrong by now

hostVars == <<mode, dirty, valid, written>>
captureVars == <<ledger, plan, access, pendingDirty, carriedDirty, active, needsRearm, vm>>
vars == <<hostVars, exhausted, execution, captureVars, issued, since>>

Host == INSTANCE HostMemory

-----------------------------------------------------------------------------
Generation == 1..MaxGeneration
None == 0
NoPlan == [kind |-> "Full", baseline |-> None, changed |-> {}]

Unarmed == [tracking |-> FALSE, logging |-> {}, log |-> {}]

\* A VM starts without a baseline, or with the private image it was mapped from.
Init ==
    /\ exhausted = FALSE /\ execution = "paused"
    /\ plan = NoPlan /\ access = "None" /\ pendingDirty = {} /\ carriedDirty = {}
    /\ dirty = {} /\ written = {} /\ needsRearm = FALSE
    /\ since = [g \in Generation |-> {}]
    /\ \/ /\ mode = "Resident" /\ valid = FALSE
          /\ ledger = [next |-> 1, published |-> None, covered |-> FALSE, pending |-> None]
          /\ active = FALSE /\ vm = Unarmed /\ issued = {}
       \/ /\ mode = "Tracking" /\ valid = TRUE
          /\ ledger = [next |-> 2, published |-> 1, covered |-> TRUE, pending |-> None]
          /\ active = TRUE /\ vm = [tracking |-> TRUE, logging |-> Ram, log |-> {}]
          /\ issued = {1}

-----------------------------------------------------------------------------
(* The writers.                                                            *)

\* Every image differs from memory in a page written after its cut.
Written(page) == since' = [g \in Generation |-> since[g] \cup {page}]

CpuWrite(page) ==
    /\ execution # "paused"
    /\ vm' = [vm EXCEPT !.log = IF page \in vm.logging THEN @ \cup {page} ELSE @]
    /\ Written(page)
    /\ UNCHANGED <<hostVars, exhausted, execution, ledger, plan, access, pendingDirty,
                   carriedDirty, active, needsRearm, issued>>

\* Device workers write also while the vCPUs are paused.
HostWrite(page) ==
    /\ Host!Write(page)
    /\ Written(page)
    /\ UNCHANGED <<exhausted, execution, captureVars, issued>>

HostAnnounce ==
    /\ Host!Announce
    /\ UNCHANGED <<exhausted, execution, captureVars, issued, since>>

-----------------------------------------------------------------------------
(* The KVM dirty log.  An operation over the slots can fail part way.      *)

\* The slots done before the one that fails.
Parts == SUBSET Ram \ {Ram}

Armed(v) == IF v.tracking THEN v ELSE [v EXCEPT !.tracking = TRUE, !.logging = Ram]
ArmFails(v) == {[v EXCEPT !.logging = @ \cup part] : part \in Parts}
Harvested(v) == [v EXCEPT !.log = {}]
HarvestFails(v) == {[v EXCEPT !.log = @ \ part] : part \in Parts}
StopFails(v) == {[v EXCEPT !.logging = @ \ part, !.log = @ \ part] : part \in Parts}

-----------------------------------------------------------------------------
(* The ledger.                                                             *)

HasPending == ledger.pending # None

\* Mutant: the counter may step past its last value.
CanPlan_Late == ledger.next <= MaxGeneration

CanPlan == ledger.next < MaxGeneration

\* Mutant: any token of this tracker will do.
Incremental_AnyToken(baseline) == ledger.published # None /\ ledger.covered

\* incremental_full_reason has nothing against the baseline.
Incremental(baseline) ==
    ledger.published # None /\ ledger.covered /\ baseline = ledger.published

\* plan_capture hands out a generation whose image has missing pages wrong.
PlanCapture(generation, kind, baseline, changed, missing) ==
    /\ ledger' = [ledger EXCEPT !.next = generation + 1, !.pending = generation]
    /\ plan' = [kind |-> kind, baseline |-> baseline, changed |-> changed]
    /\ since' = [since EXCEPT ![generation] = missing]

-----------------------------------------------------------------------------
(* The operations of a paused VMM.                                         *)

\* freeze and every reopening under a new generation use one up.
NextAccess == ~exhausted /\ exhausted' \in BOOLEAN

Hold == Host!Freeze /\ access' = mode

\* Mutant: the failure path does not reopen access.
PlanFullMemoryCapture_StaysFrozen ==
    /\ execution = "paused" /\ ~HasPending
    /\ NextAccess
    /\ Hold
    /\ \/ CanPlan /\ PlanCapture(ledger.next, "Full", None, {}, {})
       \/ ~CanPlan /\ UNCHANGED <<ledger, plan, since>>
    /\ UNCHANGED <<execution, pendingDirty, carriedDirty, active, needsRearm, vm, issued>>

PlanFullMemoryCapture ==
    /\ execution = "paused" /\ ~HasPending
    /\ NextAccess
    /\ mode # "Frozen"
    /\ \/ /\ CanPlan
          /\ Hold
          /\ PlanCapture(ledger.next, "Full", None, {}, {})
       \/ /\ ~CanPlan
          /\ UNCHANGED <<hostVars, ledger, plan, access, since>>
    /\ UNCHANGED <<execution, pendingDirty, carriedDirty, active, needsRearm, vm, issued>>

\* The harvest of both trackers and what earlier attempts carried over.
Changed == vm.log \cup carriedDirty \cup dirty

\* Freeze, then harvest both trackers into the candidate's delta.
PlanIncrementalMemoryCapture(baseline) ==
    /\ execution = "paused" /\ ~HasPending
    /\ Incremental(baseline)
    /\ NextAccess
    /\ mode # "Frozen" /\ valid /\ vm.tracking
    /\ vm' = Harvested(vm)
    /\ dirty' = {} /\ written' = {}
    /\ \/ /\ CanPlan   \* a delta
          /\ PlanCapture(ledger.next, "Incremental", baseline, Changed, since[baseline] \ Changed)
          /\ pendingDirty' = Changed /\ carriedDirty' = {}
          /\ access' = mode /\ mode' = "Frozen"
       \/ /\ CanPlan /\ ledger.next + 1 < MaxGeneration   \* not beneficial: a complete one
          /\ PlanCapture(ledger.next + 1, "Full", None, {}, {})
          /\ pendingDirty' = Changed /\ carriedDirty' = {}
          /\ access' = mode /\ mode' = "Frozen"
       \/ /\ CanPlan /\ ledger.next + 1 = MaxGeneration   \* no generation left for it
          /\ ledger' = [ledger EXCEPT !.next = @ + 1]
          /\ pendingDirty' = {} /\ carriedDirty' = Changed
          /\ access' = mode
          /\ UNCHANGED <<mode, plan, since>>
       \/ /\ ~CanPlan
          /\ pendingDirty' = {} /\ carriedDirty' = Changed
          /\ UNCHANGED <<mode, ledger, plan, access, since>>
    /\ UNCHANGED <<valid, execution, active, needsRearm, issued>>

\* The host inventory or the harvest of the CPU log cannot be trusted.
IncrementalUnavailable(baseline) ==
    /\ execution = "paused" /\ ~HasPending
    /\ Incremental(baseline)
    /\ NextAccess
    /\ mode # "Frozen"
    /\ \/ /\ ~valid
          /\ UNCHANGED <<needsRearm, vm>>
       \/ /\ valid
          /\ vm' \in HarvestFails(vm)
          /\ needsRearm' = TRUE
    /\ ledger' = [ledger EXCEPT !.covered = FALSE]
    /\ UNCHANGED <<hostVars, execution, plan, access, pendingDirty, carriedDirty, active, issued,
                   since>>

-----------------------------------------------------------------------------
(* publish_memory_capture.                                                 *)

\* A complete generation installs a fresh host inventory first.
ConfigureTracking ==
    IF plan.kind = "Full" THEN Host!Replace ELSE UNCHANGED hostVars

\* Slots left inconsistent are all reconciled before a new baseline is trusted.
Reconciled == IF needsRearm THEN Unarmed ELSE vm
StillActive == active /\ ~needsRearm

Publishing == execution = "paused" /\ HasPending

PublishCannotReconcile ==
    /\ Publishing /\ needsRearm
    /\ ConfigureTracking
    /\ vm' \in StopFails(vm)
    /\ UNCHANGED <<exhausted, execution, ledger, plan, access, pendingDirty, carriedDirty, active,
                   needsRearm, issued, since>>

PublishCannotTrack ==
    /\ Publishing
    /\ ConfigureTracking
    /\ \/ StillActive /\ plan.kind = "Full" /\ vm' \in HarvestFails(Reconciled)
       \/ ~StillActive /\ vm' \in ArmFails(Reconciled)
    /\ active' = StillActive /\ needsRearm' = TRUE
    /\ ledger' = [ledger EXCEPT !.covered = FALSE]
    /\ UNCHANGED <<exhausted, execution, plan, access, pendingDirty, carriedDirty, issued, since>>

\* The CPU log covers the next generation from here on.
TrackNext ==
    /\ vm' = IF StillActive
             THEN IF plan.kind = "Full" THEN Harvested(Reconciled) ELSE Reconciled
             ELSE Armed(Reconciled)
    /\ active' = TRUE

\* begin_tracking finds no access generation left; the boundary stays frozen.
PublishExhausted ==
    /\ Publishing /\ exhausted
    /\ ConfigureTracking
    /\ TrackNext
    /\ needsRearm' = TRUE
    /\ ledger' = [ledger EXCEPT !.covered = FALSE]
    /\ UNCHANGED <<exhausted, execution, plan, access, pendingDirty, carriedDirty, issued, since>>

PublishMemoryCapture ==
    /\ Publishing
    /\ NextAccess
    /\ TrackNext
    /\ needsRearm' = FALSE
    /\ Host!ThawTracking
    /\ ledger' = [ledger EXCEPT !.pending = None, !.published = ledger.pending, !.covered = TRUE]
    /\ issued' = issued \cup {ledger.pending}
    /\ pendingDirty' = {} /\ carriedDirty' = {} /\ access' = "None"
    /\ UNCHANGED <<execution, plan, since>>

-----------------------------------------------------------------------------
\* Mutant: the abandoned candidate's harvest is dropped.
AbandonMemoryCapture_Dropped ==
    /\ execution = "paused" /\ HasPending
    /\ ledger' = [ledger EXCEPT !.pending = None]
    /\ pendingDirty' = {}
    /\ Host!ThawMode(access) /\ access' = "None"
    /\ UNCHANGED <<exhausted, execution, plan, carriedDirty, active, needsRearm, vm, issued, since>>

\* The harvest of an abandoned candidate is carried to the next attempt.
AbandonMemoryCapture ==
    /\ execution = "paused" /\ HasPending
    /\ ledger' = [ledger EXCEPT !.pending = None]
    /\ carriedDirty' = carriedDirty \cup pendingDirty /\ pendingDirty' = {}
    /\ Host!ThawMode(access) /\ access' = "None"
    /\ UNCHANGED <<exhausted, execution, plan, active, needsRearm, vm, issued, since>>

\* Mutant: a failed release does not mark the slots for repair.
ReleaseFails_NotMarked ==
    /\ execution = "paused" /\ ~HasPending
    /\ mode # "Frozen"
    /\ NextAccess
    /\ active \/ needsRearm
    /\ vm' \in StopFails(vm)
    /\ ledger' = [ledger EXCEPT !.covered = FALSE]
    /\ UNCHANGED <<hostVars, execution, plan, access, pendingDirty, carriedDirty, active, needsRearm,
                   issued, since>>

ReleaseFails ==
    /\ execution = "paused" /\ ~HasPending
    /\ mode # "Frozen"
    /\ NextAccess
    /\ active \/ needsRearm
    /\ vm' \in StopFails(vm)
    /\ needsRearm' = TRUE
    /\ ledger' = [ledger EXCEPT !.covered = FALSE]
    /\ UNCHANGED <<hostVars, execution, plan, access, pendingDirty, carriedDirty, active, issued,
                   since>>

\* The log is stopped but no access generation is left to reopen with.
ReleaseExhausted ==
    /\ execution = "paused" /\ ~HasPending
    /\ Host!Freeze
    /\ ~exhausted /\ exhausted' = TRUE
    /\ vm' = IF active \/ needsRearm THEN Unarmed ELSE vm
    /\ active' = FALSE /\ needsRearm' = FALSE
    /\ UNCHANGED <<execution, ledger, plan, access, pendingDirty, carriedDirty, issued, since>>

\* Without its execution guard and outcome: also the repair of resume_vcpus_from.
ReleaseMemoryBaseline ==
    /\ ~HasPending
    /\ mode # "Frozen"
    /\ NextAccess
    /\ vm' = IF active \/ needsRearm THEN Unarmed ELSE vm
    /\ active' = FALSE /\ needsRearm' = FALSE
    /\ mode' = "Resident" /\ dirty' = {} /\ valid' = FALSE /\ written' = {}
    /\ ledger' = [ledger EXCEPT !.covered = FALSE]
    /\ pendingDirty' = {} /\ carriedDirty' = {} /\ access' = "None"
    /\ UNCHANGED <<plan, issued, since>>

Release ==
    /\ execution = "paused"
    /\ ReleaseMemoryBaseline
    /\ UNCHANGED execution

-----------------------------------------------------------------------------
Pause ==
    /\ execution = "running"
    /\ execution' \in {"paused", "indeterminate"}
    /\ UNCHANGED <<hostVars, exhausted, captureVars, issued, since>>

\* Mutant: mappings are not repaired before running again.
Resume_Unrepaired ==
    /\ execution = "paused" /\ ~HasPending
    /\ execution' \in {"running", "indeterminate"}
    /\ UNCHANGED <<hostVars, exhausted, captureVars, issued, since>>

\* resume_vcpus_from refuses a pending capture and repairs the mappings first.
Resume ==
    /\ execution = "paused" /\ ~HasPending
    /\ execution' \in {"running", "indeterminate"}
    /\ \/ needsRearm /\ ReleaseMemoryBaseline
       \/ ~needsRearm /\ UNCHANGED <<hostVars, exhausted, captureVars, issued, since>>

Next ==
    \/ \E page \in Ram : CpuWrite(page) \/ HostWrite(page)
    \/ HostAnnounce
    \/ PlanFullMemoryCapture
    \/ \E baseline \in issued :
         PlanIncrementalMemoryCapture(baseline) \/ IncrementalUnavailable(baseline)
    \/ PublishCannotReconcile \/ PublishCannotTrack \/ PublishExhausted \/ PublishMemoryCapture
    \/ AbandonMemoryCapture
    \/ ReleaseFails \/ ReleaseExhausted \/ Release
    \/ Pause \/ Resume

Spec == Init /\ [][Next]_vars

-----------------------------------------------------------------------------
TypeOK ==
    /\ mode \in {"Resident", "Tracking", "Frozen"}
    /\ dirty \in SUBSET Ram /\ valid \in BOOLEAN /\ written \in SUBSET Ram
    /\ exhausted \in BOOLEAN
    /\ execution \in {"paused", "running", "indeterminate"}
    /\ ledger \in [next : Generation, published : Generation \cup {None}, covered : BOOLEAN,
                   pending : Generation \cup {None}]
    /\ plan \in [kind : {"Full", "Incremental"}, baseline : Generation \cup {None},
                 changed : SUBSET Ram]
    /\ access \in {"None", "Resident", "Tracking"}
    /\ pendingDirty \in SUBSET Ram /\ carriedDirty \in SUBSET Ram
    /\ active \in BOOLEAN /\ needsRearm \in BOOLEAN
    /\ vm \in [tracking : BOOLEAN, logging : SUBSET Ram, log : SUBSET Ram]
    /\ issued \in SUBSET Generation
    /\ since \in [Generation -> SUBSET Ram]

\* A candidate, from its planning to its publication or abandonment, is exactly
\* guest memory: its own delta over its baseline's image misses no write, and
\* nothing writes memory while it is pending.
CandidateExact == HasPending => since[ledger.pending] = {}

\* "A later retry cannot miss these writes": while the ledger says that coverage
\* is valid, what the retained baseline has wrong is still in a tracker or among
\* the harvested ranges, whatever failed or was abandoned since.
CoverageKept ==
    ledger.covered /\ valid /\ ~exhausted =>
        since[ledger.published] \subseteq vm.log \cup dirty \cup carriedDirty \cup pendingDirty

\* vCPUs never run on half-reconciled slots: every one logs, or none.
RunsReconciled ==
    execution # "paused" => vm.logging = IF active THEN Ram ELSE {}

\* No error path leaves device workers parked: access is frozen only for a
\* pending candidate, or when the access generations have run out.
FreezeOwned == mode = "Frozen" => HasPending \/ exhausted

=============================================================================
