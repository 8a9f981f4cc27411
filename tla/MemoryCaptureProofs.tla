------------------------ MODULE MemoryCaptureProofs ------------------------
(***************************************************************************)
(* CaptureInv is inductive, for every set of pages and every bound on the  *)
(* generations: one lemma per action, one step per conjunct.               *)
(***************************************************************************)
EXTENDS MemoryCaptureInv, TLAPS

USE DEF HasPending, None, Generation

\* Both starting points, without and with a backing image, satisfy the invariant.
LEMMA InitInv == Init => CaptureInv
<1>. SUFFICES ASSUME Init PROVE CaptureInv
  OBVIOUS
<1>0. MaxGeneration \in Nat /\ MaxGeneration > 1
  BY GenerationAssumption
<1>1. /\ plan \in [kind : {"Full", "Incremental"}, baseline : Generation \cup {None},
                  changed : SUBSET Ram]
      /\ since \in [Generation -> SUBSET Ram]
  BY <1>0 DEF Init, NoPlan
<1>2. CASE /\ mode = "Resident" /\ valid = FALSE
           /\ ledger = [next |-> 1, published |-> None, covered |-> FALSE, pending |-> None]
           /\ active = FALSE /\ vm = Unarmed /\ issued = {}
  <2>1. ledger \in [next : Generation, published : Generation \cup {None}, covered : BOOLEAN,
                   pending : Generation \cup {None}]
    BY <1>0, <1>2
  <2>2. vm \in [tracking : BOOLEAN, logging : SUBSET Ram, log : SUBSET Ram]
    BY <1>2 DEF Unarmed
  <2>3. TypeOK
    BY <1>1, <1>2, <2>1, <2>2 DEF Init, TypeOK
  <2>4. PendingHolds /\ LedgerOrdered /\ FreezeOwned /\ CandidateExact
    BY <1>2 DEF Init, PendingHolds, LedgerOrdered, FreezeOwned, CandidateExact
  <2>5. SlotsKnown
    BY <1>2 DEF Init, SlotsKnown, Unarmed
  <2>6. CoverageTracked /\ CoverageKept
    BY <1>2 DEF CoverageTracked, CoverageKept
  <2>. QED BY <2>3, <2>4, <2>5, <2>6 DEF CaptureInv
<1>3. CASE /\ mode = "Tracking" /\ valid = TRUE
           /\ ledger = [next |-> 2, published |-> 1, covered |-> TRUE, pending |-> None]
           /\ active = TRUE /\ vm = [tracking |-> TRUE, logging |-> Ram, log |-> {}]
           /\ issued = {1}
  <2>1. ledger \in [next : Generation, published : Generation \cup {None}, covered : BOOLEAN,
                   pending : Generation \cup {None}]
    BY <1>0, <1>3
  <2>2. vm \in [tracking : BOOLEAN, logging : SUBSET Ram, log : SUBSET Ram]
    BY <1>3
  <2>3. TypeOK
    BY <1>0, <1>1, <1>3, <2>1, <2>2 DEF Init, TypeOK
  <2>4. CandidateExact /\ CoverageKept
    BY <1>0, <1>3 DEF Init, CandidateExact, CoverageKept
  <2>. QED
    BY <1>3, <2>3, <2>4 DEF Init, CaptureInv, PendingHolds, LedgerOrdered, SlotsKnown,
       CoverageTracked, FreezeOwned
<1>. QED BY <1>2, <1>3 DEF Init

\* A running vCPU writes: no candidate is pending and a valid baseline logs every slot.
LEMMA CpuWriteInv ==
  ASSUME NEW page \in Ram, CaptureInv, CpuWrite(page)
  PROVE  CaptureInv'
<1>0. TypeOK /\ PendingHolds /\ LedgerOrdered /\ SlotsKnown /\ CoverageTracked
      /\ FreezeOwned /\ CandidateExact /\ CoverageKept /\ MaxGeneration \in Nat
  BY GenerationAssumption DEF CaptureInv
<1>1. TypeOK'
  <2>1. vm' \in [tracking : BOOLEAN, logging : SUBSET Ram, log : SUBSET Ram]
    <3>1. CASE page \in vm.logging
      BY <1>0, <3>1 DEF TypeOK, CpuWrite
    <3>2. CASE page \notin vm.logging
      BY <1>0, <3>2 DEF TypeOK, CpuWrite
    <3>. QED BY <3>1, <3>2
  <2>2. since' \in [1..MaxGeneration -> SUBSET Ram]
    BY <1>0 DEF TypeOK, CpuWrite, Written
  <2>3. UNCHANGED <<hostVars, exhausted, execution, ledger, plan, access, pendingDirty,
                    carriedDirty, active, needsRearm, issued>>
    BY DEF CpuWrite
  <2>. QED
    BY <1>0, <2>1, <2>2, <2>3 DEF TypeOK, hostVars
<1>2. PendingHolds'
  BY <1>0 DEF TypeOK, PendingHolds, CpuWrite, Written, hostVars
<1>3. LedgerOrdered'
  BY <1>0 DEF TypeOK, LedgerOrdered, CpuWrite, Written, hostVars
<1>4. SlotsKnown'
  BY <1>0 DEF TypeOK, SlotsKnown, CpuWrite, Written, hostVars
<1>5. CoverageTracked'
  BY <1>0 DEF TypeOK, CoverageTracked, LedgerOrdered, SlotsKnown, PendingHolds, CpuWrite,
     Written, hostVars
<1>6. FreezeOwned'
  BY <1>0 DEF TypeOK, FreezeOwned, CpuWrite, Written, hostVars
<1>7. CandidateExact'
  BY <1>0 DEF TypeOK, CandidateExact, PendingHolds, CpuWrite, Written, hostVars
<1>8. CoverageKept'
  BY <1>0 DEF TypeOK, CoverageKept, CoverageTracked, LedgerOrdered, PendingHolds, SlotsKnown,
     CpuWrite, Written, hostVars
<1>. QED BY <1>1, <1>2, <1>3, <1>4, <1>5, <1>6, <1>7, <1>8 DEF CaptureInv

\* A device worker writes: access is open, and a tracked page was announced.
LEMMA HostWriteInv ==
  ASSUME NEW page \in Ram, CaptureInv, HostWrite(page)
  PROVE  CaptureInv'
<1>0. TypeOK /\ PendingHolds /\ LedgerOrdered /\ SlotsKnown /\ CoverageTracked
      /\ FreezeOwned /\ CandidateExact /\ CoverageKept /\ MaxGeneration \in Nat
  BY GenerationAssumption DEF CaptureInv
<1>1. TypeOK'
  BY <1>0 DEF TypeOK, HostWrite, Host!Write, Written, captureVars
<1>2. PendingHolds'
  BY <1>0 DEF TypeOK, PendingHolds, HostWrite, Host!Write, Written, captureVars
<1>3. LedgerOrdered'
  BY <1>0 DEF TypeOK, LedgerOrdered, HostWrite, Host!Write, Written, captureVars
<1>4. SlotsKnown'
  BY <1>0 DEF TypeOK, SlotsKnown, HostWrite, Host!Write, Written, captureVars
<1>5. CoverageTracked'
  BY <1>0 DEF TypeOK, CoverageTracked, LedgerOrdered, SlotsKnown, PendingHolds, HostWrite,
     Host!Write, Written, captureVars
<1>6. FreezeOwned'
  BY <1>0 DEF TypeOK, FreezeOwned, HostWrite, Host!Write, Written, captureVars
<1>7. CandidateExact'
  BY <1>0 DEF TypeOK, CandidateExact, PendingHolds, HostWrite, Host!Write, Written, captureVars
<1>8. CoverageKept'
  BY <1>0 DEF TypeOK, CoverageKept, CoverageTracked, LedgerOrdered, PendingHolds, SlotsKnown,
     HostWrite, Host!Write, Written, captureVars
<1>. QED BY <1>1, <1>2, <1>3, <1>4, <1>5, <1>6, <1>7, <1>8 DEF CaptureInv

\* A device worker announces pages.
LEMMA HostAnnounceInv ==
  ASSUME CaptureInv, HostAnnounce
  PROVE  CaptureInv'
<1>0. TypeOK /\ PendingHolds /\ LedgerOrdered /\ SlotsKnown /\ CoverageTracked
      /\ FreezeOwned /\ CandidateExact /\ CoverageKept /\ MaxGeneration \in Nat
  BY GenerationAssumption DEF CaptureInv
<1>1. TypeOK'
  <2>1. dirty' \in SUBSET Ram
    BY <1>0 DEF TypeOK, HostAnnounce, Host!Announce
  <2>2. valid' \in BOOLEAN
    BY <1>0 DEF TypeOK, HostAnnounce, Host!Announce
  <2>. QED
    BY <1>0, <2>1, <2>2 DEF TypeOK, HostAnnounce, Host!Announce, captureVars
<1>2. PendingHolds'
  BY <1>0 DEF TypeOK, PendingHolds, HostAnnounce, Host!Announce, captureVars
<1>3. LedgerOrdered'
  BY <1>0 DEF TypeOK, LedgerOrdered, HostAnnounce, Host!Announce, captureVars
<1>4. SlotsKnown'
  BY <1>0 DEF TypeOK, SlotsKnown, HostAnnounce, Host!Announce, captureVars
<1>5. CoverageTracked'
  BY <1>0 DEF TypeOK, CoverageTracked, LedgerOrdered, SlotsKnown, PendingHolds, HostAnnounce,
     Host!Announce, captureVars
<1>6. FreezeOwned'
  BY <1>0 DEF TypeOK, FreezeOwned, HostAnnounce, Host!Announce, captureVars
<1>7. CandidateExact'
  BY <1>0 DEF TypeOK, CandidateExact, PendingHolds, HostAnnounce, Host!Announce, captureVars
<1>8. CoverageKept'
  BY <1>0 DEF TypeOK, CoverageKept, CoverageTracked, LedgerOrdered, PendingHolds, SlotsKnown,
     HostAnnounce, Host!Announce, captureVars
<1>. QED BY <1>1, <1>2, <1>3, <1>4, <1>5, <1>6, <1>7, <1>8 DEF CaptureInv

\* Planning a complete generation freezes host writers, or changes nothing.
LEMMA PlanFullMemoryCaptureInv ==
  ASSUME CaptureInv, PlanFullMemoryCapture
  PROVE  CaptureInv'
<1>0. TypeOK /\ PendingHolds /\ LedgerOrdered /\ SlotsKnown /\ CoverageTracked
      /\ FreezeOwned /\ CandidateExact /\ CoverageKept /\ MaxGeneration \in Nat
  BY GenerationAssumption DEF CaptureInv
<1>1. CASE CanPlan
  <2>1. /\ ledger' = [ledger EXCEPT !.next = ledger.next + 1, !.pending = ledger.next]
        /\ since' = [since EXCEPT ![ledger.next] = {}]
        /\ mode' = "Frozen" /\ access' = mode /\ mode # "Frozen" /\ ~exhausted
        /\ exhausted' \in BOOLEAN
        /\ plan' = [kind |-> "Full", baseline |-> 0, changed |-> {}]
        /\ execution = "paused" /\ ledger.pending = 0
        /\ UNCHANGED <<dirty, valid, written, execution, pendingDirty, carriedDirty, active,
                       needsRearm, vm, issued>>
    BY <1>1 DEF PlanFullMemoryCapture, NextAccess, Hold, Host!Freeze, PlanCapture, CanPlan
  <2>2. /\ ledger.next \in Nat /\ ledger.next > 0 /\ ledger.next < MaxGeneration
        /\ ledger'.next = ledger.next + 1 /\ ledger'.pending = ledger.next
        /\ ledger'.published = ledger.published /\ ledger'.covered = ledger.covered
    BY <1>0, <1>1, <2>1 DEF TypeOK, CanPlan
  <2>3. TypeOK'
    <3>1. ledger' \in [next : Generation, published : Generation \cup {None}, covered : BOOLEAN,
                       pending : Generation \cup {None}]
      <4>1. ledger.next + 1 \in 1..MaxGeneration /\ ledger.next \in 1..MaxGeneration
        BY <1>0, <2>2
      <4>. QED BY <1>0, <2>1, <4>1 DEF TypeOK
    <3>2. plan' \in [kind : {"Full", "Incremental"}, baseline : Generation \cup {None},
                     changed : SUBSET Ram]
      BY <2>1
    <3>3. since' \in [Generation -> SUBSET Ram]
      BY <1>0, <2>1 DEF TypeOK
    <3>. QED BY <1>0, <2>1, <3>1, <3>2, <3>3 DEF TypeOK
  <2>4. PendingHolds' /\ LedgerOrdered' /\ SlotsKnown'
    BY <1>0, <2>1, <2>2 DEF TypeOK, PendingHolds, LedgerOrdered, SlotsKnown
  <2>5. CoverageTracked' /\ FreezeOwned'
    BY <1>0, <2>1, <2>2 DEF TypeOK, CoverageTracked, FreezeOwned
  <2>6. CandidateExact'
    BY <1>0, <2>1, <2>2 DEF TypeOK, CandidateExact
  <2>7. CoverageKept'
    BY <1>0, <2>1, <2>2 DEF TypeOK, CoverageKept, LedgerOrdered
  <2>. QED BY <2>3, <2>4, <2>5, <2>6, <2>7 DEF CaptureInv
<1>2. CASE ~CanPlan
  <2>1. exhausted' \in BOOLEAN /\ ~exhausted /\ UNCHANGED <<hostVars, execution, captureVars, issued, since>>
    BY <1>2 DEF PlanFullMemoryCapture, NextAccess, captureVars
  <2>. QED
    BY <1>0, <2>1 DEF CaptureInv, TypeOK, PendingHolds, LedgerOrdered, SlotsKnown, CoverageTracked,
       FreezeOwned, CandidateExact, CoverageKept, hostVars, captureVars
<1>. QED BY <1>1, <1>2

\* Planning a delta: what the baseline has wrong is all in the harvest, so the
\* candidate is exact; without a generation for it the harvest is carried.
LEMMA PlanIncrementalMemoryCaptureInv ==
  ASSUME NEW baseline \in issued, CaptureInv, PlanIncrementalMemoryCapture(baseline)
  PROVE  CaptureInv'
<1>0. TypeOK /\ PendingHolds /\ LedgerOrdered /\ SlotsKnown /\ CoverageTracked
      /\ FreezeOwned /\ CandidateExact /\ CoverageKept /\ MaxGeneration \in Nat
  BY GenerationAssumption DEF CaptureInv
<1>1. /\ execution = "paused" /\ ledger.pending = 0 /\ ledger.published # 0 /\ ledger.covered
      /\ baseline = ledger.published /\ ~exhausted /\ exhausted' \in BOOLEAN
      /\ mode # "Frozen" /\ valid
      /\ vm' = [vm EXCEPT !.log = {}] /\ dirty' = {} /\ written' = {}
      /\ UNCHANGED <<valid, execution, active, needsRearm, issued>>
  BY DEF PlanIncrementalMemoryCapture, Incremental, NextAccess, Harvested
<1>2. /\ ledger.next \in Nat /\ ledger.next > 0 /\ ledger.published \in 1..MaxGeneration
      /\ ledger.published < ledger.next /\ Changed \in SUBSET Ram
  BY <1>0, <1>1 DEF TypeOK, LedgerOrdered, Changed
<1>3. since[baseline] \subseteq Changed
  BY <1>0, <1>1, <1>2 DEF TypeOK, CoverageKept, PendingHolds, Changed
<1>4. mode = "Tracking"
  BY <1>0, <1>1 DEF CoverageTracked
<1>5. /\ vm' \in [tracking : BOOLEAN, logging : SUBSET Ram, log : SUBSET Ram]
      /\ vm'.logging = vm.logging /\ vm'.tracking = vm.tracking
  BY <1>0, <1>1 DEF TypeOK
<1>6. SlotsKnown'
  BY <1>0, <1>1, <1>5 DEF SlotsKnown
<1>7. ASSUME NEW generation \in 1..MaxGeneration, NEW kind \in {"Full", "Incremental"},
             NEW base \in 0..MaxGeneration, NEW changed \in SUBSET Ram,
             generation >= ledger.next, generation < MaxGeneration,
             PlanCapture(generation, kind, base, changed, {}),
             pendingDirty' = Changed, carriedDirty' = {}, access' = mode, mode' = "Frozen"
      PROVE  CaptureInv'
  <2>1. /\ ledger' = [ledger EXCEPT !.next = generation + 1, !.pending = generation]
        /\ since' = [since EXCEPT ![generation] = {}]
        /\ plan' = [kind |-> kind, baseline |-> base, changed |-> changed]
    BY <1>7 DEF PlanCapture
  <2>2. /\ ledger'.next = generation + 1 /\ ledger'.pending = generation
        /\ ledger'.published = ledger.published /\ ledger'.covered = ledger.covered
    BY <1>0, <2>1 DEF TypeOK
  <2>3. TypeOK'
    <3>1. ledger' \in [next : 1..MaxGeneration, published : 1..MaxGeneration \cup {0},
                       covered : BOOLEAN, pending : 1..MaxGeneration \cup {0}]
      <4>1. generation + 1 \in 1..MaxGeneration
        BY <1>0, <1>7
      <4>. QED BY <1>0, <2>1, <4>1 DEF TypeOK
    <3>2. plan' \in [kind : {"Full", "Incremental"}, baseline : 1..MaxGeneration \cup {0},
                     changed : SUBSET Ram]
      <4>1. base \in 1..MaxGeneration \cup {0}
        BY <1>0
      <4>. QED BY <2>1, <4>1
    <3>3. since' \in [1..MaxGeneration -> SUBSET Ram]
      BY <1>0, <2>1 DEF TypeOK
    <3>. QED BY <1>0, <1>1, <1>2, <1>4, <1>5, <1>7, <3>1, <3>2, <3>3 DEF TypeOK
  <2>4. PendingHolds' /\ LedgerOrdered'
    BY <1>0, <1>1, <1>2, <1>4, <1>7, <2>2 DEF TypeOK, PendingHolds, LedgerOrdered
  <2>5. CoverageTracked' /\ FreezeOwned'
    BY <1>0, <1>1, <1>2, <1>4, <1>7, <2>2 DEF CoverageTracked, FreezeOwned
  <2>6. CandidateExact'
    BY <1>0, <1>7, <2>1, <2>2 DEF TypeOK, CandidateExact
  <2>7. CoverageKept'
    BY <1>0, <1>1, <1>2, <1>3, <1>7, <2>1, <2>2 DEF TypeOK, CoverageKept
  <2>. QED BY <1>6, <2>3, <2>4, <2>5, <2>6, <2>7 DEF CaptureInv
<1>8. ASSUME mode' = mode, ledger' = [ledger EXCEPT !.next = ledger'.next],
             ledger'.next \in ledger.next..MaxGeneration, access' \in {access, mode},
             pendingDirty' = {}, carriedDirty' = Changed, UNCHANGED <<plan, since>>
      PROVE  CaptureInv'
  <2>1. /\ ledger' \in [next : 1..MaxGeneration, published : 1..MaxGeneration \cup {0},
                        covered : BOOLEAN, pending : 1..MaxGeneration \cup {0}]
        /\ ledger'.published = ledger.published /\ ledger'.covered = ledger.covered
        /\ ledger'.pending = ledger.pending /\ ledger'.next >= ledger.next
        /\ ledger'.next \in Nat
    BY <1>0, <1>2, <1>8 DEF TypeOK
  <2>2. TypeOK'
    BY <1>0, <1>1, <1>2, <1>4, <1>5, <1>8, <2>1 DEF TypeOK
  <2>3. PendingHolds' /\ LedgerOrdered'
    BY <1>0, <1>1, <1>2, <1>8, <2>1 DEF TypeOK, PendingHolds, LedgerOrdered
  <2>4. CoverageTracked' /\ FreezeOwned'
    BY <1>0, <1>1, <1>4, <1>8, <2>1 DEF CoverageTracked, FreezeOwned
  <2>5. CandidateExact' /\ CoverageKept'
    BY <1>1, <1>3, <1>8, <2>1 DEF CandidateExact, CoverageKept
  <2>. QED BY <1>6, <2>2, <2>3, <2>4, <2>5 DEF CaptureInv
<1>9. since[baseline] \ Changed = {}
  BY <1>3
<1>10. CASE CanPlan /\ PlanCapture(ledger.next, "Incremental", baseline, Changed, since[baseline] \ Changed)
            /\ pendingDirty' = Changed /\ carriedDirty' = {} /\ access' = mode /\ mode' = "Frozen"
  <2>1. PlanCapture(ledger.next, "Incremental", baseline, Changed, {})
    BY <1>9, <1>10
  <2>. QED BY <1>0, <1>1, <1>2, <1>7, <1>10, <2>1 DEF CanPlan
<1>11. CASE CanPlan /\ ledger.next + 1 < MaxGeneration
            /\ PlanCapture(ledger.next + 1, "Full", None, {}, {})
            /\ pendingDirty' = Changed /\ carriedDirty' = {} /\ access' = mode /\ mode' = "Frozen"
  BY <1>0, <1>2, <1>7, <1>11
<1>12. CASE CanPlan /\ ledger' = [ledger EXCEPT !.next = @ + 1]
            /\ pendingDirty' = {} /\ carriedDirty' = Changed /\ access' = mode
            /\ UNCHANGED <<mode, plan, since>>
  <2>1. ledger'.next = ledger.next + 1
    BY <1>0, <1>12 DEF TypeOK
  <2>. QED BY <1>0, <1>2, <1>8, <1>12, <2>1 DEF CanPlan
<1>13. CASE pendingDirty' = {} /\ carriedDirty' = Changed
            /\ UNCHANGED <<mode, ledger, plan, access, since>>
  <2>1. ledger' = [ledger EXCEPT !.next = ledger'.next] /\ ledger'.next \in ledger.next..MaxGeneration
    BY <1>0, <1>2, <1>13 DEF TypeOK
  <2>. QED BY <1>8, <1>13, <2>1
<1>. QED BY <1>10, <1>11, <1>12, <1>13 DEF PlanIncrementalMemoryCapture

\* A harvest that cannot be trusted gives up the baseline.
LEMMA IncrementalUnavailableInv ==
  ASSUME NEW baseline \in issued, CaptureInv, IncrementalUnavailable(baseline)
  PROVE  CaptureInv'
<1>0. TypeOK /\ PendingHolds /\ LedgerOrdered /\ SlotsKnown /\ CoverageTracked
      /\ FreezeOwned /\ CandidateExact /\ CoverageKept /\ MaxGeneration \in Nat
  BY GenerationAssumption DEF CaptureInv
<1>1. TypeOK'
  <2>1. vm' \in [tracking : BOOLEAN, logging : SUBSET Ram, log : SUBSET Ram]
    <3>1. CASE ~valid
      BY <1>0, <3>1 DEF TypeOK, IncrementalUnavailable
    <3>2. CASE valid
      <4>1. PICK part \in SUBSET Ram : vm' = [vm EXCEPT !.log = @ \ part]
        BY <3>2 DEF IncrementalUnavailable, HarvestFails, Parts
      <4>. QED BY <1>0, <4>1 DEF TypeOK
    <3>. QED BY <3>1, <3>2
  <2>2. needsRearm' \in BOOLEAN
    <3>1. CASE valid
      BY <3>1 DEF IncrementalUnavailable
    <3>2. CASE ~valid
      BY <1>0, <3>2 DEF TypeOK, IncrementalUnavailable
    <3>. QED BY <3>1, <3>2
  <2>3. ledger' \in [next : Generation, published : Generation \cup {None}, covered : BOOLEAN,
                    pending : Generation \cup {None}]
    BY <1>0 DEF TypeOK, IncrementalUnavailable
  <2>. QED
    BY <1>0, <2>1, <2>2, <2>3 DEF TypeOK, IncrementalUnavailable, NextAccess, hostVars
<1>2. PendingHolds'
  BY <1>0 DEF TypeOK, PendingHolds, IncrementalUnavailable, Incremental, NextAccess, hostVars
<1>3. LedgerOrdered'
  BY <1>0 DEF TypeOK, LedgerOrdered, IncrementalUnavailable, Incremental, NextAccess, hostVars
<1>4. SlotsKnown'
  BY <1>0 DEF TypeOK, SlotsKnown, IncrementalUnavailable, Incremental, NextAccess, hostVars
<1>5. CoverageTracked'
  BY <1>0 DEF TypeOK, CoverageTracked, LedgerOrdered, SlotsKnown, PendingHolds,
     IncrementalUnavailable, Incremental, NextAccess, hostVars
<1>6. FreezeOwned'
  BY <1>0 DEF TypeOK, FreezeOwned, IncrementalUnavailable, Incremental, NextAccess, hostVars
<1>7. CandidateExact'
  BY <1>0 DEF TypeOK, CandidateExact, PendingHolds, IncrementalUnavailable, Incremental,
     NextAccess, hostVars
<1>8. CoverageKept'
  BY <1>0 DEF TypeOK, CoverageKept, CoverageTracked, LedgerOrdered, PendingHolds, SlotsKnown,
     IncrementalUnavailable, Incremental, NextAccess, hostVars
<1>. QED BY <1>1, <1>2, <1>3, <1>4, <1>5, <1>6, <1>7, <1>8 DEF CaptureInv

\* Reconciliation fails: the slots stay marked and the baseline is already lost.
LEMMA PublishCannotReconcileInv ==
  ASSUME CaptureInv, PublishCannotReconcile
  PROVE  CaptureInv'
<1>0. TypeOK /\ PendingHolds /\ LedgerOrdered /\ SlotsKnown /\ CoverageTracked
      /\ FreezeOwned /\ CandidateExact /\ CoverageKept /\ MaxGeneration \in Nat
  BY GenerationAssumption DEF CaptureInv
<1>1. TypeOK'
  <2>1. PICK part \in SUBSET Ram : vm' = [vm EXCEPT !.logging = @ \ part, !.log = @ \ part]
    BY DEF PublishCannotReconcile, StopFails, Parts
  <2>2. vm' \in [tracking : BOOLEAN, logging : SUBSET Ram, log : SUBSET Ram]
    BY <1>0, <2>1 DEF TypeOK
  <2>3. dirty' \in SUBSET Ram /\ valid' \in BOOLEAN /\ written' \in SUBSET Ram /\ mode' = mode
    BY <1>0 DEF TypeOK, PublishCannotReconcile, ConfigureTracking, Host!Replace, hostVars
  <2>. QED
    BY <1>0, <2>2, <2>3 DEF TypeOK, PublishCannotReconcile
<1>2. PendingHolds'
  BY <1>0 DEF TypeOK, PendingHolds, PublishCannotReconcile, Publishing, ConfigureTracking,
     Host!Replace, hostVars
<1>3. LedgerOrdered'
  BY <1>0 DEF TypeOK, LedgerOrdered, PublishCannotReconcile, Publishing, ConfigureTracking,
     Host!Replace, hostVars
<1>4. SlotsKnown'
  BY <1>0 DEF TypeOK, SlotsKnown, PublishCannotReconcile, Publishing, ConfigureTracking,
     Host!Replace, hostVars
<1>5. CoverageTracked'
  BY <1>0 DEF TypeOK, CoverageTracked, LedgerOrdered, SlotsKnown, PendingHolds,
     PublishCannotReconcile, Publishing, ConfigureTracking, Host!Replace, hostVars
<1>6. FreezeOwned'
  BY <1>0 DEF TypeOK, FreezeOwned, PublishCannotReconcile, Publishing, ConfigureTracking,
     Host!Replace, hostVars
<1>7. CandidateExact'
  BY <1>0 DEF TypeOK, CandidateExact, PendingHolds, PublishCannotReconcile, Publishing,
     ConfigureTracking, Host!Replace, hostVars
<1>8. CoverageKept'
  BY <1>0 DEF TypeOK, CoverageKept, CoverageTracked, LedgerOrdered, PendingHolds, SlotsKnown,
     PublishCannotReconcile, Publishing, ConfigureTracking, Host!Replace, hostVars
<1>. QED BY <1>1, <1>2, <1>3, <1>4, <1>5, <1>6, <1>7, <1>8 DEF CaptureInv

\* The next generation cannot be tracked: the baseline is given up.
LEMMA PublishCannotTrackInv ==
  ASSUME CaptureInv, PublishCannotTrack
  PROVE  CaptureInv'
<1>0. TypeOK /\ PendingHolds /\ LedgerOrdered /\ SlotsKnown /\ CoverageTracked
      /\ FreezeOwned /\ CandidateExact /\ CoverageKept /\ MaxGeneration \in Nat
  BY GenerationAssumption DEF CaptureInv
<1>1. TypeOK'
  <2>1. Reconciled \in [tracking : BOOLEAN, logging : SUBSET Ram, log : SUBSET Ram]
    BY <1>0 DEF TypeOK, Reconciled, Unarmed
  <2>2. vm' \in [tracking : BOOLEAN, logging : SUBSET Ram, log : SUBSET Ram]
    <3>1. CASE vm' \in HarvestFails(Reconciled)
      <4>1. PICK part \in SUBSET Ram : vm' = [Reconciled EXCEPT !.log = @ \ part]
        BY <3>1 DEF HarvestFails, Parts
      <4>. QED BY <2>1, <4>1
    <3>2. CASE vm' \in ArmFails(Reconciled)
      <4>1. PICK part \in SUBSET Ram : vm' = [Reconciled EXCEPT !.logging = @ \cup part]
        BY <3>2 DEF ArmFails, Parts
      <4>. QED BY <2>1, <4>1
    <3>. QED BY <3>1, <3>2 DEF PublishCannotTrack
  <2>3. dirty' \in SUBSET Ram /\ valid' \in BOOLEAN /\ written' \in SUBSET Ram /\ mode' = mode
    BY <1>0 DEF TypeOK, PublishCannotTrack, ConfigureTracking, Host!Replace, hostVars
  <2>4. ledger' \in [next : Generation, published : Generation \cup {None}, covered : BOOLEAN,
                    pending : Generation \cup {None}]
    BY <1>0 DEF TypeOK, PublishCannotTrack
  <2>. QED
    BY <1>0, <2>2, <2>3, <2>4 DEF TypeOK, PublishCannotTrack, StillActive
<1>2. PendingHolds'
  BY <1>0 DEF TypeOK, PendingHolds, PublishCannotTrack, Publishing, ConfigureTracking,
     Host!Replace, StillActive, hostVars
<1>3. LedgerOrdered'
  BY <1>0 DEF TypeOK, LedgerOrdered, PublishCannotTrack, Publishing, ConfigureTracking,
     Host!Replace, StillActive, hostVars
<1>4. SlotsKnown'
  BY <1>0 DEF TypeOK, SlotsKnown, PublishCannotTrack, Publishing, ConfigureTracking,
     Host!Replace, StillActive, hostVars
<1>5. CoverageTracked'
  BY <1>0 DEF TypeOK, CoverageTracked, LedgerOrdered, SlotsKnown, PendingHolds,
     PublishCannotTrack, Publishing, ConfigureTracking, Host!Replace, StillActive, hostVars
<1>6. FreezeOwned'
  BY <1>0 DEF TypeOK, FreezeOwned, PublishCannotTrack, Publishing, ConfigureTracking,
     Host!Replace, StillActive, hostVars
<1>7. CandidateExact'
  BY <1>0 DEF TypeOK, CandidateExact, PendingHolds, PublishCannotTrack, Publishing,
     ConfigureTracking, Host!Replace, StillActive, hostVars
<1>8. CoverageKept'
  BY <1>0 DEF TypeOK, CoverageKept, CoverageTracked, LedgerOrdered, PendingHolds, SlotsKnown,
     PublishCannotTrack, Publishing, ConfigureTracking, Host!Replace, StillActive, hostVars
<1>. QED BY <1>1, <1>2, <1>3, <1>4, <1>5, <1>6, <1>7, <1>8 DEF CaptureInv

\* No access generation is left: the baseline is given up and access stays frozen.
LEMMA PublishExhaustedInv ==
  ASSUME CaptureInv, PublishExhausted
  PROVE  CaptureInv'
<1>0. TypeOK /\ PendingHolds /\ LedgerOrdered /\ SlotsKnown /\ CoverageTracked
      /\ FreezeOwned /\ CandidateExact /\ CoverageKept /\ MaxGeneration \in Nat
  BY GenerationAssumption DEF CaptureInv
<1>1. TypeOK'
  BY <1>0 DEF TypeOK, PublishExhausted, Publishing, ConfigureTracking, Host!Replace, TrackNext,
     StillActive, Reconciled, Unarmed, Harvested, Armed, hostVars
<1>2. PendingHolds'
  BY <1>0 DEF TypeOK, PendingHolds, PublishExhausted, Publishing, ConfigureTracking,
     Host!Replace, TrackNext, StillActive, Reconciled, Unarmed, Harvested, Armed, hostVars
<1>3. LedgerOrdered'
  BY <1>0 DEF TypeOK, LedgerOrdered, PublishExhausted, Publishing, ConfigureTracking,
     Host!Replace, TrackNext, StillActive, Reconciled, Unarmed, Harvested, Armed, hostVars
<1>4. SlotsKnown'
  BY <1>0 DEF TypeOK, SlotsKnown, PublishExhausted, Publishing, ConfigureTracking, Host!Replace,
     TrackNext, StillActive, Reconciled, Unarmed, Harvested, Armed, hostVars
<1>5. CoverageTracked'
  BY <1>0 DEF TypeOK, CoverageTracked, LedgerOrdered, SlotsKnown, PendingHolds,
     PublishExhausted, Publishing, ConfigureTracking, Host!Replace, TrackNext, StillActive,
     Reconciled, Unarmed, Harvested, Armed, hostVars
<1>6. FreezeOwned'
  BY <1>0 DEF TypeOK, FreezeOwned, PublishExhausted, Publishing, ConfigureTracking,
     Host!Replace, TrackNext, StillActive, Reconciled, Unarmed, Harvested, Armed, hostVars
<1>7. CandidateExact'
  BY <1>0 DEF TypeOK, CandidateExact, PendingHolds, PublishExhausted, Publishing,
     ConfigureTracking, Host!Replace, TrackNext, StillActive, Reconciled, Unarmed, Harvested,
     Armed, hostVars
<1>8. CoverageKept'
  BY <1>0 DEF TypeOK, CoverageKept, CoverageTracked, LedgerOrdered, PendingHolds, SlotsKnown,
     PublishExhausted, Publishing, ConfigureTracking, Host!Replace, TrackNext, StillActive,
     Reconciled, Unarmed, Harvested, Armed, hostVars
<1>. QED BY <1>1, <1>2, <1>3, <1>4, <1>5, <1>6, <1>7, <1>8 DEF CaptureInv

\* Publication: the candidate is exact, and both trackers start empty behind it.
LEMMA PublishMemoryCaptureInv ==
  ASSUME CaptureInv, PublishMemoryCapture
  PROVE  CaptureInv'
<1>0. TypeOK /\ PendingHolds /\ LedgerOrdered /\ SlotsKnown /\ CoverageTracked
      /\ FreezeOwned /\ CandidateExact /\ CoverageKept /\ MaxGeneration \in Nat
  BY GenerationAssumption DEF CaptureInv
<1>1. TypeOK'
  BY <1>0 DEF TypeOK, PublishMemoryCapture, Publishing, NextAccess, TrackNext, StillActive,
     Reconciled, Unarmed, Harvested, Armed, Host!ThawTracking
<1>2. PendingHolds'
  BY <1>0 DEF TypeOK, PendingHolds, PublishMemoryCapture, Publishing, NextAccess, TrackNext,
     StillActive, Reconciled, Unarmed, Harvested, Armed, Host!ThawTracking
<1>3. LedgerOrdered'
  BY <1>0 DEF TypeOK, LedgerOrdered, PendingHolds, PublishMemoryCapture, Publishing, NextAccess,
     TrackNext, StillActive, Reconciled, Unarmed, Harvested, Armed, Host!ThawTracking
<1>4. SlotsKnown'
  BY <1>0 DEF TypeOK, SlotsKnown, PublishMemoryCapture, Publishing, NextAccess, TrackNext,
     StillActive, Reconciled, Unarmed, Harvested, Armed, Host!ThawTracking
<1>5. CoverageTracked'
  BY <1>0 DEF TypeOK, CoverageTracked, LedgerOrdered, SlotsKnown, PendingHolds,
     PublishMemoryCapture, Publishing, NextAccess, TrackNext, StillActive, Reconciled, Unarmed,
     Harvested, Armed, Host!ThawTracking
<1>6. FreezeOwned'
  BY <1>0 DEF TypeOK, FreezeOwned, PublishMemoryCapture, Publishing, NextAccess, TrackNext,
     StillActive, Reconciled, Unarmed, Harvested, Armed, Host!ThawTracking
<1>7. CandidateExact'
  BY <1>0 DEF TypeOK, CandidateExact, PendingHolds, PublishMemoryCapture, Publishing,
     NextAccess, TrackNext, StillActive, Reconciled, Unarmed, Harvested, Armed,
     Host!ThawTracking
<1>8. CoverageKept'
  BY <1>0 DEF TypeOK, CoverageKept, CoverageTracked, LedgerOrdered, PendingHolds, SlotsKnown,
     CandidateExact, PublishMemoryCapture, Publishing, NextAccess, TrackNext, StillActive,
     Reconciled, Unarmed, Harvested, Armed, Host!ThawTracking
<1>. QED BY <1>1, <1>2, <1>3, <1>4, <1>5, <1>6, <1>7, <1>8 DEF CaptureInv

\* Abandoning a candidate moves its harvest to the carried ranges.
LEMMA AbandonMemoryCaptureInv ==
  ASSUME CaptureInv, AbandonMemoryCapture
  PROVE  CaptureInv'
<1>0. TypeOK /\ PendingHolds /\ LedgerOrdered /\ SlotsKnown /\ CoverageTracked
      /\ FreezeOwned /\ CandidateExact /\ CoverageKept /\ MaxGeneration \in Nat
  BY GenerationAssumption DEF CaptureInv
<1>1. TypeOK'
  BY <1>0 DEF TypeOK, PendingHolds, AbandonMemoryCapture, Host!ThawMode
<1>2. PendingHolds'
  BY <1>0 DEF TypeOK, PendingHolds, AbandonMemoryCapture, Host!ThawMode
<1>3. LedgerOrdered'
  BY <1>0 DEF TypeOK, LedgerOrdered, AbandonMemoryCapture, Host!ThawMode
<1>4. SlotsKnown'
  BY <1>0 DEF TypeOK, SlotsKnown, AbandonMemoryCapture, Host!ThawMode
<1>5. CoverageTracked'
  BY <1>0 DEF TypeOK, CoverageTracked, LedgerOrdered, SlotsKnown, PendingHolds,
     AbandonMemoryCapture, Host!ThawMode
<1>6. FreezeOwned'
  BY <1>0 DEF TypeOK, FreezeOwned, PendingHolds, AbandonMemoryCapture, Host!ThawMode
<1>7. CandidateExact'
  BY <1>0 DEF TypeOK, CandidateExact, PendingHolds, AbandonMemoryCapture, Host!ThawMode
<1>8. CoverageKept'
  BY <1>0 DEF TypeOK, CoverageKept, CoverageTracked, LedgerOrdered, PendingHolds, SlotsKnown,
     AbandonMemoryCapture, Host!ThawMode
<1>. QED BY <1>1, <1>2, <1>3, <1>4, <1>5, <1>6, <1>7, <1>8 DEF CaptureInv

\* A release that fails marks the slots and gives up the baseline.
LEMMA ReleaseFailsInv ==
  ASSUME CaptureInv, ReleaseFails
  PROVE  CaptureInv'
<1>0. TypeOK /\ PendingHolds /\ LedgerOrdered /\ SlotsKnown /\ CoverageTracked
      /\ FreezeOwned /\ CandidateExact /\ CoverageKept /\ MaxGeneration \in Nat
  BY GenerationAssumption DEF CaptureInv
<1>1. TypeOK'
  <2>1. PICK part \in SUBSET Ram : vm' = [vm EXCEPT !.logging = @ \ part, !.log = @ \ part]
    BY DEF ReleaseFails, StopFails, Parts
  <2>2. vm' \in [tracking : BOOLEAN, logging : SUBSET Ram, log : SUBSET Ram]
    BY <1>0, <2>1 DEF TypeOK
  <2>. QED
    BY <1>0, <2>2 DEF TypeOK, ReleaseFails, NextAccess, hostVars
<1>2. PendingHolds'
  BY <1>0 DEF TypeOK, PendingHolds, ReleaseFails, NextAccess, hostVars
<1>3. LedgerOrdered'
  BY <1>0 DEF TypeOK, LedgerOrdered, ReleaseFails, NextAccess, hostVars
<1>4. SlotsKnown'
  BY <1>0 DEF TypeOK, SlotsKnown, ReleaseFails, NextAccess, hostVars
<1>5. CoverageTracked'
  BY <1>0 DEF TypeOK, CoverageTracked, LedgerOrdered, SlotsKnown, PendingHolds, ReleaseFails,
     NextAccess, hostVars
<1>6. FreezeOwned'
  BY <1>0 DEF TypeOK, FreezeOwned, ReleaseFails, NextAccess, hostVars
<1>7. CandidateExact'
  BY <1>0 DEF TypeOK, CandidateExact, PendingHolds, ReleaseFails, NextAccess, hostVars
<1>8. CoverageKept'
  BY <1>0 DEF TypeOK, CoverageKept, CoverageTracked, LedgerOrdered, PendingHolds, SlotsKnown,
     ReleaseFails, NextAccess, hostVars
<1>. QED BY <1>1, <1>2, <1>3, <1>4, <1>5, <1>6, <1>7, <1>8 DEF CaptureInv

\* A release without an access generation stays frozen.
LEMMA ReleaseExhaustedInv ==
  ASSUME CaptureInv, ReleaseExhausted
  PROVE  CaptureInv'
<1>0. TypeOK /\ PendingHolds /\ LedgerOrdered /\ SlotsKnown /\ CoverageTracked
      /\ FreezeOwned /\ CandidateExact /\ CoverageKept /\ MaxGeneration \in Nat
  BY GenerationAssumption DEF CaptureInv
<1>1. TypeOK'
  BY <1>0 DEF TypeOK, ReleaseExhausted, Host!Freeze, Unarmed
<1>2. PendingHolds'
  BY <1>0 DEF TypeOK, PendingHolds, ReleaseExhausted, Host!Freeze, Unarmed
<1>3. LedgerOrdered'
  BY <1>0 DEF TypeOK, LedgerOrdered, ReleaseExhausted, Host!Freeze, Unarmed
<1>4. SlotsKnown'
  BY <1>0 DEF TypeOK, SlotsKnown, ReleaseExhausted, Host!Freeze, Unarmed
<1>5. CoverageTracked'
  BY <1>0 DEF TypeOK, CoverageTracked, LedgerOrdered, SlotsKnown, PendingHolds,
     ReleaseExhausted, Host!Freeze, Unarmed
<1>6. FreezeOwned'
  BY <1>0 DEF TypeOK, FreezeOwned, ReleaseExhausted, Host!Freeze, Unarmed
<1>7. CandidateExact'
  BY <1>0 DEF TypeOK, CandidateExact, PendingHolds, ReleaseExhausted, Host!Freeze, Unarmed
<1>8. CoverageKept'
  BY <1>0 DEF TypeOK, CoverageKept, CoverageTracked, LedgerOrdered, PendingHolds, SlotsKnown,
     ReleaseExhausted, Host!Freeze, Unarmed
<1>. QED BY <1>1, <1>2, <1>3, <1>4, <1>5, <1>6, <1>7, <1>8 DEF CaptureInv

\* A release, on its own or as the repair before a resume, gives up the baseline.
LEMMA ReleaseMemoryBaselineInv ==
  ASSUME CaptureInv, ReleaseMemoryBaseline, execution = "paused", execution' \in {"paused", "running", "indeterminate"}
  PROVE  CaptureInv'
<1>0. TypeOK /\ PendingHolds /\ LedgerOrdered /\ SlotsKnown /\ CoverageTracked
      /\ FreezeOwned /\ CandidateExact /\ CoverageKept /\ MaxGeneration \in Nat
  BY GenerationAssumption DEF CaptureInv
<1>1. TypeOK'
  BY <1>0 DEF TypeOK, ReleaseMemoryBaseline, NextAccess, Unarmed
<1>2. PendingHolds'
  BY <1>0 DEF TypeOK, PendingHolds, ReleaseMemoryBaseline, NextAccess, Unarmed
<1>3. LedgerOrdered'
  BY <1>0 DEF TypeOK, LedgerOrdered, ReleaseMemoryBaseline, NextAccess, Unarmed
<1>4. SlotsKnown'
  BY <1>0 DEF TypeOK, SlotsKnown, ReleaseMemoryBaseline, NextAccess, Unarmed
<1>5. CoverageTracked'
  BY <1>0 DEF TypeOK, CoverageTracked, LedgerOrdered, SlotsKnown, PendingHolds,
     ReleaseMemoryBaseline, NextAccess, Unarmed
<1>6. FreezeOwned'
  BY <1>0 DEF TypeOK, FreezeOwned, ReleaseMemoryBaseline, NextAccess, Unarmed
<1>7. CandidateExact'
  BY <1>0 DEF TypeOK, CandidateExact, PendingHolds, ReleaseMemoryBaseline, NextAccess, Unarmed
<1>8. CoverageKept'
  BY <1>0 DEF TypeOK, CoverageKept, CoverageTracked, LedgerOrdered, PendingHolds, SlotsKnown,
     ReleaseMemoryBaseline, NextAccess, Unarmed
<1>. QED BY <1>1, <1>2, <1>3, <1>4, <1>5, <1>6, <1>7, <1>8 DEF CaptureInv

\* Pausing changes neither memory nor its trackers.
LEMMA PauseInv ==
  ASSUME CaptureInv, Pause
  PROVE  CaptureInv'
<1>0. TypeOK /\ PendingHolds /\ LedgerOrdered /\ SlotsKnown /\ CoverageTracked
      /\ FreezeOwned /\ CandidateExact /\ CoverageKept /\ MaxGeneration \in Nat
  BY GenerationAssumption DEF CaptureInv
<1>1. TypeOK'
  BY <1>0 DEF TypeOK, Pause, hostVars, captureVars
<1>2. PendingHolds'
  BY <1>0 DEF TypeOK, PendingHolds, Pause, hostVars, captureVars
<1>3. LedgerOrdered'
  BY <1>0 DEF TypeOK, LedgerOrdered, Pause, hostVars, captureVars
<1>4. SlotsKnown'
  BY <1>0 DEF TypeOK, SlotsKnown, Pause, hostVars, captureVars
<1>5. CoverageTracked'
  BY <1>0 DEF TypeOK, CoverageTracked, LedgerOrdered, SlotsKnown, PendingHolds, Pause, hostVars,
     captureVars
<1>6. FreezeOwned'
  BY <1>0 DEF TypeOK, FreezeOwned, Pause, hostVars, captureVars
<1>7. CandidateExact'
  BY <1>0 DEF TypeOK, CandidateExact, PendingHolds, Pause, hostVars, captureVars
<1>8. CoverageKept'
  BY <1>0 DEF TypeOK, CoverageKept, CoverageTracked, LedgerOrdered, PendingHolds, SlotsKnown,
     Pause, hostVars, captureVars
<1>. QED BY <1>1, <1>2, <1>3, <1>4, <1>5, <1>6, <1>7, <1>8 DEF CaptureInv

\* A resume repairs marked slots first and never runs under a pending candidate.
LEMMA ResumeInv ==
  ASSUME CaptureInv, Resume
  PROVE  CaptureInv'
<1>1. CASE needsRearm /\ ReleaseMemoryBaseline
  BY <1>1, ReleaseMemoryBaselineInv DEF Resume
<1>2. CASE ~needsRearm /\ UNCHANGED <<hostVars, exhausted, captureVars, issued, since>>
  <2>1. execution' \in {"running", "indeterminate"} /\ ~HasPending
    BY DEF Resume
  <2>2. TypeOK'
    BY <1>2, <2>1 DEF CaptureInv, TypeOK, hostVars, captureVars
  <2>3. PendingHolds' /\ LedgerOrdered' /\ SlotsKnown' /\ CoverageTracked' /\ FreezeOwned'
    BY <1>2, <2>1 DEF CaptureInv, PendingHolds, LedgerOrdered, SlotsKnown, CoverageTracked,
       FreezeOwned, hostVars, captureVars
  <2>4. CandidateExact' /\ CoverageKept'
    BY <1>2, <2>1 DEF CaptureInv, CandidateExact, CoverageKept, hostVars, captureVars
  <2>. QED BY <2>2, <2>3, <2>4 DEF CaptureInv
<1>. QED BY <1>1, <1>2 DEF Resume

-----------------------------------------------------------------------------
\* The capture operations of lib.rs keep the inductive invariant.
THEOREM CaptureInvariant == Spec => []CaptureInv
<1>1. CaptureInv /\ [Next]_vars => CaptureInv'
  <2>. SUFFICES ASSUME CaptureInv, [Next]_vars PROVE CaptureInv'
    OBVIOUS
  <2>1. CASE UNCHANGED vars
    BY <2>1 DEF CaptureInv, TypeOK, PendingHolds, LedgerOrdered, SlotsKnown, CoverageTracked,
       FreezeOwned, CandidateExact, CoverageKept, vars, hostVars, captureVars
  <2>2. ASSUME NEW page \in Ram, CpuWrite(page) \/ HostWrite(page) PROVE CaptureInv'
    BY <2>2, CpuWriteInv, HostWriteInv
  <2>3. ASSUME NEW baseline \in issued,
               PlanIncrementalMemoryCapture(baseline) \/ IncrementalUnavailable(baseline)
        PROVE  CaptureInv'
    BY <2>3, PlanIncrementalMemoryCaptureInv, IncrementalUnavailableInv
  <2>4. CASE HostAnnounce \/ PlanFullMemoryCapture \/ AbandonMemoryCapture \/ Pause \/ Resume
    BY <2>4, HostAnnounceInv, PlanFullMemoryCaptureInv, AbandonMemoryCaptureInv, PauseInv, ResumeInv
  <2>5. CASE PublishCannotReconcile \/ PublishCannotTrack \/ PublishExhausted \/ PublishMemoryCapture
    BY <2>5, PublishCannotReconcileInv, PublishCannotTrackInv, PublishExhaustedInv,
       PublishMemoryCaptureInv
  <2>6. CASE ReleaseFails \/ ReleaseExhausted \/ Release
    <3>1. CASE Release
      BY <3>1, ReleaseMemoryBaselineInv DEF Release
    <3>. QED BY <2>6, <3>1, ReleaseFailsInv, ReleaseExhaustedInv
  <2>. QED BY <2>1, <2>2, <2>3, <2>4, <2>5, <2>6 DEF Next
<1>. QED BY <1>1, InitInv, PTL DEF Spec

\* A pending candidate is exactly guest memory, whatever was harvested, carried,
\* abandoned or failed before it (plan_* to publish or abandon).
THEOREM CandidateExactHolds == Spec => []CandidateExact
<1>1. CaptureInv => CandidateExact
  BY DEF CaptureInv
<1>. QED BY <1>1, CaptureInvariant, PTL

\* A baseline the ledger calls covered can be brought up to date from the trackers
\* and the harvested ranges (retain_dirty_coverage, invalidate_baseline).
THEOREM CoverageKeptHolds == Spec => []CoverageKept
<1>1. CaptureInv => CoverageKept
  BY DEF CaptureInv
<1>. QED BY <1>1, CaptureInvariant, PTL

\* vCPUs run only with every slot logging or none (the repair in resume_vcpus_from).
THEOREM RunsReconciledHolds == Spec => []RunsReconciled
<1>1. CaptureInv => RunsReconciled
  BY DEF CaptureInv, SlotsKnown, RunsReconciled
<1>. QED BY <1>1, CaptureInvariant, PTL

=============================================================================
