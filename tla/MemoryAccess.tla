---------------------------- MODULE MemoryAccess ----------------------------
(***************************************************************************)
(* The request-scoped access epochs of guest memory                        *)
(* (src/src/devices/src/virtio/memory_access.rs, dirty_bitmap.rs): queue   *)
(* workers admit a request, mark what it may write and end it; the VMM     *)
(* freezes admission, drains the workers and reopens access, tracked or    *)
(* not.  Every atomic load, store and counter update is a step of its own. *)
(* The workers follow Queue::pop, add_used and set_notification            *)
(* (src/src/devices/src/virtio/queue.rs); the VMM calls the domain as      *)
(* src/src/vmm/src/lib.rs does, everything but freeze at a frozen boundary.*)
(***************************************************************************)
EXTENDS Integers, FiniteSets

CONSTANTS
    N,              \* number of participants (virtqueues), drained in order
    Heads,          \* descriptor heads a queue may have active at once
    Ram,            \* pages of registered RAM
    Hole,           \* a page outside registered RAM that a descriptor may name
    MaxGeneration,  \* the last access generation (u64::MAX >> GENERATION_SHIFT)
    Deadlines       \* whether the freeze timeout may expire

ASSUME ParticipantsAssumption == N \in Nat \ {0}
ASSUME HeadsAssumption == IsFiniteSet(Heads) /\ Heads # {}
ASSUME HoleAssumption == Hole \notin Ram
ASSUME GenerationAssumption == MaxGeneration \in Nat
ASSUME DeadlinesAssumption == Deadlines \in BOOLEAN

Participants == 1..N
Pages == Ram \cup {Hole}

VARIABLES
    state,           \* the packed atomic: mode and generation
    trackingEnabled,
    bitmap,          \* Option<DirtyBitmap>: installed, its dirty pages, valid
    phase,           \* the VMM: open, draining (in freeze) or held (freeze returned)
    previous,        \* the mode freeze will return
    draining,        \* the participant freeze waits for
    asleep,          \* freeze sleeps on that participant's condition variable
    active,          \* per participant, the count of admitted requests
    admitted,        \* per participant, the heads it owns
    exposed,         \* per participant and head, the pages it may write
    pc,              \* per participant, its place in begin_request or wait_until_thawed
    seen,            \* per participant, the state begin_request loaded
    wanted,          \* per participant, the head and pages of the request it begins
    written          \* history: pages written since the bitmap was last emptied

vmmVars == <<state, trackingEnabled, bitmap, phase, previous, draining>>
requestVars == <<active, admitted, exposed, wanted, seen>>
vars == <<vmmVars, asleep, requestVars, pc, written>>

-----------------------------------------------------------------------------
Resident == "Resident"
Tracking == "Tracking"
Frozen == "Frozen"

NoBitmap == [installed |-> FALSE, dirty |-> {}, valid |-> FALSE]
CleanBitmap == [installed |-> TRUE, dirty |-> {}, valid |-> TRUE]

\* A write that leaves the registered ranges marks an unspecified part of what
\* it covers and invalidates the inventory.
Mark(map, pages) ==
    {[map EXCEPT !.dirty = @ \cup marked, !.valid = @ /\ pages \subseteq Ram] :
        marked \in {m \in SUBSET (pages \cap Ram) : pages \subseteq Ram => m = pages}}

Init ==
    /\ state = [mode |-> Resident, generation |-> 0]
    /\ trackingEnabled = FALSE
    /\ bitmap = NoBitmap
    /\ phase = "open" /\ previous = Resident /\ draining = 1 /\ asleep = FALSE
    /\ active = [p \in Participants |-> 0]
    /\ admitted = [p \in Participants |-> {}]
    /\ exposed = [p \in Participants |-> [h \in Heads |-> {}]]
    /\ pc = [p \in Participants |-> "idle"]
    /\ seen = [p \in Participants |-> state]
    /\ wanted = [p \in Participants |-> [head |-> CHOOSE h \in Heads : TRUE, pages |-> {}]]
    /\ written = {}

-----------------------------------------------------------------------------
(* A participant: begin_request and wait_until_thawed in the retry loop of *)
(* Queue::pop and set_notification.                                        *)

\* Load the state for a request that owns head and may write pages.
LoadState(p, head, pages) ==
    /\ pc[p] = "idle"
    /\ head \notin admitted[p]
    /\ wanted' = [wanted EXCEPT ![p] = [head |-> head, pages |-> pages]]
    /\ seen' = [seen EXCEPT ![p] = state]
    /\ pc' = [pc EXCEPT ![p] = IF state.mode = Frozen THEN "park" ELSE "loaded"]
    /\ UNCHANGED <<vmmVars, asleep, active, admitted, exposed, written>>

\* The retry after a thaw loads the state again for the same request.
ReloadState(p) ==
    /\ pc[p] = "retry"
    /\ seen' = [seen EXCEPT ![p] = state]
    /\ pc' = [pc EXCEPT ![p] = IF state.mode = Frozen THEN "park" ELSE "loaded"]
    /\ UNCHANGED <<vmmVars, asleep, active, admitted, exposed, wanted, written>>

CountRequest(p) ==
    /\ pc[p] = "loaded"
    /\ active' = [active EXCEPT ![p] = @ + 1]
    /\ pc' = [pc EXCEPT ![p] = "counted"]
    /\ UNCHANGED <<vmmVars, asleep, admitted, exposed, wanted, seen, written>>

\* Mutant: the state is not loaded again after the count.
RecheckState_Skipped(p) ==
    /\ pc[p] = "counted"
    /\ pc' = [pc EXCEPT ![p] = "marking"]
    /\ UNCHANGED <<vmmVars, asleep, requestVars, written>>

\* The second load: admission holds only if nothing changed in between.
RecheckState(p) ==
    /\ pc[p] = "counted"
    /\ pc' = [pc EXCEPT ![p] = IF state = seen[p] THEN "marking" ELSE "reject"]
    /\ UNCHANGED <<vmmVars, asleep, requestVars, written>>

\* The complete inventory is marked before the chain is handed to the worker.
Admit(p) ==
    LET request == wanted[p] IN
    /\ pc[p] = "marking"
    /\ bitmap' \in IF seen[p].mode = Tracking THEN Mark(bitmap, request.pages) ELSE {bitmap}
    /\ admitted' = [admitted EXCEPT ![p] = @ \cup {request.head}]
    /\ exposed' = [exposed EXCEPT ![p][request.head] = request.pages]
    /\ pc' = [pc EXCEPT ![p] = "idle"]
    /\ UNCHANGED <<state, trackingEnabled, phase, previous, draining, asleep, active,
                   wanted, seen, written>>

\* end_request: the count drops; whoever drops it to zero must notify.
Uncount(p, next) ==
    /\ active' = [active EXCEPT ![p] = @ - 1]
    /\ pc' = [pc EXCEPT ![p] = IF active[p] = 1 THEN next.notify ELSE next.continue]

Reject(p) ==
    /\ pc[p] = "reject"
    /\ Uncount(p, [notify |-> "notify-park", continue |-> "park"])
    /\ UNCHANGED <<vmmVars, asleep, admitted, exposed, wanted, seen, written>>

\* Mutant: the drained condition variable is not notified.
Notify_Lost(p) ==
    /\ pc[p] \in {"notify", "notify-park"}
    /\ pc' = [pc EXCEPT ![p] = IF @ = "notify" THEN "idle" ELSE "park"]
    /\ UNCHANGED <<vmmVars, asleep, requestVars, written>>

\* notify_all under drained_lock: freeze cannot be between its check and its wait.
Notify(p) ==
    /\ pc[p] \in {"notify", "notify-park"}
    /\ asleep' = (asleep /\ draining # p)
    /\ pc' = [pc EXCEPT ![p] = IF @ = "notify" THEN "idle" ELSE "park"]
    /\ UNCHANGED <<vmmVars, requestVars, written>>

\* wait_until_thawed: checked and slept under mode_lock.
Park(p) ==
    /\ pc[p] = "park"
    /\ pc' = [pc EXCEPT ![p] = IF state.mode = Frozen THEN "asleep" ELSE "retry"]
    /\ UNCHANGED <<vmmVars, asleep, requestVars, written>>

\* The device model writes guest memory through an admitted chain.
WriteMemory(p, h) ==
    /\ h \in admitted[p]
    /\ \E page \in exposed[p][h] \cap Ram : written' = written \cup {page}
    /\ UNCHANGED <<vmmVars, asleep, requestVars, pc>>

\* Mutant: a draining request is taken for an untracked one.
MarkWrite_ModeOnly(p, h, page) ==
    /\ pc[p] = "idle" /\ h \in admitted[p]
    /\ bitmap' \in IF state.mode = Tracking THEN Mark(bitmap, {page}) ELSE {bitmap}
    /\ exposed' = [exposed EXCEPT ![p][h] = @ \cup {page}]
    /\ UNCHANGED <<state, trackingEnabled, phase, previous, draining, asleep, active,
                   admitted, wanted, seen, pc, written>>

\* mark_write: a page disposition not named by a descriptor, also while draining.
MarkWrite(p, h, page) ==
    /\ pc[p] = "idle" /\ h \in admitted[p]
    /\ bitmap' \in IF trackingEnabled THEN Mark(bitmap, {page}) ELSE {bitmap}
    /\ exposed' = [exposed EXCEPT ![p][h] = @ \cup {page}]
    /\ UNCHANGED <<state, trackingEnabled, phase, previous, draining, asleep, active,
                   admitted, wanted, seen, pc, written>>

\* add_used (or undo_pop, or dropping the queue) completes a head.
EndRequest(p, h) ==
    /\ pc[p] = "idle" /\ h \in admitted[p]
    /\ admitted' = [admitted EXCEPT ![p] = @ \ {h}]
    /\ exposed' = [exposed EXCEPT ![p][h] = {}]
    /\ Uncount(p, [notify |-> "notify", continue |-> "idle"])
    /\ UNCHANGED <<vmmVars, asleep, wanted, seen, written>>

-----------------------------------------------------------------------------
(* The VMM: freeze.                                                        *)

\* Mutant: the generation counter is not checked.
Freeze_Unchecked ==
    /\ phase = "open"
    /\ previous' = state.mode
    /\ state' = [mode |-> Frozen, generation |-> state.generation + 1]
    /\ phase' = "draining" /\ draining' = 1
    /\ UNCHANGED <<trackingEnabled, bitmap, asleep, requestVars, pc, written>>

\* Store the frozen state; next_generation refuses the last one.
Freeze ==
    /\ phase = "open"
    /\ state.generation < MaxGeneration
    /\ previous' = state.mode
    /\ state' = [mode |-> Frozen, generation |-> state.generation + 1]
    /\ phase' = "draining" /\ draining' = 1
    /\ UNCHANGED <<trackingEnabled, bitmap, asleep, requestVars, pc, written>>

\* Look at one participant's count under its drained_lock: move on or sleep.
DrainCheck ==
    /\ phase = "draining" /\ ~asleep
    /\ \/ /\ active[draining] # 0
          /\ asleep' = TRUE
          /\ UNCHANGED <<phase, draining>>
       \/ /\ active[draining] = 0 /\ draining < N
          /\ draining' = draining + 1
          /\ UNCHANGED <<phase, asleep>>
       \/ /\ active[draining] = 0 /\ draining = N
          /\ phase' = "held"
          /\ UNCHANGED <<draining, asleep>>
    /\ UNCHANGED <<state, trackingEnabled, bitmap, previous, requestVars, pc, written>>

\* A mode change under mode_lock wakes every parked worker to look again.
ModeChanged == pc' = [p \in Participants |-> IF pc[p] = "asleep" THEN "park" ELSE pc[p]]

\* Mutant: reopening the preceding mode wakes nobody.
Reopen_Silent ==
    /\ state' = [state EXCEPT !.mode = previous]
    /\ phase' = "open" /\ asleep' = FALSE
    /\ UNCHANGED pc

\* resume_mode: the preceding mode, under the frozen state's generation.
Reopen ==
    /\ state' = [state EXCEPT !.mode = previous]
    /\ phase' = "open" /\ asleep' = FALSE
    /\ ModeChanged

\* Mutant: an abandoned freeze reopens untracked access.
DrainTimeout_Resident ==
    /\ Deadlines
    /\ phase = "draining" /\ asleep /\ active[draining] # 0
    /\ state' = [state EXCEPT !.mode = Resident]
    /\ phase' = "open" /\ asleep' = FALSE
    /\ ModeChanged
    /\ UNCHANGED <<trackingEnabled, bitmap, previous, draining, requestVars, written>>

\* The deadline passes while the participant still has requests: DrainTimeout.
DrainTimeout ==
    /\ Deadlines
    /\ phase = "draining" /\ asleep /\ active[draining] # 0
    /\ Reopen
    /\ UNCHANGED <<trackingEnabled, bitmap, previous, draining, requestVars, written>>

-----------------------------------------------------------------------------
(* The VMM at a frozen boundary.                                           *)

TakeDirtyRanges ==
    /\ phase = "held" /\ bitmap.installed
    /\ bitmap' = [bitmap EXCEPT !.dirty = {}]
    /\ written' = {}
    /\ UNCHANGED <<state, trackingEnabled, phase, previous, draining, asleep, requestVars, pc>>

\* A replaced bitmap discards the preceding host generation.
ConfigureTracking ==
    /\ phase = "held"
    /\ bitmap' = CleanBitmap
    /\ written' = {}
    /\ UNCHANGED <<state, trackingEnabled, phase, previous, draining, asleep, requestVars, pc>>

BeginTracking ==
    /\ phase = "held"
    /\ state.generation < MaxGeneration
    /\ bitmap.installed
    /\ bitmap' = CleanBitmap
    /\ written' = {}
    /\ trackingEnabled' = TRUE
    /\ state' = [mode |-> Tracking, generation |-> state.generation + 1]
    /\ phase' = "open"
    /\ ModeChanged
    /\ UNCHANGED <<previous, draining, asleep, requestVars>>

\* Mutant: later requests are still taken for tracked ones.
ResumeResident_StillTracked ==
    /\ phase = "held"
    /\ state.generation < MaxGeneration
    /\ bitmap' = NoBitmap
    /\ written' = {}
    /\ state' = [mode |-> Resident, generation |-> state.generation + 1]
    /\ phase' = "open"
    /\ ModeChanged
    /\ UNCHANGED <<trackingEnabled, previous, draining, asleep, requestVars>>

ResumeResident ==
    /\ phase = "held"
    /\ state.generation < MaxGeneration
    /\ bitmap' = NoBitmap
    /\ written' = {}
    /\ trackingEnabled' = FALSE
    /\ state' = [mode |-> Resident, generation |-> state.generation + 1]
    /\ phase' = "open"
    /\ ModeChanged
    /\ UNCHANGED <<previous, draining, asleep, requestVars>>

ResumeMode ==
    /\ phase = "held"
    /\ Reopen
    /\ UNCHANGED <<trackingEnabled, bitmap, previous, draining, requestVars, written>>

-----------------------------------------------------------------------------
\* The steps a running worker keeps taking; beginning a request is the guest's
\* choice.
WorkerStep(p) ==
    \/ ReloadState(p) \/ CountRequest(p) \/ RecheckState(p) \/ Admit(p)
    \/ Reject(p) \/ Notify(p) \/ Park(p)
    \/ \E h \in Heads : EndRequest(p, h)

DeviceStep(p) ==
    \E h \in Heads :
        \/ \E pages \in SUBSET Pages : LoadState(p, h, pages)
        \/ WriteMemory(p, h)
        \/ \E page \in Pages : MarkWrite(p, h, page)

VmmStep == \/ Freeze \/ DrainCheck \/ DrainTimeout \/ TakeDirtyRanges \/ ConfigureTracking
           \/ BeginTracking \/ ResumeResident \/ ResumeMode

Next == VmmStep \/ \E p \in Participants : WorkerStep(p) \/ DeviceStep(p)

Spec == Init /\ [][Next]_vars

\* Every thread keeps being scheduled and every admitted I/O completes.
FairSpec ==
    /\ Spec
    /\ WF_vars(DrainCheck)
    /\ \A p \in Participants : WF_vars(WorkerStep(p))

-----------------------------------------------------------------------------
TypeOK ==
    /\ state \in [mode : {Resident, Tracking, Frozen}, generation : 0..MaxGeneration]
    /\ trackingEnabled \in BOOLEAN
    /\ bitmap \in [installed : BOOLEAN, dirty : SUBSET Ram, valid : BOOLEAN]
    /\ phase \in {"open", "draining", "held"}
    /\ previous \in {Resident, Tracking}
    /\ draining \in Participants
    /\ asleep \in BOOLEAN
    /\ active \in [Participants -> Nat]
    /\ admitted \in [Participants -> SUBSET Heads]
    /\ exposed \in [Participants -> [Heads -> SUBSET Pages]]
    /\ pc \in [Participants -> {"idle", "retry", "loaded", "counted", "marking", "reject",
                                "notify", "notify-park", "park", "asleep"}]
    /\ seen \in [Participants -> [mode : {Resident, Tracking, Frozen},
                                  generation : 0..MaxGeneration]]
    /\ wanted \in [Participants -> [head : Heads, pages : SUBSET Pages]]
    /\ written \in SUBSET Ram

\* "Denies new requests and waits for every previously admitted request to
\* finish" (freeze): while the VMM holds the frozen boundary no worker owns a
\* descriptor chain, so none can write guest memory.
FreezeExcludes == phase = "held" => \A p \in Participants : admitted[p] = {}

\* "Mark-before-expose host writes": in a tracked generation whose inventory is
\* valid, the bitmap has every page written since it was last emptied, requests
\* that were admitted before a freeze and extended while draining included.
DirtyCovers == trackingEnabled /\ bitmap.valid => written \subseteq bitmap.dirty

\* begin_request and mark_write find a bitmap whenever they must mark.
BitmapPresent ==
    /\ trackingEnabled => bitmap.installed
    /\ \A p \in Participants : pc[p] = "marking" /\ seen[p].mode = Tracking => bitmap.installed

\* No thaw is missed: a worker sleeps in wait_until_thawed only while frozen.
NoStrandedWorker == \A p \in Participants : pc[p] = "asleep" => state.mode = Frozen

\* A freeze that no deadline cuts short returns once the admitted requests end.
FreezeReturns == phase = "draining" ~> phase # "draining"

-----------------------------------------------------------------------------
\* What the capture path sees: frozen from a freeze's return to the reopening.
Host == INSTANCE HostMemory WITH
    mode <- CASE phase = "held" -> Frozen
              [] phase = "draining" -> previous
              [] OTHER -> state.mode,
    dirty <- bitmap.dirty,
    valid <- bitmap.valid

\* The domain and its workers keep the promise of HostMemory: no write between
\* freeze's return and the reopening, and no unannounced one in between.
ImplementsHostMemory == Host!Spec

=============================================================================
