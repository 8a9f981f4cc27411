----------------------------- MODULE VcpuControl -----------------------------
(***************************************************************************)
(* The VM-wide control protocol between the VMM thread and its vCPU        *)
(* threads: pause and resume barriers, execution-state capture, nested     *)
(* restore preflight, execution-state restore and teardown                 *)
(* (src/src/vmm/src/lib.rs), the vCPU state machine that answers           *)
(* (src/src/vmm/src/linux/vstate.rs, x86_64), and the registry through     *)
(* which VmControl users observe the boundary (src/src/krun/src/api/vm.rs).*)
(*                                                                         *)
(* A VMM operation holds the Vmm mutex from start to return, so at most    *)
(* one is in progress: op.  Each vCPU has two bounded mailboxes, events    *)
(* (VMM to vCPU) and responses (vCPU to VMM); a send into a full one       *)
(* blocks.  A deadline may expire whenever the VMM waits.                  *)
(***************************************************************************)
EXTENDS Integers, Sequences

CONSTANTS
    N,          \* number of vCPU threads; vCPU i of the code is i + 1 here
    Capacity,   \* VCPU_CONTROL_MAILBOX_CAPACITY
    Teardown,   \* VcpuControlRequestId::TEARDOWN (u64::MAX in the code)
    Nested,     \* nested_enabled: restore runs its per-vCPU preflight
    Deadlines   \* whether VCPU_CONTROL_TIMEOUT may expire

ASSUME NAssumption == N \in Nat \ {0}
ASSUME CapacityAssumption == Capacity \in Nat \ {0}
ASSUME TeardownAssumption == Teardown \in Nat /\ Teardown > 3
ASSUME FlagAssumption == Nested \in BOOLEAN /\ Deadlines \in BOOLEAN

Vcpus == 1..N
RequestId == 0..(Teardown - 1)

VARIABLES
    control,          \* life of the Vmm: constructing, published, failed, dropped, stopped
    executionState,   \* Vmm::execution_state
    controlRequestId, \* Vmm::control_request_id
    executionRestoreAllowed,
    registry,         \* VmControlRegistryState: execution and transitioning
    op,               \* the operation that holds the Vmm mutex
    events,           \* per vCPU, the event mailbox
    responses,        \* per vCPU, the response mailbox
    vcpu,             \* per vCPU, the state of its state machine
    outbox,           \* per vCPU, the response it is about to send, with its next state
    kicked,           \* per vCPU, kvm_run.immediate_exit
    boundary,         \* history: per vCPU, the last Pause request it acknowledged
    activated,        \* history: some vCPU has entered the guest
    failedCaptures    \* history: captures that failed since responses were last drained

vmmVars == <<control, executionState, controlRequestId, executionRestoreAllowed, registry, op>>
vcpuVars == <<vcpu, outbox, boundary, activated>>
vars == <<vmmVars, events, responses, vcpuVars, kicked, failedCaptures>>

-----------------------------------------------------------------------------
Paused(g) == [kind |-> "Paused", generation |-> g]
Running(g) == [kind |-> "Running", generation |-> g]
Indeterminate == [kind |-> "Indeterminate", generation |-> 0]
VmmExecutionState ==
    [kind : {"Paused", "Running"}, generation : RequestId] \cup {Indeterminate}

\* Nothing is published yet: VmControlRegistryState::execution is None.
Unpublished == [kind |-> "None", generation |-> 0]

VcpuEvent == [kind : {"Pause", "Resume", "Capture", "Validate", "Restore", "Terminate"},
              id : RequestId]
VcpuResponse == [kind : {"Paused", "Resumed", "StateCaptured", "StateValidated",
                         "StateRestored", "Exited"},
                 id : RequestId, ok : BOOLEAN]

NoOp == [kind |-> "None", stage |-> "send", id |-> 0, next |-> 1,
         from |-> 0, failed |-> FALSE]
Operation == [kind : {"None", "Pause", "Resume", "Capture", "Validate", "Restore", "Terminate"},
              stage : {"send", "wait"}, id : RequestId, next : Vcpus,
              from : RequestId, failed : BOOLEAN]

\* The response a vCPU owes an event, and an operation awaits from every vCPU.
Awaited(kind) == CASE kind = "Pause" -> "Paused"
                   [] kind = "Resume" -> "Resumed"
                   [] kind = "Capture" -> "StateCaptured"
                   [] kind = "Validate" -> "StateValidated"
                   [] OTHER -> "StateRestored"

NoResponse == [response |-> [kind |-> "Exited", id |-> 0, ok |-> FALSE], next |-> "none"]
Outbox == [response : VcpuResponse, next : {"paused", "running", "exited"}] \cup {NoResponse}

Init ==
    /\ control = "constructing"
    /\ executionState = Paused(0)
    /\ controlRequestId = 0
    /\ executionRestoreAllowed = TRUE
    /\ registry = [execution |-> Unpublished, transitioning |-> FALSE]
    /\ op = NoOp
    /\ events = [v \in Vcpus |-> <<>>]
    /\ responses = [v \in Vcpus |-> <<>>]
    /\ vcpu = [v \in Vcpus |-> "paused"]
    /\ outbox = [v \in Vcpus |-> NoResponse]
    /\ kicked = [v \in Vcpus |-> FALSE]
    /\ boundary = [v \in Vcpus |-> 0]
    /\ activated = FALSE
    /\ failedCaptures = 0

-----------------------------------------------------------------------------
(* The VMM thread: the operations that take the mutex.                     *)

\* Mutant: the reserved id itself is handed out.
RequestAvailable_Inclusive == controlRequestId + 1 <= Teardown

\* next_control_request_id: the id just below TEARDOWN is the last one.
RequestAvailable == controlRequestId + 1 < Teardown

\* An operation begins its dispatch loop under a fresh request id.
Begin(kind, from) ==
    /\ RequestAvailable
    /\ controlRequestId' = controlRequestId + 1
    /\ op' = [kind |-> kind, stage |-> "send", id |-> controlRequestId + 1,
              next |-> 1, from |-> from, failed |-> FALSE]

\* Mutant: the registry keeps showing the old boundary during the barrier.
PublishTransitionStarted_Skipped == registry' = registry

\* VmControl::pause publishes the transition before it calls pause_vcpus.
PublishTransitionStarted ==
    registry' = IF control = "published"
                THEN [execution |-> Indeterminate, transitioning |-> TRUE]
                ELSE registry

\* pause_vcpus on a running VM.  A paused VM returns its generation and an
\* indeterminate one an error; neither changes anything.
PauseStart ==
    /\ control = "published" /\ op = NoOp
    /\ executionState.kind = "Running"
    /\ Begin("Pause", executionState.generation)
    /\ executionState' = Indeterminate
    /\ PublishTransitionStarted
    /\ UNCHANGED <<control, executionRestoreAllowed, events, responses, vcpuVars, kicked,
                   failedCaptures>>

\* resume_vcpus_from the current boundary; a failed mapping repair or device
\* reopening returns before this point and leaves the VM paused.
ResumeStart ==
    /\ control \in {"constructing", "published"} /\ op = NoOp
    /\ executionState.kind = "Paused"
    /\ Begin("Resume", executionState.generation)
    /\ executionState' = Indeterminate
    /\ PublishTransitionStarted
    /\ UNCHANGED <<control, executionRestoreAllowed, events, responses, vcpuVars, kicked,
                   failedCaptures>>

\* capture_execution_state keeps the paused boundary throughout.
CaptureStart ==
    /\ control = "published" /\ op = NoOp
    /\ executionState.kind = "Paused"
    /\ Begin("Capture", executionState.generation)
    /\ UNCHANGED <<control, executionState, executionRestoreAllowed, registry, events,
                   responses, vcpuVars, kicked, failedCaptures>>

\* Mutant: restore is not confined to a paused VMM that never ran.
RestoreStart_Anytime ==
    /\ control = "constructing" /\ op = NoOp
    /\ Begin(IF Nested THEN "Validate" ELSE "Restore", executionState.generation)
    /\ executionState' = IF Nested THEN executionState ELSE Indeterminate
    /\ UNCHANGED <<control, executionRestoreAllowed, registry, events, responses, vcpuVars,
                   kicked, failedCaptures>>

\* restore_execution_state, called once by Vm::enter before it publishes the
\* VMM.  With nested virtualization every vCPU first validates its state.
RestoreStart ==
    /\ control = "constructing" /\ op = NoOp
    /\ executionState.kind = "Paused"
    /\ executionRestoreAllowed
    /\ Begin(IF Nested THEN "Validate" ELSE "Restore", executionState.generation)
    /\ executionState' = IF Nested THEN executionState ELSE Indeterminate
    /\ UNCHANGED <<control, executionRestoreAllowed, registry, events, responses, vcpuVars,
                   kicked, failedCaptures>>

\* Vm::enter hands the built VMM to its VmControl users.
PublishVmm ==
    /\ control = "constructing" /\ op = NoOp
    /\ control' = "published"
    /\ registry' = [execution |-> executionState, transitioning |-> FALSE]
    /\ UNCHANGED <<executionState, controlRequestId, executionRestoreAllowed, op, events,
                   responses, vcpuVars, kicked, failedCaptures>>

\* The last owner drops the Vmm: every VcpuHandle is terminated and joined.
DropStart ==
    /\ control \in {"failed", "published"} /\ op = NoOp
    /\ control' = "dropped"
    /\ op' = [NoOp EXCEPT !.kind = "Terminate"]
    /\ UNCHANGED <<executionState, controlRequestId, executionRestoreAllowed, registry,
                   events, responses, vcpuVars, kicked, failedCaptures>>

\* Subscriber::process on the exit event: Vmm::stop ends the process.
ProcessExit ==
    /\ control = "published" /\ op = NoOp
    /\ \E v \in Vcpus : vcpu[v] = "exited"
    /\ control' = "stopped"
    /\ UNCHANGED <<executionState, controlRequestId, executionRestoreAllowed, registry, op,
                   events, responses, vcpuVars, kicked, failedCaptures>>

-----------------------------------------------------------------------------
(* The VMM thread: dispatching an event to every vCPU, then waiting.       *)

\* VcpuHandle::send_event to the next vCPU: a blocking send, then a kick.
SendEvent ==
    /\ op.kind # "None" /\ op.stage = "send"
    /\ LET v == op.next IN
        /\ Len(events[v]) < Capacity
        /\ events' = [events EXCEPT ![v] = Append(@, [kind |-> op.kind, id |-> op.id])]
        /\ kicked' = [kicked EXCEPT ![v] = TRUE]
        /\ op' = IF op.kind = "Terminate" THEN [op EXCEPT !.stage = "wait"]
                 ELSE IF v = N THEN [op EXCEPT !.stage = "wait", !.next = 1]
                 ELSE [op EXCEPT !.next = v + 1]
    /\ UNCHANGED <<control, executionState, controlRequestId, executionRestoreAllowed,
                   registry, responses, vcpuVars, failedCaptures>>

\* The operation returns to its caller, which publishes the resulting state
\* or, while constructing, gives the build up on an error.
Return(success, state) ==
    /\ op' = NoOp
    /\ executionState' = state
    /\ registry' = IF control = "published"
                   THEN [execution |-> state, transitioning |-> FALSE]
                   ELSE registry
    /\ control' = IF control = "constructing" /\ ~success THEN "failed" ELSE control
    /\ failedCaptures' =
         IF success THEN 0
         ELSE IF op.kind = "Capture" THEN failedCaptures + 1 ELSE failedCaptures

\* Mutant: a resume that fails half way reports the boundary it started from.
GiveUp_StillPaused ==
    /\ Return(FALSE, CASE op.kind = "Capture" -> executionState
                      [] op.kind = "Resume" -> Paused(op.from)
                      [] OTHER -> Indeterminate)
    /\ UNCHANGED <<controlRequestId, executionRestoreAllowed>>

\* A pause or resume barrier, a capture or a restore gives up: only a capture
\* leaves the paused boundary known.
GiveUp ==
    /\ Return(FALSE, IF op.kind = "Capture" THEN executionState ELSE Indeterminate)
    /\ UNCHANGED <<controlRequestId, executionRestoreAllowed>>

\* Mutant: the running state records the resume's own id.
Complete_OwnGeneration ==
    \/ /\ op.kind = "Resume"
       /\ Return(TRUE, Running(op.id))
       /\ executionRestoreAllowed' = FALSE
       /\ UNCHANGED controlRequestId
    \/ /\ op.kind # "Resume"
       /\ Return(TRUE, IF op.kind = "Capture" THEN executionState
                       ELSE Paused(IF op.kind = "Pause" THEN op.id ELSE 0))
       /\ UNCHANGED <<controlRequestId, executionRestoreAllowed>>

\* The last vCPU's acknowledgement completes the operation.
Complete ==
    \/ /\ op.kind = "Pause"
       /\ Return(TRUE, Paused(op.id))
       /\ UNCHANGED <<controlRequestId, executionRestoreAllowed>>
    \/ /\ op.kind = "Resume"
       /\ Return(TRUE, Running(op.from))
       /\ executionRestoreAllowed' = FALSE
       /\ UNCHANGED controlRequestId
    \/ /\ op.kind = "Capture"
       /\ Return(TRUE, executionState)
       /\ UNCHANGED <<controlRequestId, executionRestoreAllowed>>
    \/ /\ op.kind = "Restore"
       /\ Return(TRUE, Paused(0))
       /\ executionRestoreAllowed' = FALSE
       /\ UNCHANGED controlRequestId

\* Mutant: the barrier ends one vCPU early.
Advance_Early ==
    IF op.next + 1 >= N THEN Complete
    ELSE /\ op' = [op EXCEPT !.next = @ + 1]
         /\ UNCHANGED <<control, executionState, controlRequestId, executionRestoreAllowed,
                        registry, failedCaptures>>

\* The vCPU being waited for acknowledged this very request.
Advance ==
    IF op.next = N THEN Complete
    ELSE /\ op' = [op EXCEPT !.next = @ + 1]
         /\ UNCHANGED <<control, executionState, controlRequestId, executionRestoreAllowed,
                        registry, failedCaptures>>

\* Mutant: the response's request id is not compared.
Matches_AnyRequest(r) == r.kind = Awaited(op.kind)

Matches(r) == r.kind = Awaited(op.kind) /\ r.id = op.id
Accepted(r) == Matches(r) /\ r.ok
Stale(r) == /\ r.kind \in {"Paused", "Resumed", "StateCaptured", "StateRestored"}
            /\ r.id < op.id

\* wait_for_vcpu_response, wait_for_captured_state, wait_for_restored_state:
\* accept the awaited response, skip older ones, fail on anything else.
ReceiveResponse ==
    /\ op.kind \in {"Pause", "Resume", "Capture", "Restore"} /\ op.stage = "wait"
    /\ responses[op.next] # <<>>
    /\ responses' = [responses EXCEPT ![op.next] = Tail(@)]
    /\ LET r == Head(responses[op.next]) IN
        \/ Accepted(r) /\ Advance
        \/ Stale(r) /\ UNCHANGED <<vmmVars, failedCaptures>>
        \/ ~Accepted(r) /\ ~Stale(r) /\ GiveUp
    /\ UNCHANGED <<events, vcpuVars, kicked>>

\* The one-second deadline of the barrier or transfer expires.
ControlTimeout ==
    /\ Deadlines
    /\ op.kind \in {"Pause", "Resume", "Capture", "Restore"} /\ op.stage = "wait"
    /\ GiveUp
    /\ UNCHANGED <<events, responses, vcpuVars, kicked>>

\* wait_for_vcpu_barrier kicks again every 10 ms, for pauses only.
Rekick ==
    /\ op.kind = "Pause" /\ op.stage = "wait"
    /\ kicked' = [kicked EXCEPT ![op.next] = TRUE]
    /\ UNCHANGED <<vmmVars, events, responses, vcpuVars, failedCaptures>>

\* The preflight collects one answer per vCPU even after a rejection; what it
\* cannot attribute to this request makes the boundary indeterminate.
Preflight(inOrder, accepted) ==
    LET failed == op.failed \/ ~accepted
        state == IF inOrder THEN executionState ELSE Indeterminate
    IN IF op.next < N
       THEN /\ op' = [op EXCEPT !.next = @ + 1, !.failed = failed]
            /\ executionState' = state
            /\ UNCHANGED <<control, controlRequestId, executionRestoreAllowed, registry,
                           failedCaptures>>
       ELSE \/ /\ failed
               /\ Return(FALSE, state)
               /\ UNCHANGED <<controlRequestId, executionRestoreAllowed>>
            \/ /\ ~failed
               /\ Begin("Restore", op.from)
               /\ executionState' = Indeterminate
               /\ UNCHANGED <<control, executionRestoreAllowed, registry, failedCaptures>>

ReceiveValidation ==
    /\ op.kind = "Validate" /\ op.stage = "wait"
    /\ responses[op.next] # <<>>
    /\ responses' = [responses EXCEPT ![op.next] = Tail(@)]
    /\ LET r == Head(responses[op.next])
       IN Preflight(Matches(r), Accepted(r))
    /\ UNCHANGED <<events, vcpuVars, kicked>>

ValidationTimeout ==
    /\ Deadlines
    /\ op.kind = "Validate" /\ op.stage = "wait"
    /\ Preflight(FALSE, FALSE)
    /\ UNCHANGED <<events, responses, vcpuVars, kicked>>

\* Installing the VM-wide state (clock, irqchip) fails before any vCPU's.
VmRestoreFails ==
    /\ op.kind = "Restore" /\ op.stage = "send" /\ op.next = 1
    /\ GiveUp
    /\ UNCHANGED <<events, responses, vcpuVars, kicked>>

\* VcpuHandle::drop joins the thread it terminated, then drops the next handle.
JoinVcpu ==
    /\ op.kind = "Terminate" /\ op.stage = "wait"
    /\ vcpu[op.next] = "finished"
    /\ op' = IF op.next = N THEN NoOp
             ELSE [op EXCEPT !.stage = "send", !.next = @ + 1]
    /\ UNCHANGED <<control, executionState, controlRequestId, executionRestoreAllowed,
                   registry, events, responses, vcpuVars, kicked, failedCaptures>>

-----------------------------------------------------------------------------
(* The vCPU threads.                                                       *)

\* Capture, validation and restore may fail, and a running vCPU rejects a
\* validation.
Outcomes(e, state) ==
    IF e.kind \in {"Pause", "Resume"} THEN {TRUE}
    ELSE IF e.kind = "Validate" /\ state # "paused" THEN {FALSE}
    ELSE BOOLEAN

NextState(e, state) ==
    CASE e.kind = "Pause" -> "paused"
      [] e.kind = "Resume" -> "running"
      [] OTHER -> state

\* The vCPU takes the oldest event and computes its answer.
Handle(v) ==
    LET e == Head(events[v]) IN
    /\ events' = [events EXCEPT ![v] = Tail(@)]
    /\ \/ /\ e.kind = "Terminate"
          /\ vcpu' = [vcpu EXCEPT ![v] = "finished"]
          /\ UNCHANGED <<outbox, boundary>>
       \/ /\ e.kind # "Terminate"
          /\ \E ok \in Outcomes(e, vcpu[v]) :
               outbox' = [outbox EXCEPT ![v] =
                   [response |-> [kind |-> Awaited(e.kind), id |-> e.id, ok |-> ok],
                    next |-> NextState(e, vcpu[v])]]
          /\ boundary' = [boundary EXCEPT ![v] = IF e.kind = "Pause" THEN e.id ELSE @]
          /\ UNCHANGED vcpu

\* paused: block on the mailbox.
PausedReceive(v) ==
    /\ vcpu[v] = "paused" /\ outbox[v] = NoResponse
    /\ events[v] # <<>>
    /\ Handle(v)
    /\ UNCHANGED <<vmmVars, responses, kicked, activated, failedCaptures>>

\* Mutant: EINTR clears the kick but the mailbox is not polled.
Interrupted_NotPolled(v) ==
    /\ vcpu[v] = "running" /\ outbox[v] = NoResponse
    /\ kicked[v]
    /\ kicked' = [kicked EXCEPT ![v] = FALSE]
    /\ UNCHANGED <<vmmVars, events, responses, vcpuVars, failedCaptures>>

\* running: KVM_RUN returns EINTR, which clears immediate_exit, and the
\* mailbox is polled once.
Interrupted(v) ==
    /\ vcpu[v] = "running" /\ outbox[v] = NoResponse
    /\ kicked[v]
    /\ kicked' = [kicked EXCEPT ![v] = FALSE]
    /\ \/ events[v] # <<>> /\ Handle(v)
       \/ events[v] = <<>> /\ UNCHANGED <<events, vcpu, outbox, boundary>>
    /\ UNCHANGED <<vmmVars, responses, activated, failedCaptures>>

\* Mutant: an exited vCPU discards Terminate too.
ExitedReceive_Deaf(v) ==
    /\ vcpu[v] = "exited"
    /\ events[v] # <<>>
    /\ events' = [events EXCEPT ![v] = Tail(@)]
    /\ UNCHANGED <<vmmVars, responses, vcpuVars, kicked, failedCaptures>>

\* exited: everything but Terminate is discarded.
ExitedReceive(v) ==
    /\ vcpu[v] = "exited"
    /\ events[v] # <<>>
    /\ events' = [events EXCEPT ![v] = Tail(@)]
    /\ vcpu' = [vcpu EXCEPT ![v] = IF Head(events[v]).kind = "Terminate" THEN "finished" ELSE @]
    /\ UNCHANGED <<vmmVars, responses, outbox, kicked, boundary, activated, failedCaptures>>

\* The guest halts or its emulation fails: exit reports it.
GuestExit(v) ==
    /\ vcpu[v] = "running" /\ outbox[v] = NoResponse
    /\ outbox' = [outbox EXCEPT ![v] =
         [response |-> [kind |-> "Exited", id |-> 0, ok |-> FALSE], next |-> "exited"]]
    /\ UNCHANGED <<vmmVars, events, responses, vcpu, kicked, boundary, activated,
                   failedCaptures>>

\* response_sender.send, which blocks while the mailbox is full.
SendResponse(v) ==
    /\ outbox[v] # NoResponse
    /\ Len(responses[v]) < Capacity
    /\ responses' = [responses EXCEPT ![v] = Append(@, outbox[v].response)]
    /\ vcpu' = [vcpu EXCEPT ![v] = outbox[v].next]
    /\ activated' = (activated \/ outbox[v].next = "running")
    /\ outbox' = [outbox EXCEPT ![v] = NoResponse]
    /\ UNCHANGED <<vmmVars, events, kicked, boundary, failedCaptures>>

\* The CPU-enforcement kicker forces a running vCPU out of the guest.
EnforcementKick(v) ==
    /\ vcpu[v] = "running" /\ ~kicked[v]
    /\ kicked' = [kicked EXCEPT ![v] = TRUE]
    /\ UNCHANGED <<vmmVars, events, responses, vcpuVars, failedCaptures>>

-----------------------------------------------------------------------------
Wait == \/ ReceiveResponse \/ ControlTimeout \/ Rekick
        \/ ReceiveValidation \/ ValidationTimeout \/ VmRestoreFails \/ JoinVcpu

VcpuStep(v) == \/ PausedReceive(v) \/ Interrupted(v) \/ ExitedReceive(v)
               \/ SendResponse(v)

Next ==
    /\ control # "stopped"
    /\ \/ PauseStart \/ ResumeStart \/ CaptureStart \/ RestoreStart
       \/ PublishVmm \/ DropStart \/ ProcessExit
       \/ SendEvent \/ Wait
       \/ \E v \in Vcpus : VcpuStep(v) \/ GuestExit(v) \/ EnforcementKick(v)

Spec == Init /\ [][Next]_vars

\* The VMM thread and every vCPU thread keep being scheduled.  No deadline need
\* expire: what returns under FairSpec returns without the timeout's help.
FairSpec ==
    /\ Spec
    /\ WF_vars(SendEvent) /\ WF_vars(ReceiveResponse)
    /\ WF_vars(Rekick) /\ WF_vars(ReceiveValidation)
    /\ WF_vars(JoinVcpu)
    /\ \A v \in Vcpus : WF_vars(VcpuStep(v))

-----------------------------------------------------------------------------
TypeOK ==
    /\ control \in {"constructing", "published", "failed", "dropped", "stopped"}
    /\ executionState \in VmmExecutionState
    /\ controlRequestId \in RequestId
    /\ executionRestoreAllowed \in BOOLEAN
    /\ registry \in [execution : VmmExecutionState \cup {Unpublished}, transitioning : BOOLEAN]
    /\ op \in Operation
    /\ events \in [Vcpus -> Seq(VcpuEvent)]
    /\ responses \in [Vcpus -> Seq(VcpuResponse)]
    /\ vcpu \in [Vcpus -> {"paused", "running", "exited", "finished"}]
    /\ outbox \in [Vcpus -> Outbox]
    /\ kicked \in [Vcpus -> BOOLEAN]
    /\ boundary \in [Vcpus -> RequestId]
    /\ activated \in BOOLEAN
    /\ failedCaptures \in Nat

\* No vCPU is in the guest or on its way into it.
Parked(v) ==
    /\ vcpu[v] = "paused"
    /\ outbox[v].next \in {"none", "paused"}
    /\ \A i \in 1..Len(events[v]) : events[v][i].kind # "Resume"

\* "Every vCPU has acknowledged the contained pause generation" (lib.rs,
\* VmmExecutionState::Paused): at a paused boundary of a live VMM every vCPU is
\* parked, and the pause it last acknowledged is the boundary's, whatever late
\* acknowledgements earlier barriers and captures left in the mailboxes.
PausedBoundary ==
    control \in {"constructing", "published"} /\ executionState.kind = "Paused"
    => \A v \in Vcpus : Parked(v) /\ boundary[v] = executionState.generation

\* VmmExecutionState::Running: every vCPU left the boundary it was resumed from;
\* none is still parked in it.
RunningBoundary ==
    executionState.kind = "Running" /\ control = "published"
    => \A v \in Vcpus : vcpu[v] # "paused" /\ boundary[v] = executionState.generation

\* What VmControl::execution_state shows without taking the Vmm mutex: a
\* published paused boundary is never observed while a vCPU may run, even in
\* the middle of a barrier.
ObservedPause ==
    control = "published" /\ registry.execution.kind = "Paused"
    => /\ executionState = registry.execution
       /\ \A v \in Vcpus : Parked(v)

\* restore_execution_state is confined to VMMs that have not run: no register
\* state is written into a vCPU once any vCPU has entered the guest.
RestoreBeforeActivation ==
    \A v \in Vcpus :
        \A i \in 1..Len(events[v]) : events[v][i].kind = "Restore" => ~activated

\* The vCPU can take no further event until somebody reads its responses.
Jammed(v) ==
    /\ Len(events[v]) = Capacity
    /\ outbox[v] # NoResponse /\ Len(responses[v]) = Capacity

\* The control mailboxes of VCPU_CONTROL_MAILBOX_CAPACITY slots: send_event has
\* no deadline, and it can hang the VMM, for good, only after as many consecutive
\* failed captures as both mailboxes and the vCPU's hand absorb.
MailboxSlack ==
    op.kind \notin {"None", "Terminate"} /\ op.stage = "send" /\ Jammed(op.next)
    => failedCaptures > 2 * Capacity

\* At least two response slots are left over by failed captures.
ResponsesDrained == failedCaptures + 2 <= Capacity

\* Every control operation and the teardown return as long as failed captures
\* leave room for one more acknowledgement and an exit notice: barriers by
\* acknowledgement or deadline, Drop by joining every vCPU, exited ones included.
OperationReturns ==
    (op.kind # "None" /\ ResponsesDrained) ~> (op.kind = "None" \/ ~ResponsesDrained)

\* A barrier that no deadline cuts short completes unless a vCPU exits: the kick
\* that accompanies the event, or a later one, is never lost.
BarrierCompletes ==
    (op.kind \in {"Pause", "Resume"}) ~> (op.kind = "None")

=============================================================================
