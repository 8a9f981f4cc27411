--------------------------- MODULE VcpuControlInv ---------------------------
(***************************************************************************)
(* The inductive invariant behind VcpuControl's paused boundary.           *)
(***************************************************************************)
EXTENDS VcpuControl

Live == control \in {"constructing", "published"}

\* Every request id in flight to or from v is below id.
OlderThan(v, id) ==
    /\ \A i \in 1..Len(events[v]) : events[v][i].id < id
    /\ \A i \in 1..Len(responses[v]) : responses[v][i].id < id
    /\ outbox[v].response.id < id

\* Requests are answered in order: an answer in flight is older than every
\* request not yet taken, and requests are queued by increasing id.
InOrder(v) ==
    /\ OlderThan(v, controlRequestId + 1)
    /\ \A i \in 1..Len(events[v]) :
        /\ outbox[v].response.id < events[v][i].id
        /\ \A j \in 1..Len(responses[v]) : responses[v][j].id < events[v][i].id
        /\ \A j \in 1..Len(events[v]) : i < j => events[v][i].id < events[v][j].id

\* The operation in progress owns the newest id and has not yet reached the
\* vCPUs still to be sent to.
Dispatch ==
    op.kind # "None" =>
        /\ op.id = controlRequestId
        /\ op.stage = "send" => \A v \in Vcpus : v >= op.next => OlderThan(v, op.id)

\* A vCPU at rest: parked, nothing under way to move it or its boundary.
AtRest(v) ==
    /\ vcpu[v] = "paused"
    /\ outbox[v].next \in {"none", "paused"}
    /\ \A i \in 1..Len(events[v]) : events[v][i].kind \in {"Capture", "Validate", "Restore"}

\* Its answer to the current pause has been sent.
PauseAnswered(v) ==
    /\ op.kind = "Pause"
    /\ \/ op.stage = "wait" /\ v < op.next
       \/ \E i \in 1..Len(responses[v]) :
            responses[v][i].kind = "Paused" /\ responses[v][i].id = op.id

\* An answered pause stays in force until the barrier ends.
PauseHolds ==
    \A v \in Vcpus :
        PauseAnswered(v) => /\ vcpu[v] = "paused" /\ outbox[v] = NoResponse
                            /\ events[v] = <<>> /\ boundary[v] = op.id

\* A pause about to be acknowledged is the boundary its vCPU stops at.
PauseOutbox ==
    \A v \in Vcpus :
        outbox[v] # NoResponse /\ outbox[v].response.kind = "Paused"
        => outbox[v].next = "paused" /\ boundary[v] = outbox[v].response.id

\* Before the first resume of a VMM under construction nothing has moved.
Inert ==
    control = "constructing" /\ op.kind # "Resume" /\ executionState.kind # "Running"
    => \A v \in Vcpus : AtRest(v) /\ boundary[v] = 0

\* A paused boundary is known only between operations or to one that keeps it.
OpState ==
    /\ op.kind # "Terminate"
    /\ op.kind \in {"Pause", "Resume", "Restore"} => executionState = Indeterminate
    /\ op.kind \in {"Validate", "Restore"} => control = "constructing"
    /\ op.kind = "Validate" => executionState.kind # "Running"
    /\ op.kind \in {"Pause", "Capture"} => control = "published"

Settled ==
    executionState.kind = "Paused"
    => \A v \in Vcpus : AtRest(v) /\ boundary[v] = executionState.generation

\* Inductive strengthening of PausedBoundary.
ControlInv ==
    /\ TypeOK
    /\ Live => /\ \A v \in Vcpus : InOrder(v)
               /\ Dispatch /\ PauseHolds /\ PauseOutbox /\ Inert /\ OpState /\ Settled

\* The registry never lags behind the Vmm it was given.
RegistryCurrent == control = "published" => registry.execution = executionState

=============================================================================
