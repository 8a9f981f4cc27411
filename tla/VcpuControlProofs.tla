-------------------------- MODULE VcpuControlProofs --------------------------
(***************************************************************************)
(* For any number of vCPUs, mailbox capacity and request-id limit: the     *)
(* variables keep their types, and a paused boundary is one at which every *)
(* vCPU is parked under the boundary's own generation.                     *)
(***************************************************************************)
EXTENDS VcpuControlInv, SequenceTheorems, TLAPS

\* What taking the oldest message of a non-empty mailbox leaves behind.
LEMMA TailFacts ==
    ASSUME NEW T, NEW s \in Seq(T), s # <<>>
    PROVE  /\ Len(s) \in Nat /\ Len(s) >= 1
           /\ Head(s) \in T /\ Head(s) = s[1]
           /\ Tail(s) \in Seq(T)
           /\ Len(Tail(s)) = Len(s) - 1
           /\ \A i \in 1..Len(Tail(s)) : i + 1 \in 1..Len(s) /\ Tail(s)[i] = s[i + 1]
BY HeadTailProperties, LenProperties

\* What sending a message adds to a mailbox.
LEMMA AppendFacts ==
    ASSUME NEW T, NEW s \in Seq(T), NEW e \in T
    PROVE  /\ Append(s, e) \in Seq(T)
           /\ Len(s) \in Nat
           /\ Len(Append(s, e)) = Len(s) + 1
           /\ Append(s, e)[Len(s) + 1] = e
           /\ \A i \in 1..Len(s) : Append(s, e)[i] = s[i]
BY AppendProperties, LenProperties

\* The initial state is well typed.
LEMMA InitType == Init => TypeOK
<1> SUFFICES ASSUME Init PROVE TypeOK
  OBVIOUS
<1>1. 0 \in RequestId /\ 1 \in Vcpus
  BY NAssumption, TeardownAssumption DEF RequestId, Vcpus
<1>2. Paused(0) \in VmmExecutionState
  BY <1>1 DEF Paused, VmmExecutionState
<1>3. NoOp \in Operation
  BY <1>1 DEF NoOp, Operation
<1>4. events \in [Vcpus -> Seq(VcpuEvent)] /\ responses \in [Vcpus -> Seq(VcpuResponse)]
  BY DEF Init
<1>5. outbox \in [Vcpus -> Outbox]
  BY DEF Init, Outbox
<1>6. boundary \in [Vcpus -> RequestId]
  BY <1>1 DEF Init
<1>7. registry \in [execution : VmmExecutionState \cup {Unpublished}, transitioning : BOOLEAN]
  BY DEF Init
<1> QED
  BY <1>1, <1>2, <1>3, <1>4, <1>5, <1>6, <1>7 DEF Init, TypeOK

\* Returning to the caller keeps the VMM's variables typed.
LEMMA ReturnType ==
    ASSUME TypeOK, NEW b \in BOOLEAN, NEW st \in VmmExecutionState, Return(b, st)
    PROVE  /\ control' \in {"constructing", "published", "failed", "dropped", "stopped"}
           /\ executionState' \in VmmExecutionState
           /\ registry' \in [execution : VmmExecutionState \cup {Unpublished}, transitioning : BOOLEAN]
           /\ op' \in Operation
           /\ failedCaptures' \in Nat
BY NAssumption, TeardownAssumption
   DEF Return, TypeOK, NoOp, Operation, Vcpus, RequestId

\* A fresh operation is well typed.
LEMMA BeginType ==
    ASSUME TypeOK, NEW k \in {"Pause", "Resume", "Capture", "Validate", "Restore"},
           NEW from \in RequestId, Begin(k, from)
    PROVE  op' \in Operation /\ controlRequestId' \in RequestId
<1>1. controlRequestId + 1 \in RequestId /\ controlRequestId' = controlRequestId + 1
  BY TeardownAssumption DEF Begin, RequestAvailable, TypeOK, RequestId
<1>2. 1 \in Vcpus
  BY NAssumption DEF Vcpus
<1>3. op' = [kind |-> k, stage |-> "send", id |-> controlRequestId + 1,
             next |-> 1, from |-> from, failed |-> FALSE]
  BY DEF Begin
<1> QED
  BY <1>1, <1>2, <1>3 DEF Operation

\* A vCPU handler's mailbox, answer and boundary are well typed.
LEMMA HandleType ==
    ASSUME TypeOK, NEW v \in Vcpus, events[v] # <<>>, Handle(v),
           vcpu[v] \in {"paused", "running"}
    PROVE  /\ events' \in [Vcpus -> Seq(VcpuEvent)]
           /\ vcpu' \in [Vcpus -> {"paused", "running", "exited", "finished"}]
           /\ outbox' \in [Vcpus -> Outbox]
           /\ boundary' \in [Vcpus -> RequestId]
<1> DEFINE e == Head(events[v])
<1>1. e \in VcpuEvent /\ Tail(events[v]) \in Seq(VcpuEvent)
  BY TailFacts DEF TypeOK
<1>2. events' \in [Vcpus -> Seq(VcpuEvent)]
  BY <1>1 DEF Handle, TypeOK
<1>3. e.id \in RequestId
  BY <1>1 DEF VcpuEvent
<1>4. ASSUME NEW ok \in Outcomes(e, vcpu[v])
      PROVE  [kind |-> Awaited(e.kind), id |-> e.id, ok |-> ok] \in VcpuResponse
  <2>1. ok \in BOOLEAN
    BY <1>4 DEF Outcomes
  <2>2. Awaited(e.kind) \in {"Paused", "Resumed", "StateCaptured", "StateValidated",
                              "StateRestored"}
    BY DEF Awaited
  <2> QED
    BY <1>3, <2>1, <2>2 DEF VcpuResponse
<1>5. NextState(e, vcpu[v]) \in {"paused", "running"}
  BY DEF NextState
<1>6. CASE e.kind = "Terminate"
  BY <1>2, <1>6 DEF Handle, TypeOK
<1>7. CASE e.kind # "Terminate"
  <2> DEFINE answer(ok) ==
        [response |-> [kind |-> Awaited(e.kind), id |-> e.id, ok |-> ok],
         next |-> NextState(e, vcpu[v])]
  <2>1. PICK ok \in Outcomes(e, vcpu[v]) : outbox' = [outbox EXCEPT ![v] = answer(ok)]
    BY <1>7 DEF Handle
  <2>2. answer(ok) \in Outbox
    BY <1>4, <1>5 DEF Outbox
  <2>3. outbox' \in [Vcpus -> Outbox]
    BY <2>1, <2>2 DEF TypeOK
  <2> QED
    BY <1>2, <1>3, <1>7, <2>3 DEF Handle, TypeOK
<1> QED
  BY <1>6, <1>7

\* Giving an operation up, or completing it, keeps the VMM's variables typed.
LEMMA GiveUpType ==
    ASSUME TypeOK, GiveUp \/ Complete \/ Advance
    PROVE  /\ control' \in {"constructing", "published", "failed", "dropped", "stopped"}
           /\ executionState' \in VmmExecutionState
           /\ controlRequestId' \in RequestId
           /\ executionRestoreAllowed' \in BOOLEAN
           /\ registry' \in [execution : VmmExecutionState \cup {Unpublished}, transitioning : BOOLEAN]
           /\ op' \in Operation
           /\ failedCaptures' \in Nat
<1>1. op.id \in RequestId /\ op.from \in RequestId /\ op.next \in Vcpus /\ 0 \in RequestId
  BY TeardownAssumption DEF TypeOK, Operation, RequestId
<1>2. /\ Paused(op.id) \in VmmExecutionState /\ Running(op.from) \in VmmExecutionState
      /\ Paused(0) \in VmmExecutionState /\ Indeterminate \in VmmExecutionState
      /\ executionState \in VmmExecutionState
  BY <1>1 DEF VmmExecutionState, Paused, Running, TypeOK
<1>3. CASE GiveUp
  <2>1. Return(FALSE, IF op.kind = "Capture" THEN executionState ELSE Indeterminate)
    BY <1>3 DEF GiveUp
  <2> QED
    BY <1>2, <1>3, <2>1, ReturnType DEF GiveUp, TypeOK
<1>4. CASE Complete
  BY <1>2, <1>4, ReturnType DEF Complete, TypeOK
<1>5. CASE Advance
  <2>1. CASE op.next = N
    BY <1>4, <1>5, <2>1 DEF Advance
  <2>2. CASE op.next # N
    <3>1. op.next + 1 \in Vcpus
      BY <1>1, <2>2, NAssumption DEF Vcpus
    <3>2. op' \in Operation
      BY <1>5, <2>2, <3>1 DEF Advance, TypeOK, Operation
    <3> QED
      BY <1>5, <2>2, <3>2 DEF Advance, TypeOK
  <2> QED
    BY <2>1, <2>2
<1> QED
  BY <1>3, <1>4, <1>5

\* So does collecting one preflight answer.
LEMMA PreflightType ==
    ASSUME TypeOK, NEW a \in BOOLEAN, NEW b \in BOOLEAN, Preflight(a, b)
    PROVE  /\ control' \in {"constructing", "published", "failed", "dropped", "stopped"}
           /\ executionState' \in VmmExecutionState
           /\ controlRequestId' \in RequestId
           /\ executionRestoreAllowed' \in BOOLEAN
           /\ registry' \in [execution : VmmExecutionState \cup {Unpublished}, transitioning : BOOLEAN]
           /\ op' \in Operation
           /\ failedCaptures' \in Nat
<1> DEFINE failed == op.failed \/ ~b
           state == IF a THEN executionState ELSE Indeterminate
<1>1. op.from \in RequestId /\ op.next \in Vcpus
  BY DEF TypeOK, Operation
<1>2. state \in VmmExecutionState /\ Indeterminate \in VmmExecutionState
  BY DEF VmmExecutionState, TypeOK
<1>3. CASE op.next < N
  <2>1. op.next + 1 \in Vcpus
    BY <1>1, <1>3, NAssumption DEF Vcpus
  <2>2. failed \in BOOLEAN
    OBVIOUS
  <2>3. op' = [op EXCEPT !.next = @ + 1, !.failed = failed]
    BY <1>3 DEF Preflight
  <2>4. op' \in Operation
    BY <2>1, <2>2, <2>3 DEF TypeOK, Operation
  <2> QED
    BY <1>2, <1>3, <2>4 DEF Preflight, TypeOK
<1>4. CASE ~(op.next < N) /\ failed
  <2>1. Return(FALSE, state) /\ UNCHANGED <<controlRequestId, executionRestoreAllowed>>
    BY <1>4 DEF Preflight
  <2> QED
    BY <1>2, <2>1, ReturnType DEF TypeOK
<1>5. CASE ~(op.next < N) /\ ~failed
  <2>1. /\ Begin("Restore", op.from) /\ executionState' = Indeterminate
        /\ UNCHANGED <<control, executionRestoreAllowed, registry, failedCaptures>>
    BY <1>5 DEF Preflight
  <2> QED
    BY <1>1, <1>2, <2>1, BeginType DEF TypeOK
<1> QED
  BY <1>3, <1>4, <1>5

\* Every step keeps every variable in its type.
LEMMA TypeStep == TypeOK /\ [Next]_vars => TypeOK'
<1> SUFFICES ASSUME TypeOK, [Next]_vars PROVE TypeOK'
  OBVIOUS
<1> USE DEF vmmVars, vcpuVars
<1>0. /\ executionState \in VmmExecutionState /\ op \in Operation
      /\ Indeterminate \in VmmExecutionState
      /\ executionState.generation \in RequestId
      /\ op.id \in RequestId /\ op.next \in Vcpus
  BY TeardownAssumption DEF TypeOK, VmmExecutionState, Indeterminate, Operation, RequestId
<1>1. CASE PauseStart
  BY <1>0, <1>1, BeginType DEF PauseStart, PublishTransitionStarted, TypeOK
<1>2. CASE ResumeStart
  BY <1>0, <1>2, BeginType DEF ResumeStart, PublishTransitionStarted, TypeOK
<1>3. CASE CaptureStart
  BY <1>0, <1>3, BeginType DEF CaptureStart, TypeOK
<1>4. CASE RestoreStart
  <2>1. PICK k \in {"Validate", "Restore"} : Begin(k, executionState.generation)
    BY <1>4 DEF RestoreStart
  <2> QED
    BY <1>0, <1>4, <2>1, BeginType DEF RestoreStart, TypeOK
<1>5. CASE PublishVmm
  BY <1>5 DEF PublishVmm, TypeOK
<1>6. CASE DropStart
  BY <1>6, NAssumption, TeardownAssumption
     DEF DropStart, TypeOK, NoOp, Operation, Vcpus, RequestId
<1>7. CASE ProcessExit
  BY <1>7 DEF ProcessExit, TypeOK
<1>8. CASE SendEvent
  <2>1. [kind |-> op.kind, id |-> op.id] \in VcpuEvent
    BY <1>0, <1>8 DEF SendEvent, Operation, VcpuEvent
  <2>2. Append(events[op.next], [kind |-> op.kind, id |-> op.id]) \in Seq(VcpuEvent)
    BY <1>0, <2>1, AppendFacts DEF TypeOK
  <2>3. events' \in [Vcpus -> Seq(VcpuEvent)]
    BY <1>0, <1>8, <2>2 DEF SendEvent, TypeOK
  <2>4. 1 \in Vcpus /\ (op.next # N => op.next + 1 \in Vcpus)
    BY <1>0, NAssumption DEF Vcpus
  <2>5. op' \in Operation
    BY <1>0, <1>8, <2>4 DEF SendEvent, Operation
  <2> QED
    BY <1>8, <2>3, <2>5 DEF SendEvent, TypeOK
<1>9. CASE ReceiveResponse
  <2>1. Tail(responses[op.next]) \in Seq(VcpuResponse)
    BY <1>0, <1>9, TailFacts DEF ReceiveResponse, TypeOK
  <2>2. responses' \in [Vcpus -> Seq(VcpuResponse)]
    BY <2>1, <1>9 DEF ReceiveResponse, TypeOK
  <2>3. GiveUp \/ Advance \/ UNCHANGED <<vmmVars, failedCaptures>>
    BY <1>9 DEF ReceiveResponse
  <2> QED
    BY <1>9, <2>2, <2>3, GiveUpType DEF ReceiveResponse, TypeOK
<1>10. CASE ControlTimeout
  BY <1>10, GiveUpType DEF ControlTimeout, TypeOK
<1>11. CASE Rekick
  BY <1>11 DEF Rekick, TypeOK
<1>12. CASE ReceiveValidation
  <2>1. Tail(responses[op.next]) \in Seq(VcpuResponse)
    BY <1>0, <1>12, TailFacts DEF ReceiveValidation, TypeOK
  <2>2. responses' \in [Vcpus -> Seq(VcpuResponse)]
    BY <2>1, <1>12 DEF ReceiveValidation, TypeOK
  <2>3. PICK r : Preflight(Matches(r), Accepted(r))
    BY <1>12 DEF ReceiveValidation
  <2>4. Matches(r) \in BOOLEAN /\ Accepted(r) \in BOOLEAN
    BY DEF Matches, Accepted
  <2> QED
    BY <1>12, <2>2, <2>3, <2>4, PreflightType DEF ReceiveValidation, TypeOK
<1>13. CASE ValidationTimeout
  BY <1>13, PreflightType DEF ValidationTimeout, TypeOK
<1>14. CASE VmRestoreFails
  BY <1>14, GiveUpType DEF VmRestoreFails, TypeOK
<1>15. CASE JoinVcpu
  <2>1. op.next # N => op.next + 1 \in Vcpus
    BY <1>0, NAssumption DEF Vcpus
  <2>2. NoOp \in Operation
    BY NAssumption, TeardownAssumption DEF NoOp, Operation, Vcpus, RequestId
  <2>3. op' \in Operation
    BY <1>0, <1>15, <2>1, <2>2 DEF JoinVcpu, Operation
  <2> QED
    BY <1>15, <2>3 DEF JoinVcpu, TypeOK
<1>16. ASSUME NEW v \in Vcpus, PausedReceive(v) PROVE TypeOK'
  BY <1>16, HandleType DEF PausedReceive, TypeOK
<1>17. ASSUME NEW v \in Vcpus, Interrupted(v) PROVE TypeOK'
  <2>1. kicked' \in [Vcpus -> BOOLEAN]
    BY <1>17 DEF Interrupted, TypeOK
  <2> QED
    BY <1>17, <2>1, HandleType DEF Interrupted, TypeOK
<1>18. ASSUME NEW v \in Vcpus, ExitedReceive(v) PROVE TypeOK'
  <2>1. Tail(events[v]) \in Seq(VcpuEvent)
    BY <1>18, TailFacts DEF ExitedReceive, TypeOK
  <2> QED
    BY <1>18, <2>1 DEF ExitedReceive, TypeOK
<1>19. ASSUME NEW v \in Vcpus, SendResponse(v) PROVE TypeOK'
  <2>1. /\ outbox[v].response \in VcpuResponse
        /\ outbox[v].next \in {"paused", "running", "exited"}
    BY <1>19 DEF SendResponse, TypeOK, Outbox
  <2>2. Append(responses[v], outbox[v].response) \in Seq(VcpuResponse)
    BY <2>1, AppendFacts DEF TypeOK
  <2>3. responses' \in [Vcpus -> Seq(VcpuResponse)]
    BY <1>19, <2>2 DEF SendResponse, TypeOK
  <2>4. outbox' \in [Vcpus -> Outbox]
    BY <1>19 DEF SendResponse, TypeOK, Outbox
  <2>5. activated' \in BOOLEAN
    BY <1>19 DEF SendResponse
  <2> QED
    BY <1>19, <2>1, <2>3, <2>4, <2>5 DEF SendResponse, TypeOK
<1>20. ASSUME NEW v \in Vcpus, GuestExit(v) PROVE TypeOK'
  <2>1. [response |-> [kind |-> "Exited", id |-> 0, ok |-> FALSE], next |-> "exited"] \in Outbox
    BY TeardownAssumption DEF Outbox, VcpuResponse, RequestId
  <2>2. outbox' \in [Vcpus -> Outbox]
    BY <1>20, <2>1 DEF GuestExit, TypeOK
  <2> QED
    BY <1>20, <2>2 DEF GuestExit, TypeOK
<1>21. ASSUME NEW v \in Vcpus, EnforcementKick(v) PROVE TypeOK'
  BY <1>21 DEF EnforcementKick, TypeOK
<1>22. CASE UNCHANGED vars
  BY <1>22 DEF vars, TypeOK
<1> QED
  BY <1>1, <1>2, <1>3, <1>4, <1>5, <1>6, <1>7, <1>8, <1>9, <1>10, <1>11, <1>12, <1>13,
     <1>14, <1>15, <1>16, <1>17, <1>18, <1>19, <1>20, <1>21, <1>22
     DEF Next, Wait, VcpuStep

\* Type correctness of the control protocol (lib.rs, vstate.rs, vm.rs).
THEOREM TypeCorrect == Spec => []TypeOK
BY InitType, TypeStep, PTL DEF Spec

-----------------------------------------------------------------------------
\* The initial state satisfies the inductive invariant.
LEMMA InitInv == Init => ControlInv
<1> SUFFICES ASSUME Init PROVE ControlInv
  OBVIOUS
<1>1. TypeOK
  BY InitType
<1>2. ASSUME NEW v \in Vcpus
      PROVE  /\ Len(events[v]) = 0 /\ Len(responses[v]) = 0
             /\ outbox[v] = NoResponse /\ vcpu[v] = "paused" /\ boundary[v] = 0
  BY <1>2 DEF Init
<1>3. \A v \in Vcpus : InOrder(v)
  BY <1>2 DEF Init, InOrder, OlderThan, NoResponse
<1>4. \A v \in Vcpus : AtRest(v) /\ boundary[v] = 0
  BY <1>2 DEF AtRest, NoResponse
<1>5. Dispatch /\ PauseHolds /\ PauseOutbox /\ OpState
  BY <1>2 DEF Init, NoOp, Dispatch, PauseHolds, PauseAnswered, PauseOutbox, OpState
<1>6. Inert /\ Settled
  BY <1>4 DEF Init, Inert, Settled, Paused
<1> QED
  BY <1>1, <1>3, <1>5, <1>6 DEF ControlInv

\* Mailboxes are finite and what they hold carries natural-number ids.
LEMMA MailIds ==
    ASSUME TypeOK, NEW v \in Vcpus
    PROVE  /\ Len(events[v]) \in Nat /\ Len(responses[v]) \in Nat
           /\ \A i \in 1..Len(events[v]) : events[v][i].id \in Nat
           /\ \A i \in 1..Len(responses[v]) : responses[v][i].id \in Nat
           /\ outbox[v].response.id \in Nat
<1>1. events[v] \in Seq(VcpuEvent) /\ responses[v] \in Seq(VcpuResponse) /\ outbox[v] \in Outbox
  BY DEF TypeOK
<1>2. \A i \in 1..Len(events[v]) : events[v][i] \in VcpuEvent
  BY <1>1, ElementOfSeq
<1>3. \A i \in 1..Len(responses[v]) : responses[v][i] \in VcpuResponse
  BY <1>1, ElementOfSeq
<1> QED
  BY <1>1, <1>2, <1>3, LenProperties
     DEF VcpuEvent, VcpuResponse, RequestId, Outbox, NoResponse

\* What the VMM leaves of the mailboxes when it starts, waits or returns: a
\* response mailbox may have lost its oldest entry.
MailKept ==
    /\ UNCHANGED <<events, vcpu, outbox, boundary>>
    /\ \/ UNCHANGED responses
       \/ /\ responses[op.next] # <<>>
          /\ responses' = [responses EXCEPT ![op.next] = Tail(@)]

\* Taking a response disturbs no vCPU at rest and adds no response.
LEMMA KeptFacts ==
    ASSUME TypeOK, MailKept, NEW v \in Vcpus
    PROVE  /\ AtRest(v) => AtRest(v)'
           /\ Len(responses'[v]) \in Nat
           /\ \A i \in 1..Len(responses'[v]) :
                \E j \in 1..Len(responses[v]) : responses'[v][i] = responses[v][j]
<1>1. op.next \in Vcpus /\ responses[v] \in Seq(VcpuResponse)
  BY DEF TypeOK, Operation
<1>2. responses'[v] = responses[v] \/ (responses[v] # <<>> /\ responses'[v] = Tail(responses[v]))
  BY <1>1 DEF MailKept, TypeOK
<1>3. CASE responses'[v] = responses[v]
  BY <1>1, <1>3, LenProperties DEF MailKept, AtRest
<1>4. CASE responses[v] # <<>> /\ responses'[v] = Tail(responses[v])
  BY <1>1, <1>4, TailFacts, LenProperties DEF MailKept, AtRest
<1> QED
  BY <1>2, <1>3, <1>4

\* An operation that begins takes an id newer than anything in flight.
LEMMA BeginInv ==
    ASSUME TypeOK, \A v \in Vcpus : InOrder(v), MailKept,
           NEW k \in {"Pause", "Resume", "Capture", "Validate", "Restore"},
           NEW from \in RequestId, Begin(k, from)
    PROVE  (\A v \in Vcpus : InOrder(v))' /\ Dispatch' /\ PauseHolds'
<1>1. /\ controlRequestId \in Nat /\ controlRequestId' = controlRequestId + 1
      /\ op'.id = controlRequestId' /\ op'.stage = "send" /\ op'.kind = k
  BY DEF TypeOK, Begin, RequestId
<1>2. ASSUME NEW v \in Vcpus
      PROVE  /\ Len(events[v]) \in Nat /\ Len(responses[v]) \in Nat
             /\ \A i \in 1..Len(events[v]) : events[v][i].id \in Nat
             /\ \A i \in 1..Len(responses[v]) : responses[v][i].id \in Nat
             /\ outbox[v].response.id \in Nat
  BY MailIds
<1>3. ASSUME NEW v \in Vcpus
      PROVE  InOrder(v)' /\ OlderThan(v, op.id)'
  <2>1. InOrder(v)
    OBVIOUS
  <2>2. events'[v] = events[v] /\ outbox'[v] = outbox[v]
    BY DEF MailKept
  <2>3. \A i \in 1..Len(responses'[v]) :
          \E j \in 1..Len(responses[v]) : responses'[v][i] = responses[v][j]
    BY KeptFacts
  <2>4. OlderThan(v, controlRequestId + 1)
    BY <2>1 DEF InOrder
  <2>5. OlderThan(v, op.id)'
    BY <1>1, <2>2, <2>3, <2>4 DEF OlderThan
  <2>6. OlderThan(v, controlRequestId + 1)'
    <3>1. \A n \in Nat : n < controlRequestId + 1 => n < controlRequestId' + 1
      BY <1>1
    <3> QED
      BY <1>2, <2>2, <2>3, <2>4, <3>1 DEF OlderThan
  <2>7. \A i \in 1..Len(events'[v]) :
          /\ outbox'[v].response.id < events'[v][i].id
          /\ \A j \in 1..Len(responses'[v]) : responses'[v][j].id < events'[v][i].id
          /\ \A j \in 1..Len(events'[v]) : i < j => events'[v][i].id < events'[v][j].id
    BY <2>1, <2>2, <2>3 DEF InOrder
  <2> QED
    BY <2>5, <2>6, <2>7 DEF InOrder
<1>4. Dispatch'
  BY <1>1, <1>3 DEF Dispatch
<1>5. PauseHolds'
  <2> SUFFICES ASSUME NEW v \in Vcpus, PauseAnswered(v)' PROVE FALSE
    BY DEF PauseHolds
  <2> QED
    BY <1>1, <1>2, <1>3, KeptFacts DEF PauseAnswered, OlderThan, MailKept
<1> QED
  BY <1>3, <1>4, <1>5

\* Taking a response keeps the order of requests and answers.
LEMMA ResponseTakenInv ==
    ASSUME TypeOK, MailKept, UNCHANGED controlRequestId, NEW v \in Vcpus, InOrder(v)
    PROVE  InOrder(v)'
<1>1. events'[v] = events[v] /\ outbox'[v] = outbox[v]
  BY DEF MailKept
<1> QED
  BY <1>1, KeptFacts DEF InOrder, OlderThan

\* Returning from, or advancing, an operation keeps the invariant.
LEMMA ReturnInv ==
    ASSUME ControlInv, Live, Live', MailKept, UNCHANGED controlRequestId,
           op.kind \in {"Pause", "Resume", "Capture", "Validate", "Restore"}, op.stage = "wait",
           op' = NoOp, executionState' \in {executionState, Indeterminate}, control' = control
    PROVE  /\ (\A v \in Vcpus : InOrder(v))' /\ Dispatch' /\ PauseHolds' /\ PauseOutbox'
           /\ Settled' /\ OpState'
<1>1. ASSUME NEW v \in Vcpus PROVE InOrder(v)' /\ (AtRest(v) => AtRest(v)')
  BY ResponseTakenInv, KeptFacts DEF ControlInv
<1>2. PauseOutbox'
  BY DEF ControlInv, PauseOutbox, MailKept
<1>3. Settled'
  <2> SUFFICES ASSUME executionState'.kind = "Paused"
               PROVE  \A v \in Vcpus : AtRest(v)' /\ boundary'[v] = executionState'.generation
    BY DEF Settled
  <2>1. executionState' = executionState
    BY DEF Indeterminate
  <2> QED
    BY <1>1, <2>1 DEF ControlInv, Settled, MailKept
<1> QED
  BY <1>1, <1>2, <1>3 DEF NoOp, Dispatch, PauseHolds, PauseAnswered, OpState

\* The mailboxes and the state of one vCPU.
SameVcpu(w) ==
    /\ events'[w] = events[w] /\ responses'[w] = responses[w]
    /\ vcpu'[w] = vcpu[w] /\ outbox'[w] = outbox[w] /\ boundary'[w] = boundary[w]

\* A step of one vCPU keeps the invariant when it keeps that vCPU's part of it.
LEMMA VcpuLocal ==
    ASSUME ControlInv, Live, NEW v \in Vcpus, UNCHANGED vmmVars,
           \A w \in Vcpus \ {v} : SameVcpu(w),
           InOrder(v)',
           op.kind # "None" /\ op.stage = "send" /\ v >= op.next => OlderThan(v, op.id)',
           PauseAnswered(v)' => /\ vcpu'[v] = "paused" /\ outbox'[v] = NoResponse
                                /\ events'[v] = <<>> /\ boundary'[v] = op.id,
           outbox'[v] # NoResponse /\ outbox'[v].response.kind = "Paused"
             => outbox'[v].next = "paused" /\ boundary'[v] = outbox'[v].response.id,
           AtRest(v) => AtRest(v)' /\ boundary'[v] = boundary[v]
    PROVE  /\ (\A w \in Vcpus : InOrder(w))' /\ Dispatch' /\ PauseHolds' /\ PauseOutbox'
           /\ Inert' /\ OpState' /\ Settled'
<1> USE DEF vmmVars
<1>1. ASSUME NEW w \in Vcpus PROVE InOrder(w)'
  <2>1. CASE w = v
    BY <2>1
  <2>2. CASE w # v
    <3>1. SameVcpu(w) /\ InOrder(w)
      BY <2>2 DEF ControlInv
    <3> QED
      BY <3>1 DEF SameVcpu, InOrder, OlderThan
  <2> QED
    BY <2>1, <2>2
<1>2. Dispatch'
  <2> SUFFICES ASSUME op.kind # "None" PROVE op.id = controlRequestId
                 /\ (op.stage = "send" => \A w \in Vcpus : w >= op.next => OlderThan(w, op.id)')
    BY DEF Dispatch
  <2>1. ASSUME op.stage = "send", NEW w \in Vcpus, w >= op.next PROVE OlderThan(w, op.id)'
    <3>1. CASE w = v
      BY <2>1, <3>1
    <3>2. CASE w # v
      <4>1. SameVcpu(w) /\ OlderThan(w, op.id)
        BY <2>1, <3>2 DEF ControlInv, Dispatch
      <4> QED
        BY <4>1 DEF SameVcpu, OlderThan
    <3> QED
      BY <3>1, <3>2
  <2> QED
    BY <2>1 DEF ControlInv, Dispatch
<1>3. PauseHolds'
  <2> SUFFICES ASSUME NEW w \in Vcpus, PauseAnswered(w)'
               PROVE  /\ vcpu'[w] = "paused" /\ outbox'[w] = NoResponse
                      /\ events'[w] = <<>> /\ boundary'[w] = op'.id
    BY DEF PauseHolds
  <2>1. CASE w = v
    BY <2>1
  <2>2. CASE w # v
    <3>1. SameVcpu(w)
      BY <2>2
    <3>2. PauseAnswered(w)
      BY <3>1 DEF PauseAnswered, SameVcpu
    <3> QED
      BY <3>1, <3>2 DEF ControlInv, PauseHolds, SameVcpu
  <2> QED
    BY <2>1, <2>2
<1>4. PauseOutbox'
  <2> SUFFICES ASSUME NEW w \in Vcpus, outbox'[w] # NoResponse, outbox'[w].response.kind = "Paused"
               PROVE  outbox'[w].next = "paused" /\ boundary'[w] = outbox'[w].response.id
    BY DEF PauseOutbox
  <2>1. CASE w = v
    BY <2>1
  <2>2. CASE w # v
    BY <2>2 DEF ControlInv, PauseOutbox, SameVcpu
  <2> QED
    BY <2>1, <2>2
<1>5. ASSUME NEW w \in Vcpus, AtRest(w) PROVE AtRest(w)' /\ boundary'[w] = boundary[w]
  <2>1. CASE w = v
    BY <1>5, <2>1
  <2>2. CASE w # v
    <3>1. SameVcpu(w)
      BY <2>2
    <3> QED
      BY <1>5, <3>1 DEF SameVcpu, AtRest
  <2> QED
    BY <2>1, <2>2
<1>6. Inert' /\ OpState' /\ Settled'
  BY <1>5 DEF ControlInv, Inert, OpState, Settled
<1> QED
  BY <1>1, <1>2, <1>3, <1>4, <1>6

\* Taking an event keeps the invariant: the answer is older than what is left.
LEMMA HandleInv ==
    ASSUME ControlInv, Live, NEW v \in Vcpus, events[v] # <<>>, Handle(v),
           outbox[v] = NoResponse, UNCHANGED <<vmmVars, responses>>,
           vcpu[v] \in {"paused", "running"}
    PROVE  /\ (\A w \in Vcpus : InOrder(w))' /\ Dispatch' /\ PauseHolds' /\ PauseOutbox'
           /\ Inert' /\ OpState' /\ Settled'
<1> DEFINE e == Head(events[v])
<1>0. TypeOK /\ InOrder(v)
  BY DEF ControlInv
<1>1. /\ Len(events[v]) \in Nat /\ Len(events[v]) >= 1 /\ e = events[v][1]
      /\ Len(Tail(events[v])) = Len(events[v]) - 1
      /\ \A i \in 1..Len(Tail(events[v])) :
           i + 1 \in 1..Len(events[v]) /\ Tail(events[v])[i] = events[v][i + 1]
  <2>1. events[v] \in Seq(VcpuEvent)
    BY <1>0 DEF TypeOK
  <2> QED
    BY <2>1, TailFacts
<1>2. /\ events'[v] = Tail(events[v]) /\ responses'[v] = responses[v]
      /\ \A w \in Vcpus \ {v} : SameVcpu(w)
  BY <1>0 DEF Handle, TypeOK, SameVcpu
<1>3. e.id \in Nat /\ controlRequestId \in Nat /\ controlRequestId' = controlRequestId
      /\ op' = op /\ op.id \in Nat
  <2>1. controlRequestId \in Nat /\ op.id \in Nat
    BY <1>0 DEF TypeOK, RequestId, Operation
  <2>2. controlRequestId' = controlRequestId /\ op' = op
    BY DEF vmmVars
  <2>3. e.id \in Nat
    BY <1>0, <1>1, MailIds
  <2> QED
    BY <2>1, <2>2, <2>3
<1>4. /\ outbox'[v] = NoResponse \/ outbox'[v].response.id = e.id
      /\ NoResponse.response.id = 0
      /\ outbox'[v] # NoResponse => outbox'[v].response.kind = Awaited(e.kind)
      /\ outbox'[v] # NoResponse => outbox'[v].next = NextState(e, vcpu[v])
      /\ boundary'[v] = IF e.kind = "Pause" THEN e.id ELSE boundary[v]
  <2>1. NoResponse.response.id = 0
    BY DEF NoResponse
  <2>2. CASE e.kind = "Terminate"
    BY <1>0, <2>1, <2>2 DEF Handle, TypeOK
  <2>3. CASE e.kind # "Terminate"
    <3>1. PICK ok : outbox'[v] = [response |-> [kind |-> Awaited(e.kind), id |-> e.id, ok |-> ok],
                                  next |-> NextState(e, vcpu[v])]
      BY <1>0, <2>3 DEF Handle, TypeOK
    <3>2. boundary'[v] = IF e.kind = "Pause" THEN e.id ELSE boundary[v]
      BY <1>0, <2>3 DEF Handle, TypeOK
    <3> QED
      BY SMTT(60), <2>1, <3>1, <3>2
  <2> QED
    BY <2>2, <2>3
<1>5. ASSUME NEW i \in 1..Len(events'[v]) PROVE e.id < events'[v][i].id
  <2>1. 1 \in 1..Len(events[v]) /\ i \in Nat /\ 1 < i + 1
    BY <1>1, <1>2
  <2>2. i + 1 \in 1..Len(events[v]) /\ events'[v][i] = events[v][i + 1]
    BY <1>1, <1>2
  <2>3. events[v][1].id < events[v][i + 1].id
    BY <1>0, <2>1, <2>2, SMTT(60) DEF InOrder
  <2> QED
    BY <1>1, <2>2, <2>3
<1>6. InOrder(v)'
  <2>1. OlderThan(v, controlRequestId + 1)'
    <3>1. OlderThan(v, controlRequestId + 1)
      BY <1>0 DEF InOrder
    <3>2. ASSUME NEW i \in 1..Len(events'[v]) PROVE events'[v][i].id < controlRequestId + 1
      <4>1. i + 1 \in 1..Len(events[v]) /\ events'[v][i] = events[v][i + 1]
        BY <1>1, <1>2
      <4> QED
        BY <3>1, <4>1 DEF OlderThan
    <3>3. e.id < controlRequestId + 1
      <4>1. 1 \in 1..Len(events[v])
        BY <1>1
      <4> QED
        BY <1>1, <3>1, <4>1 DEF OlderThan
    <3>4. outbox'[v].response.id < controlRequestId + 1
      BY <1>3, <1>4, <3>3
    <3> QED
      BY <1>2, <1>3, <3>1, <3>2, <3>4 DEF OlderThan
  <2> SUFFICES ASSUME NEW i \in 1..Len(events'[v])
               PROVE  /\ outbox'[v].response.id < events'[v][i].id
                      /\ \A j \in 1..Len(responses'[v]) : responses'[v][j].id < events'[v][i].id
                      /\ \A j \in 1..Len(events'[v]) : i < j => events'[v][i].id < events'[v][j].id
    BY <2>1 DEF InOrder
  <2>2. i + 1 \in 1..Len(events[v]) /\ events'[v][i] = events[v][i + 1]
    BY <1>1, <1>2
  <2>3. outbox'[v].response.id < events'[v][i].id
    <3>1. e.id < events'[v][i].id /\ events'[v][i].id \in Nat
      BY <1>0, <1>5, <2>2, MailIds
    <3>2. outbox'[v].response.id \in {0, e.id}
      BY <1>4
    <3> QED
      BY <1>3, <3>1, <3>2
  <2>4. \A j \in 1..Len(responses'[v]) : responses'[v][j].id < events'[v][i].id
    BY <1>0, <1>2, <2>2 DEF InOrder
  <2>5. ASSUME NEW j \in 1..Len(events'[v]), i < j PROVE events'[v][i].id < events'[v][j].id
    <3>1. /\ j + 1 \in 1..Len(events[v]) /\ events'[v][j] = events[v][j + 1]
          /\ i + 1 < j + 1
      BY <1>1, <1>2, <2>5
    <3> QED
      BY <1>0, <2>2, <3>1 DEF InOrder
  <2> QED
    BY <2>3, <2>4, <2>5
<1>7. op.kind # "None" /\ op.stage = "send" /\ v >= op.next => OlderThan(v, op.id)'
  <2> SUFFICES ASSUME op.kind # "None", op.stage = "send", v >= op.next
               PROVE  OlderThan(v, op.id)'
    OBVIOUS
  <2>1. OlderThan(v, op.id)
    BY DEF ControlInv, Dispatch
  <2> QED
    <3>1. ASSUME NEW i \in 1..Len(events'[v]) PROVE events'[v][i].id < op.id
      <4>1. i + 1 \in 1..Len(events[v]) /\ events'[v][i] = events[v][i + 1]
        BY <1>1, <1>2
      <4> QED
        BY <2>1, <4>1 DEF OlderThan
    <3>2. e.id < op.id
      <4>1. 1 \in 1..Len(events[v])
        BY <1>1
      <4> QED
        BY <1>1, <2>1, <4>1 DEF OlderThan
    <3>3. outbox'[v].response.id < op.id
      BY <1>3, <1>4, <3>2
    <3> QED
      BY <1>2, <1>3, <2>1, <3>1, <3>3 DEF OlderThan
<1>8. ~PauseAnswered(v)'
  <2>1. ~PauseAnswered(v)
    BY DEF ControlInv, PauseHolds
  <2> QED
    BY <1>2, <1>3, <2>1 DEF PauseAnswered
<1>9. outbox'[v] # NoResponse /\ outbox'[v].response.kind = "Paused"
        => outbox'[v].next = "paused" /\ boundary'[v] = outbox'[v].response.id
  BY <1>4 DEF Awaited, NextState
<1>10. AtRest(v) => AtRest(v)' /\ boundary'[v] = boundary[v]
  <2> SUFFICES ASSUME AtRest(v) PROVE AtRest(v)' /\ boundary'[v] = boundary[v]
    OBVIOUS
  <2>1. e.kind \in {"Capture", "Validate", "Restore"} /\ vcpu[v] = "paused"
    BY <1>1 DEF AtRest
  <2>2. vcpu' = vcpu /\ boundary'[v] = boundary[v] /\ outbox'[v].next \in {"none", "paused"}
    BY <1>4, <2>1 DEF Handle, NextState, NoResponse
  <2> QED
    BY <1>1, <1>2, <2>1, <2>2 DEF AtRest
<1> QED
  BY <1>2, <1>6, <1>7, <1>8, <1>9, <1>10, VcpuLocal

\* Sending an answer keeps the invariant: an acknowledged pause leaves nothing
\* in the event mailbox that could end it.
LEMMA SendResponseInv ==
    ASSUME ControlInv, Live, NEW v \in Vcpus, SendResponse(v)
    PROVE  /\ (\A w \in Vcpus : InOrder(w))' /\ Dispatch' /\ PauseHolds' /\ PauseOutbox'
           /\ Inert' /\ OpState' /\ Settled'
<1> DEFINE r == outbox[v].response
           n == Len(responses[v])
<1>0. TypeOK /\ InOrder(v) /\ UNCHANGED vmmVars
  BY DEF ControlInv, SendResponse
<1>1. /\ outbox[v] # NoResponse /\ r \in VcpuResponse
      /\ outbox[v].next \in {"paused", "running", "exited"}
  BY <1>0 DEF SendResponse, TypeOK, Outbox
<1>2. /\ n \in Nat /\ Len(responses'[v]) = n + 1 /\ responses'[v][n + 1] = r
      /\ \A i \in 1..n : responses'[v][i] = responses[v][i]
  <2>1. responses[v] \in Seq(VcpuResponse) /\ responses'[v] = Append(responses[v], r)
    BY <1>0 DEF SendResponse, TypeOK
  <2> QED
    BY <1>1, <2>1, AppendFacts
<1>3. /\ events'[v] = events[v] /\ boundary'[v] = boundary[v]
      /\ outbox'[v] = NoResponse /\ vcpu'[v] = outbox[v].next
      /\ NoResponse.response.id = 0 /\ NoResponse.next = "none"
      /\ \A w \in Vcpus \ {v} : SameVcpu(w)
  BY <1>0 DEF SendResponse, TypeOK, SameVcpu, NoResponse
<1>4. /\ controlRequestId \in Nat /\ controlRequestId' = controlRequestId
      /\ op' = op /\ op.id \in Nat /\ r.id \in Nat
  <2>1. controlRequestId' = controlRequestId /\ op' = op
    BY <1>0 DEF vmmVars
  <2>2. controlRequestId \in Nat /\ op.id \in Nat
    BY <1>0 DEF TypeOK, RequestId, Operation
  <2>3. r.id \in Nat
    BY <1>0, MailIds
  <2> QED
    BY <2>1, <2>2, <2>3
<1>5. \A i \in 1..Len(responses'[v]) : i \in 1..n \/ i = n + 1
  BY <1>2
<1>6. ASSUME NEW id \in Nat, OlderThan(v, id)
      PROVE  /\ \A i \in 1..Len(responses'[v]) : responses'[v][i].id < id
             /\ outbox'[v].response.id < id
             /\ \A i \in 1..Len(events'[v]) : events'[v][i].id < id
  <2>1. r.id < id /\ 0 < id
    BY <1>4, <1>6 DEF OlderThan
  <2>2. \A i \in 1..n : responses[v][i].id < id
    BY <1>6 DEF OlderThan
  <2>3. ASSUME NEW i \in 1..Len(responses'[v]) PROVE responses'[v][i].id < id
    <3>1. CASE i \in 1..n
      BY <1>2, <2>2, <3>1
    <3>2. CASE i = n + 1
      BY <1>2, <2>1, <3>2
    <3> QED
      BY <1>5, <3>1, <3>2
  <2> QED
    BY <1>3, <1>6, <2>1, <2>3 DEF OlderThan
<1>7. InOrder(v)'
  <2>1. OlderThan(v, controlRequestId + 1)'
    <3>1. OlderThan(v, controlRequestId + 1) /\ controlRequestId + 1 \in Nat
      BY <1>0, <1>4 DEF InOrder
    <3> QED
      BY <1>4, <1>6, <3>1 DEF OlderThan
  <2>2. ASSUME NEW i \in 1..Len(events'[v])
        PROVE  /\ outbox'[v].response.id < events'[v][i].id
               /\ \A j \in 1..Len(responses'[v]) : responses'[v][j].id < events'[v][i].id
               /\ \A j \in 1..Len(events'[v]) : i < j => events'[v][i].id < events'[v][j].id
    <3>1. r.id < events[v][i].id /\ events[v][i].id \in Nat
      BY <1>0, <1>3, MailIds DEF InOrder
    <3>2. \A j \in 1..n : responses[v][j].id < events[v][i].id
      BY <1>0, <1>3 DEF InOrder
    <3>3. \A j \in 1..Len(events[v]) : i < j => events[v][i].id < events[v][j].id
      BY <1>0, <1>3 DEF InOrder
    <3>4. 0 < events[v][i].id
      BY <1>4, <3>1
    <3>5. \A j \in 1..Len(responses'[v]) : responses'[v][j].id < events[v][i].id
      BY <1>2, <1>5, <3>1, <3>2
    <3> QED
      BY <1>3, <3>3, <3>4, <3>5
  <2> QED
    BY <2>1, <2>2 DEF InOrder
<1>8. op.kind # "None" /\ op.stage = "send" /\ v >= op.next => OlderThan(v, op.id)'
  <2> SUFFICES ASSUME op.kind # "None", op.stage = "send", v >= op.next
               PROVE  OlderThan(v, op.id)'
    OBVIOUS
  <2>1. OlderThan(v, op.id)
    BY DEF ControlInv, Dispatch
  <2> QED
    BY <1>4, <1>6, <2>1 DEF OlderThan
<1>9. PauseAnswered(v)' => /\ vcpu'[v] = "paused" /\ outbox'[v] = NoResponse
                           /\ events'[v] = <<>> /\ boundary'[v] = op.id
  <2> SUFFICES ASSUME PauseAnswered(v)'
               PROVE  vcpu'[v] = "paused" /\ events'[v] = <<>> /\ boundary'[v] = op.id
    BY <1>3
  <2>1. ~PauseAnswered(v)
    BY <1>1 DEF ControlInv, PauseHolds
  <2>2. op.kind = "Pause" /\ r.kind = "Paused" /\ r.id = op.id
    BY <1>2, <1>4, <1>5, <2>1 DEF PauseAnswered
  <2>3. vcpu'[v] = "paused" /\ boundary'[v] = op.id
    BY <1>1, <1>3, <2>2 DEF ControlInv, PauseOutbox
  <2>4. op.id = controlRequestId
    BY <2>2 DEF ControlInv, Dispatch
  <2>5. ASSUME NEW i \in 1..Len(events[v]) PROVE FALSE
    <3>1. r.id < events[v][i].id /\ events[v][i].id < controlRequestId + 1
      BY <1>0 DEF InOrder, OlderThan
    <3>2. events[v][i].id \in Nat
      BY <1>0, MailIds
    <3> QED
      BY <1>4, <2>2, <2>4, <3>1, <3>2
  <2>6. events[v] = <<>>
    BY <1>0, <2>5, EmptySeq, LenProperties, TailFacts DEF TypeOK
  <2> QED
    BY <1>3, <2>3, <2>6
<1>10. AtRest(v) => AtRest(v)' /\ boundary'[v] = boundary[v]
  BY <1>1, <1>3 DEF AtRest
<1> QED
  BY <1>0, <1>3, <1>7, <1>8, <1>9, <1>10, VcpuLocal

\* The remaining vCPU steps move neither requests nor answers out of order.
LEMMA OtherVcpuInv ==
    ASSUME ControlInv, Live, NEW v \in Vcpus,
           ExitedReceive(v) \/ GuestExit(v) \/ EnforcementKick(v)
    PROVE  /\ (\A w \in Vcpus : InOrder(w))' /\ Dispatch' /\ PauseHolds' /\ PauseOutbox'
           /\ Inert' /\ OpState' /\ Settled'
<1>0. TypeOK /\ InOrder(v) /\ UNCHANGED vmmVars
  BY DEF ControlInv, ExitedReceive, GuestExit, EnforcementKick
<1>1. vcpu[v] # "paused"
  BY DEF ExitedReceive, GuestExit, EnforcementKick
<1>2. ~AtRest(v) /\ ~PauseAnswered(v)
  BY <1>1 DEF AtRest, ControlInv, PauseHolds
<1>3. /\ responses'[v] = responses[v] /\ boundary'[v] = boundary[v]
      /\ \A w \in Vcpus \ {v} : SameVcpu(w)
  BY <1>0 DEF ExitedReceive, GuestExit, EnforcementKick, TypeOK, SameVcpu, vcpuVars
<1>4. outbox'[v].response.id = outbox[v].response.id
  BY SMTT(60), <1>0 DEF ExitedReceive, GuestExit, EnforcementKick, TypeOK, NoResponse, vcpuVars
<1>5. outbox'[v] = outbox[v] \/ outbox'[v].response.kind = "Exited"
  BY SMTT(60), <1>0 DEF ExitedReceive, GuestExit, EnforcementKick, TypeOK, vcpuVars
<1>6. \/ events'[v] = events[v]
      \/ events[v] # <<>> /\ events'[v] = Tail(events[v])
  BY <1>0 DEF ExitedReceive, GuestExit, EnforcementKick, TypeOK
<1>7. controlRequestId' = controlRequestId /\ op' = op
  BY <1>0 DEF vmmVars
<1>8. CASE events'[v] = events[v]
  <2>1. InOrder(v)'
    BY <1>0, <1>3, <1>4, <1>7, <1>8 DEF InOrder, OlderThan
  <2>2. op.kind # "None" /\ op.stage = "send" /\ v >= op.next => OlderThan(v, op.id)'
    BY <1>3, <1>4, <1>7, <1>8 DEF ControlInv, Dispatch, OlderThan
  <2>3. ~PauseAnswered(v)'
    BY <1>2, <1>3, <1>7 DEF PauseAnswered
  <2>4. outbox'[v] # NoResponse /\ outbox'[v].response.kind = "Paused"
          => outbox'[v].next = "paused" /\ boundary'[v] = outbox'[v].response.id
    BY <1>3, <1>5 DEF ControlInv, PauseOutbox
  <2> QED
    BY <1>0, <1>2, <1>3, <2>1, <2>2, <2>3, <2>4, VcpuLocal
<1>9. CASE events[v] # <<>> /\ events'[v] = Tail(events[v])
  <2>0. /\ Len(events[v]) \in Nat /\ Len(events'[v]) = Len(events[v]) - 1
        /\ \A i \in 1..Len(events'[v]) :
             i + 1 \in 1..Len(events[v]) /\ events'[v][i] = events[v][i + 1]
    <3>1. events[v] \in Seq(VcpuEvent)
      BY <1>0 DEF TypeOK
    <3>2. /\ Len(events[v]) \in Nat /\ Len(Tail(events[v])) = Len(events[v]) - 1
          /\ \A i \in 1..Len(Tail(events[v])) :
               i + 1 \in 1..Len(events[v]) /\ Tail(events[v])[i] = events[v][i + 1]
      BY <1>9, <3>1, TailFacts
    <3> QED
      BY <1>9, <3>2
  <2>1. InOrder(v)'
    <3>1. OlderThan(v, controlRequestId + 1)'
      <4>1. OlderThan(v, controlRequestId + 1)
        BY <1>0 DEF InOrder
      <4>2. ASSUME NEW i \in 1..Len(events'[v]) PROVE events'[v][i].id < controlRequestId + 1
        <5>1. i + 1 \in 1..Len(events[v]) /\ events'[v][i] = events[v][i + 1]
          BY <2>0
        <5> QED
          BY <4>1, <5>1 DEF OlderThan
      <4> QED
        BY <1>3, <1>4, <1>7, <4>1, <4>2 DEF OlderThan
    <3>2. ASSUME NEW i \in 1..Len(events'[v])
          PROVE  /\ outbox'[v].response.id < events'[v][i].id
                 /\ \A j \in 1..Len(responses'[v]) : responses'[v][j].id < events'[v][i].id
                 /\ \A j \in 1..Len(events'[v]) : i < j => events'[v][i].id < events'[v][j].id
      <4>1. i + 1 \in 1..Len(events[v]) /\ events'[v][i] = events[v][i + 1]
        BY <2>0
      <4>2. /\ outbox'[v].response.id < events'[v][i].id
            /\ \A j \in 1..Len(responses'[v]) : responses'[v][j].id < events'[v][i].id
        BY <1>0, <1>3, <1>4, <4>1 DEF InOrder
      <4>3. ASSUME NEW j \in 1..Len(events'[v]), i < j
            PROVE  events'[v][i].id < events'[v][j].id
        <5>1. /\ j + 1 \in 1..Len(events[v]) /\ events'[v][j] = events[v][j + 1]
              /\ i + 1 < j + 1
          BY SMTT(60), <2>0, <4>3
        <5> QED
          BY <1>0, <4>1, <5>1 DEF InOrder
      <4> QED
        BY <4>2, <4>3
    <3> QED
      BY <3>1, <3>2 DEF InOrder
  <2>2. op.kind # "None" /\ op.stage = "send" /\ v >= op.next => OlderThan(v, op.id)'
    BY <1>3, <1>4, <1>7, <2>0 DEF ControlInv, Dispatch, OlderThan
  <2>3. ~PauseAnswered(v)'
    BY <1>2, <1>3, <1>7 DEF PauseAnswered
  <2>4. outbox'[v] # NoResponse /\ outbox'[v].response.kind = "Paused"
          => outbox'[v].next = "paused" /\ boundary'[v] = outbox'[v].response.id
    BY <1>3, <1>5 DEF ControlInv, PauseOutbox
  <2> QED
    BY <1>0, <1>2, <1>3, <2>1, <2>2, <2>3, <2>4, VcpuLocal
<1> QED
  BY <1>6, <1>8, <1>9

\* Dispatching the request to the next vCPU keeps the invariant.
LEMMA SendEventInv ==
    ASSUME ControlInv, Live, SendEvent
    PROVE  /\ (\A w \in Vcpus : InOrder(w))' /\ Dispatch' /\ PauseHolds' /\ PauseOutbox'
           /\ Inert' /\ OpState' /\ Settled'
<1>v. op.next \in Vcpus
  BY DEF ControlInv, TypeOK, Operation
<1> PICK v \in Vcpus : v = op.next
  BY <1>v
<1> DEFINE e == [kind |-> op.kind, id |-> op.id]
           n == Len(events[v])
<1>0. /\ TypeOK /\ v \in Vcpus /\ InOrder(v) /\ op.id \in Nat /\ v \in Nat
      /\ op.kind \in {"Pause", "Resume", "Capture", "Validate", "Restore"} /\ op.stage = "send"
      /\ op.id = controlRequestId /\ \A w \in Vcpus : w >= v => OlderThan(w, op.id)
  BY DEF ControlInv, TypeOK, Operation, RequestId, Vcpus, SendEvent, OpState, Dispatch
<1>1. /\ UNCHANGED <<control, executionState, controlRequestId, responses, vcpu, outbox, boundary>>
      /\ op'.kind = op.kind /\ op'.id = op.id
      /\ \/ op'.stage = "send" /\ op'.next = v + 1
         \/ op'.stage = "wait" /\ op'.next = 1
  BY <1>0 DEF SendEvent, vcpuVars, TypeOK, Operation
<1>2. \A w \in Vcpus \ {v} : events'[w] = events[w]
  BY <1>0 DEF SendEvent, TypeOK
<1>3. /\ n \in Nat /\ Len(events'[v]) = n + 1 /\ events'[v][n + 1] = e
      /\ \A i \in 1..n : events'[v][i] = events[v][i]
      /\ \A i \in 1..Len(events'[v]) : i \in 1..n \/ i = n + 1
  <2>1. events[v] \in Seq(VcpuEvent) /\ events'[v] = Append(events[v], e)
    BY <1>0 DEF SendEvent, TypeOK
  <2>2. e \in VcpuEvent
    BY <1>0 DEF TypeOK, Operation, VcpuEvent
  <2>3. /\ n \in Nat /\ Len(events'[v]) = n + 1 /\ events'[v][n + 1] = e
        /\ \A i \in 1..n : events'[v][i] = events[v][i]
    <3> HIDE DEF e
    <3>1. /\ Len(events[v]) \in Nat
          /\ Len(Append(events[v], e)) = Len(events[v]) + 1
          /\ Append(events[v], e)[Len(events[v]) + 1] = e
          /\ \A i \in 1..Len(events[v]) : Append(events[v], e)[i] = events[v][i]
      BY <2>1, <2>2, AppendFacts
    <3> QED
      BY <2>1, <3>1
  <2> QED
    BY <2>3
<1>4. ASSUME NEW w \in Vcpus PROVE InOrder(w)'
  <2>1. CASE w # v
    BY <1>1, <1>2, <2>1 DEF ControlInv, InOrder, OlderThan
  <2>2. CASE w = v
    <3>0. OlderThan(v, op.id) /\ e.id = op.id
      BY <1>0
    <3>1. OlderThan(v, controlRequestId + 1)'
      <4>1. \A i \in 1..Len(events'[v]) : events'[v][i].id < controlRequestId + 1
        <5>1. ASSUME NEW i \in 1..Len(events'[v]) PROVE events'[v][i].id < controlRequestId + 1
          <6>1. CASE i \in 1..n
            BY <1>0, <1>3, <6>1 DEF InOrder, OlderThan
          <6>2. CASE i = n + 1
            BY SMTT(60), <1>0, <1>3, <3>0, <6>2
          <6> QED
            BY <1>3, <6>1, <6>2
        <5> QED
          BY <5>1
      <4> QED
        BY <1>0, <1>1, <4>1 DEF InOrder, OlderThan
    <3>2. ASSUME NEW i \in 1..Len(events'[v])
          PROVE  /\ outbox'[v].response.id < events'[v][i].id
                 /\ \A j \in 1..Len(responses'[v]) : responses'[v][j].id < events'[v][i].id
                 /\ \A j \in 1..Len(events'[v]) : i < j => events'[v][i].id < events'[v][j].id
      <4>1. CASE i \in 1..n
        <5>1. events'[v][i] = events[v][i] /\ events[v][i].id < op.id
          BY <1>3, <3>0, <4>1 DEF OlderThan
        <5>2. /\ outbox'[v].response.id < events'[v][i].id
              /\ \A j \in 1..Len(responses'[v]) : responses'[v][j].id < events'[v][i].id
          BY <1>0, <1>1, <4>1, <5>1 DEF InOrder
        <5>3. ASSUME NEW j \in 1..Len(events'[v]), i < j
              PROVE  events'[v][i].id < events'[v][j].id
          <6>1. CASE j \in 1..n
            BY <1>0, <1>3, <4>1, <5>1, <5>3, <6>1 DEF InOrder
          <6>2. CASE j = n + 1
            BY <1>3, <3>0, <5>1, <6>2
          <6> QED
            BY <1>3, <6>1, <6>2
        <5> QED
          BY <5>2, <5>3
      <4>2. CASE i = n + 1
        <5>1. events'[v][i].id = op.id
          BY <1>3, <3>0, <4>2
        <5>2. \A j \in 1..Len(events'[v]) : ~(i < j)
          BY <1>3, <4>2
        <5> QED
          BY <1>1, <3>0, <5>1, <5>2 DEF OlderThan
      <4> QED
        BY <1>3, <4>1, <4>2
    <3> QED
      BY <2>2, <3>1, <3>2 DEF InOrder
  <2> QED
    BY <2>1, <2>2
<1>5. Dispatch'
  <2>1. ASSUME op'.stage = "send", NEW w \in Vcpus, w >= op'.next PROVE OlderThan(w, op.id)'
    <3>1. w # v /\ w >= v
      BY <1>0, <1>1, <2>1 DEF Vcpus
    <3>2. OlderThan(w, op.id) /\ events'[w] = events[w]
      BY <1>0, <1>2, <3>1
    <3> QED
      BY <1>1, <3>2 DEF OlderThan
  <2> QED
    BY <1>0, <1>1, <2>1 DEF Dispatch
<1>6. PauseHolds'
  <2> SUFFICES ASSUME NEW w \in Vcpus, PauseAnswered(w)'
               PROVE  /\ vcpu'[w] = "paused" /\ outbox'[w] = NoResponse
                      /\ events'[w] = <<>> /\ boundary'[w] = op'.id
    BY DEF PauseHolds
  <2>1. PICK i \in 1..Len(responses[w]) :
          responses[w][i].kind = "Paused" /\ responses[w][i].id = op.id
    BY <1>1 DEF PauseAnswered, Vcpus
  <2>2. w # v
    <3> SUFFICES ASSUME w = v PROVE FALSE
      OBVIOUS
    <3> QED
      BY <1>0, <2>1 DEF OlderThan
  <2>3. PauseAnswered(w)
    BY <1>1, <2>1 DEF PauseAnswered
  <2> QED
    BY <1>1, <1>2, <2>2, <2>3 DEF ControlInv, PauseHolds
<1>7. PauseOutbox' /\ OpState'
  BY <1>1 DEF ControlInv, PauseOutbox, OpState
<1>8. ASSUME op.kind \in {"Capture", "Validate", "Restore"}, NEW w \in Vcpus, AtRest(w)
      PROVE  AtRest(w)'
  <2>1. CASE w # v
    BY <1>1, <1>2, <1>8, <2>1 DEF AtRest
  <2>2. CASE w = v
    <3>1. vcpu'[v] = "paused" /\ outbox'[v].next \in {"none", "paused"}
      BY <1>1, <1>8, <2>2 DEF AtRest
    <3>2. ASSUME NEW i \in 1..Len(events'[v])
          PROVE  events'[v][i].kind \in {"Capture", "Validate", "Restore"}
      <4>1. CASE i \in 1..n
        <5>1. events[v][i].kind \in {"Capture", "Validate", "Restore"}
          BY <1>8, <2>2, <4>1 DEF AtRest
        <5>2. events'[v][i] = events[v][i]
          BY <1>3, <4>1
        <5> QED
          BY <5>1, <5>2
      <4>2. CASE i = n + 1
        BY <1>3, <1>8, <4>2
      <4> QED
        BY <1>3, <4>1, <4>2
    <3> QED
      BY <2>2, <3>1, <3>2 DEF AtRest
  <2> QED
    BY <2>1, <2>2
<1>9. Inert'
  <2> SUFFICES ASSUME control = "constructing", op.kind # "Resume", executionState.kind # "Running"
               PROVE  \A w \in Vcpus : AtRest(w)' /\ boundary'[w] = 0
    BY <1>1 DEF Inert
  <2>1. op.kind \in {"Capture", "Validate", "Restore"}
    BY <1>0 DEF ControlInv, OpState
  <2> QED
    BY <1>1, <1>8, <2>1 DEF ControlInv, Inert
<1>10. Settled'
  <2> SUFFICES ASSUME executionState.kind = "Paused"
               PROVE  \A w \in Vcpus : AtRest(w)' /\ boundary'[w] = executionState.generation
    BY <1>1 DEF Settled
  <2>1. op.kind \in {"Capture", "Validate", "Restore"}
    BY <1>0 DEF ControlInv, OpState, Indeterminate
  <2> QED
    BY <1>1, <1>8, <2>1 DEF ControlInv, Settled
<1> QED
  BY <1>4, <1>5, <1>6, <1>7, <1>9, <1>10

\* What holds of a VMM that is not being torn down.
LiveInv ==
    /\ \A v \in Vcpus : InOrder(v)
    /\ Dispatch /\ PauseHolds /\ PauseOutbox /\ Inert /\ OpState /\ Settled

\* Starting an operation keeps the invariant.
LEMMA StartInv ==
    ASSUME ControlInv, Live, PauseStart \/ ResumeStart \/ CaptureStart \/ RestoreStart
    PROVE  LiveInv'
<1> USE DEF vcpuVars
<1>0. TypeOK /\ MailKept /\ control' = control /\ op = NoOp
  BY DEF ControlInv, PauseStart, ResumeStart, CaptureStart, RestoreStart, MailKept
<1>1. executionState.generation \in RequestId
  BY TeardownAssumption DEF ControlInv, TypeOK, VmmExecutionState, Indeterminate, RequestId
<1>2. PICK k \in {"Pause", "Resume", "Capture", "Validate", "Restore"} :
        /\ Begin(k, executionState.generation)
        /\ k \in {"Pause", "Capture"} => control = "published"
        /\ k \in {"Validate", "Restore"} => control = "constructing" /\ op = NoOp
        /\ k \in {"Validate", "Restore", "Capture"} => executionState.kind = "Paused"
        /\ k \in {"Pause", "Resume", "Restore"} => executionState' = Indeterminate
        /\ k \in {"Capture", "Validate"} => executionState' = executionState
  BY DEF PauseStart, ResumeStart, CaptureStart, RestoreStart
<1>3. op'.kind = k
  BY <1>2 DEF Begin
<1>4. (\A v \in Vcpus : InOrder(v))' /\ Dispatch' /\ PauseHolds'
  BY <1>0, <1>1, <1>2, BeginInv DEF ControlInv
<1>5. PauseOutbox'
  BY <1>0 DEF ControlInv, PauseOutbox, MailKept
<1>6. OpState'
  BY <1>0, <1>2, <1>3 DEF OpState
<1>7. Settled'
  BY SMTT(60), <1>0, <1>2, <1>3, KeptFacts DEF ControlInv, Settled, Indeterminate, MailKept
<1>8. Inert'
  <2> SUFFICES ASSUME control' = "constructing", op'.kind # "Resume"
               PROVE  \A v \in Vcpus : AtRest(v)' /\ boundary'[v] = 0
    BY DEF Inert
  <2>1. control = "constructing" /\ op = NoOp /\ executionState.kind = "Paused"
    BY <1>0, <1>2, <1>3
  <2>2. \A v \in Vcpus : AtRest(v) /\ boundary[v] = 0
    BY <2>1 DEF ControlInv, Inert, NoOp
  <2> QED
    BY <1>0, <2>2, KeptFacts DEF MailKept
<1> QED
  BY <1>4, <1>5, <1>6, <1>7, <1>8 DEF LiveInv

\* A wait that moves on to the next vCPU, or skips a late answer, keeps the
\* invariant: a pause moves on only past a vCPU that answered it.
LEMMA ProgressInv ==
    ASSUME ControlInv, Live, MailKept, UNCHANGED <<control, controlRequestId>>,
           op.kind # "None", op.stage = "wait",
           op'.kind = op.kind, op'.stage = "wait", op'.id = op.id,
           \/ op'.next = op.next
           \/ op'.next = op.next + 1 /\ (op.kind = "Pause" => PauseAnswered(op.next)),
           \/ executionState' = executionState
           \/ op.kind = "Validate" /\ executionState' = Indeterminate
    PROVE  LiveInv'
<1>0. TypeOK /\ op.next \in Vcpus
  BY DEF ControlInv, TypeOK, Operation
<1>1. ASSUME NEW v \in Vcpus
      PROVE  /\ InOrder(v)' /\ (AtRest(v) => AtRest(v)') /\ boundary'[v] = boundary[v]
             /\ \A i \in 1..Len(responses'[v]) :
                  \E j \in 1..Len(responses[v]) : responses'[v][i] = responses[v][j]
  BY <1>0, KeptFacts, ResponseTakenInv DEF ControlInv, MailKept
<1>2. Dispatch' /\ PauseOutbox' /\ OpState'
  <2>1. Dispatch'
    BY DEF ControlInv, Dispatch
  <2>2. PauseOutbox'
    BY DEF ControlInv, PauseOutbox, MailKept
  <2>3. OpState'
    BY DEF ControlInv, OpState, Indeterminate
  <2> QED
    BY <2>1, <2>2, <2>3
<1>3. PauseHolds'
  <2> SUFFICES ASSUME NEW v \in Vcpus, PauseAnswered(v)'
               PROVE  /\ vcpu'[v] = "paused" /\ outbox'[v] = NoResponse
                      /\ events'[v] = <<>> /\ boundary'[v] = op'.id
    BY DEF PauseHolds
  <2>1. CASE v < op'.next
    <3>1. v < op.next \/ v = op.next
      BY <1>0, <2>1 DEF Vcpus
    <3>2. PauseAnswered(v)
      BY <1>0, <2>1, <3>1 DEF PauseAnswered, Vcpus
    <3> QED
      BY <3>2 DEF ControlInv, PauseHolds, MailKept
  <2>2. CASE ~(v < op'.next)
    <3>1. PauseAnswered(v)
      BY <1>1, <2>2 DEF PauseAnswered
    <3> QED
      BY <3>1 DEF ControlInv, PauseHolds, MailKept
  <2> QED
    BY <2>1, <2>2
<1>4. Settled'
  <2> SUFFICES ASSUME executionState'.kind = "Paused", NEW v \in Vcpus
               PROVE  AtRest(v)' /\ boundary'[v] = executionState'.generation
    BY DEF Settled
  <2>1. executionState' = executionState
    BY DEF Indeterminate
  <2>2. AtRest(v) /\ boundary[v] = executionState.generation
    BY <2>1 DEF ControlInv, Settled
  <2> QED
    BY <1>1, <2>1, <2>2
<1>5. Inert'
  BY <1>1 DEF ControlInv, Inert, OpState, Indeterminate
<1> QED
  BY <1>1, <1>2, <1>3, <1>4, <1>5 DEF LiveInv

\* The last acknowledgement of an operation keeps the invariant: a pause ends
\* with every vCPU answered and a restore with every vCPU as it was built.
LEMMA CompleteInv ==
    ASSUME ControlInv, Live, MailKept, op.stage = "wait", op.next = N,
           op.kind = "Pause" => PauseAnswered(N), Complete
    PROVE  LiveInv'
<1>0. TypeOK /\ N \in Vcpus
  BY NAssumption DEF ControlInv, Vcpus
<1>1. /\ op' = NoOp /\ control' = control /\ controlRequestId' = controlRequestId
      /\ op.kind \in {"Pause", "Resume", "Capture", "Restore"}
  BY DEF Complete, Return
<1>2. ASSUME NEW v \in Vcpus
      PROVE  /\ InOrder(v)' /\ (AtRest(v) => AtRest(v)') /\ boundary'[v] = boundary[v]
  BY <1>0, <1>1, KeptFacts, ResponseTakenInv DEF ControlInv, MailKept
<1>3. Dispatch' /\ PauseOutbox' /\ OpState' /\ PauseHolds'
  BY <1>1 DEF ControlInv, Dispatch, PauseOutbox, OpState, PauseHolds, PauseAnswered, MailKept, NoOp
<1>4. CASE op.kind = "Pause"
  <2>1. executionState' = Paused(op.id) /\ control = "published"
    BY <1>4 DEF Complete, Return, ControlInv, OpState
  <2>2. ASSUME NEW v \in Vcpus PROVE PauseAnswered(v)
    <3>1. v < op.next \/ v = N
      <4>1. v \in 1..N /\ N \in Nat /\ op.next = N
        BY NAssumption DEF Vcpus
      <4> QED
        BY <4>1
    <3>2. CASE v < op.next
      BY <1>4, <3>2 DEF PauseAnswered
    <3>3. CASE v = N
      BY <1>4, <3>3
    <3> QED
      BY <3>1, <3>2, <3>3
  <2>3. ASSUME NEW v \in Vcpus PROVE AtRest(v) /\ boundary[v] = op.id
    <3>1. vcpu[v] = "paused" /\ outbox[v] = NoResponse /\ events[v] = <<>> /\ boundary[v] = op.id
      BY <2>2 DEF ControlInv, PauseHolds
    <3>2. NoResponse.next = "none"
      BY DEF NoResponse
    <3>3. Len(events[v]) = 0
      BY <3>1
    <3>4. \A i \in 1..Len(events[v]) : FALSE
      BY <3>3
    <3> QED
      BY <3>1, <3>2, <3>4 DEF AtRest
  <2>4. Settled' /\ Inert'
    BY <1>1, <1>2, <2>1, <2>3 DEF Settled, Inert, Paused
  <2> QED
    BY <1>2, <1>3, <2>4 DEF LiveInv
<1>5. CASE op.kind = "Resume"
  <2>1. executionState'.kind = "Running"
    BY SMTT(60), <1>5 DEF Complete, Return, Running
  <2> QED
    BY <1>2, <1>3, <2>1 DEF LiveInv, Settled, Inert
<1>6. CASE op.kind = "Capture"
  <2>1. executionState' = executionState /\ control = "published"
    BY <1>6 DEF Complete, Return, ControlInv, OpState
  <2>2. Settled' /\ Inert'
    BY <1>1, <1>2, <2>1 DEF ControlInv, Settled, Inert
  <2> QED
    BY <1>2, <1>3, <2>2 DEF LiveInv
<1>7. CASE op.kind = "Restore"
  <2>1. executionState' = Paused(0) /\ control = "constructing" /\ executionState = Indeterminate
    BY <1>7 DEF Complete, Return, ControlInv, OpState
  <2>2. \A v \in Vcpus : AtRest(v) /\ boundary[v] = 0
    BY <1>7, <2>1 DEF ControlInv, Inert, Indeterminate
  <2>3. Settled' /\ Inert'
    BY <1>2, <2>1, <2>2 DEF Settled, Inert, Paused
  <2> QED
    BY <1>2, <1>3, <2>3 DEF LiveInv
<1> QED
  BY <1>1, <1>4, <1>5, <1>6, <1>7

\* The wait of an operation, however it goes on, keeps the invariant.
LEMMA WaitInv ==
    ASSUME ControlInv, Live, Live', Wait
    PROVE  LiveInv'
<1> USE DEF vmmVars, vcpuVars
<1>0. /\ TypeOK /\ op.next \in Vcpus /\ op.kind # "Terminate"
      /\ op.kind \in {"Validate", "Restore"} => control = "constructing"
      /\ op.next \in Nat /\ N \in Nat
  BY NAssumption DEF ControlInv, TypeOK, Operation, OpState, Vcpus
<1>1. ASSUME GiveUp, MailKept, op.kind \in {"Pause", "Resume", "Capture", "Restore"},
             op.stage = "wait" \/ control = "constructing"
      PROVE  LiveInv'
  <2>1. control = "published" /\ control' = control /\ op.stage = "wait"
    BY <1>1 DEF GiveUp, Return, Live
  <2>2. /\ op' = NoOp /\ executionState' \in {executionState, Indeterminate}
        /\ UNCHANGED controlRequestId
    BY <1>1 DEF GiveUp, Return
  <2>3. /\ (\A v \in Vcpus : InOrder(v))' /\ Dispatch' /\ PauseHolds' /\ PauseOutbox'
        /\ Settled' /\ OpState'
    BY <1>1, <2>1, <2>2, ReturnInv
  <2>4. Inert'
    BY <2>1 DEF Inert
  <2> QED
    BY <2>3, <2>4 DEF LiveInv
<1>2. CASE ReceiveResponse
  <2> DEFINE r == Head(responses[op.next])
  <2>1. /\ MailKept /\ op.stage = "wait" /\ responses[op.next] # <<>>
        /\ op.kind \in {"Pause", "Resume", "Capture", "Restore"}
    BY <1>2 DEF ReceiveResponse, MailKept
  <2>2. r = responses[op.next][1] /\ 1 \in 1..Len(responses[op.next])
    BY <1>0, <2>1, TailFacts DEF TypeOK
  <2>3. CASE Accepted(r) /\ Advance
    <3>1. op.kind = "Pause" => PauseAnswered(op.next)
      BY <2>1, <2>2, <2>3 DEF Accepted, Matches, Awaited, PauseAnswered
    <3>2. CASE op.next = N
      <4>1. Complete
        BY <2>3, <3>2 DEF Advance
      <4> QED
        BY <2>1, <3>1, <3>2, <4>1, CompleteInv
    <3>3. CASE op.next # N
      <4>1. /\ op' = [op EXCEPT !.next = @ + 1]
            /\ UNCHANGED <<control, executionState, controlRequestId>>
        BY <2>3, <3>3 DEF Advance
      <4>2. /\ op'.kind = op.kind /\ op'.stage = "wait" /\ op'.id = op.id
            /\ op'.next = op.next + 1
        BY <1>0, <2>1, <4>1 DEF TypeOK, Operation
      <4> QED
        BY <2>1, <3>1, <4>1, <4>2, ProgressInv
    <3> QED
      BY <3>2, <3>3
  <2>4. CASE UNCHANGED vmmVars
    BY <2>1, <2>4, ProgressInv
  <2>5. CASE GiveUp
    BY <1>1, <2>1, <2>5
  <2> QED
    BY <1>2, <2>3, <2>4, <2>5 DEF ReceiveResponse
<1>3. CASE ControlTimeout
  <2>1. GiveUp /\ MailKept
    BY <1>3 DEF ControlTimeout, MailKept
  <2> QED
    BY <1>1, <1>3, <2>1 DEF ControlTimeout
<1>4. CASE Rekick
  <2>1. MailKept /\ UNCHANGED vmmVars /\ op.kind # "None" /\ op.stage = "wait"
    BY <1>4 DEF Rekick, MailKept
  <2> QED
    BY <2>1, ProgressInv
<1>5. ASSUME MailKept, op.kind = "Validate", op.stage = "wait",
             NEW a \in BOOLEAN, NEW b \in BOOLEAN, Preflight(a, b)
      PROVE  LiveInv'
  <2> DEFINE failed == op.failed \/ ~b
             state == IF a THEN executionState ELSE Indeterminate
  <2>1. CASE op.next < N
    <3>1. /\ op' = [op EXCEPT !.next = @ + 1, !.failed = failed]
          /\ executionState' = state
          /\ UNCHANGED <<control, controlRequestId>>
      BY <1>5, <2>1 DEF Preflight
    <3>2. /\ op'.kind = op.kind /\ op'.stage = "wait" /\ op'.id = op.id
          /\ op'.next = op.next + 1
      BY <1>0, <1>5, <3>1 DEF TypeOK, Operation
    <3> QED
      BY <1>5, <3>1, <3>2, ProgressInv
  <2>2. CASE ~(op.next < N)
    <3>1. CASE failed /\ Return(FALSE, state)
      BY <1>0, <1>5, <3>1 DEF Return, Live
    <3>2. CASE /\ Begin("Restore", op.from)
               /\ executionState' = Indeterminate /\ UNCHANGED control
      <4>1. op.from \in RequestId /\ op'.kind = "Restore"
        BY <1>0, <3>2 DEF TypeOK, Operation, Begin
      <4>2. (\A v \in Vcpus : InOrder(v))' /\ Dispatch' /\ PauseHolds'
        BY <1>0, <1>5, <3>2, <4>1, BeginInv DEF ControlInv
      <4>3. PauseOutbox' /\ OpState' /\ Settled'
        BY <1>0, <1>5, <3>2, <4>1
           DEF ControlInv, PauseOutbox, OpState, Settled, Indeterminate, MailKept
      <4>4. \A v \in Vcpus : AtRest(v) /\ boundary[v] = 0
        BY <1>0, <1>5 DEF ControlInv, Inert, OpState
      <4>5. Inert'
        BY <1>0, <1>5, <4>4, KeptFacts DEF Inert, MailKept
      <4> QED
        BY <4>2, <4>3, <4>5 DEF LiveInv
    <3> QED
      BY <1>5, <2>2, <3>1, <3>2 DEF Preflight
  <2> QED
    BY <2>1, <2>2
<1>6. CASE ReceiveValidation
  <2>1. MailKept /\ op.kind = "Validate" /\ op.stage = "wait"
    BY <1>6 DEF ReceiveValidation, MailKept
  <2>2. PICK a \in BOOLEAN, b \in BOOLEAN : Preflight(a, b)
    BY <1>6 DEF ReceiveValidation, Matches, Accepted
  <2> QED
    BY <1>5, <2>1, <2>2
<1>7. CASE ValidationTimeout
  BY <1>5, <1>7 DEF ValidationTimeout, MailKept
<1>8. CASE VmRestoreFails
  <2>1. GiveUp /\ MailKept /\ op.kind = "Restore"
    BY <1>8 DEF VmRestoreFails, MailKept
  <2> QED
    BY <1>0, <1>1, <2>1
<1>9. CASE JoinVcpu
  BY <1>0, <1>9 DEF JoinVcpu
<1> QED
  BY <1>2, <1>3, <1>4, <1>6, <1>7, <1>8, <1>9 DEF Wait

\* A VMM that is being torn down never becomes live again.
LEMMA LiveBefore ==
    ASSUME TypeOK, [Next]_vars, Live' PROVE Live
BY DEF TypeOK, Live, Next, vars, vmmVars, vcpuVars, PauseStart, ResumeStart, CaptureStart,
       RestoreStart, PublishVmm, DropStart, ProcessExit, SendEvent, Wait, ReceiveResponse,
       ControlTimeout, Rekick, ReceiveValidation, ValidationTimeout, VmRestoreFails, JoinVcpu,
       VcpuStep, PausedReceive, Interrupted, ExitedReceive, SendResponse, GuestExit,
       EnforcementKick, GiveUp, Advance, Complete, Preflight, Return

\* Every step keeps the inductive invariant.
LEMMA InvStep == ControlInv /\ [Next]_vars => ControlInv'
<1> SUFFICES ASSUME ControlInv, [Next]_vars, Live' PROVE LiveInv'
  BY TypeStep DEF ControlInv, LiveInv
<1> USE DEF vmmVars, vcpuVars
<1>0. TypeOK /\ Live /\ LiveInv
  BY LiveBefore DEF ControlInv, LiveInv
<1>1. CASE PauseStart \/ ResumeStart \/ CaptureStart \/ RestoreStart
  BY <1>0, <1>1, StartInv
<1>2. CASE PublishVmm
  BY <1>0, <1>2 DEF PublishVmm, LiveInv, InOrder, OlderThan, Dispatch, PauseHolds, PauseAnswered,
                    PauseOutbox, Inert, OpState, Settled, AtRest, NoOp
<1>3. CASE DropStart \/ ProcessExit
  BY <1>3 DEF DropStart, ProcessExit, Live
<1>4. CASE SendEvent
  BY <1>0, <1>4, SendEventInv DEF LiveInv
<1>5. CASE Wait
  BY <1>0, <1>5, WaitInv
<1>6. ASSUME NEW v \in Vcpus, VcpuStep(v) \/ GuestExit(v) \/ EnforcementKick(v)
      PROVE  LiveInv'
  <2>1. CASE PausedReceive(v)
    BY <1>0, <2>1, HandleInv DEF PausedReceive, LiveInv
  <2>2. CASE Interrupted(v)
    <3>1. CASE events[v] # <<>> /\ Handle(v)
      BY <1>0, <2>2, <3>1, HandleInv DEF Interrupted, LiveInv
    <3>2. CASE UNCHANGED <<events, vcpu, outbox, boundary>>
      BY <1>0, <2>2, <3>2
         DEF Interrupted, LiveInv, InOrder, OlderThan, Dispatch, PauseHolds, PauseAnswered,
             PauseOutbox, Inert, OpState, Settled, AtRest
    <3> QED
      BY <2>2, <3>1, <3>2 DEF Interrupted
  <2>3. CASE SendResponse(v)
    BY <1>0, <2>3, SendResponseInv DEF LiveInv
  <2>4. CASE ExitedReceive(v) \/ GuestExit(v) \/ EnforcementKick(v)
    BY <1>0, <2>4, OtherVcpuInv DEF LiveInv
  <2> QED
    BY <1>6, <2>1, <2>2, <2>3, <2>4 DEF VcpuStep
<1>7. CASE UNCHANGED vars
  <2>1. /\ UNCHANGED <<control, executionState, controlRequestId, op, events, responses, vcpu,
                       outbox, boundary>>
    BY <1>7 DEF vars, vmmVars, vcpuVars
  <2>2. ASSUME NEW v \in Vcpus
        PROVE  /\ InOrder(v)' = InOrder(v) /\ AtRest(v)' = AtRest(v)
               /\ PauseAnswered(v)' = PauseAnswered(v)
    BY <2>1 DEF InOrder, OlderThan, AtRest, PauseAnswered
  <2>3. Dispatch' /\ PauseOutbox' /\ OpState'
    BY <1>0, <2>1 DEF LiveInv, Dispatch, PauseOutbox, OpState, OlderThan
  <2>4. PauseHolds' /\ Inert' /\ Settled'
    BY <1>0, <2>1, <2>2 DEF LiveInv, PauseHolds, Inert, Settled
  <2> QED
    BY <1>0, <2>2, <2>3, <2>4 DEF LiveInv
<1> QED
  BY <1>1, <1>2, <1>3, <1>4, <1>5, <1>6, <1>7 DEF Next

\* The paused boundary of VmmExecutionState::Paused, for any number of vCPUs,
\* any mailbox capacity and any number of requests: pause_vcpus and
\* restore_execution_state leave every vCPU parked at the boundary they report,
\* and no late answer of an abandoned barrier or capture can move it.
THEOREM PausedBoundaryHolds == Spec => []PausedBoundary
<1>1. ControlInv => PausedBoundary
  <2> SUFFICES ASSUME ControlInv, Live, executionState.kind = "Paused", NEW v \in Vcpus
               PROVE  Parked(v) /\ boundary[v] = executionState.generation
    BY DEF PausedBoundary, Live
  <2>1. AtRest(v) /\ boundary[v] = executionState.generation
    BY DEF ControlInv, Settled
  <2> QED
    BY <2>1 DEF AtRest, Parked
<1> QED
  BY <1>1, InitInv, InvStep, PTL DEF Spec

\* A published registry shows the state the Vmm records.
LEMMA RegistryStep ==
    ASSUME ControlInv, [Next]_vars, RegistryCurrent PROVE RegistryCurrent'
<1> SUFFICES ASSUME control' = "published" PROVE registry'.execution = executionState'
  BY DEF RegistryCurrent
<1> USE DEF vmmVars, vcpuVars
<1>0. Live /\ OpState /\ TypeOK
  BY LiveBefore DEF Live, ControlInv
<1>1. CASE PauseStart \/ ResumeStart \/ CaptureStart \/ RestoreStart \/ PublishVmm
  <2>1. CASE PauseStart \/ ResumeStart
    BY <2>1 DEF PauseStart, ResumeStart, PublishTransitionStarted
  <2>2. CASE CaptureStart
    BY <2>2 DEF CaptureStart, RegistryCurrent
  <2>3. CASE RestoreStart
    BY <2>3 DEF RestoreStart
  <2>4. CASE PublishVmm
    BY <2>4 DEF PublishVmm
  <2> QED
    BY <1>1, <2>1, <2>2, <2>3, <2>4
<1>2. CASE UNCHANGED <<control, registry, executionState>>
  BY <1>2 DEF RegistryCurrent
<1>3. ASSUME NEW b \in BOOLEAN, NEW st, Return(b, st) PROVE registry'.execution = executionState'
  BY <1>3 DEF Return
<1>4. CASE ReceiveResponse \/ ControlTimeout \/ VmRestoreFails
  <2>1. CASE GiveUp \/ Complete
    BY <1>3, <2>1 DEF GiveUp, Complete
  <2>2. CASE UNCHANGED <<control, registry, executionState>>
    BY <1>2, <2>2
  <2> QED
    BY <1>4, <2>1, <2>2 DEF ReceiveResponse, ControlTimeout, VmRestoreFails, Advance
<1>5. CASE ReceiveValidation \/ ValidationTimeout
  <2>1. control = "constructing"
    BY <1>0, <1>5 DEF OpState, ReceiveValidation, ValidationTimeout
  <2> QED
    BY <1>5, <2>1 DEF ReceiveValidation, ValidationTimeout, Preflight, Return
<1>6. CASE DropStart \/ ProcessExit
  BY <1>6 DEF DropStart, ProcessExit
<1>7. CASE SendEvent \/ Rekick \/ JoinVcpu
  BY <1>2, <1>7 DEF SendEvent, Rekick, JoinVcpu
<1>8. ASSUME NEW v \in Vcpus, VcpuStep(v) \/ GuestExit(v) \/ EnforcementKick(v)
      PROVE  UNCHANGED <<control, registry, executionState>>
  BY <1>8 DEF VcpuStep, PausedReceive, Interrupted, ExitedReceive, SendResponse, GuestExit,
              EnforcementKick
<1> QED
  BY <1>1, <1>2, <1>4, <1>5, <1>6, <1>7, <1>8 DEF Next, Wait, vars

\* What VmControl::execution_state reads beside the Vmm mutex: whenever it shows
\* a paused boundary, that is the Vmm's and no vCPU can leave it.
THEOREM ObservedPauseHolds == Spec => []ObservedPause
<1>1. Init => RegistryCurrent
  BY DEF Init, RegistryCurrent
<1>2. PausedBoundary /\ RegistryCurrent => ObservedPause
  BY DEF PausedBoundary, RegistryCurrent, ObservedPause
<1> QED
  BY <1>1, <1>2, InitInv, InvStep, RegistryStep, PausedBoundaryHolds, PTL DEF Spec

=============================================================================
