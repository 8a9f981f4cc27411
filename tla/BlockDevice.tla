----------------------------- MODULE BlockDevice -----------------------------
(***************************************************************************)
(* One virtio block device on the MMIO transport, from the driver's rings  *)
(* to the VMM's pause: the split queue and its notifications               *)
(* (src/src/devices/src/virtio/queue.rs), the block worker (block/worker.rs*)
(* and device.rs), the transport's quiesce, restore and resume (mmio.rs)   *)
(* and what the VMM makes of them (src/src/vmm/src/lib.rs).  The driver is *)
(* external: a driver that follows the virtio protocol.                    *)
(***************************************************************************)
EXTENDS Integers, Sequences

CONSTANTS
    Size,       \* entries of the queue
    Modulus,    \* ring indices are u16: 2^16
    MaxPauses,  \* bound: how often the VMM pauses
    Faults      \* "flush": a sync may fail; "reset": the driver may reset the device

ASSUME BlockDeviceAssumption ==
    /\ Size \in Nat \ {0} /\ Modulus \in Nat /\ Modulus >= 2 * Size /\ Modulus % Size = 0
    /\ MaxPauses \in Nat /\ Faults \subseteq {"flush", "reset"}

VARIABLES
    ring,      \* guest memory: avail and used indices, the two event fields, the flag
    driver,    \* used index seen, whether a kick is to be decided, the interrupt handler
    queue,     \* Queue: next_avail, next_used, num_added, popped and not yet used
    eventIdx,  \* VIRTIO_RING_F_EVENT_IDX negotiated
    kick, irq, \* the queue's eventfd; the interrupt
    worker,    \* the block worker thread and the events it has yet to handle
    stop,      \* worker_stopping and worker_stopfd
    status,    \* "init", "ok" (DRIVER_OK) or "failed" (DRIVER_OK and FAILED)
    owner,     \* who holds the Queue: "transport", "worker", "device" (quiesced_queue), "none"
    active,    \* device_state is Activated
    vmm        \* running, what it is doing, quiesced_virtio_devices, pauses so far

guestVars == <<ring, driver>>
deviceVars == <<queue, eventIdx, worker, stop, owner, active>>
vars == <<guestVars, deviceVars, kick, irq, status, vmm>>

Minus(a, b) == (a - b) % Modulus

\* Mutant: the index does not wrap.
Plus1_NoWrap(a) == a + 1

\* Wrapping<u16> += 1
Plus1(a) == (a + 1) % Modulus

EmptyRing == [avail |-> 0, used |-> 0, availEvent |-> 0, usedEvent |-> 0, noNotify |-> FALSE]
NewDriver == [seen |-> 0, adding |-> FALSE, handler |-> "idle"]
NewQueue == [nextAvail |-> 0, nextUsed |-> 0, numAdded |-> 0, popped |-> 0]
NoWorker == [pc |-> "none", batch |-> <<>>, flushed |-> TRUE]
NewWorker == [NoWorker EXCEPT !.pc = "wait"]

Init ==
    /\ ring = EmptyRing /\ driver = NewDriver /\ queue = NewQueue
    /\ eventIdx \in BOOLEAN
    /\ kick = FALSE /\ irq = FALSE
    /\ worker = NoWorker /\ stop = [flag |-> FALSE, fd |-> FALSE]
    /\ status = "init" /\ owner = "transport" /\ active = FALSE
    /\ vmm = [runs |-> TRUE, pc |-> "idle", then |-> "none", quiesced |-> FALSE, pauses |-> 0]

-----------------------------------------------------------------------------
(* The driver, while the vCPUs run and are not inside a device register.   *)

DriverRuns == vmm.runs /\ vmm.pc = "idle"

\* Block::activate, from DRIVER_OK or from the transport's resume.
Activate ==
    /\ owner' = "worker" /\ active' = TRUE
    /\ worker' = NewWorker /\ stop' = [stop EXCEPT !.flag = FALSE]

DriverOk ==
    /\ DriverRuns /\ status = "init"
    /\ status' = "ok"
    /\ Activate
    /\ UNCHANGED <<guestVars, queue, eventIdx, kick, irq, vmm>>

AddBuffer ==
    /\ DriverRuns /\ status = "ok" /\ ~driver.adding
    /\ Minus(ring.avail, driver.seen) < Size
    /\ ring' = [ring EXCEPT !.avail = Plus1(@)]
    /\ driver' = [driver EXCEPT !.adding = TRUE]
    /\ UNCHANGED <<deviceVars, kick, irq, status, vmm>>

\* After the index is visible: kick unless the device suppresses it.
DecideKick ==
    /\ DriverRuns /\ driver.adding
    /\ driver' = [driver EXCEPT !.adding = FALSE]
    /\ kick' = (kick \/ IF eventIdx THEN Plus1(ring.availEvent) = ring.avail ELSE ~ring.noNotify)
    /\ UNCHANGED <<ring, deviceVars, irq, status, vmm>>

\* The interrupt handler takes what is used, asks for the next interrupt, looks again.
Handler ==
    /\ DriverRuns /\ status = "ok"
    /\ \/ /\ driver.handler = "idle" /\ irq
          /\ irq' = FALSE
          /\ driver' = [driver EXCEPT !.handler = "take"] /\ UNCHANGED ring
       \/ /\ driver.handler = "take"
          /\ driver' = [driver EXCEPT !.handler = "arm", !.seen = ring.used]
          /\ UNCHANGED <<irq, ring>>
       \/ /\ driver.handler = "arm"
          /\ ring' = [ring EXCEPT !.usedEvent = driver.seen]
          /\ driver' = [driver EXCEPT !.handler = "look"] /\ UNCHANGED irq
       \/ /\ driver.handler = "look"
          /\ driver' = [driver EXCEPT !.handler = IF ring.used = driver.seen THEN "idle" ELSE "take"]
          /\ UNCHANGED <<irq, ring>>
    /\ UNCHANGED <<deviceVars, kick, status, vmm>>

-----------------------------------------------------------------------------
(* The block worker.                                                       *)

\* epoll_wait returns what is ready, in any order.
EpollWait ==
    LET ready == (IF kick THEN {"queue"} ELSE {}) \cup (IF stop.fd THEN {"stop"} ELSE {})
    IN  /\ worker.pc = "wait"
        /\ \E batch \in {<<e>> : e \in ready}
                        \cup {<<e, f>> : e \in ready, f \in ready} :
              /\ \A i, j \in DOMAIN batch : i # j => batch[i] # batch[j]
              /\ worker' = [worker EXCEPT !.pc = "event", !.batch = batch]
        /\ UNCHANGED <<guestVars, queue, eventIdx, stop, owner, active, kick, irq, status, vmm>>

To(pc) == worker' = [worker EXCEPT !.pc = pc]

\* process_queue_event reads the eventfd; the stop event reads its own, syncs the
\* disk and ends the thread.
TakeEvent ==
    /\ worker.pc = "event"
    /\ \/ /\ worker.batch = <<>> /\ To("wait")
          /\ UNCHANGED <<kick, stop>>
       \/ /\ worker.batch # <<>> /\ Head(worker.batch) = "queue"
          /\ kick' = FALSE
          /\ worker' = [worker EXCEPT !.pc = "loop", !.batch = Tail(@)]
          /\ UNCHANGED stop
       \/ /\ worker.batch # <<>> /\ Head(worker.batch) = "stop"
          /\ stop' = [stop EXCEPT !.fd = FALSE]
          /\ \E ok \in {TRUE} \cup (IF "flush" \in Faults THEN {FALSE} ELSE {}) :
                worker' = [worker EXCEPT !.pc = "gone", !.batch = <<>>, !.flushed = ok]
          /\ UNCHANGED kick
    /\ UNCHANGED <<guestVars, queue, eventIdx, owner, active, irq, status, vmm>>

\* process_virtio_queues: leave if stopping, else disable_notification.
DisableNotification ==
    /\ worker.pc = "loop"
    /\ IF stop.flag THEN To("event") /\ UNCHANGED ring
       ELSE To("serve") /\ ring' = [ring EXCEPT !.noNotify = @ \/ ~eventIdx]
    /\ UNCHANGED <<driver, queue, eventIdx, stop, owner, active, kick, irq, status, vmm>>

Popping == ~stop.flag /\ ring.avail # queue.nextAvail

\* process_queue: pop, or leave.
Pop ==
    /\ worker.pc = "serve"
    /\ IF Popping
       THEN /\ To("complete")
            /\ queue' = [queue EXCEPT !.nextAvail = Plus1(@), !.popped = @ + 1]
       ELSE To("enable") /\ UNCHANGED queue
    /\ UNCHANGED <<guestVars, eventIdx, stop, owner, active, kick, irq, status, vmm>>

\* Mutant: a request popped when the worker is asked to stop is put off.
AddUsed_NotStopping ==
    /\ worker.pc = "complete"
    /\ IF stop.flag THEN To("enable") /\ UNCHANGED <<queue, ring>>
       ELSE /\ queue' = [queue EXCEPT !.nextUsed = Plus1(@), !.numAdded = Plus1(@), !.popped = @ - 1]
            /\ ring' = [ring EXCEPT !.used = Plus1(queue.nextUsed)]
            /\ To("signal")
    /\ UNCHANGED <<driver, eventIdx, stop, owner, active, kick, irq, status, vmm>>

\* The request is served, or refused; either way add_used returns its head.
AddUsed ==
    /\ worker.pc = "complete"
    /\ queue' = [queue EXCEPT !.nextUsed = Plus1(@), !.numAdded = Plus1(@), !.popped = @ - 1]
    /\ ring' = [ring EXCEPT !.used = Plus1(queue.nextUsed)]
    /\ To("signal")
    /\ UNCHANGED <<driver, eventIdx, stop, owner, active, kick, irq, status, vmm>>

\* used_event lies in what was added since the last call.
Crossed == Minus(Minus(queue.nextUsed, ring.usedEvent), 1) < queue.numAdded

NeedsNotification ==
    /\ worker.pc = "signal"
    /\ irq' = (irq \/ ~eventIdx \/ Crossed)
    /\ queue' = IF eventIdx THEN [queue EXCEPT !.numAdded = 0] ELSE queue
    /\ To("serve")
    /\ UNCHANGED <<guestVars, eventIdx, stop, owner, active, kick, status, vmm>>

EnableNotification ==
    /\ worker.pc = "enable"
    /\ ring' = IF eventIdx THEN [ring EXCEPT !.availEvent = queue.nextAvail]
               ELSE [ring EXCEPT !.noNotify = FALSE]
    /\ To("recheck")
    /\ UNCHANGED <<driver, queue, eventIdx, stop, owner, active, kick, irq, status, vmm>>

Recheck ==
    /\ worker.pc = "recheck"
    /\ To(IF stop.flag \/ ring.avail = queue.nextAvail THEN "event" ELSE "loop")
    /\ UNCHANGED <<guestVars, queue, eventIdx, stop, owner, active, kick, irq, status, vmm>>

-----------------------------------------------------------------------------
(* Stopping the worker: stop_worker, from a quiesce or from a reset.       *)

StopWorker == stop' = [flag |-> TRUE, fd |-> TRUE]

\* Mutant: a worker that already stopped is not looked at again.
QuiescePhase_NoRetry ==
    CASE owner = "transport" -> "quiesced"
      [] owner = "worker" -> "join"
      [] OTHER -> "idle"

\* The transport's quiesce: done when it owns the queue, else stop the worker, or
\* retry the sync of one that already stopped; an error when there is no queue.
QuiescePhase ==
    CASE owner = "transport" -> "quiesced"
      [] owner = "worker" -> "join"
      [] owner = "device" -> "sync"
      [] owner = "none" -> "idle"

Quiesce(v, then) ==
    /\ vmm' = [v EXCEPT !.then = then, !.pc = QuiescePhase]
    /\ IF owner = "worker" THEN StopWorker ELSE UNCHANGED stop
    /\ UNCHANGED <<guestVars, queue, eventIdx, worker, owner, active, kick, irq, status>>

\* The driver writes 0 to the status register, and waits.
Reset ==
    /\ "reset" \in Faults
    /\ DriverRuns /\ active /\ ~driver.adding /\ driver.handler = "idle"
    /\ Quiesce(vmm, "reset")

\* Block::reset drops the queue, MmioTransport::reset makes new ones and keeps the
\* eventfds; a FAILED device is never made anew.
ResetDone(ok) ==
    /\ active' = ~ok
    /\ IF ok /\ status = "ok"
       THEN /\ status' = "init" /\ owner' = "transport"
            /\ queue' = NewQueue /\ ring' = EmptyRing /\ driver' = NewDriver /\ irq' = FALSE
       ELSE /\ status' = "failed" /\ owner' = IF ok THEN "none" ELSE "device"
            /\ UNCHANGED <<queue, ring, driver, irq>>

\* Block::quiesce after the worker has stopped: a failed sync, or a queue that is
\* busy, keeps the queue in the device.
QuiesceDone(ok) ==
    /\ active' = ~ok
    /\ owner' = IF ok THEN "transport" ELSE "device"
    /\ UNCHANGED <<status, queue, ring, driver, irq>>

Stopped(synced) ==
    LET ok == synced /\ queue.popped = 0
    IN  \/ /\ vmm.then = "reset" /\ ResetDone(synced)
           /\ vmm' = [vmm EXCEPT !.pc = "idle", !.then = "none"]
        \/ /\ vmm.then # "reset" /\ QuiesceDone(ok)
           /\ vmm' = IF ok THEN [vmm EXCEPT !.pc = "quiesced"]
                     ELSE [vmm EXCEPT !.pc = "idle", !.then = "none"]

Join ==
    /\ vmm.pc = "join" /\ worker.pc = "gone"
    /\ Stopped(worker.flushed)
    /\ worker' = NoWorker
    /\ UNCHANGED <<eventIdx, stop, kick>>

\* stop_worker when the worker is gone: flush_to_disk again.
Sync(ok) ==
    /\ vmm.pc = "sync"
    /\ ok \/ "flush" \in Faults
    /\ Stopped(ok)
    /\ UNCHANGED <<eventIdx, stop, kick, worker>>

-----------------------------------------------------------------------------
(* The VMM.                                                                *)

\* Between two vCPU instructions: not while one is inside the status register.
Pause ==
    /\ DriverRuns /\ vmm.pauses < MaxPauses
    /\ vmm' = [vmm EXCEPT !.runs = FALSE, !.pauses = @ + 1]
    /\ UNCHANGED <<guestVars, deviceVars, kick, irq, status>>

\* Mutant: the intent is recorded once the device is quiesced.
RecordIntent_Afterwards(v) == v

RecordIntent(v) == [v EXCEPT !.quiesced = TRUE]

\* capture_block_device_state, replace_block_backend, grow_block_capacity.
CaptureStart ==
    /\ ~vmm.runs /\ vmm.pc = "idle"
    /\ Quiesce(RecordIntent(vmm), "capture")

CaptureDone ==
    /\ vmm.pc = "quiesced" /\ vmm.then = "capture"
    /\ vmm' = [vmm EXCEPT !.pc = "idle", !.then = "captured", !.quiesced = TRUE]
    /\ UNCHANGED <<guestVars, deviceVars, kick, irq, status>>

\* Mutant: the cursor starts at what the driver has made available.
Restored_AtAvail(q) == [q EXCEPT !.nextAvail = ring.avail, !.popped = 0]

\* Queue::capture_state in one process, apply_state in the other.
Restored(q) == [q EXCEPT !.popped = 0]

\* The captured state restored in a new VM: new eventfds, the same rings and indices.
Restore ==
    /\ ~vmm.runs /\ vmm.pc = "idle" /\ vmm.then = "captured"
    /\ queue' = Restored(queue)
    /\ kick' = FALSE /\ stop' = [flag |-> FALSE, fd |-> FALSE]
    /\ UNCHANGED <<guestVars, eventIdx, worker, owner, active, irq, status, vmm>>

\* resume_vcpus_from: reconcile the devices recorded, then let the vCPUs go.
ResumeStart ==
    /\ ~vmm.runs /\ vmm.pc = "idle"
    /\ IF vmm.quiesced THEN Quiesce(vmm, "resume")
       ELSE /\ vmm' = [vmm EXCEPT !.runs = TRUE, !.then = "none"]
            /\ UNCHANGED <<guestVars, deviceVars, kick, irq, status>>

\* Mutant: the reactivated worker waits for the next kick.
Scan_OnKick == kick

\* MmioTransport::resume writes the queue events: a scan for saved work.
Scan == TRUE

ResumeDone ==
    /\ vmm.pc = "quiesced" /\ vmm.then = "resume"
    /\ IF status = "init" THEN UNCHANGED <<owner, active, worker, stop, kick>>
       ELSE Activate /\ kick' = Scan
    /\ vmm' = [vmm EXCEPT !.pc = "idle", !.then = "none", !.quiesced = FALSE, !.runs = TRUE]
    /\ UNCHANGED <<guestVars, queue, eventIdx, irq, status>>

-----------------------------------------------------------------------------
DriverStep == DecideKick \/ Handler
WorkerStep ==
    \/ EpollWait \/ TakeEvent \/ DisableNotification \/ Pop \/ AddUsed
    \/ NeedsNotification \/ EnableNotification \/ Recheck
VmmStep == Join \/ (\E ok \in BOOLEAN : Sync(ok)) \/ CaptureDone \/ ResumeDone

Next ==
    \/ DriverOk \/ AddBuffer \/ Reset \/ DriverStep
    \/ WorkerStep
    \/ Pause \/ CaptureStart \/ Restore \/ ResumeStart \/ VmmStep

Spec == Init /\ [][Next]_vars

\* The threads keep running, a sync that is retried succeeds in the end, and a paused
\* VM is resumed in the end.
FairSpec ==
    /\ Spec
    /\ WF_vars(DriverStep) /\ WF_vars(WorkerStep) /\ WF_vars(VmmStep)
    /\ SF_vars(ResumeStart) /\ SF_vars(Sync(TRUE))

-----------------------------------------------------------------------------
TypeOK ==
    /\ ring \in [avail : 0..Modulus-1, used : 0..Modulus-1, availEvent : 0..Modulus-1,
                 usedEvent : 0..Modulus-1, noNotify : BOOLEAN]
    /\ driver \in [seen : 0..Modulus-1, adding : BOOLEAN, handler : {"idle", "take", "arm", "look"}]
    /\ queue \in [nextAvail : 0..Modulus-1, nextUsed : 0..Modulus-1, numAdded : 0..Modulus-1,
                  popped : 0..Size]
    /\ {eventIdx, kick, irq, active} \subseteq BOOLEAN /\ stop \in [flag : BOOLEAN, fd : BOOLEAN]
    /\ worker \in [pc : {"none", "wait", "event", "loop", "serve", "complete", "signal", "enable",
                         "recheck", "gone"},
                   batch : Seq({"queue", "stop"}), flushed : BOOLEAN]
    /\ status \in {"init", "ok", "failed"} /\ owner \in {"transport", "worker", "device", "none"}
    /\ vmm \in [runs : BOOLEAN, pc : {"idle", "join", "sync", "quiesced"},
                then : {"none", "reset", "capture", "captured", "resume"},
                quiesced : BOOLEAN, pauses : 0..MaxPauses]

\* "instead of releasing vCPUs against a silently parked backend": whenever the vCPUs
\* run with a driver that was told its device is up, a worker serves the queue,
\* whatever failed or was abandoned while the VM was paused.
NotParked ==
    vmm.runs /\ vmm.pc = "idle" /\ status = "ok" =>
        /\ owner = "worker" /\ worker.pc \notin {"none", "gone"}
        /\ ~stop.flag /\ ~stop.fd

\* Every request made available is taken once and used once, in order, over index
\* wrap, reactivation and restore: the device's cursors never leave the window
\* between what the driver has seen used and what it made available.
RingOrdered ==
    status = "ok" =>
        LET used == Minus(queue.nextUsed, driver.seen)
            taken == Minus(queue.nextAvail, driver.seen)
            made == Minus(ring.avail, driver.seen)
        IN  /\ used + queue.popped = taken /\ taken <= made /\ made <= Size
            /\ ring.used = queue.nextUsed

\* A worker that stopped holds no descriptor, so a quiesce is never refused because
\* the queue is busy (capture_state).
StoppedClean == worker.pc = "gone" => queue.popped = 0

\* Every request completes: no kick and no interrupt is lost to suppression, to a
\* worker that stops with a kick consumed, or to new eventfds.
RequestsComplete ==
    \A i \in 0..Modulus-1 :
        status = "ok" /\ driver.seen = i /\ ring.avail # i ~> status # "ok" \/ driver.seen # i

\* A paused VM can always be resumed: quiescing again reconciles a device whose sync
\* failed after its worker had stopped (resume_quiesced_virtio_devices).
ResumeCompletes == ~vmm.runs ~> vmm.runs

=============================================================================
