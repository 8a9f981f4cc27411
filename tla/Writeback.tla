------------------------------ MODULE Writeback ------------------------------
(***************************************************************************)
(* The bounded write-back of a buffered block device: the controller owned *)
(* by the block worker (src/src/devices/src/virtio/block/writeback.rs,     *)
(* driven by DiskProperties in device.rs), its background worker, the two  *)
(* bounded channels between them, and the host page cache.  Extent sets    *)
(* are sets of pages (module Extents checks the extent algorithms).        *)
(***************************************************************************)
EXTENDS Integers, Sequences, FiniteSets, SequencesExt

CONSTANTS
    Pages,          \* pages of the backing file: 0..Pages-1
    Budget,         \* maximum_bytes, in pages
    MaxExtents,     \* MAX_EXTENTS_PER_GENERATION
    QueueCapacity,  \* queue_capacity(hard_budget_bytes)
    MaxGeneration,  \* the generation id after which ids are exhausted (u64::MAX)
    Faults          \* what the environment may do: "io" errors, a "panic" of the worker, a
                    \* new "target", a kick that leaves "busy" pages alone

ASSUME WritebackAssumption ==
    /\ Pages \in Nat \ {0} /\ Budget \in 1..Pages
    /\ MaxExtents \in Nat \ {0} /\ QueueCapacity \in Nat \ {0} /\ MaxGeneration \in Nat
    /\ Faults \subseteq {"io", "panic", "target", "busy"}

VARIABLES
    target,       \* the live target of the WritebackLimit, in pages
    controller,   \* tracked, current extents and id, submitted, pending, latched error
    healthy,      \* SharedHealth, which outlives the controller
    device,       \* what the block worker is doing
    worker,       \* what the write-back worker is doing
    jobs, completions, shutdown,
    dirty, flying,  \* pages of the host page cache: modified, under write-back
    lost            \* history: the host reported a write-back or sync error

channels == <<jobs, completions, shutdown>>
cache == <<dirty, flying, lost>>
vars == <<target, controller, healthy, device, worker, channels, cache>>

File == 0..Pages-1
Extent(first, length) == first..(first + length - 1)

\* The number of disjoint extents of a set of pages.
ExtentCount(pages) == Cardinality({p \in pages : p - 1 \notin pages})

-----------------------------------------------------------------------------
NewController ==
    [tracked |-> {}, generation |-> 0, current |-> {}, submitted |-> <<>>, pending |-> {},
     latched |-> FALSE]

\* then: where the current loop continues; stop: a flush that ends the worker.
Idle == [pc |-> "idle", first |-> 0, length |-> 0, then |-> "none", stop |-> FALSE]

NewWorker == [pc |-> "idle", group |-> <<>>, failed |-> FALSE]

Init ==
    /\ target = Budget
    /\ controller = NewController /\ healthy = TRUE
    /\ device = Idle /\ worker = NewWorker
    /\ jobs = <<>> /\ completions = <<>> /\ shutdown = FALSE
    /\ dirty = {} /\ flying = {} /\ lost = FALSE

\* set_target_bytes, from any thread.
SetTarget(pages) ==
    /\ "target" \in Faults
    /\ target' = pages
    /\ UNCHANGED <<controller, healthy, device, worker, channels, cache>>

-----------------------------------------------------------------------------
(* The controller.  c is a controller, h the shared health.                *)

\* Mutant: the failure is forgotten with the controller.
LatchError_ControllerOnly(s) == [s EXCEPT !.c.latched = TRUE]

LatchError(s) == [s EXCEPT !.c.latched = TRUE, !.h = FALSE]

Failing(s) == s.c.latched \/ ~s.h

InFlight(c) == \E i \in DOMAIN c.submitted : c.submitted[i].status = "InFlight"

\* Mutant: a completed generation releases all its pages.
Releasable_All(c, i) == c.submitted[i].pages

\* The pages of generation i that no other generation owns.
Releasable(c, i) ==
    c.submitted[i].pages
        \ (c.current \cup UNION {c.submitted[j].pages : j \in DOMAIN c.submitted \ {i}})

ApplyCompletion(s, completion) ==
    LET owner == {n \in DOMAIN s.c.submitted :
                     s.c.submitted[n].id = completion.id /\ s.c.submitted[n].status = "InFlight"}
        i == CHOOSE n \in owner : TRUE
    IN  IF owner = {} THEN LatchError(s)
        ELSE IF completion.ok
        THEN [s EXCEPT !.c.tracked = @ \ Releasable(s.c, i), !.c.submitted = RemoveAt(@, i)]
        ELSE LatchError([s EXCEPT !.c.submitted[i].status = "Failed"])

\* reap_completions takes what is there, and stops after the first failure.
ReapCount ==
    IF \E i \in DOMAIN completions : ~completions[i].ok
    THEN CHOOSE i \in DOMAIN completions :
            ~completions[i].ok /\ \A j \in 1..(i - 1) : completions[j].ok
    ELSE Len(completions)

Reaped ==
    LET applied[n \in 0..ReapCount] ==
            IF n = 0 THEN [c |-> controller, h |-> healthy]
            ELSE ApplyCompletion(applied[n - 1], completions[n])
        s == applied[ReapCount]
    IN  IF worker.pc = "gone" /\ ReapCount = Len(completions) /\ InFlight(s.c)
        THEN LatchError(s) ELSE s

Reap == completions' = SubSeq(completions, ReapCount + 1, Len(completions))

Install(s) == controller' = s.c /\ healthy' = s.h

\* Mutant: credits already owed to the disk are not counted.
Fits_GenerationOnly(c, pages) == Cardinality(c.current \cup pages) <= target

\* fits_generation and fits_hard, under the active budget.
Fits(c, pages) ==
    /\ Cardinality(c.current \cup pages) <= target
    /\ Cardinality(c.tracked \cup pages) <= target

Admits(c, first) == ExtentCount(c.current \cup {first}) <= MaxExtents

\* The longest prefix the budget admits; 0 when there is none.
PlannablePrefix(c) ==
    LET fitting == {n \in 1..device.length :
                        Admits(c, device.first) /\ Fits(c, Extent(device.first, n))}
    IN  IF fitting = {} THEN 0 ELSE CHOOSE n \in fitting : \A m \in fitting : m <= n

-----------------------------------------------------------------------------
(* The block worker.                                                       *)

WriteStart(first, length) ==
    /\ device.pc = "idle"
    /\ first + length <= Pages   \* validate_mutation_range
    /\ device' = [Idle EXCEPT !.pc = "plan", !.first = first, !.length = length]
    /\ UNCHANGED <<target, controller, healthy, worker, channels, cache>>

\* One round of plan_write's loop, up to its next blocking call.
PlanWrite ==
    LET s == Reaped
        c == s.c
        prefix == PlannablePrefix(c)
        over == Cardinality(c.tracked) > target
        Do(pc) == device' = [device EXCEPT !.pc = pc, !.then = "plan"] /\ Install(s)
    IN  /\ device.pc = "plan"
        /\ Reap
        /\ \/ Failing(s) /\ device' = Idle /\ Install(s)
           \/ /\ ~Failing(s)
              /\ \/ over /\ c.current # {} /\ Do("submit")
                 \/ over /\ c.current = {} /\ InFlight(c) /\ Do("wait")
                 \/ /\ over => c.current = {} /\ ~InFlight(c)
                    /\ \/ /\ prefix > 0
                          /\ device' = [device EXCEPT !.pc = "mutate"]
                          /\ Install([s EXCEPT !.c.pending = Extent(device.first, prefix)])
                       \/ prefix = 0 /\ c.current # {} /\ Do("submit")
                       \/ prefix = 0 /\ c.current = {} /\ InFlight(c) /\ Do("wait")
                       \/ /\ prefix = 0 /\ c.current = {} /\ ~InFlight(c)
                          /\ device' = Idle /\ Install(s)
        /\ UNCHANGED <<target, worker, jobs, shutdown, cache>>

\* The file write: all of the reservation, or an error after any part of it.
Mutate ==
    /\ device.pc = "mutate"
    /\ \/ /\ dirty' = dirty \cup controller.pending
          /\ device' = [device EXCEPT !.pc = "finish", !.then = "written"]
       \/ /\ "io" \in Faults
          /\ \E part \in SUBSET controller.pending : dirty' = dirty \cup part
          /\ device' = [device EXCEPT !.pc = "finish", !.then = "failed"]
    /\ UNCHANGED <<target, controller, healthy, worker, channels, flying, lost>>

\* finish_write: reap, commit the whole reservation (a failed write may have dirtied
\* any part of it), go on with the rest of the request.
FinishWrite ==
    LET s == Reaped
        pages == controller.pending
        charged == [s EXCEPT !.c.pending = {}, !.c.current = @ \cup pages,
                             !.c.tracked = @ \cup pages]
        exceeded == \/ Cardinality(charged.c.current) > Budget
                    \/ Cardinality(charged.c.tracked) > Budget
        done == IF exceeded THEN LatchError([s EXCEPT !.c.pending = {}]) ELSE charged
        count == Cardinality(controller.pending)
    IN  /\ device.pc = "finish"
        /\ Reap
        /\ Install(done)
        /\ device' = IF device.then = "failed" \/ Failing(done) \/ device.length = count
                     THEN Idle
                     ELSE [device EXCEPT !.pc = "plan", !.first = @ + count, !.length = @ - count]
        /\ UNCHANGED <<target, worker, jobs, shutdown, cache>>

\* Mutant: the id past the last one is used.
Exhausted_Late == controller.generation > MaxGeneration

Exhausted == controller.generation = MaxGeneration

\* submit_current_generation blocks while the job queue is full.
Submit ==
    LET s == [c |-> controller, h |-> healthy]
        next == [device EXCEPT !.pc = device.then]
    IN  /\ device.pc = "submit"
        /\ \/ /\ ~Exhausted /\ worker.pc # "gone"
              /\ Len(jobs) < QueueCapacity
              /\ jobs' = Append(jobs, [id |-> controller.generation, pages |-> controller.current])
              /\ controller' = [controller EXCEPT !.generation = @ + 1, !.current = {},
                    !.submitted = Append(@, [id |-> controller.generation,
                                             pages |-> controller.current,
                                             status |-> "InFlight"])]
              /\ device' = next
              /\ UNCHANGED healthy
           \/ /\ Exhausted \/ worker.pc = "gone"
              /\ Install(LatchError(s))
              /\ device' = IF device.then = "plan" THEN Idle ELSE next
              /\ UNCHANGED jobs
        /\ UNCHANGED <<target, worker, completions, shutdown, cache>>

\* wait_for_completion blocks until a completion arrives or the worker is gone;
\* a lost worker fails the plan, or all the generations a quiesce waits for.
WaitForCompletion ==
    LET s == [c |-> controller, h |-> healthy]
        failed == [i \in DOMAIN controller.submitted |->
                      [controller.submitted[i] EXCEPT !.status = "Failed"]]
        next == [device EXCEPT !.pc = device.then]
    IN  /\ device.pc = "wait"
        /\ \/ /\ completions # <<>>
              /\ Install(ApplyCompletion(s, Head(completions)))
              /\ completions' = Tail(completions)
              /\ device' = next
           \/ /\ completions = <<>> /\ worker.pc = "gone"
              /\ \/ device.then = "plan" /\ Install(LatchError(s)) /\ device' = Idle
                 \/ /\ device.then = "drain"
                    /\ Install(LatchError([s EXCEPT !.c.submitted = failed]))
                    /\ device' = next
              /\ UNCHANGED completions
        /\ UNCHANGED <<target, worker, jobs, shutdown, cache>>

-----------------------------------------------------------------------------
(* flush_to_disk: for a guest's FLUSH, when the worker stops, or retried    *)
(* after a stop whose flush failed.                                         *)

FlushStart(stop) ==
    /\ device.pc = "idle" \/ (device.pc = "stopped" /\ stop)
    /\ device' = [Idle EXCEPT !.pc = "quiesce", !.stop = stop]
    /\ UNCHANGED <<target, controller, healthy, worker, channels, cache>>

Quiesce ==
    LET s == Reaped
    IN  /\ device.pc = "quiesce"
        /\ Reap
        /\ Install(s)
        /\ device' = [device EXCEPT !.pc = IF s.c.current # {} THEN "submit" ELSE "drain",
                                    !.then = "drain"]
        /\ UNCHANGED <<target, worker, jobs, shutdown, cache>>

Drain ==
    /\ device.pc = "drain"
    /\ device' = [device EXCEPT !.pc = IF InFlight(controller) THEN "wait" ELSE "sync"]
    /\ UNCHANGED <<target, controller, healthy, worker, channels, cache>>

Answer(ok) == [Idle EXCEPT !.pc = IF device.stop THEN "stopped" ELSE "idle",
                           !.then = IF ok THEN "durable" ELSE "error"]

FlushOk == ~Failing([c |-> controller, h |-> healthy])

\* The full sync of the image decides, unless write-back failed before it.
FullSync ==
    /\ device.pc = "sync"
    /\ \/ /\ dirty' = {} /\ flying' = {}
          /\ controller' = [controller EXCEPT !.tracked = {}, !.current = {}, !.submitted = <<>>]
          /\ device' = Answer(FlushOk)
          /\ UNCHANGED <<healthy, lost>>
       \/ /\ "io" \in Faults
          /\ lost' = TRUE
          /\ healthy' = FALSE
          /\ device' = Answer(FALSE)
          /\ UNCHANGED <<controller, dirty, flying>>
    /\ UNCHANGED <<target, worker, channels>>

\* A new activation replaces the controller; an unhealthy file refuses one.
Activate ==
    /\ device.pc = "stopped"
    /\ device' = [Idle EXCEPT !.pc = IF healthy THEN "join" ELSE "failed"]
    /\ shutdown' = healthy
    /\ UNCHANGED <<target, controller, healthy, worker, jobs, completions, cache>>

Join ==
    /\ device.pc = "join" /\ worker.pc = "gone"
    /\ controller' = NewController /\ device' = Idle /\ worker' = NewWorker
    /\ jobs' = <<>> /\ completions' = <<>> /\ shutdown' = FALSE
    /\ UNCHANGED <<target, healthy, cache>>

-----------------------------------------------------------------------------
(* The write-back worker.                                                  *)

\* Mutant: as many completion slots as job slots.
CompletionCapacity_NoSpare == QueueCapacity

CompletionCapacity == QueueCapacity + 1
MaxJobsPerGroup == QueueCapacity + 1

TakeJob ==
    /\ jobs' = Tail(jobs)
    /\ worker' = [worker EXCEPT !.pc = "start", !.group = Append(@, Head(jobs))]

FirstJob ==
    /\ worker.pc = "idle" /\ ~shutdown
    /\ jobs # <<>>
    /\ TakeJob
    /\ UNCHANGED <<target, controller, healthy, device, completions, shutdown, cache>>

\* What SYNC_FILE_RANGE_WRITE starts: the dirty pages "not presently submitted
\* write-out" (sync_file_range(2)); without "busy", those under write-out too.
Kicked(pages) == dirty \cap (IF "busy" \in Faults THEN pages \ flying ELSE pages)

\* start_writeback kicks every range of the job, or fails part way.
StartWriteback ==
    LET kicked == Kicked(Last(worker.group).pages)
    IN  /\ worker.pc = "start"
        /\ \/ /\ flying' = flying \cup kicked /\ dirty' = dirty \ kicked
              /\ worker' = [worker EXCEPT !.pc = "more"]
              /\ UNCHANGED lost
           \/ /\ "io" \in Faults
              /\ \E part \in SUBSET kicked :
                    flying' = flying \cup part /\ dirty' = dirty \ part
              /\ worker' = [worker EXCEPT !.pc = "more", !.failed = TRUE]
              /\ lost' = TRUE
        /\ UNCHANGED <<target, controller, healthy, device, channels>>

MoreJobs ==
    /\ worker.pc = "more"
    /\ \/ /\ Len(worker.group) < MaxJobsPerGroup /\ jobs # <<>>
          /\ TakeJob
       \/ /\ Len(worker.group) = MaxJobsPerGroup \/ jobs = <<>>
          /\ worker' = [worker EXCEPT !.pc = "await"]
          /\ UNCHANGED jobs
    /\ UNCHANGED <<target, controller, healthy, device, completions, shutdown, cache>>

WaitWriteback ==
    /\ worker.pc = "await"
    /\ \/ /\ flying' = flying \ UNION {worker.group[i].pages : i \in DOMAIN worker.group}
          /\ worker' = [worker EXCEPT !.pc = "publish"]
          /\ UNCHANGED lost
       \/ /\ "io" \in Faults
          /\ worker' = [worker EXCEPT !.pc = "publish", !.failed = TRUE]
          /\ lost' = TRUE
          /\ UNCHANGED flying
    /\ UNCHANGED <<target, controller, healthy, device, channels, dirty>>

\* Mutant: a failed group publishes only the first of its results.
NextGroup_FirstFailure ==
    IF Len(worker.group) = 1 \/ worker.failed THEN NewWorker
    ELSE [worker EXCEPT !.group = Tail(@)]

NextGroup ==
    IF Len(worker.group) = 1 THEN NewWorker ELSE [worker EXCEPT !.group = Tail(@)]

\* One failure fails the whole group.
PublishCompletion ==
    /\ worker.pc = "publish" /\ ~shutdown
    /\ Len(completions) < CompletionCapacity
    /\ completions' = Append(completions, [id |-> Head(worker.group).id, ok |-> ~worker.failed])
    /\ worker' = NextGroup
    /\ UNCHANGED <<target, controller, healthy, device, jobs, shutdown, cache>>

\* The shutdown signal wins at either select.
Shutdown ==
    /\ worker.pc \in {"idle", "publish"} /\ shutdown
    /\ worker' = [NewWorker EXCEPT !.pc = "gone"]
    /\ UNCHANGED <<target, controller, healthy, device, channels, cache>>

\* The thread panics: the channels disconnect.
WorkerDies ==
    /\ "panic" \in Faults
    /\ worker.pc # "gone"
    /\ worker' = [NewWorker EXCEPT !.pc = "gone"]
    /\ UNCHANGED <<target, controller, healthy, device, channels, cache>>

-----------------------------------------------------------------------------
DeviceStep ==
    \/ PlanWrite \/ Mutate \/ FinishWrite \/ Submit \/ WaitForCompletion
    \/ Quiesce \/ Drain \/ FullSync \/ Join

WorkerStep ==
    \/ FirstJob \/ StartWriteback \/ MoreJobs \/ WaitWriteback \/ PublishCompletion \/ Shutdown

Next ==
    \/ \E pages \in 1..Budget : SetTarget(pages)
    \/ \E first \in File, length \in 1..Pages : WriteStart(first, length)
    \/ \E stop \in BOOLEAN : FlushStart(stop)
    \/ Activate
    \/ DeviceStep
    \/ WorkerStep \/ WorkerDies

Spec == Init /\ [][Next]_vars

\* Both threads keep running, and the host answers write-back and sync calls.
FairSpec == Spec /\ WF_vars(DeviceStep) /\ WF_vars(WorkerStep)

-----------------------------------------------------------------------------
GenerationRecord == [id : 0..MaxGeneration, pages : SUBSET File, status : {"InFlight", "Failed"}]
JobRecord == [id : 0..MaxGeneration, pages : SUBSET File]

TypeOK ==
    /\ target \in 1..Budget /\ healthy \in BOOLEAN /\ shutdown \in BOOLEAN /\ lost \in BOOLEAN
    /\ controller \in [tracked : SUBSET File, generation : 0..MaxGeneration, current : SUBSET File,
                       submitted : Seq(GenerationRecord), pending : SUBSET File,
                       latched : BOOLEAN]
    /\ device \in [pc : {"idle", "plan", "submit", "wait", "mutate", "finish", "quiesce", "drain",
                         "sync", "stopped", "join", "failed"},
                   first : File, length : 0..Pages,
                   then : {"none", "plan", "written", "failed", "drain", "durable", "error"},
                   stop : BOOLEAN]
    /\ worker \in [pc : {"idle", "start", "more", "await", "publish", "gone"},
                   group : Seq(JobRecord), failed : BOOLEAN]
    /\ jobs \in Seq(JobRecord) /\ Len(jobs) <= QueueCapacity
    /\ completions \in Seq([id : 0..MaxGeneration, ok : BOOLEAN])
    /\ dirty \in SUBSET File /\ flying \in SUBSET File

\* Every page modified in, or on its way from, the page cache is charged: an older
\* job's completion never releases a page rewritten since (apply_completion), and
\* a failed write or write-back keeps its charge until a full sync.
CreditCovers == dirty \cup flying \subseteq controller.tracked \cup controller.pending

\* "The configured value is the single hard budget": what is charged and what is
\* about to be written never exceed it, whatever the live target does meanwhile.
HardBudget == Cardinality(controller.tracked \cup controller.pending) <= Budget

\* The two threads never wait for each other: while the device blocks on a full
\* job queue, the worker still has room for its completions (run_worker's comment).
NoMutualWait ==
    ~ /\ device.pc = "submit" /\ Len(jobs) = QueueCapacity
      /\ worker.pc = "publish" /\ Len(completions) >= CompletionCapacity

\* Once the host has reported an error, no flush ever answers success again: not
\* the next one, and not one by a controller created after it (SharedHealth).
FlushHonest == [][device.pc = "sync" /\ device'.then = "durable" => ~lost]_vars

\* Every write, flush and reactivation returns.
OperationReturns ==
    device.pc \notin {"idle", "stopped", "failed"} ~> device.pc \in {"idle", "stopped", "failed"}

=============================================================================
