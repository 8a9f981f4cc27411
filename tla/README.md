# libkrun in TLA+

A specification of the parts of libkrun that are hard to test: how the virtual
machine monitor (VMM) stops, captures, restores and restarts a running guest,
and what its block device does with requests, page-cache write-back and stops
while that happens. Each module is written from the Rust source named in its
header; `PROJECT.json` maps every definition to the lines it stands for.

## The system and its parts

libkrun is a VMM in library form: one process, one thread per vCPU, one thread
per virtio device worker, and an API thread that builds the VM and then controls
it. The parts that have a protocol of their own are:

| part | state | operations | talks to |
|---|---|---|---|
| vCPU control plane (`vmm/src/lib.rs`, `linux/vstate.rs`, `krun/api/vm.rs`) | execution state, request counter, per-vCPU mailboxes and kick flag, registry snapshot | pause, resume, capture, validate, restore, publish, drop | vCPU threads, everyone who needs a paused boundary |
| host-access domain (`virtio/memory_access.rs`, `dirty_bitmap.rs`) | packed mode and generation, active-request count, bitmap | begin/end request, mark write, freeze, resume, begin tracking, take | every queue worker (through `queue.rs`), memory capture |
| memory generations (`vmm/src/memory_state.rs`, `lib.rs`) | ledger, pending plan, carried dirty ranges, per-slot logging | plan full/incremental, publish, abandon, release | KVM dirty logging, the host-access domain |
| bounded write-back (`virtio/block/writeback.rs`, `limit.rs`) | extent sets, generations, two channels, health | plan, finish, submit, complete, quiesce, reset | host page cache, block worker |
| block device (`virtio/block`, `queue.rs`, `mmio.rs`) | rings, cursors, eventfds, worker thread, who owns the queue | activate, serve, stop, quiesce, reset, capture, restore, resume | driver, VMM, write-back |
| other virtio devices (net, vsock, console, fs, balloon, rng, mem, cpu, gpu, snd, input) | queues and a worker or an event handler each | see `components` | driver, host services |
| builders, C API, boot tables, state formats, other hypervisor backends | configuration and data | sequential start-up and encoding | the above |

What makes these parts hard: every VMM operation is a sequence of messages to
other threads, any of which may answer late or not at all; device workers run
through a pause unless they are told to stop; tracking of dirty memory is spread
over the hypervisor and the device workers and either half can fail; and a device
that was stopped for a capture has to come back although a step of stopping it
failed. `PROJECT.json` lists these hazards with the line where each one bites and
the properties that would catch it.

## Modules

| module | models | checked by |
|---|---|---|
| `VcpuControl` | the control protocol between the VMM thread and N vCPU threads | `vcpu_safety`, `vcpu_live`; proofs |
| `VcpuControlInv`, `VcpuControlProofs` | its inductive invariant and theorems | `vcpu_live` (the invariant) |
| `HostMemory` | abstract: what device access promises the capture path | refined by `MemoryAccess`, used by `MemoryCapture` |
| `MemoryAccess` | the access domain at the grain of its atomic operations | `access_safety`, `access_drain`; proofs |
| `MemoryAccessInv`, `MemoryAccessProofs` | its inductive invariant, theorems and the refinement | |
| `MemoryCapture` | capture plans over `HostMemory` and KVM's dirty logging | `capture_exact`; proofs |
| `MemoryCaptureInv`, `MemoryCaptureProofs` | its inductive invariant and theorems | `capture_exact` (the invariant) |
| `Writeback` | write-back controller, worker, channels, page cache | `writeback_safety`, `writeback_live`, `writeback_busy` |
| `Extents` | the extent vector and the prefix search of the controller | `extents_exact` |
| `BlockDevice` | driver, queue, block worker, transport and VMM stop/restart | `block_safety`, `block_live`, `block_reset` |
| `MC*` | model values and symmetry for TLC | |

How they compose: `MemoryCapture` is written over an instance of `HostMemory`, and
`MemoryAccess` is shown to implement `HostMemory`, so what is proved of captures
holds over the real admission protocol. `MemoryCapture` and `BlockDevice` both
assume the paused boundary that `VcpuControl` establishes. `Extents` justifies
that `Writeback` treats extent sets as sets of pages.

### VcpuControl

A VMM operation holds the `Vmm` mutex from call to return, so there is one `op`
at a time. It sends one event to each vCPU in turn (`SendEvent`, a blocking send
into a bounded mailbox followed by a kick) and then waits for the vCPUs in turn.
A vCPU takes an event when it is paused, or when a kick makes `KVM_RUN` return
(`Interrupted`); it computes its answer and sends it in a second step, which
blocks on a full mailbox. A deadline may expire at any moment of a wait. Answers
that arrive after that stay in the mailbox for the next operation, which has to
skip them by their request id. The registry that `VmControl` reads without the
mutex is published around each transition. `boundary`, `activated` and
`failedCaptures` are history variables.

Operations that return without changing anything (pausing a paused VM, resuming
with another generation) are stuttering steps and have no action.

### HostMemory and MemoryAccess

`MemoryAccess` has one worker per participant (queue). `begin_request` is three
steps (load the state, count, load it again), `end_request` two, and `freeze`
stores the frozen state, then waits for one participant after the other until its
count is zero or the deadline passes. A worker that finds memory frozen parks in
`wait_until_thawed`. A chain is written and marked under the mode it was admitted
in. A page outside registered RAM (`Hole`) makes the inventory invalid.
`MaxGeneration` stands for the last generation of the packed state word.

The refinement maps the detailed state to the mode the capture path sees, the
bitmap, its validity and the pages written since the last harvest.

### MemoryCapture

Page contents are abstracted to one question: the history variable `since` says,
for each generation, which pages of its image differ from guest memory by now. A
candidate is exact when that set is empty. The ledger, the pending plan and the two
trackers evolve as `lib.rs` and `memory_state.rs` make them, and the device writers
are steps of `HostMemory`. KVM's logging is a set of slots, so arming, harvesting
and stopping can fail half way. The harvest of a failed or abandoned plan is
carried over to the next.

### Writeback and Extents

`Writeback` has the block worker (`device`), the write-back worker and the host
page cache as actors. A page is dirty, under write-out (`flying`), or clean. The
controller's `tracked` set is the charge, `current` the newest generation, and
`submitted` the ones handed to the worker. `plan_write` is a loop with two
blocking calls, so each round is one action and each blocking call another.
`Faults` says what the environment may do in a run: `io` errors of writes,
kicks, waits and syncs, a `panic` of the worker, another thread moving the
`target`, and `busy`, the documented behaviour of `SYNC_FILE_RANGE_WRITE` for
pages already under write-out. A generation id of `MaxGeneration` stands for
`u64::MAX`.

`Extents` models `ExtentSet` as its sorted vector and byte count, with the merge
scan, the splicing and the binary search of the code, next to the plain sets of
bytes they stand for. The page size, the width of `u64`, the file and the budget
are scaled down together.

### BlockDevice

The guest's driver is external: it adds buffers, decides whether to kick from the
ring, and runs an interrupt handler that re-arms and looks again. The block
worker is the epoll loop with its batch of ready events, `process_virtio_queues`
and `process_queue`. `owner` says who holds the `Queue` (transport, worker, or
`quiesced_queue` in the device); `vmm` is the operation in progress on the
transport: a quiesce has to join the worker, or to repeat the sync of a worker
that already stopped. Index arithmetic is modulo `Modulus`, as in `Wrapping<u16>`.
Both settings of `VIRTIO_RING_F_EVENT_IDX` are initial states. The queue's memory
accesses are not gated here: the access domain is `MemoryAccess`.

## Runs

| run | bounds | what it shows |
|---|---|---|
| `vcpu_safety` | 2 vCPUs, 1 slot, 6 requests, deadlines | paused and running boundaries, and the registry's view of them, are true through timeouts and late answers; `send_event` can hang the VMM only after more than `2 * Capacity` consecutive failed captures; restored state never reaches a VM that ran |
| `vcpu_live` | 2 vCPUs, 3 slots, 4 requests, preflight, fair | every operation and the teardown return while failed captures leave two slots, and barriers complete (no kick is lost), without a deadline having to expire; the inductive invariant holds with the preflight too |
| `access_safety` | 2 queues, 1 head, 4 generations | frozen memory has no writer, tracked writes are in the bitmap, no worker sleeps through a thaw, `HostMemory` is implemented |
| `access_drain` | 2 queues, 1 head, 2 generations, no deadlines, fair | a freeze returns: no drain notification is lost |
| `capture_exact` | 2 pages (symmetric), 4 generations | candidates equal guest memory, covered baselines can be updated, failures leave nothing behind |
| `writeback_safety` | 3 pages, budget 2, 1 extent, 1 job slot, 4 generations, `panic` and `target` | dirty pages are charged, the budget is hard, the two threads never wait for each other |
| `writeback_live` | 2 generations, `io` and `panic`, fair | operations return although the worker may die anywhere, flushes are honest, dirty pages stay charged |
| `writeback_busy` | 4 generations, `busy` | violated: see findings |
| `extents_exact` | 5 pages of 2 bytes, budget 4 pages, 2 extents | vector, byte count, queries and search agree with sets of bytes |
| `block_safety` | 2 entries, indices mod 4, 3 pauses, all faults | the queue is served whenever vCPUs run; requests are taken and used once |
| `block_live` | 2 entries, 1 pause, failing syncs, fair | requests complete, pauses can be resumed |
| `block_reset` | 1 entry, resets, fair | violated: see findings |

Why the bounds suffice for the cases of interest. Two vCPUs are the fewest with a
barrier that is half done; six requests allow a pause, a resume, a capture and
three retries with stale answers between them. Two queues race each other and a
freeze; four generations are enough to track, freeze again and go back to
untracked access. One job slot with a group of two fills both channels within four
generations. Three pages with a budget of two and one extent force submission by
budget, by fragmentation and by a shrunken target. A ring of two entries over
indices modulo four wraps within one run. Runs without deadlock checking are those
whose request ids, generations or pauses run out by construction, or whose VM has
stopped; `extents_exact` checks deadlock.

Fairness. Threads are scheduled (weak fairness of each thread's steps); no
deadline has to expire; the host answers system calls. `BlockDevice` adds
strong fairness of the retried sync and of resuming: its liveness is about VMs
whose operator keeps resuming and whose disk recovers. No fairness is assumed of
guests issuing requests, of failures, or of operators pausing and capturing.

A freeze is only shown to return without its deadline when a queue has one head at
a time. A worker that keeps one admitted head and pops a second while memory is being
frozen parks with the first still counted, and then only the deadline ends the
freeze: `access_drain` is stated for the other case, `access_safety` includes the
timeout.

Assumptions to keep in mind. Atomic operations are sequentially consistent;
`begin_request` and `freeze` use acquire/release orderings on two variables, and
the model does not cover a store-buffer reordering of them. `CreditCovers`
assumes, in the two passing runs, a kick that covers pages under an older write-out;
`writeback_busy` drops that assumption. The driver follows the virtio protocol.

## Proofs

Proved for every value of the constants that satisfies the named assumptions:

- `VcpuControlProofs`: `TypeCorrect`, `PausedBoundaryHolds`, `ObservedPauseHolds`.
  The invariant `ControlInv` is needed because a late acknowledgement could be
  mistaken for a new one: it states that answers in flight are older than requests
  in flight (`InOrder`), that the operation in progress owns the newest id
  (`Dispatch`), and that a vCPU which answered the current pause stays put
  (`PauseHolds`, `PauseOutbox`). `ObservedPause` follows with `RegistryCurrent`.
  `TeardownAssumption` leaves room for a few ids; nothing bounds N or the mailboxes.
- `MemoryAccessProofs`: `FreezeExcludesHolds`, `DirtyCoversHolds` and `Refinement`.
  The invariant counts, per worker, what it contributes to the active-request
  count at each step, and ties an admitted request's mode to the current
  generation until the freeze that ends it.
- `MemoryCaptureProofs`: `CandidateExactHolds`, `CoverageKeptHolds`,
  `RunsReconciledHolds`. The invariant says which pages may differ from the
  baseline: those in a tracker, in the harvest carried over, or in the pending plan.

The steps of each proof follow the actions; facts about one worker or one slot are
lemmas shared by the actions that use them.

Only model-checked: all liveness (it needs fairness and `ENABLED`), `RunningBoundary`,
`MailboxSlack`, `RestoreBeforeActivation`, `NoStrandedWorker`, `BitmapPresent`,
`FreezeOwned`, and everything about `Writeback`, `Extents` (recursive data) and
`BlockDevice`.

## Findings

- `writeback_busy`: `SYNC_FILE_RANGE_WRITE` does not start write-out of pages that
  are already under write-out. A page rewritten during an older generation's
  write-out is skipped by its own generation's kick; the wait that follows covers
  the older write-out only, and the page's credit is released while it is dirty.
  The comment on `wait_writeback` says the credit is reused only after the
  page-cache write-back completed. The bound on dirty pages is exceeded; the
  durability of a flush is not affected.
- `block_reset`: a reset whose sync fails marks the device FAILED; a second reset
  then drops the queue while FAILED keeps the transport from making new ones. If a
  later pause captures that device, each resume fails for good in its `quiesce`.
  The comment in `resume_quiesced_virtio_devices` says quiescing reconciles a stop
  whose durability fence failed.

Not findings, but worth knowing: an execution state of Indeterminate is absorbing;
a failed durability fence with bounded write-back never recovers, so the VM stays
paused (it fails closed); after a failed reset, capture and resume reactivate the
worker of a device the driver was told has failed.

## Not modelled, and the plan

Next, in this order:

1. `VirtQueue`: several outstanding heads, out-of-order completion, `undo_pop`,
   `go_to_previous_position`, checked against an abstract queue that hands out each
   head once.
2. `NetWorker`: rx and tx with partial frames, backend errors, the rate limiter's
   timers, and what a busy backend does to the transmit loop.
3. The composition of `BlockDevice` with `MemoryAccess`: the worker parked by a
   freeze while it is being joined. Capturing devices before planning memory
   avoids it; the composition should say exactly when it can happen.
4. `Vsock`: connections, credit, the reaper. `Console`: the port handshake.
   `VirtioMem` and `VirtioCpu`: hot-plug state machines. `FsWorker`: inode counts.
5. Proofs of `CreditCovers` and `HardBudget` for `Writeback`, and of `RingOrdered`
   and `NotParked` for `BlockDevice`.

Left out for good: parsing of descriptors, FUSE and vsock packets, register-state
encodings, boot tables and kernel loading, which are data rather than control; the
gpu, snd and input devices, whose behaviour lives in external libraries; the
macOS and Windows backends, which follow the same protocol over other
hypervisors; vendored and generated code.
