# A TLA+ model of nOS-V

nOS-V is a tasking runtime that several processes share. They map one segment of
shared memory and run tasks of all of them on one worker thread per CPU. This
directory models the parts of it in which threads or processes meet, and the
algorithms that they rest on. TLC checks the models on small instances. TLAPS
proves the safety of the central lock, of the scheduler that uses it, of the
barrier, of the allocator and of the segment for every size.

Paths below are relative to the repository. `PROJECT.json` maps each definition
to the lines that it models, and lists the hazards that each property is for.

## The system and its parts

| Part | Source | Modules |
|---|---|---|
| Delegation ticket lock, futex | `src/include/scheduler/dtlock.h`, `src/include/generic/futex.h` | `DTLock`, `Delegation`, `DTLockDelegation`; `DTLock_proofs` |
| Scheduler: obtaining a task; governor | `src/scheduler/scheduler.c`, `governor.c` | `SchedGet`; `SchedGet_inv`, `SchedGet_proofs` |
| Scheduler: ready queues | `src/scheduler/scheduler.c` | `ReadyQueues` |
| Submission queue | `src/include/scheduler/mpsc.h`, `spsc.h` | `InQueue`, `TaskQueue`; `InQueue_proofs` |
| Task life | `src/system/tasks.c` | `TaskLife` |
| Mutex, condition variable, deadlines | `src/support/mutex.c`, `cond.c`, `tasks.c`, `scheduler.c` | `CondVar` |
| Barrier | `src/support/barrier.c` | `Barrier`; `Barrier_proofs` |
| Allocator of the segment | `src/memory/slab.c`, `backbone.c` | `Slab`; `Slab_proofs` |
| Segment, crash detection | `src/memory/sharedmemory.c` | `SharedMemory`; `SharedMemory_inv`, `SharedMemory_proofs` |
| Worker threads, pids, shutdown | `src/hardware/threads.c`, `pids.c`, `eventqueue.h` | `Threads` |
| Containers | `src/include/generic/tree.h`, `list.h`, `ringbuffer.h`, the queues of `scheduler.c` | `RBTree`, `Lists`, `Containers` |
| Configuration | `src/config/config.c`, `configspec.h` | `Config` |
| Topology, binding mask, default affinity | `src/hardware/topology.c`, `cpubitset.h` | `Machine`, `Topology` |
| Affinity that a thread sees | `src/support/affinity.c`, `hashtable.h` | `Affinity` |

A worker that needs a task calls `scheduler_get`. It takes a ticket of the
delegation lock. Either it becomes the server, which drains the submission
queue, keeps the ready tasks and hands them to the others, or the server pops it
from the queue of the lock and serves it, tells it to retry, or puts it to sleep.
A task body that pauses keeps its thread, so the worker gives its CPU to another
thread, perhaps of another process. Mutexes, condition variables and barriers
are built from pausing and submitting tasks.

Modules compose in three ways:

- `SchedGet` extends `DTLock`: the lock says what each operation does, `SchedGet`
  in which order `scheduler_get`, the governor and a shutdown use them.
- `Containers` extends `RBTree` and `Lists`; `Topology` extends `Config` and
  `Machine`: a start runs from the configuration to the shared topology.
- The others stand alone and keep the part of a neighbour that they can observe.
  `TaskLife`, `CondVar` and `Threads` have a small scheduler, `SchedGet` has one
  set of ready tasks for `ReadyQueues`, `SharedMemory` only counts logical pids.

`MCParts` and `MCQueueStart` are sums, not products: they put parts that share no
state in one run, and a behaviour works on one of them.

## Modules

**DTLock.** State: `head` and `next` (the tickets), `waitqueue` (ticket, CPU and
flags of each slot), `items` (item, ticket, flags and signal of each CPU), the
futex words, and the two masks of the governor. Each atomic access that another
thread may observe is a step. Plain accesses are merged with the atomic access
that publishes them. The holder may call any operation whose precondition holds.
`Delegation` is the abstract lock: a queue of requests, a holder, and answers.
`ImplementsDelegation` states the refinement, under the mapping of `DTLockDelegation`:
the owner is the thread whose ticket was released for the lock itself, the queue
holds the pending tickets in order, and a worker has a reply from the step that
answers it until it reads the item.

**SchedGet.** State: where each task is, who owns each CPU, the shutdown signals,
and the local variables of the server. The ready tasks are one set, of which the
server may take any that suits the CPU; the submission queue is a bounded set.
A CPU has one worker at a time, and its pthreads are not told apart. A process
shuts down once, when its other tasks have ended, with a killer task of its own.

**ReadyQueues.** What `scheduler_insert_ready_task` and
`scheduler_get_internal` do under the lock, one step each: a queue for each
process, one for each CPU and NUMA node and affinity type, the yield list, the
deadline tree, their counters, the quantum, the search through all of them,
stealing, immediate successors, scheduling points and cancellation. A task keeps
its degree from one submission to the next: `nosv_cancel` makes it negative, and a
program that keeps to the assertion of `scheduler_insert_ready_task` calls
`nosv_set_task_degree` before it submits the task again (`SetDegree`).

**InQueue.** One ring for each group of CPUs and one for external threads. A
popped entry is overwritten by `NULL` in the model, so that a read of it would
be seen. `TaskQueue` is the abstract queue; `AbstractSpec` is the refinement.

**TaskLife.** Workers are threads that stay with a task that pauses. The program
keeps the rules of the API. The timeout of a suspended task is abstracted to its
argument.

**CondVar.** Tasks have a CPU while they are not blocked. Time is a countdown.
The deadline tree has at most two nodes, so that its links are known.

**Barrier.** The group, the countdown and the lock of `nosv_barrier_t`. `round`
and `my` are references that no guard of the code reads: which round is being
filled and in which one a task arrived. The program makes the calls of `Rounds`
rounds, and a task whose last call has returned may free the barrier.

**Slab.** One size class. A free list is a set with a first element, the element
that is compared and exchanged. A process that runs out of memory aborts; here
it stays in `balloc`.

**SharedMemory.** A segment is a file, which may lose its name while processes
still have it open or mapped. A process is a pid and a start time; `Crash`, `Reap`
and `Reuse` are the kernel's. A process that has ended keeps its `/proc/<pid>/stat`,
with its start time, until its parent waits for it (`Reap`). `get_process` skips the
state in that file (`proc.h:54`), so until then `check_processes_correct` accepts it,
and newcomers join a segment in which a process has crashed. `broken` records the
segments in which a registered process ended and was waited for, and no action
reads it.

**Threads.** Workers with their condition variables, the idle list of each
process, the delegate thread with its event queue, attached threads, the CPU
that each worker has, the pid manager and its two phases of unregistration, the
transfer of CPUs, the killer task, the leader and the joins.

**Containers.** Red-black trees at the level of their links, with both
rebalancing procedures, rings of tasks of equal priority, the switch of a queue
from a list to a tree, a counted list, and the ring buffer. Beside each,
`ref` is the sequence that it must stand for.

**Config, Machine, Topology.** `in` is everything read from outside: the file,
the overrides, the preset, and what the kernel and libnuma report. Each phase of
a start is a step. Status `aborted` is `nosv_abort`, `undefined` is an access
outside an array or a read of a variable without value, `stuck` is a loop that does
not end (a CPU list with stride 0). What the parsers accept is modelled as they
do it: text after the suffix of a size, options that are tables, sections that are
not and keys that nobody looks for are no errors. Machines whose last CPU is a multiple of four are left out:
there `cpu_get_all_mask` loses it (a hazard in `PROJECT.json`). Sibling lists of
the kernel are taken to be equivalence classes.

**Affinity.** Threads with both kinds of id, which the system uses again, the
two hash tables with their buckets, and the interposed calls. Masks are valid
and not empty, and their storage sizes are abstracted.

All modules assume sequentially consistent memory and the default build, in
which `assert` does nothing: an assertion is either a property or a case that
leads to status `undefined`. `DTLock` assumes that no signal interrupts a worker
that sleeps in its futex: the system call is not repeated (`futex.h:65`), and the
assertion after it expects the same.

## Runs

| Run | Instance | Shows |
|---|---|---|
| `dtlock` | 2 workers, 1 thread that waits, 1 that tries, 3 slots, 4 tickets | one holder (`MutualExclusion`); no lost hand-over and a sound front of the queue (`QueueSound`); parked workers and masks agree (`ParkedIsKnown`); refinement of `Delegation` |
| `sched_serve` | 2 CPUs of 2 processes, 3 tasks, one bound to a CPU, queue of 1 | each task is in one place and ends; scheduling points return; a request for another process's task is obeyed |
| `sched_shutdown` | 3 CPUs of 2 processes and a submitter, both processes shut down, one after the other | the shutdown completes, also for a worker parked behind a server of the other process; a process that has shut down gets no CPU again, and CPUs change hands only when their workers are out (`ShutdownIsFinal`) |
| `ready` | 2 CPUs and NUMA nodes, 2 processes, 4 tasks, one parallel | counters match the queues; strict affinities hold; a search without result leaves nothing the CPU may run, but for yielded tasks that prefer other CPUs; quanta and the order of a queue are obeyed |
| `inqueue` | 2 CPUs with one ring, external threads with another, 2 places each; starts from some thousand configurations and machines | each ring is a bounded first-in first-out queue; no ring starves; the configuration and the topology obey their sources |
| `task_team` | a task that blocks in every way, a parallel task of degree 3, 2 workers | a body runs once at a time, completion is last and comes, counters agree |
| `cond_many` | 3 tasks, 2 of them with timeouts | the mutex has one owner and is granted; a task is blocked in one place; a wake-up arrives and leaves the deadline tree |
| `shm_crash` | 4 processes under 3 pids, 2 slots, 1 crash, pid reuse | one initialised segment; the crash is detected once the process is gone from `/proc`; the new segment is left alone; initialisation ends |
| `threads` | 2 processes, one started twice, 2 CPUs, 4 workers, an attached thread, a task | a CPU has one owner; hand-overs reach registered processes; `nosv_shutdown` waits for all workers and ends |
| `parts` | trees of 7 tasks, lists and rings of 3; 3 threads; 4 tasks in rounds of 2; a CPU and two external threads with one cache, 2 pages of 3 chunks | links represent the container; a thread sees its own affinity; the barrier keeps its promise; a chunk is in one place, counts and page lists agree |

Two runs end in a violation, and their findings quote what the code says of itself:

- `ready_numa`: `task_affine` compares a logical with a system NUMA id
  (`scheduler.c:575`), and with nodes numbered differently by the machine a task that
  is strictly bound to a node starts on another.
- `ready_left`: an execution of a parallel task with a preferred affinity takes
  `preferred_affinity_tasks` to 0 (`scheduler.c:741`), and a CPU that could steal the
  others is told that there is nothing to do. `scheduler.c:895` says that only strict
  bindings can be left then (`OnlyStrictLeft`).

In these cases a comment, an assertion or the documentation says more than the
code does, and no run of its own shows it. The properties are as strong as the code allows, or the
instance avoids the case:

- `scheduler.c:895` fails for a second reason. A task that has yielded and prefers
  another CPU is moved, by the last of three searches, to a queue that the stealing
  search has passed. `NothingLeft` leaves out these tasks and no others.
- `topology.c:462` says that the mask of `cpu_get_all_mask` "includes all online CPUs":
  it does not on a machine whose last CPU is a multiple of four (`topology.c:502`).
- `scheduler.c:329` asserts a positive degree. A task of degree 1 that was cancelled
  has -1 when it is submitted again, which `api.md:138` allows, and
  `nosv_set_task_degree` is for parallel tasks (`tasks.c:1135`). The programs of `ready` and `task_team` do not do it.
- `cond.c:177` asserts a wait that is not zero: a clock that reads exactly the absolute
  time makes one (`cond.c:151`).

Others are about cases of which we found no statement:

- an immediate successor runs without regard to its affinity (`threads.c:437`), so
  those of `ready` have none, and, after a yield or a scheduling point, without regard
  to the quantum (`threads.c:579`), which `QuantumObeyed` excepts;
- a signal to an expired waiter makes its next wait return at once (`cond.c:82`),
  which no property excludes;
- a crash inside the locked region of the segment (`CrashLocked`), and a process
  that initialises nOS-V a second time when all slots are taken (`Reinit`);
- an affinity call after `nosv_shutdown`, which searches a freed table
  (`affinity.c:202`).

### Bounds

- Two or three actors are needed for each race: one acts, one is overtaken, one
  serves. In `dtlock` the fourth ticket has the slot of the first.
  `TriesLate` keeps `dtlock_try_lock` for that one, and lets `dtlock_lock`, which the
  runtime itself never calls, have one of the first two. Its workers use the default mode; the `sched_`
  runs have the others. `MaxTicket` of these is never reached, so it cuts off
  nothing: they go round the slots without end.
- In `sched_shutdown` three CPUs let one run the killer, one serve and one be parked;
  `ShutLate` makes the second shutdown start when the first has given up its CPUs
  and two workers sleep.
  Shutdowns that overlap are in `threads`.
- Queues have one or two places, so that full and empty happen.
- `SignalMod` is 2, the hardest width: every second signal looks like an old one.
- `MaxSegments` is the number of initialisations, which no behaviour exceeds.
- The calls of a task (`MaxOps`), submissions (`MaxSubmits`, `MaxInserts`,
  `MaxYields`, `MaxBlocks`), initialisations (`MaxInits`), chunks (`MaxHeld`), the
  clock (`MaxClock`) and `Rounds` are bounded because programs are open-ended.
  Such runs do not check for deadlock: a program that has made all its calls
  stops. `sched_serve`, `sched_shutdown` and `threads` do check it.
- Seven tasks make a tree of four levels, which meets every case of insertion
  and removal. Two rounds of a barrier overlap with four tasks and count 2.

### Fairness

Only weak fairness of steps that a thread takes by itself: a worker, a submitter
or a process in the middle of a call goes on, since the kernel schedules it, and
the scheduler inserts and hands out tasks while there are workers.

- `SchedGet`: each CPU's worker and each submitter.
- `CondVar`: each task inside a call, the server's purge and its ways to get a task.
- `TaskLife`: the same, and two duties of a program that keeps to the API: an
  announced unblock and a registered event are eventually delivered.
- `InQueue`: the consumer. Producers spin on a test-and-set lock and have none.
- `SharedMemory`: a process inside `segment_create` or `segment_unregister`.
  `flock` wakes its waiters; weak fairness is enough as initialisations are bounded.
- `Threads`: one weak fairness condition over the steps of all threads, weaker
  than one for each.

## Proofs

`DTLock_proofs` proves, for any number of CPUs, other threads and items, any
number of slots that is at least the number of CPUs and waiting threads
(`ThreadsAssumption`, as `dtlock_init` allocates it), and any width of the signal
counter of at least two values (`SizesAssumption`):

- `TypeCorrect`, `Mutex` (`MutualExclusion`), `QueueKept` (`QueueSound`),
  `SignalsKept` (`ParkedIsKnown`) and `AssertionsHold` (`FutexAssertions` and
  `SleepOnlyIfBlocking`).

All follow from `Invariance`, that `IInv` is inductive. None of the properties
is inductive alone:

- `TicketInv`: each ticket between `next` and `head` belongs to one thread that
  has it pending, and the tickets written in slots and items are old enough. It
  makes the reuse of slots safe, as two tickets that share a slot are at least
  `Size` apart (`SlotDistance`).
- `OwnerInv`: the holder is the thread of ticket `next`.
- `SlotInv`: a CPU number in the slot of a current ticket was written by a
  worker that still spins.
- `ParkInv`: for each CPU, how its place in the code, its mask, its signal and
  its futex word go together.
- `TryInv`: what `dtlock_try_lock` has seen before it exchanges.

There are frame lemmas for the steps that leave a conjunct alone, one lemma for
each action, and `StepInv` to put them together.

Its second half proves `Refinement` (`LockSpec => ImplementsDelegation`) from the
same assumptions and a name for the owner of a free lock
(`NobodyAssumption`). `OwnerIs` and `QueueIs` say what the mapping shows of a state
in which `IInv` holds: with `TicketInv`, the pending tickets are all those between
`next` and `head`, so that the mapped queue has a thread at each place and loses
and gains one only at its ends. Each action is then shown to be one of
`Delegation`, or to change nothing there. The interesting ones are `Unlock`, which
gives the lock to the first of the queue before that thread knows,
`Signalled` and the futex steps, which must not be seen, and `Serve` and `Wake`:
they answer a worker that has no answer yet because `ParkInv` says that a worker in
a mask has not been answered.

`SchedGet_inv` and `SchedGet_proofs` prove, for any number of CPUs, submitting
threads, tasks and processes, any capacity of the queue, and any setting of
the governor:

- `OnePlace` (`TaskInOnePlace`), `ExternalObeyed` (`ExternalIsObeyed`) and `FinalShutdown`
  (`ShutdownIsFinal`);
- `UsesLock`: the scheduler meets the preconditions of the lock, `Spec => LockSpec`,
  and with `Refinement` its lock is a `Delegation` (`SchedDelegates`).

Besides those of `DTLock`, the assumptions are that items are the tasks and the two
special answers (`TasksAssumption`), that pids are numbers (`PidsAssumption`), that
workers may make the default call (`CallsAssumption`), that at the start no
task runs twice or on a CPU without process (`FirstAssumption`), and that a process
has one killer, which runs at the start only for a process without other tasks
(`KillersAssumption`).
`JointInv` is the invariant of the lock and, of the scheduler:

- `ServerInv`: the local variables of the server belong to the thread that has the
  lock, and it keeps a task only on its way out.
- `WorkerInv`: a worker that asks for a task has none left to submit, so that the one it
  ran can go back; the server knows the flags of its own request; a CPU without
  process has no worker.
- `PlaceInv`: a task is in exactly one place. An answer that was not read yet is a
  place, which is why the answers of the lock (`Answered`) are part of the invariant.

The two invariants need each other: the lock keeps its own because the scheduler
uses it well (`LockStep`, which needs the type of the ready tasks), and the
scheduler keeps its own because of what the lock does for it. `LockDoes` states
that as an interface: `SchedGet_inv` uses nothing else of the lock, and
`SchedGet_proofs` derives it from the refinement.

`FinalShutdown` needs more: that a process which has stopped and has no CPU gets none
from `pidmanager_transfer_to_idle` follows if it is not registered (`StopInv`), and that
no task brings it one follows if all its tasks have ended. That takes three facts
(`ShutInv`): a killer is submitted after the other tasks of its process (`LastInv`); the
killer of a process that has stopped has ended or runs on a CPU (`StopInv`); and a CPU
that runs a killer belongs to the killer's process (`KillerInv`). So a process without CPUs
has no killer running either. `StepWays` sorts the steps by what they do to these.

`InQueue_proofs` proves `Refinement` (`Spec => AbstractSpec`) for any number of CPUs
and of CPUs per ring, rings of two slots or more (`RingAssumption`), CPUs that are
numbered from 0, at least one as `mpsc_alloc` asserts (`CpusAssumption`),
batches of one task or more (`CntAssumption`), and a name for nobody that is not a
producer (`NobodyAssumption`). Positions go round the ring, so the proof first turns
remainders into distances: `Gap(a, b)` is how far slot `b` is after slot `a`, and
`GapStep`, `GapTake` and `GapInjective` say how it changes when `head` or `tail` moves.
`RingStore`, `RingPut` and `RingTake` say what each store does to the sequence of tasks
in a ring. Both sides work with an old copy of the other's position, and `IInv` says
why that does no harm:

- `LockInv`: a producer between its read of `tail` and its store of `head` has the lock,
  so that `head` is its own.
- `RoomInv`: the ring never has less room than the `tail` that was read shows; once room
  was found, it is there until `head` is stored, and the entry at `head` is the task.
- `CopyInv`: what was copied is what the oldest entries still hold, below the `head`
  that was read, which is not beyond `head`. So no producer writes what is being
  copied, and the copies are the tasks that leave when `tail` is moved.

`Barrier_proofs` proves `BarrierKept` (`BarrierHolds`) for any team, any count and
any number of rounds (`BarrierAssumption`). That no call returns before its round
is complete needs to know where every paused task is, so `IInv` says:

- `SizeInv`: the group of the barrier has `count - towait` different tasks, and a
  last task has a copy of `count - 1`.
- `WaitingInv`, `GroupInv`, `TaskInv`: the tasks in the barrier arrived in the round
  that is being filled; those in a copy, submitted or woken in one that is over;
  every paused task is in one of these places, and a copy shares none with another.
- `LastInv`: while a last task still has the lock, all others of its round are in
  its copy. With it, a task that has returned from the last round knows that the
  lock is free, so that it may destroy the barrier (`FreedInv`).

`Slab_proofs` proves `SlabSoundAlways` (`SlabSound`) for any number of CPUs, external
threads and pages, and pages of two chunks or more (`PageAssumption`,
`NameAssumption`). What makes it hard is the step between reading the count of a
page and exchanging it, in which others may allocate and free. `IInv` says what a
thread knows at each of its steps (`LocalInv`), who has the lock of the bucket and
that of the slow cache (`LockInv`, `RefillInv`), that an object is in the free list of
its page unless exactly one holder has it (`HomeInv`), that count and free list add
up to the page (`CountInv`), and that a page is in the list that its count calls for
unless one thread is moving it (`MoverInv`, `PageInv`).

`SharedMemory_inv` and `SharedMemory_proofs` prove `SegmentSoundAlways`
(`SegmentSound`), `DetectsCrashAlways` (`DetectsCrash`) and `UnlinksOwnAlways`
(`UnlinksOwn`) for any number of pids, slots, segments and crashes
(`SharedMemoryAssumption`), where no process crashes inside the locked region or
initialises nOS-V again: without these two hypotheses (`~CrashLocked`, `~Reinit`)
`SegmentSound` fails, as said above. `IInv` has a conjunct for each thing that a
process relies on after it looked at the file: whose lock it is (`LockInv`), that
every slot has its process or one that crashed (`SlotInv`, `EntryInv`), that the
name stays with a segment that is being created or joined (`NameInv`), how far it
is initialised (`FreshInv`, `StateInv`), that the count is right or one behind
(`CountInv`), and that a crash stays visible once it is (`BrokenInv`).

Only model-checked:

- all liveness properties, as the prover handles neither fairness nor `ENABLED`:
  `TasksEnd`, `NonblockingReturns`, `ShutdownCompletes`, `NoStarvation`, `Initialises`
  and the others of this kind;
- the invariants of `ReadyQueues`, `TaskLife`, `CondVar` and `Threads`: their state
  is large, and their properties hold by many small facts about it that are still to be stated;
- `Containers`, `Config`, `Topology` and `Affinity`: what they say is about recursive
  definitions (trees, folds over lists and tables), and the prover can neither use
  recursive operators nor do induction over data.

## Not modelled

- Inline submission, submission windows, task types and their labels
  (`tasks.c`): thread-local lists and metadata in front of the modelled submission.
- Calls after `nosv_shutdown`, the reference count of `nosv_init`, and the fork
  hook (`bootstrap.c`): the count is guarded by one lock, and the hook only aborts
  or clears variables of the child.
- The layout of the segment in `backbone.c`, other size classes, and sized frees:
  pure computation.
- The TOML parser, instrumentation, hardware counters, monitoring and ALPI read
  files, emit events, wrap libraries, compute statistics in floating point or
  forward calls. None of them takes part in a protocol.
- `slab-asan.c` replaces the allocator by `malloc` in debugging builds.
- The heap, the splay tree and the bit sets of `src/include/generic/`: not used by the
  scheduler, or library macros.
