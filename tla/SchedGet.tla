------------------------------ MODULE SchedGet ------------------------------
(***************************************************************************)
(* The serving protocol of the central scheduler: scheduler_get and        *)
(* scheduler_submit_internal (src/src/scheduler/scheduler.c), the governor *)
(* (src/src/scheduler/governor.c) and the parts of the worker loop and of  *)
(* the process shutdown (src/src/hardware/threads.c, pids.c) that meet     *)
(* inside the delegation lock.                                             *)
(*                                                                         *)
(* A CPU is driven by one worker thread at a time, of the process          *)
(* cpuPid[c]; which pthread that is does not matter here.  Ready tasks are *)
(* one set: the choice that scheduler_get_internal makes among the tasks   *)
(* that a CPU may run (priority, yield, deadline, process quantum) is      *)
(* left open, except that it returns NULL only when there is none.         *)
(***************************************************************************)
EXTENDS DTLock

CONSTANTS
    Tasks,      \* all tasks of the instance
    Killers,    \* the killer tasks, one for each process that shuts down
    Pids,       \* the processes
    TaskPid,    \* task->type->pid
    Affine,     \* CPUs that may run a task (strict affinity)
    FirstPid,   \* process that owns each CPU at the start
    FirstTask,  \* task that each CPU runs at the start, or NULL
    Spins,      \* governor->spins
    MaxServed,  \* MAX_SERVED_TASKS
    InCap,      \* capacity of scheduler->in_queue
    MaxYields,  \* bound: number of scheduling points taken by the tasks
    NoThread    \* nobody is inside the lock

ASSUME TasksAssumption ==
    /\ NULL \notin Tasks /\ RETRY \notin Tasks
    /\ Items = Tasks \cup {NULL, RETRY}
    /\ Killers \subseteq Tasks

ASSUME PidsAssumption ==
    /\ Pids \subseteq Nat
    /\ TaskPid \in [Tasks -> Pids]

ASSUME CallsAssumption ==
    /\ "default" \in CallModes
    /\ NoThread \notin Thread

\* A CPU that runs a task at the start has a process, and no task runs twice.
ASSUME FirstAssumption ==
    /\ FirstPid \in [Cpu -> Pids \cup {-1}]
    /\ FirstTask \in [Cpu -> Tasks \cup {NULL}]
    /\ \A c \in Cpu : FirstTask[c] # NULL => FirstPid[c] # -1
    /\ \A c, d \in Cpu : FirstTask[c] = FirstTask[d] /\ FirstTask[c] # NULL => c = d

\* A process shuts down once, at the end.
ASSUME KillersAssumption ==
    /\ \A k, l \in Killers : TaskPid[k] = TaskPid[l] => k = l
    /\ \A c \in Cpu : FirstTask[c] \in Killers =>
          /\ FirstPid[c] = TaskPid[FirstTask[c]]
          /\ \A u \in Tasks \ Killers : TaskPid[u] # FirstPid[c]

VARIABLES
    fresh,      \* tasks that were not submitted yet
    submitting, \* the task that a thread is submitting, or NULL
    inQueue,    \* scheduler->in_queue
    ready,      \* tasks in the scheduler's queues
    running,    \* the task that each CPU runs, or NULL
    ended,      \* tasks that have ended
    cpuPid,     \* cpumanager->pids_cpus
    registered, \* pidmanager->pids
    stop,       \* threads_shutdown_signal of each process
    notify,     \* sched->shutdown > sched->last_shutdown, of each process
    leader,     \* leader_shutdown_cpu of each process, or -1
    spin,       \* governor->cpu_spin_counter
    yields,     \* scheduling points taken so far
    server      \* local variables of the thread inside the lock

schedvars == <<fresh, submitting, inQueue, ready, running, ended, cpuPid,
               registered, stop, notify, leader, spin, yields, server>>
vars == <<lockvars, schedvars>>

taskvars == <<fresh, submitting, inQueue, ready, running, ended>>
procvars == <<cpuPid, registered, stop, notify, leader>>

Submitter == Cpu \cup Submitters

\* No thread is inside the lock.
NoServer == [thread |-> NoThread, phase |-> "none", todo |-> {}, pids |-> {},
             skip |-> FALSE, served |-> 0, task |-> NULL, drain |-> FALSE]
-----------------------------------------------------------------------------
Init ==
    /\ LockInit
    /\ fresh = Tasks \ {FirstTask[c] : c \in Cpu}
    /\ submitting = [t \in Submitter |-> NULL]
    /\ inQueue = {} /\ ready = {} /\ ended = {}
    /\ running = FirstTask
    /\ cpuPid = FirstPid
    /\ registered = Pids
    /\ stop = [p \in Pids |-> FALSE]
    /\ notify = [p \in Pids |-> FALSE]
    /\ leader = [p \in Pids |-> -1]
    /\ spin = [c \in Cpu |-> 0]
    /\ yields = 0
    /\ server = NoServer

Least(S) == CHOOSE x \in S : \A y \in S : x <= y

\* Some process runs on CPU c; c is the CPU that leads its shutdown
Owned(c) == cpuPid[c] # -1
IsLeader(c) == Owned(c) /\ leader[cpuPid[c]] = c
-----------------------------------------------------------------------------
(***************************************************************************)
(* Submission.                                                             *)
(***************************************************************************)

\* A killer is submitted by nosv_shutdown, which is called outside a worker
\* once the other tasks of the process have ended.
MayShutdown(t, k) ==
    t \notin Cpu /\ \A u \in Tasks \ Killers : TaskPid[u] = TaskPid[k] => u \in ended

\* nosv_submit, up to scheduler_submit_internal; killer_task_run_callback submits
\* nothing.
Submit(t) ==
    /\ pc[t] = "out" /\ submitting[t] = NULL
    /\ t \in Cpu => running[t] \notin Killers \cup {NULL}
    /\ \E u \in fresh :
         /\ u \in Killers => MayShutdown(t, u)
         /\ fresh' = fresh \ {u}
         /\ submitting' = [submitting EXCEPT ![t] = u]
    /\ UNCHANGED <<lockvars, inQueue, ready, running, ended, procvars, spin, yields, server>>

\* mpsc_push succeeds
Push(t) ==
    /\ pc[t] = "out" /\ submitting[t] # NULL
    /\ Cardinality(inQueue) < InCap
    /\ inQueue' = inQueue \cup {submitting[t]}
    /\ submitting' = [submitting EXCEPT ![t] = NULL]
    /\ UNCHANGED <<lockvars, fresh, ready, running, ended, procvars, spin, yields, server>>

\* mpsc_push fails: try to empty the queue ourselves
PushFull(t) ==
    /\ submitting[t] # NULL
    /\ Cardinality(inQueue) >= InCap
    /\ TryLoad(t)
    /\ UNCHANGED schedvars

TryStep(t) ==
    \/ TryCheck(t) /\ UNCHANGED schedvars
    \/ /\ TryCas(t)
       /\ server' = IF pc'[t] = "held"
                    THEN [NoServer EXCEPT !.thread = t, !.phase = "ready", !.drain = TRUE]
                    ELSE server
       /\ UNCHANGED <<taskvars, procvars, spin, yields>>
-----------------------------------------------------------------------------
(***************************************************************************)
(* The worker of CPU c outside the lock: worker_start_routine.             *)
(***************************************************************************)

\* Between two tasks, in the loop of worker_start_routine
InLoop(c) == pc[c] = "out" /\ Owned(c) /\ running[c] = NULL /\ submitting[c] = NULL

\* scheduler_get(cpu, SCHED_GET_DEFAULT)
GetBlocking(c) ==
    /\ InLoop(c) /\ ~stop[cpuPid[c]]
    /\ LockOrDelegate(c, "default")
    /\ UNCHANGED schedvars

\* worker_yield_if_needed, from a scheduling point of the running task; in mode
\* "external" the quantum check of worker_start_routine, where running[c] is
\* the immediate successor that the worker holds.
GetNonblocking(c) ==
    /\ running[c] # NULL /\ running[c] \notin Killers /\ submitting[c] = NULL
    /\ yields < MaxYields
    /\ \E m \in CallModes \ {"default"} : LockOrDelegate(c, m)
    /\ yields' = yields + 1
    /\ UNCHANGED <<taskvars, procvars, spin, server>>

\* scheduler_get returned task u (or NULL) to the worker of c.  A worker that
\* was running a task submits that task again (worker_yield_to); a task of
\* another process takes its CPU along (cpu_transfer, worker_wake_internal).
Take(c, u) ==
    IF u = NULL
    THEN UNCHANGED <<running, submitting, cpuPid>>
    ELSE /\ running' = [running EXCEPT ![c] = u]
         /\ submitting' = [submitting EXCEPT ![c] = running[c]]
         /\ cpuPid' = [cpuPid EXCEPT ![c] = TaskPid[u]]

\* The killer of process p is about to take its next step on CPU c.
Killing(c, p) ==
    pc[c] = "out" /\ submitting[c] = NULL /\ running[c] \in Killers /\ p = TaskPid[running[c]]

\* killer_task_run_callback: pidmanager_unregister
KillerUnregister(c) ==
    \E p \in registered :
        /\ Killing(c, p)
        /\ registered' = registered \ {p}
        /\ UNCHANGED <<lockvars, taskvars, cpuPid, stop, notify, leader, spin, yields, server>>

\* ... leader_shutdown_cpu, then threads_shutdown_signal
KillerSignal(c) ==
    \E p \in Pids \ registered :
        /\ Killing(c, p) /\ ~stop[p]
        /\ leader' = [leader EXCEPT ![p] = c]
        /\ stop' = [stop EXCEPT ![p] = TRUE]
        /\ UNCHANGED <<lockvars, taskvars, cpuPid, registered, notify, spin, yields, server>>

\* The end of a task; the last thing that a killer does is scheduler_wake.
EndTask(c) ==
    LET k == running[c]
        p == TaskPid[k]
    IN  /\ pc[c] = "out" /\ k # NULL /\ submitting[c] = NULL
        /\ k \in Killers => stop[p]
        /\ running' = [running EXCEPT ![c] = NULL]
        /\ ended' = ended \cup {k}
        /\ notify' = IF k \in Killers THEN [notify EXCEPT ![p] = TRUE] ELSE notify
        /\ UNCHANGED <<lockvars, fresh, submitting, inQueue, ready, cpuPid, registered, stop,
                       leader, spin, yields, server>>

\* Mutant: pidmanager_transfer_to_idle looks at pids_alloc, which a process leaves
\* last, and not at pids.
TransferToIdle_Alloc(c) ==
    LET others == Pids \ {cpuPid[c]} IN
    cpuPid' = [cpuPid EXCEPT ![c] = IF others = {} THEN -1 ELSE Least(others)]

\* pidmanager_transfer_to_idle
TransferToIdle(c) ==
    cpuPid' = [cpuPid EXCEPT ![c] = IF registered = {} THEN -1 ELSE Least(registered)]

\* worker_coordinate_shutdown on a CPU that is not the leader
WorkerExit(c) ==
    /\ InLoop(c) /\ stop[cpuPid[c]] /\ ~IsLeader(c)
    /\ TransferToIdle(c)
    /\ UNCHANGED <<lockvars, taskvars, registered, stop, notify, leader, spin, yields, server>>

OthersOf(c) == {d \in Cpu \ {c} : cpuPid[d] = cpuPid[c]}

\* ... on the leader while other workers are left: scheduler_wake and retry
LeaderRetry(c) ==
    /\ InLoop(c) /\ IsLeader(c) /\ OthersOf(c) # {}
    /\ notify' = [notify EXCEPT ![cpuPid[c]] = TRUE]
    /\ UNCHANGED <<lockvars, taskvars, cpuPid, registered, stop, leader, spin, yields, server>>

\* ... and once they are gone
LeaderExit(c) ==
    /\ InLoop(c) /\ IsLeader(c) /\ OthersOf(c) = {}
    /\ TransferToIdle(c)
    /\ UNCHANGED <<lockvars, taskvars, registered, stop, notify, leader, spin, yields, server>>
-----------------------------------------------------------------------------
(***************************************************************************)
(* The worker of CPU c inside dtlock_lock_or_delegate.                     *)
(***************************************************************************)

\* It became the server.
EnterServer(c) ==
    /\ Acquire(c)
    /\ server' = [NoServer EXCEPT !.thread = c, !.phase = "ready"]
    /\ UNCHANGED <<taskvars, procvars, spin, yields>>

\* It was served.
Served(c) ==
    /\ Receive(c)
    /\ Take(c, IF items[c].item = RETRY THEN NULL ELSE items[c].item)
    /\ UNCHANGED <<fresh, inQueue, ready, ended, registered, stop, notify, leader, spin, yields, server>>

ClientStep(c) ==
    \/ EnterServer(c)
    \/ Served(c)
    \/ /\ \/ TakeTicket(c) \/ Announce(c) \/ Delegated(c)
          \/ Signalled(c) \/ FutexWait(c) \/ FutexSyscall(c)
       /\ UNCHANGED schedvars
-----------------------------------------------------------------------------
(***************************************************************************)
(* The thread t inside the lock.                                           *)
(***************************************************************************)

In(t, phase) == server.thread = t /\ server.phase = phase
Go(phase) == server' = [server EXCEPT !.phase = phase]
GoWith(phase, todo) == server' = [server EXCEPT !.phase = phase, !.todo = todo]
DoneWith(c) == server' = [server EXCEPT !.todo = @ \ {c}]

\* governor_served also clears the spin counter of a waiter.
ResetSpin(c) == spin' = [spin EXCEPT ![c] = 0]

\* Tasks that scheduler_get_internal may give to CPU c
Candidates(c) ==
    {u \in ready : /\ c \in Affine[u]
                   /\ items[c].flags = "external" => TaskPid[u] # cpuPid[c]}

\* dtlock_serve in the way that the mask of c calls for (scheduler_serve)
ServeOrWake(t, c, item) ==
    IF c \in waiters THEN Serve(t, c, item) /\ ResetSpin(c)
                     ELSE Wake(t, c, item) /\ UNCHANGED spin

\* scheduler_process_ready_tasks: empty the submission queue
ProcessReady(t) ==
    /\ In(t, "ready")
    /\ ready' = ready \cup inQueue
    /\ inQueue' = {}
    /\ server' = [server EXCEPT !.phase = "shutdowns", !.pids = Pids, !.todo = {},
                                !.skip = FALSE, !.served = 0]
    /\ UNCHANGED <<lockvars, fresh, submitting, running, ended, procvars, spin, yields>>

\* scheduler_check_process_shutdowns: one process of the list
CheckShutdown(t) ==
    /\ In(t, "shutdowns") /\ server.todo = {}
    /\ \E p \in server.pids :
         /\ notify' = [notify EXCEPT ![p] = FALSE]
         /\ server' = [server EXCEPT !.pids = @ \ {p},
                          !.todo = IF notify[p] THEN {c \in waiters \cup sleepers : cpuPid[c] = p}
                                                ELSE {}]
    /\ UNCHANGED <<lockvars, taskvars, cpuPid, registered, stop, leader, spin, yields>>

\* governor_shutdown_process: one CPU
ShutdownServe(t) ==
    /\ In(t, "shutdowns") /\ server.todo # {}
    /\ LET c == Least(server.todo) IN ServeOrWake(t, c, NULL) /\ DoneWith(c)
    /\ UNCHANGED <<taskvars, procvars, yields>>

\* A submitter leaves; a worker goes on to governor_update_cpumasks.
ShutdownsChecked(t) ==
    /\ In(t, "shutdowns") /\ server.todo = {} /\ server.pids = {}
    /\ Go(IF server.drain THEN "unlock" ELSE "masks")
    /\ UNCHANGED <<lockvars, taskvars, procvars, spin, yields>>

\* governor_update_cpumasks: one round of dtlock_update_waiters
UpdateMasks(t) ==
    /\ In(t, "masks")
    /\ PopfrontWait(t)
    /\ UNCHANGED schedvars

\* Mutant: the serving loop only looks at the waiters.
MasksUpdated_NoSleepers(t) ==
    /\ In(t, "masks") /\ Empty
    /\ IF server.served < MaxServed /\ waiters # {} /\ ~server.skip
       THEN GoWith("waiters", waiters)
       ELSE Go("own")
    /\ UNCHANGED <<lockvars, taskvars, procvars, spin, yields>>

\* ... until the queue is empty; then the condition of the serving loop
MasksUpdated(t) ==
    /\ In(t, "masks") /\ Empty
    /\ IF /\ server.served < MaxServed
          /\ waiters \cup sleepers # {}
          /\ ~server.skip
       THEN GoWith("waiters", waiters)
       ELSE Go("own")
    /\ UNCHANGED <<lockvars, taskvars, procvars, spin, yields>>

\* Mutant: the task that is handed out stays in its queue.
ServeOne_NoPop(t) ==
    /\ server.thread = t /\ server.phase \in {"waiters", "sleepers"} /\ server.todo # {}
    /\ LET c == Least(server.todo) IN
         \/ \E u \in Candidates(c) :
              /\ ServeOrWake(t, c, u)
              /\ server' = [server EXCEPT !.todo = @ \ {c}, !.served = @ + 1]
         \/ /\ Candidates(c) = {}
            /\ server' = [server EXCEPT !.todo = @ \ {c}, !.skip = TRUE]
            /\ UNCHANGED <<lockvars, spin>>
    /\ UNCHANGED <<taskvars, procvars, yields>>

\* scheduler_serve_batch: one CPU of the batch
ServeOne(t) ==
    /\ server.thread = t /\ server.phase \in {"waiters", "sleepers"} /\ server.todo # {}
    /\ LET c == Least(server.todo) IN
         \/ \E u \in Candidates(c) :
              /\ ready' = ready \ {u}
              /\ ServeOrWake(t, c, u)
              /\ server' = [server EXCEPT !.todo = @ \ {c}, !.served = @ + 1]
         \/ /\ Candidates(c) = {}
            /\ server' = [server EXCEPT !.todo = @ \ {c}, !.skip = TRUE]
            /\ UNCHANGED <<lockvars, ready, spin>>
    /\ UNCHANGED <<fresh, submitting, inQueue, running, ended, procvars, yields>>

\* Waiters, then sleepers, then governor_apply_policy
NextBatch(t) ==
    /\ server.thread = t /\ server.phase \in {"waiters", "sleepers", "policy"} /\ server.todo = {}
    /\ CASE server.phase = "waiters"  -> GoWith("sleepers", sleepers)
         [] server.phase = "sleepers" -> GoWith("policy", waiters)
         [] server.phase = "policy"   -> Go("masks")
    /\ UNCHANGED <<lockvars, taskvars, procvars, spin, yields>>

\* Mutant: a waiter that must not block is left in the mask.
ApplyPolicy_KeepsAll(t) ==
    /\ In(t, "policy") /\ server.todo # {}
    /\ LET c == Least(server.todo) IN
         /\ DoneWith(c)
         /\ IF Blockable(c) THEN SleepCpu(t, c) /\ ResetSpin(c)
                            ELSE UNCHANGED <<lockvars, spin>>
    /\ UNCHANGED <<taskvars, procvars, yields>>

\* governor_apply_policy: one waiter that stays without a task
ApplyPolicy(t) ==
    /\ In(t, "policy") /\ server.todo # {}
    /\ LET c == Least(server.todo) IN
         /\ DoneWith(c)
         /\ \/ ~Blockable(c) /\ Serve(t, c, NULL) /\ ResetSpin(c)
            \/ /\ Blockable(c) /\ spin[c] + 1 > Spins
               /\ SleepCpu(t, c) /\ ResetSpin(c)
            \/ /\ Blockable(c) /\ spin[c] + 1 <= Spins
               /\ spin' = [spin EXCEPT ![c] = @ + 1]
               /\ UNCHANGED lockvars
    /\ UNCHANGED <<taskvars, procvars, yields>>

\* Mutant: the serving loop does not look at threads_shutdown_signal.
OwnTask_NoStop(c) ==
    /\ In(c, "own")
    /\ \/ \E u \in Candidates(c) :
            /\ ready' = ready \ {u}
            /\ server' = [server EXCEPT !.phase = "leave", !.task = u]
       \/ /\ Candidates(c) = {}
          /\ Go(IF mode[c] = "default" THEN "ready" ELSE "leave")
          /\ UNCHANGED ready
    /\ UNCHANGED <<lockvars, fresh, submitting, inQueue, running, ended, procvars, spin, yields>>

\* Work for myself, and the condition of the outer loop
OwnTask(c) ==
    /\ In(c, "own")
    /\ \/ \E u \in Candidates(c) :
            /\ ready' = ready \ {u}
            /\ server' = [server EXCEPT !.phase = "leave", !.task = u]
       \/ /\ Candidates(c) = {}
          /\ Go(IF mode[c] = "default" /\ ~stop[cpuPid[c]] THEN "ready" ELSE "leave")
          /\ UNCHANGED ready
    /\ UNCHANGED <<lockvars, fresh, submitting, inQueue, running, ended, procvars, spin, yields>>

\* Keep one thread inside the lock: governor_wake_one if nobody is queued
WakeOne(t) ==
    /\ In(t, "leave")
    /\ Go("unlock")
    /\ IF Empty /\ waiters \cup sleepers # {}
       THEN ServeOrWake(t, Least(IF waiters # {} THEN waiters ELSE sleepers), RETRY)
       ELSE UNCHANGED <<lockvars, spin>>
    /\ UNCHANGED <<taskvars, procvars, yields>>

\* dtlock_unlock, and the return of scheduler_get to a worker
Leave(t) ==
    /\ In(t, "unlock")
    /\ Unlock(t)
    /\ server' = NoServer
    /\ IF server.drain THEN UNCHANGED <<running, submitting, cpuPid>> ELSE Take(t, server.task)
    /\ UNCHANGED <<fresh, inQueue, ready, ended, registered, stop, notify, leader, spin, yields>>

ServerStep(t) ==
    \/ ProcessReady(t) \/ CheckShutdown(t) \/ ShutdownServe(t) \/ ShutdownsChecked(t)
    \/ UpdateMasks(t) \/ MasksUpdated(t) \/ ServeOne(t) \/ NextBatch(t) \/ ApplyPolicy(t)
    \/ t \in Cpu /\ OwnTask(t)
    \/ WakeOne(t) \/ Leave(t)
-----------------------------------------------------------------------------
WorkerActs(c) ==
    \/ GetBlocking(c) \/ KillerUnregister(c) \/ KillerSignal(c) \/ EndTask(c)
    \/ WorkerExit(c) \/ LeaderRetry(c) \/ LeaderExit(c)
    \/ ClientStep(c)

SubmitActs(t) == Push(t) \/ PushFull(t) \/ TryStep(t) \/ ServerStep(t)

\* Every process has shut down and every thread has left.
Finished ==
    /\ registered = {} /\ \A c \in Cpu : ~Owned(c)
    /\ \A t \in Submitter : pc[t] = "out" /\ submitting[t] = NULL
    /\ UNCHANGED vars

Next ==
    \/ \E c \in Cpu : WorkerActs(c) \/ GetNonblocking(c)
    \/ \E t \in Submitter : Submit(t) \/ SubmitActs(t)
    \/ Finished

\* Every thread that can take a step eventually takes one: the kernel runs each
\* of them, a worker having its CPU to itself, and a task that runs ends.
\* Nobody has to submit, and no task has to reach a scheduling point.
Fairness ==
    /\ \A c \in Cpu : WF_vars(WorkerActs(c) \/ SubmitActs(c))
    /\ \A t \in Submitters : WF_vars(SubmitActs(t))

Spec == Init /\ [][Next]_vars /\ Fairness
-----------------------------------------------------------------------------
(***************************************************************************)
(* Properties.                                                             *)
(***************************************************************************)

\* Every variable of the serving protocol has a value of its type.
SchedTypeOK ==
    /\ fresh \subseteq Tasks /\ inQueue \subseteq Tasks /\ ready \subseteq Tasks
    /\ ended \subseteq Tasks
    /\ submitting \in [Submitter -> Tasks \cup {NULL}]
    /\ running \in [Cpu -> Tasks \cup {NULL}]
    /\ cpuPid \in [Cpu -> Pids \cup {-1}]
    /\ registered \subseteq Pids
    /\ stop \in [Pids -> BOOLEAN] /\ notify \in [Pids -> BOOLEAN]
    /\ leader \in [Pids -> Cpu \cup {-1}]
    /\ spin \in [Cpu -> Nat] /\ yields \in Nat
    /\ server \in [thread : Submitter \cup {NoThread},
                   phase : {"none", "ready", "shutdowns", "masks", "waiters", "sleepers",
                            "policy", "own", "leave", "unlock"},
                   todo : SUBSET Cpu, pids : SUBSET Pids, skip : BOOLEAN, served : Nat,
                   task : Tasks \cup {NULL}, drain : BOOLEAN]

\* The places where task u is: not submitted, on its way into the scheduler,
\* in it, handed to a client or kept by the server, running, ended.
Places(u) ==
    {<<"fresh", 0>> : x \in fresh \cap {u}}
    \cup {<<"submitting", t>> : t \in {s \in Submitter : submitting[s] = u}}
    \cup {<<"inQueue", 0>> : x \in inQueue \cap {u}}
    \cup {<<"ready", 0>> : x \in ready \cap {u}}
    \cup {<<"answer", c>> : c \in {d \in Cpu : Answered(d) /\ items[d].item = u}}
    \cup {<<"server", 0>> : x \in {server.task} \cap {u}}
    \cup {<<"running", c>> : c \in {d \in Cpu : running[d] = u}}
    \cup {<<"ended", 0>> : x \in ended \cap {u}}

\* No task is lost or handed out twice: through submission, draining, serving,
\* retries, sleeping clients and yields, every task is in exactly one place.
TaskInOnePlace == SchedTypeOK /\ \A u \in Tasks : Cardinality(Places(u)) = 1

\* A worker that asked for a task of another process (its quantum is over) is
\* not given one of its own (the assertion on candidate.task in
\* worker_start_routine): the request travels with the ticket, is copied by
\* the server, and is looked up again for every client that it serves.
ExternalIsObeyed ==
    \A c \in Cpu :
        /\ mode[c] = "external" /\ Answered(c) /\ items[c].item \in Tasks
              => TaskPid[items[c].item] # cpuPid[c]
        /\ mode[c] = "external" /\ server.thread = c /\ server.task # NULL
              => TaskPid[server.task] # cpuPid[c]

\* Every worker of process p has given its CPU away, at the end of a shutdown.
Gone(p) == stop[p] /\ \A c \in Cpu : cpuPid[c] # p

\* A process that has shut down gets no CPU again, from a worker of another process
\* that leaves (pidmanager_transfer_to_idle) or along with a task: nobody would
\* be there to run it.  And a CPU changes hands, here and when a task of another
\* process is taken, only while its worker is out of the lock and of both masks,
\* so that governor_shutdown_process, which goes by cpu_get_pid, meets every
\* worker of the process and no other.
ShutdownIsFinal ==
    [][/\ \A p \in Pids : Gone(p) => Gone(p)'
       /\ \A c \in Cpu : cpuPid'[c] # cpuPid[c] => pc'[c] = "out" /\ c \notin waiters' \cup sleepers']_vars

\* Every submitted task ends: no wake-up is lost between the submission queue,
\* the masks, the governor and the futexes.  (A task is submitted once and ends
\* once, so in the end there are only tasks that nobody submitted and ended ones.)
TasksEnd == <>[](fresh \cup ended = Tasks)

\* A scheduling point never blocks: scheduler_get with SCHED_GET_NONBLOCKING
\* returns, whether the caller is served, released by the governor or serves.
NonblockingReturns ==
    \A c \in Cpu : []<>(pc[c] = "out" \/ mode[c] # "nonblocking")

\* A shutdown completes: once the killer ran, every worker of the process
\* leaves the lock and gives its CPU away, also those that slept in the lock
\* and those that entered it after the scheduler was notified.
ShutdownCompletes ==
    \A p \in {TaskPid[k] : k \in Killers} : stop[p] ~> (\A c \in Cpu : cpuPid[c] # p)
=============================================================================
