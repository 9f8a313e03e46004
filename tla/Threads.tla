------------------------------ MODULE Threads ------------------------------
(***************************************************************************)
(* Worker threads and the CPUs they hand to each other                     *)
(* (src/src/hardware/threads.c, pids.c, include/hardware/eventqueue.h).    *)
(*                                                                         *)
(* At any time one thread of one process owns a CPU.  It gives the CPU     *)
(* away by waking another worker there, by asking for the creation of one, *)
(* or by marking the CPU free, and then blocks.  A process that shuts down *)
(* runs a killer task, whose CPU becomes the leader and stays until all    *)
(* other workers of the process have ended.  The scheduler is a set of     *)
(* ready tasks from which a CPU gets any (see ReadyQueues and SchedGet).   *)
(***************************************************************************)
EXTENDS Integers, Sequences, SequencesExt, FiniteSets, FiniteSetsExt

CONSTANTS
    Procs,          \* processes; a process also names its killer task
    Tasks, TaskProc,
    Cpus, Pids,     \* CPUs and logical pids
    Workers,        \* bound: threads that can be alive
    Attached,       \* tasks of threads that call nosv_attach
    Pausers,        \* tasks that call nosv_pause
    Yielders,       \* tasks that call nosv_yield
    MaxInits,       \* bound: calls of nosv_init by each process
    MaxBlocks,      \* bound: calls of nosv_pause and nosv_yield by a task
    NULL

VARIABLES
    wk,             \* of each worker: where it is and its nosv_worker_t
    idle,           \* threadmanager->idle_threads
    created,        \* threadmanager->created
    events,         \* threadmanager->thread_creation_queue
    ended,          \* threadmanager->shutdown_threads
    delegate,       \* the delegate thread: "none", "runs", "over" or "joined"
    leader,         \* threadmanager->leader_shutdown_cpu
    stop,           \* threads_shutdown_signal of the process
    signaled,       \* threadmanager->condvar.signaled
    proc,           \* what nosv_init and nosv_shutdown of a process have done
    lpid,           \* logic_pid, in pids_alloc if not -1
    registered,     \* its bit of pids, and PID_STR is set
    cpuPid,         \* cpumanager->pids_cpus
    inits,          \* how often a process has started
    task            \* of each task: where it is, and task->worker

tmvars == <<ended, delegate, leader, stop, signaled>>
pidvars == <<proc, lpid, registered, inits>>
vars == <<wk, idle, created, events, cpuPid, tmvars, pidvars, task>>

ProcOf(t) == IF t \in Procs THEN t ELSE TaskProc[t]

NoWorker == [pc |-> "none", proc |-> NULL, cpu |-> NULL, new |-> NULL, sig |-> FALSE,
             task |-> NULL, hand |-> NULL]

Init ==
    /\ wk = [w \in Workers \cup Attached |-> NoWorker]
    /\ idle = [a \in Procs |-> <<>>] /\ created = [a \in Procs |-> 0]
    /\ events = [a \in Procs |-> <<>>] /\ ended = [a \in Procs |-> {}]
    /\ delegate = [a \in Procs |-> "none"] /\ leader = [a \in Procs |-> NULL]
    /\ stop = [a \in Procs |-> FALSE] /\ signaled = [a \in Procs |-> FALSE]
    /\ proc = [a \in Procs |-> "out"] /\ lpid = [a \in Procs |-> -1]
    /\ inits = [a \in Procs |-> 0]
    /\ registered = [a \in Procs |-> FALSE] /\ cpuPid = [c \in Cpus |-> -1]
    /\ task = [t \in Tasks \cup Procs |-> [st |-> "new", worker |-> NULL, blocks |-> 0]]
-----------------------------------------------------------------------------
(***************************************************************************)
(* How a CPU changes hands.  S is the state that this touches.             *)
(***************************************************************************)
Here == [wk |-> wk, idle |-> idle, created |-> created, events |-> events, cpuPid |-> cpuPid]
Becomes(S) ==
    /\ wk' = S.wk /\ idle' = S.idle /\ created' = S.created
    /\ events' = S.events /\ cpuPid' = S.cpuPid

\* worker_create_local
CreateLocal(S, a, c, t) ==
    LET w == CHOOSE x \in Workers : S.wk[x].pc = "none" /\ \A y \in Workers : y < x => S.wk[y].pc # "none"
    IN  [S EXCEPT !.created[a] = @ + 1,
                  !.wk[w] = [NoWorker EXCEPT !.pc = "loop", !.proc = a, !.cpu = c, !.task = t]]

\* Mutant: the process of the CPU is not recorded.
WakeInternal_NoPid(S, w, c, a) == [S EXCEPT !.wk[w].new = c, !.wk[w].sig = TRUE]

\* worker_wake_internal, called by a thread of process a
WakeInternal(S, w, c, a) ==
    [S EXCEPT !.wk[w].new = c, !.wk[w].sig = TRUE,
              !.cpuPid[c] = IF S.wk[w].proc # a THEN lpid[S.wk[w].proc] ELSE @]

EventCapacity == 2 * Cardinality(Cpus)
\* event_queue_put: an event that finds the queue full is dropped
EventPut(q, e) == IF Len(q) < EventCapacity THEN Append(q, e) ELSE q

\* worker_wake_idle of process b, called by a thread of process a
WakeIdle(S, b, c, t, a) ==
    IF S.idle[b] # <<>>
    THEN LET w == Head(S.idle[b]) IN
         WakeInternal([S EXCEPT !.idle[b] = Tail(@), !.wk[w].task = t], w, c, a)
    ELSE IF a = b THEN CreateLocal(S, b, c, t)
    ELSE [S EXCEPT !.events[b] = EventPut(@, [type |-> "Creation", cpu |-> c, task |-> t])]

\* cpu_transfer
CpuTransfer(S, b, c, t, a) == WakeIdle([S EXCEPT !.cpuPid[c] = lpid[b]], b, c, t, a)

\* pidmanager_transfer_to_idle: to the active process with the lowest pid, or
\* to nobody
TransferToIdle(S, c, a) ==
    LET active == {b \in Procs : registered[b]}
        b == CHOOSE x \in active : \A y \in active : lpid[x] <= lpid[y]
    IN  IF active # {} THEN CpuTransfer(S, b, c, NULL, a) ELSE [S EXCEPT !.cpuPid[c] = -1]
-----------------------------------------------------------------------------
(***************************************************************************)
(* A process and its threads that are not workers.                         *)
(***************************************************************************)

\* pidmanager_register and threadmanager_init: a worker for every free CPU
Register(a) ==
    /\ proc[a] \in {"out", "ended"} /\ proc' = [proc EXCEPT ![a] = "up"]
    /\ inits[a] < MaxInits[a] /\ inits' = [inits EXCEPT ![a] = @ + 1]
    /\ lpid' = [lpid EXCEPT ![a] = Min(Pids \ {lpid[b] : b \in Procs})]
    /\ registered' = [registered EXCEPT ![a] = TRUE]
    /\ delegate' = [delegate EXCEPT ![a] = "runs"]
    /\ leader' = [leader EXCEPT ![a] = NULL] /\ stop' = [stop EXCEPT ![a] = FALSE]
    /\ signaled' = [signaled EXCEPT ![a] = FALSE]
    /\ Becomes(FoldSet(LAMBDA c, S : CreateLocal([S EXCEPT !.cpuPid[c] = lpid'[a]], a, c, NULL),
                       [Here EXCEPT !.created[a] = 0], {c \in Cpus : cpuPid[c] = -1}))
    /\ UNCHANGED <<ended, task>>

\* delegate_routine
Delegate(a) ==
    /\ delegate[a] = "runs" /\ events[a] # <<>>
    /\ LET e == Head(events[a])
           S == [Here EXCEPT !.events[a] = Tail(@)] IN
       \/ /\ e.type = "Creation" /\ Becomes(CreateLocal(S, a, e.cpu, e.task))
          /\ UNCHANGED delegate
       \/ /\ e.type = "Shutdown" /\ Becomes(S)
          /\ delegate' = [delegate EXCEPT ![a] = "over"]
    /\ UNCHANGED <<ended, leader, stop, signaled, pidvars, task>>

\* nosv_submit, and of a task that is blocked in nosv_pause
Submit(t) ==
    /\ \/ task[t].st = "new" /\ t \notin Attached /\ proc[ProcOf(t)] = "up"
       \/ task[t].st = "paused"
    /\ task' = [task EXCEPT ![t].st = "ready"]
    /\ UNCHANGED <<wk, idle, created, events, cpuPid, tmvars, pidvars>>

\* nosv_attach, up to the wait for a CPU
Attach(t) ==
    /\ task[t].st = "new" /\ proc[TaskProc[t]] = "up"
    /\ task' = [task EXCEPT ![t].st = "ready", ![t].worker = t]
    /\ wk' = [wk EXCEPT ![t] = [NoWorker EXCEPT !.pc = "blocked", !.proc = TaskProc[t], !.task = t]]
    /\ UNCHANGED <<idle, created, events, cpuPid, tmvars, pidvars>>

\* nosv_detach
Detach(t) ==
    /\ wk[t].pc = "task"
    /\ task' = [task EXCEPT ![t].st = "done", ![t].worker = NULL]
    /\ Becomes(WakeIdle([Here EXCEPT !.wk[t] = NoWorker], wk[t].proc, wk[t].cpu, NULL, wk[t].proc))
    /\ UNCHANGED <<tmvars, pidvars>>

\* Mutant: the process is unregistered before its killer task runs.
Shutdown_Unregisters(a) ==
    /\ proc[a] = "up" /\ \A t \in Tasks : TaskProc[t] = a => task[t].st \in {"new", "done"}
    /\ proc' = [proc EXCEPT ![a] = "asked"] /\ task' = [task EXCEPT ![a].st = "ready"]
    /\ registered' = [registered EXCEPT ![a] = FALSE]
    /\ UNCHANGED <<wk, idle, created, events, cpuPid, tmvars, lpid, inits>>

\* threadmanager_shutdown, up to its wait.  The program has no live tasks.
Shutdown(a) ==
    /\ proc[a] = "up" /\ \A t \in Tasks : TaskProc[t] = a => task[t].st \in {"new", "done"}
    /\ proc' = [proc EXCEPT ![a] = "asked"] /\ task' = [task EXCEPT ![a].st = "ready"]
    /\ UNCHANGED <<wk, idle, created, events, cpuPid, tmvars, lpid, registered, inits>>

\* The rest of threadmanager_shutdown and pidmanager_shutdown
ShutdownEnd(a) ==
    /\ proc[a] = "asked" /\ signaled[a] /\ \A w \in ended[a] : wk[w].pc = "over"
    /\ proc' = [proc EXCEPT ![a] = IF created[a] = Cardinality(ended[a]) THEN "ended" ELSE "aborted"]
    /\ lpid' = [lpid EXCEPT ![a] = -1]
    /\ wk' = [w \in DOMAIN wk |-> IF w \in ended[a] THEN NoWorker ELSE wk[w]]
    /\ ended' = [ended EXCEPT ![a] = {}]
    /\ UNCHANGED <<idle, created, events, cpuPid, delegate, leader, stop, signaled, registered, inits, task>>
-----------------------------------------------------------------------------
(***************************************************************************)
(* A worker.                                                               *)
(***************************************************************************)

\* The loop of worker_start_routine: a worker that was given a task runs it
Loop(w) ==
    /\ wk[w].pc = "loop"
    /\ LET a == wk[w].proc
           t == wk[w].task IN
       \/ /\ stop[a] /\ wk' = [wk EXCEPT ![w].pc = "ending"]
          /\ ended' = [ended EXCEPT ![a] = @ \cup {w}] /\ UNCHANGED task
       \/ /\ ~stop[a] /\ t # NULL /\ wk' = [wk EXCEPT ![w].pc = "task"]
          /\ task' = [task EXCEPT ![t].st = "runs", ![t].worker = w] /\ UNCHANGED ended
       \/ /\ ~stop[a] /\ t = NULL /\ wk' = [wk EXCEPT ![w].pc = "get"] /\ UNCHANGED <<task, ended>>
    /\ UNCHANGED <<idle, created, events, cpuPid, delegate, leader, stop, signaled, pidvars>>

\* scheduler_get returns a task: worker_execute_or_delegate by an idle worker,
\* up to its place in the idle list
GetTask(w, t) ==
    /\ wk[w].pc = "get" /\ task[t].st = "ready"
    /\ \/ /\ task[t].worker # NULL \/ ProcOf(t) # wk[w].proc
          /\ idle' = [idle EXCEPT ![wk[w].proc] = <<w>> \o @]
          /\ wk' = [wk EXCEPT ![w].pc = "handing", ![w].hand = t]
          /\ task' = [task EXCEPT ![t].st = "sent"]
       \/ /\ task[t].worker = NULL /\ ProcOf(t) = wk[w].proc
          /\ wk' = [wk EXCEPT ![w].pc = "task", ![w].task = t]
          /\ task' = [task EXCEPT ![t].st = "runs", ![t].worker = w]
          /\ UNCHANGED idle
    /\ UNCHANGED <<created, events, cpuPid, tmvars, pidvars>>

\* scheduler_get returns without a task, after scheduler_wake
GetNothing(w) ==
    /\ wk[w].pc = "get" /\ stop[wk[w].proc] /\ wk' = [wk EXCEPT ![w].pc = "loop"]
    /\ UNCHANGED <<idle, created, events, cpuPid, tmvars, pidvars, task>>

\* The rest of worker_execute_or_delegate, and of worker_yield where there is no
\* task to run: the CPU goes to the worker that the task has, or to one of the
\* task's process
HandOver(w) ==
    LET a == wk[w].proc
        c == wk[w].cpu
        t == wk[w].hand
        S == [Here EXCEPT !.wk[w].pc = "blocked", !.wk[w].hand = NULL]
    IN
    /\ wk[w].pc = "handing"
    /\ \/ t = NULL /\ Becomes(WakeIdle(S, a, c, NULL, a))
       \/ t # NULL /\ task[t].worker # NULL /\ Becomes(WakeInternal(S, task[t].worker, c, a))
       \/ t # NULL /\ task[t].worker = NULL /\ ProcOf(t) # a /\ Becomes(CpuTransfer(S, ProcOf(t), c, t, a))
       \/ t # NULL /\ task[t].worker = NULL /\ ProcOf(t) = a /\ Becomes(WakeIdle(S, a, c, t, a))
    /\ UNCHANGED <<tmvars, pidvars, task>>

\* worker_block returns: to the body of the task that the worker has, or to
\* its loop
Resume(w) ==
    /\ wk[w].pc = "blocked" /\ wk[w].sig
    /\ LET busy == {t \in Tasks : task[t].worker = w} IN
       /\ wk' = [wk EXCEPT ![w].pc = IF busy # {} THEN "task" ELSE "loop",
                           ![w].cpu = wk[w].new, ![w].new = NULL, ![w].sig = FALSE]
       /\ task' = [t \in DOMAIN task |-> IF t \in busy THEN [task[t] EXCEPT !.st = "runs"] ELSE task[t]]
    /\ UNCHANGED <<idle, created, events, cpuPid, tmvars, pidvars>>

\* A task ends
EndTask(w) ==
    /\ wk[w].pc = "task" /\ wk[w].task \in Tasks
    /\ task' = [task EXCEPT ![wk[w].task].st = "done", ![wk[w].task].worker = NULL]
    /\ wk' = [wk EXCEPT ![w].pc = "loop", ![w].task = NULL]
    /\ UNCHANGED <<idle, created, events, cpuPid, tmvars, pidvars>>

\* nosv_pause
Pause(w) ==
    /\ wk[w].pc = "task" /\ wk[w].task \in Pausers /\ task[wk[w].task].blocks < MaxBlocks
    /\ task' = [task EXCEPT ![wk[w].task].st = "paused", ![wk[w].task].blocks = @ + 1]
    /\ wk' = [wk EXCEPT ![w].pc = "handing"]
    /\ UNCHANGED <<idle, created, events, cpuPid, tmvars, pidvars>>

\* nosv_yield finds a task: worker_yield_to
Yield(w, t) ==
    /\ wk[w].pc = "task" /\ wk[w].task \in Yielders /\ task[wk[w].task].blocks < MaxBlocks
    /\ task[t].st = "ready"
    /\ task' = [task EXCEPT ![wk[w].task].st = "ready", ![wk[w].task].blocks = @ + 1, ![t].st = "sent"]
    /\ wk' = [wk EXCEPT ![w].pc = "handing", ![w].hand = t]
    /\ UNCHANGED <<idle, created, events, cpuPid, tmvars, pidvars>>

\* killer_task_run_callback, in the two steps that others can tell apart
KillerStart(w) ==
    /\ wk[w].pc = "task" /\ wk[w].task \in Procs /\ wk' = [wk EXCEPT ![w].pc = "killing"]
    /\ registered' = [registered EXCEPT ![wk[w].task] = FALSE]
    /\ UNCHANGED <<idle, created, events, cpuPid, tmvars, proc, lpid, inits, task>>

KillerStop(w) ==
    LET a == wk[w].task IN
    /\ wk[w].pc = "killing" /\ leader' = [leader EXCEPT ![a] = wk[w].cpu]
    /\ events' = [events EXCEPT ![a] = EventPut(@, [type |-> "Shutdown", cpu |-> NULL, task |-> NULL])]
    /\ stop' = [stop EXCEPT ![a] = TRUE]
    /\ task' = [task EXCEPT ![a].st = "done", ![a].worker = NULL]
    /\ wk' = [wk EXCEPT ![w].pc = "loop", ![w].task = NULL]
    /\ UNCHANGED <<idle, created, cpuPid, ended, delegate, signaled, pidvars>>

\* Mutant: the leader does not wait for the delegate thread.
Coordinate_NoDelegate(w) ==
    LET a == wk[w].proc IN
    /\ wk[w].pc = "ending"
    /\ \/ /\ idle[a] # <<>>
          /\ Becomes(WakeInternal([Here EXCEPT !.idle[a] = Tail(@), !.wk[w].pc = "over"],
                                  Head(idle[a]), wk[w].cpu, a))
          /\ UNCHANGED <<delegate, signaled>>
       \/ /\ idle[a] = <<>> /\ wk[w].cpu # leader[a] /\ wk' = [wk EXCEPT ![w].pc = "leaving"]
          /\ UNCHANGED <<idle, created, events, cpuPid, delegate, signaled>>
       \/ /\ idle[a] = <<>> /\ wk[w].cpu = leader[a]
          /\ created[a] = Cardinality(ended[a])
          /\ signaled' = [signaled EXCEPT ![a] = TRUE] /\ wk' = [wk EXCEPT ![w].pc = "leaving"]
          /\ UNCHANGED <<idle, created, events, cpuPid, delegate>>
    /\ UNCHANGED <<ended, leader, stop, pidvars, task>>

\* Mutant: the leader leaves although other workers have not ended.
Coordinate_NoRetry(w) ==
    LET a == wk[w].proc IN
    /\ wk[w].pc = "ending"
    /\ \/ /\ idle[a] # <<>>
          /\ Becomes(WakeInternal([Here EXCEPT !.idle[a] = Tail(@), !.wk[w].pc = "over"],
                                  Head(idle[a]), wk[w].cpu, a))
          /\ UNCHANGED <<delegate, signaled>>
       \/ /\ idle[a] = <<>> /\ wk[w].cpu # leader[a] /\ wk' = [wk EXCEPT ![w].pc = "leaving"]
          /\ UNCHANGED <<idle, created, events, cpuPid, delegate, signaled>>
       \/ /\ idle[a] = <<>> /\ wk[w].cpu = leader[a] /\ delegate[a] \in {"over", "joined"}
          /\ delegate' = [delegate EXCEPT ![a] = "joined"]
          /\ \/ /\ created[a] = Cardinality(ended[a])
                /\ signaled' = [signaled EXCEPT ![a] = TRUE] /\ wk' = [wk EXCEPT ![w].pc = "leaving"]
             \/ /\ created[a] # Cardinality(ended[a]) /\ wk' = [wk EXCEPT ![w].pc = "leaving"] /\ UNCHANGED signaled
          /\ UNCHANGED <<idle, created, events, cpuPid>>
    /\ UNCHANGED <<ended, leader, stop, pidvars, task>>

\* worker_coordinate_shutdown: give the CPU to an idle worker, or to another
\* process; the leader stays until the delegate is joined and all have ended
Coordinate(w) ==
    LET a == wk[w].proc IN
    /\ wk[w].pc = "ending"
    /\ \/ /\ idle[a] # <<>>
          /\ Becomes(WakeInternal([Here EXCEPT !.idle[a] = Tail(@), !.wk[w].pc = "over"],
                                  Head(idle[a]), wk[w].cpu, a))
          /\ UNCHANGED <<delegate, signaled>>
       \/ /\ idle[a] = <<>> /\ wk[w].cpu # leader[a] /\ wk' = [wk EXCEPT ![w].pc = "leaving"]
          /\ UNCHANGED <<idle, created, events, cpuPid, delegate, signaled>>
       \/ /\ idle[a] = <<>> /\ wk[w].cpu = leader[a] /\ delegate[a] \in {"over", "joined"}
          /\ delegate' = [delegate EXCEPT ![a] = "joined"]
          /\ \/ /\ created[a] = Cardinality(ended[a])
                /\ signaled' = [signaled EXCEPT ![a] = TRUE] /\ wk' = [wk EXCEPT ![w].pc = "leaving"]
             \/ /\ created[a] # Cardinality(ended[a]) /\ UNCHANGED <<wk, signaled>>
          /\ UNCHANGED <<idle, created, events, cpuPid>>
    /\ UNCHANGED <<ended, leader, stop, pidvars, task>>

Leave(w) ==
    /\ wk[w].pc = "leaving"
    /\ Becomes(TransferToIdle([Here EXCEPT !.wk[w].pc = "over"], wk[w].cpu, wk[w].proc))
    /\ UNCHANGED <<tmvars, pidvars, task>>

Worker(w) ==
    \/ Loop(w) \/ GetNothing(w) \/ \E t \in DOMAIN task : GetTask(w, t) \/ Yield(w, t)
    \/ HandOver(w) \/ Resume(w) \/ EndTask(w) \/ Pause(w) \/ KillerStart(w) \/ KillerStop(w)
    \/ Coordinate(w) \/ Leave(w)

External(t) == HandOver(t) \/ Resume(t) \/ Pause(t) \/ (\E u \in DOMAIN task : Yield(t, u)) \/ Detach(t)

Done == (\A a \in Procs : proc[a] = "ended" /\ inits[a] = MaxInits[a]) /\ UNCHANGED vars

Next ==
    \/ \E a \in Procs : Register(a) \/ Delegate(a) \/ Shutdown(a) \/ ShutdownEnd(a)
    \/ \E t \in Tasks : Submit(t)
    \/ \E t \in Attached : Attach(t) \/ External(t)
    \/ \E w \in Workers : Worker(w)
    \/ Done

\* Some thread that can run does run, and a task that pauses is submitted again;
\* a process need not start, submit or shut down.  The loops of the code that
\* wait change no state, so that fairness between threads adds nothing.
Fairness ==
    WF_vars(\/ \E w \in Workers : Worker(w)
            \/ \E t \in Attached : External(t)
            \/ \E t \in Tasks : task[t].st = "paused" /\ Submit(t)
            \/ \E a \in Procs : Delegate(a) \/ ShutdownEnd(a))

Spec == Init /\ [][Next]_vars /\ Fairness
-----------------------------------------------------------------------------
(***************************************************************************)
(* Properties.                                                             *)
(***************************************************************************)
Owning == {"loop", "get", "task", "handing", "killing", "ending", "leaving"}

\* What holds CPU c: a worker on it, a worker that was woken there, or the
\* request for a new one, each with its process
Owners(c) ==
    {<<wk[w].proc, "on", w>> : w \in {x \in DOMAIN wk : wk[x].pc \in Owning /\ wk[x].cpu = c}}
    \cup {<<wk[w].proc, "woken", w>> : w \in {x \in DOMAIN wk : wk[x].sig /\ wk[x].new = c}}
    \cup UNION {{<<a, "event", i>> : i \in {j \in DOMAIN events[a] : events[a][j].cpu = c}} : a \in Procs}

\* Every CPU that is not free has one owner, a thread or the request for one,
\* and is recorded as a CPU of the owner's process: no hand-over loses a CPU,
\* wakes two threads on it, or signals a worker whose last signal is pending,
\* and no creation event is dropped from a full queue.
OneOwner ==
    \A c \in Cpus : /\ Cardinality(Owners(c)) = IF cpuPid[c] = -1 THEN 0 ELSE 1
                    /\ \A o \in Owners(c) : lpid[o[1]] = cpuPid[c]

\* A thread that is about to give its CPU to another process finds the thread
\* manager of that process: PID_STR is not NULL, although the killer task may
\* run meanwhile.
HandsToRegistered ==
    \A w \in DOMAIN wk : (wk[w].pc = "handing" /\ wk[w].hand # NULL) =>
        LET b == ProcOf(wk[w].hand) IN b # wk[w].proc /\ task[wk[w].hand].worker = NULL => registered[b]

\* "Shutdown failed to take down all worker threads" does not happen: when the
\* thread in nosv_shutdown goes on, no worker of the process is left, woken,
\* idle or still to be created, none ended with a task in its hands, and no
\* CPU is left with the process.
JoinsAll ==
    \A a \in Procs :
        /\ proc[a] # "aborted"
        /\ \A w \in ended[a] : wk[w].task = NULL
        /\ (signaled[a] /\ proc[a] = "asked") => created[a] = Cardinality(ended[a])
        /\ proc[a] = "ended" => /\ \A w \in DOMAIN wk : wk[w].proc # a
                                /\ idle[a] = <<>> /\ events[a] = <<>> /\ delegate[a] = "joined"

\* nosv_shutdown returns, whatever workers are on their way to the idle list or
\* to the scheduler and whoever owns the CPUs; and every submitted task ends,
\* also when CPUs come from a process that shuts down: there comes a time from
\* which no process waits in nosv_shutdown and no task is live.
Progress ==
    <>[](/\ \A a \in Procs : proc[a] # "asked"
         /\ \A t \in Tasks : task[t].st \in {"new", "done"})
=============================================================================
