------------------------------ MODULE CondVar ------------------------------
(***************************************************************************)
(* Blocking tasks: the nosv mutex and condition variable                   *)
(* (src/src/support/mutex.c, cond.c), nosv_pause, nosv_waitfor and the     *)
(* early wake-up of nosv_submit (src/src/system/tasks.c), and the part of  *)
(* the scheduler that keeps tasks with a deadline                          *)
(* (src/src/scheduler/scheduler.c).                                        *)
(*                                                                         *)
(* A task that is not blocked has a CPU and takes its own steps; the       *)
(* scheduler is one server that inserts submitted tasks, purges the        *)
(* deadline tree and resumes tasks.  A spin lock around straight-line code *)
(* is one atomic step; the lock of a condition variable, which is held     *)
(* across nosv_submit for timed waiters, is a variable.  The build is the  *)
(* default one, where assert does nothing.                                 *)
(***************************************************************************)
EXTENDS Integers, Sequences, SequencesExt, FiniteSets

CONSTANTS
    Tasks,      \* the tasks, all of one process
    Timed,      \* those that make timed waits
    NULL,       \* no task
    Ops,        \* the calls that each task makes
    MaxOps,     \* bound: number of calls of a task
    Timeouts    \* abstime - now of a timed wait, and target_ns of a waitfor

\* The shape of the deadline tree is known: see TreeInsert.
ASSUME TwoTimed == Timed \subseteq Tasks /\ Cardinality(Timed) <= 2

VARIABLES
    pc,         \* where each task is
    ret,        \* "run" or "crit": where its current call returns
    ops,        \* calls made so far
    target,     \* the task that it took from a list and is about to wake
    todo,       \* nosv_cond_broadcast: local list of untimed waiters
    wait,       \* timeout of its current timed wait, NULL if untimed
    taken,      \* mutex->taken
    mlist,      \* mutex->list
    list,       \* cond->list
    listTimed,  \* cond->list_timed
    condLock,   \* the task that holds cond->lock, or NULL
    blocking,   \* task->blocking_count
    deadline,   \* task->deadline: ticks that are left (-1 when it has passed) or NULL
    dstate,     \* task->deadline_state
    hook,       \* task->yield # 0, that is task->tree_hook.rbe_left # NULL
    inQueue,    \* scheduler->in_queue
    queue,      \* sched->queue
    yieldq,     \* sched->yield_tasks
    tree,       \* sched->deadline_tasks, by deadline
    root,       \* the root of that tree
    purge,      \* scheduler->deadline_purge
    scan        \* the purge in progress: tasks to visit, to_purge and its first value

taskvars  == <<pc, ret, ops, target, todo, wait>>
mutexvars == <<taken, mlist>>
condvars  == <<list, listTimed, condLock>>
statevars == <<blocking, deadline, dstate, hook>>
schedvars == <<inQueue, queue, yieldq, tree, root, purge, scan>>
vars == <<taskvars, mutexvars, condvars, statevars, schedvars>>

NoScan == [rest |-> <<>>, left |-> 0, count |-> 0]

Init ==
    /\ pc = [t \in Tasks |-> "run"] /\ ret = [t \in Tasks |-> "run"]
    /\ ops = [t \in Tasks |-> 0]
    /\ target = [t \in Tasks |-> NULL] /\ todo = [t \in Tasks |-> <<>>]
    /\ wait = [t \in Tasks |-> NULL]
    /\ taken = FALSE /\ mlist = <<>>
    /\ list = <<>> /\ listTimed = <<>> /\ condLock = NULL
    /\ blocking = [t \in Tasks |-> 0]
    /\ deadline = [t \in Tasks |-> NULL] /\ dstate = [t \in Tasks |-> "none"]
    /\ hook = [t \in Tasks |-> FALSE]
    /\ inQueue = {} /\ queue = <<>> /\ yieldq = <<>>
    /\ tree = <<>> /\ root = NULL /\ purge = 0 /\ scan = NoScan

Goto(t, label) == pc' = [pc EXCEPT ![t] = label]

\* The task makes call op; every call returns to where it was made.
Call(t, op) ==
    /\ op \in Ops[t] /\ pc[t] \in {"run", "crit"} /\ ops[t] < MaxOps
    /\ ops' = [ops EXCEPT ![t] = @ + 1]
    /\ ret' = [ret EXCEPT ![t] = pc[t]]
-----------------------------------------------------------------------------
(***************************************************************************)
(* The mutex.                                                              *)
(***************************************************************************)

\* nosv_mutex_lock: take the mutex, or join its list and pause without the
\* blocking count.
Acquire(t) ==
    IF taken
    THEN mlist' = Append(mlist, t) /\ Goto(t, "mwait") /\ UNCHANGED taken
    ELSE taken' = TRUE /\ Goto(t, "crit") /\ UNCHANGED mlist

MutexLock(t) ==
    /\ pc[t] = "run" /\ Call(t, "lock")
    /\ Acquire(t)
    /\ UNCHANGED <<target, todo, wait, condvars, statevars, schedvars>>

MutexTrylock(t) ==
    /\ pc[t] = "run" /\ Call(t, "trylock")
    /\ taken' = TRUE
    /\ IF taken THEN UNCHANGED pc ELSE Goto(t, "crit")
    /\ UNCHANGED <<target, todo, wait, mlist, condvars, statevars, schedvars>>

\* Mutant: the mutex is marked as free although it is handed over.
Release_Frees(t, free, handover) ==
    /\ taken' = FALSE
    /\ IF mlist = <<>>
       THEN Goto(t, free) /\ UNCHANGED <<mlist, target>>
       ELSE /\ mlist' = Tail(mlist)
            /\ target' = [target EXCEPT ![t] = Head(mlist)]
            /\ Goto(t, handover)

\* nosv_mutex_unlock_internal under the spin lock: the mutex becomes free, or
\* its first waiter is taken from the list and inherits it.
Release(t, free, handover) ==
    IF mlist = <<>>
    THEN taken' = FALSE /\ Goto(t, free) /\ UNCHANGED <<mlist, target>>
    ELSE /\ mlist' = Tail(mlist)
         /\ target' = [target EXCEPT ![t] = Head(mlist)]
         /\ Goto(t, handover)
         /\ UNCHANGED taken

MutexUnlock(t) ==
    /\ pc[t] = "crit"
    /\ Release(t, "run", "handover")
    /\ UNCHANGED <<ret, ops, todo, wait, condvars, statevars, schedvars>>

\* The label at which a task goes on when the scheduler or another task
\* resumes it
Resumed(t) ==
    CASE pc[t] = "mwait" -> "crit"
      [] pc[t] = "cwait" -> "relock"
      [] pc[t] = "twait" -> "leave"
      [] OTHER -> "run"

\* ... the heir may run on this CPU: submit ourselves and yield to it
YieldTo(t) ==
    /\ pc[t] = "handover"
    /\ inQueue' = inQueue \cup {t}
    /\ pc' = [pc EXCEPT ![t] = "yielded", ![target[t]] = Resumed(target[t])]
    /\ target' = [target EXCEPT ![t] = NULL]
    /\ UNCHANGED <<ret, ops, todo, wait, mutexvars, condvars, statevars,
                   queue, yieldq, tree, root, purge, scan>>

\* Mutant: the heir is submitted by way of its blocking count, which the pause
\* of nosv_mutex_lock did not raise.
SubmitHeir_Counted(t) ==
    /\ pc[t] \in {"handover", "cgive"}
    /\ blocking' = [blocking EXCEPT ![target[t]] = @ - 1]
    /\ inQueue' = IF blocking[target[t]] - 1 = 0 THEN inQueue \cup {target[t]} ELSE inQueue
    /\ Goto(t, IF pc[t] = "cgive" THEN "block" ELSE "run")
    /\ target' = [target EXCEPT ![t] = NULL]
    /\ UNCHANGED <<ret, ops, todo, wait, mutexvars, condvars, deadline, dstate, hook,
                   queue, yieldq, tree, root, purge, scan>>

\* ... or it may not, or the unlock is part of a wait: submit it
SubmitHeir(t) ==
    /\ pc[t] \in {"handover", "cgive"}
    /\ inQueue' = inQueue \cup {target[t]}
    /\ Goto(t, IF pc[t] = "cgive" THEN "block" ELSE "run")
    /\ target' = [target EXCEPT ![t] = NULL]
    /\ UNCHANGED <<ret, ops, todo, wait, mutexvars, condvars, statevars,
                   queue, yieldq, tree, root, purge, scan>>
-----------------------------------------------------------------------------
(***************************************************************************)
(* Waiting.                                                                *)
(***************************************************************************)

\* nosv_cond_timedwait joins a list of the condition variable.  A deadline
\* that has passed returns at once, with the mutex still locked.
CondWait(t, w) ==
    /\ pc[t] = "crit" /\ condLock = NULL
    /\ Call(t, IF w = NULL THEN "wait" ELSE "timedwait")
    /\ wait' = [wait EXCEPT ![t] = w]
    /\ CASE w = NULL ->
              list' = Append(list, t) /\ Goto(t, "cunlock") /\ UNCHANGED listTimed
         [] w # NULL /\ w >= 0 ->
              listTimed' = Append(listTimed, t) /\ Goto(t, "cunlock") /\ UNCHANGED list
         [] OTHER -> UNCHANGED <<list, listTimed, pc>>
    /\ UNCHANGED <<target, todo, mutexvars, condLock, statevars, schedvars>>

\* ... then it unlocks the mutex
CondUnlock(t) ==
    /\ pc[t] = "cunlock"
    /\ Release(t, "block", "cgive")
    /\ UNCHANGED <<ret, ops, todo, wait, condvars, statevars, schedvars>>

\* Mutant: the wait pauses without the blocking count.
Pause_NoCount(t) ==
    /\ pc[t] = "block" /\ wait[t] = NULL
    /\ Goto(t, "cwait")
    /\ UNCHANGED <<ret, ops, target, todo, wait, mutexvars, condvars, statevars, schedvars>>

\* ... and, untimed, pauses unless it was unblocked already (task_pause)
Pause(t) ==
    /\ pc[t] = "block" /\ wait[t] = NULL
    /\ blocking' = [blocking EXCEPT ![t] = @ + 1]
    /\ Goto(t, IF blocking[t] + 1 > 0 THEN "cwait" ELSE "relock")
    /\ UNCHANGED <<ret, ops, target, todo, wait, mutexvars, condvars,
                   deadline, dstate, hook, schedvars>>

\* A call of nosv_waitfor
Waitfor(t, w) ==
    /\ pc[t] = "run" /\ w >= 0 /\ Call(t, "waitfor")
    /\ wait' = [wait EXCEPT ![t] = w]
    /\ Goto(t, "waitfor")
    /\ UNCHANGED <<target, todo, mutexvars, condvars, statevars, schedvars>>

\* nosv_waitfor: set_task_deadline, then submit itself and yield.  A wake-up
\* that came first cancels the wait.
SetDeadline(t) ==
    /\ pc[t] = "waitfor" \/ (pc[t] = "block" /\ wait[t] # NULL)
    /\ LET sleep == IF pc[t] = "block" THEN "twait" ELSE "sleep"
           awake == IF pc[t] = "block" THEN "leave" ELSE "run"
       IN  IF dstate[t] = "none"
           THEN /\ dstate' = [dstate EXCEPT ![t] = "pending"]
                /\ deadline' = [deadline EXCEPT ![t] = wait[t]]
                /\ inQueue' = inQueue \cup {t}
                /\ Goto(t, sleep)
           ELSE /\ dstate' = [dstate EXCEPT ![t] = "none"]
                /\ deadline' = [deadline EXCEPT ![t] = NULL]
                /\ UNCHANGED inQueue
                /\ Goto(t, awake)
    /\ UNCHANGED <<ret, ops, target, todo, wait, mutexvars, condvars, blocking, hook,
                   queue, yieldq, tree, root, purge, scan>>

\* Back from a timed wait: leave the list if nobody took us from it
LeaveList(t) ==
    /\ pc[t] = "leave" /\ condLock = NULL
    /\ listTimed' = SelectSeq(listTimed, LAMBDA u : u # t)
    /\ Goto(t, "relock")
    /\ UNCHANGED <<ret, ops, target, todo, wait, mutexvars, list, condLock, statevars, schedvars>>

\* ... and lock the mutex again
Relock(t) ==
    /\ pc[t] = "relock"
    /\ Acquire(t)
    /\ UNCHANGED <<ret, ops, target, todo, wait, condvars, statevars, schedvars>>
-----------------------------------------------------------------------------
(***************************************************************************)
(* Waking.                                                                 *)
(***************************************************************************)

\* nosv_cond_signal takes the first untimed waiter, else the first timed one,
\* for which it keeps cond->lock.
CondSignal(t) ==
    /\ condLock = NULL /\ Call(t, "signal")
    /\ CASE list # <<>> ->
              /\ list' = Tail(list)
              /\ todo' = [todo EXCEPT ![t] = <<Head(list)>>]
              /\ Goto(t, "submit")
              /\ UNCHANGED <<listTimed, condLock, target>>
         [] list = <<>> /\ listTimed # <<>> ->
              /\ listTimed' = Tail(listTimed)
              /\ target' = [target EXCEPT ![t] = Head(listTimed)]
              /\ condLock' = t
              /\ Goto(t, "wake")
              /\ UNCHANGED <<list, todo>>
         [] OTHER -> UNCHANGED <<list, listTimed, condLock, todo, target, pc>>
    /\ UNCHANGED <<wait, mutexvars, statevars, schedvars>>

\* nosv_cond_broadcast moves the untimed waiters to a list of its own and wakes
\* the timed ones under the lock.
CondBroadcast(t) ==
    /\ condLock = NULL /\ Call(t, "broadcast")
    /\ todo' = [todo EXCEPT ![t] = list]
    /\ list' = <<>>
    /\ condLock' = t
    /\ Goto(t, "timed")
    /\ UNCHANGED <<target, wait, listTimed, mutexvars, statevars, schedvars>>

NextTimed(t) ==
    /\ pc[t] = "timed"
    /\ IF listTimed # <<>>
       THEN /\ listTimed' = Tail(listTimed)
            /\ target' = [target EXCEPT ![t] = Head(listTimed)]
            /\ Goto(t, "wakeall")
            /\ UNCHANGED condLock
       ELSE /\ condLock' = NULL
            /\ Goto(t, IF todo[t] = <<>> THEN ret[t] ELSE "submit")
            /\ UNCHANGED <<listTimed, target>>
    /\ UNCHANGED <<ret, ops, todo, wait, list, mutexvars, statevars, schedvars>>

\* Mutant: a task that waits in the tree is submitted.
DeadlineWake_Submits(t) ==
    /\ pc[t] \in {"wake", "wakeall"}
    /\ dstate' = [dstate EXCEPT ![target[t]] = "ready"]
    /\ inQueue' = IF dstate[target[t]] = "waiting" THEN inQueue \cup {target[t]} ELSE inQueue
    /\ Goto(t, IF pc[t] = "wake" THEN ret[t] ELSE "timed")
    /\ condLock' = IF condLock = t /\ pc[t] = "wake" THEN NULL ELSE condLock
    /\ target' = [target EXCEPT ![t] = NULL]
    /\ UNCHANGED <<ret, ops, todo, wait, mutexvars, list, listTimed, blocking, deadline,
                   hook, queue, yieldq, tree, root, purge, scan>>

\* nosv_submit(task, NOSV_SUBMIT_DEADLINE_WAKE): the exchange
DeadlineWake(t) ==
    /\ pc[t] \in {"wake", "wakeall"}
    /\ dstate' = [dstate EXCEPT ![target[t]] = "ready"]
    /\ IF dstate[target[t]] = "waiting"
       THEN Goto(t, IF pc[t] = "wake" THEN "request" ELSE "requestall")
            /\ UNCHANGED <<condLock, target>>
       ELSE /\ Goto(t, IF pc[t] = "wake" THEN ret[t] ELSE "timed")
            /\ condLock' = IF condLock = t /\ pc[t] = "wake" THEN NULL ELSE condLock
            /\ target' = [target EXCEPT ![t] = NULL]
    /\ UNCHANGED <<ret, ops, todo, wait, mutexvars, list, listTimed, blocking, deadline,
                   hook, schedvars>>

\* ... and scheduler_request_deadline_purge
RequestPurge(t) ==
    /\ pc[t] \in {"request", "requestall"}
    /\ purge' = purge + 1
    /\ Goto(t, IF pc[t] = "request" THEN ret[t] ELSE "timed")
    /\ condLock' = IF condLock = t /\ pc[t] = "request" THEN NULL ELSE condLock
    /\ target' = [target EXCEPT ![t] = NULL]
    /\ UNCHANGED <<ret, ops, todo, wait, mutexvars, list, listTimed, statevars,
                   inQueue, queue, yieldq, tree, root, scan>>

\* nosv_submit(task, NOSV_SUBMIT_UNLOCKED) of an untimed waiter
SubmitWaiter(t) ==
    /\ pc[t] = "submit"
    /\ LET u == Head(todo[t]) IN
         /\ blocking' = [blocking EXCEPT ![u] = @ - 1]
         /\ inQueue' = IF blocking[u] - 1 = 0 THEN inQueue \cup {u} ELSE inQueue
    /\ todo' = [todo EXCEPT ![t] = Tail(@)]
    /\ IF Tail(todo[t]) = <<>> THEN Goto(t, ret[t]) ELSE UNCHANGED pc
    /\ UNCHANGED <<ret, ops, target, wait, mutexvars, condvars, deadline, dstate, hook,
                   queue, yieldq, tree, root, purge, scan>>

\* A task wakes another one, which has called nosv_waitfor; by the time of the
\* wake-up its wait may not have begun or may be over.
WakeSleeper(t) ==
    /\ Call(t, "wakesleeper")
    /\ \E u \in Tasks \ {t} :
         pc[u] \in {"waitfor", "sleep"} /\ target' = [target EXCEPT ![t] = u]
    /\ Goto(t, "wake")
    /\ UNCHANGED <<todo, wait, mutexvars, condvars, statevars, schedvars>>
-----------------------------------------------------------------------------
(***************************************************************************)
(* The scheduler.                                                          *)
(***************************************************************************)

\* RB_INSERT in the deadline tree, after the tasks with the same deadline.  A
\* tree of two nodes never rotates: its root is the one that was there first.
TreeInsert(t) ==
    LET before == {i \in DOMAIN tree : deadline[tree[i]] <= deadline[t]}
    IN  /\ tree' = InsertAt(tree, Cardinality(before) + 1, t)
        /\ root' = IF tree = <<>> THEN t ELSE root

\* RB_REMOVE unlinks a node and leaves the pointers inside it as they are.
TreeRemove(t) ==
    /\ tree' = SelectSeq(tree, LAMBDA u : u # t)
    /\ root' = IF root # t THEN root ELSE IF tree' = <<>> THEN NULL ELSE Head(tree')
    /\ hook' = [hook EXCEPT ![t] = root = t /\ Head(tree) # t]

\* deadline_task_wake_up
WakeUp(t) ==
    /\ deadline' = [deadline EXCEPT ![t] = NULL]
    /\ dstate' = [dstate EXCEPT ![t] = "none"]

\* scheduler_insert_ready_task
InsertReady(t) ==
    /\ scan = NoScan /\ t \in inQueue
    /\ inQueue' = inQueue \ {t}
    /\ CASE hook[t] ->
              yieldq' = Append(yieldq, t) /\ UNCHANGED <<queue, tree, root, statevars>>
         [] ~hook[t] /\ deadline[t] # NULL /\ dstate[t] = "pending" ->
              /\ dstate' = [dstate EXCEPT ![t] = "waiting"]
              /\ TreeInsert(t)
              /\ UNCHANGED <<queue, yieldq, blocking, deadline, hook>>
         [] ~hook[t] /\ deadline[t] # NULL /\ dstate[t] # "pending" ->
              /\ WakeUp(t)
              /\ queue' = Append(queue, t)
              /\ UNCHANGED <<yieldq, tree, root, blocking, hook>>
         [] OTHER ->
              queue' = Append(queue, t) /\ UNCHANGED <<yieldq, tree, root, statevars>>
    /\ UNCHANGED <<taskvars, mutexvars, condvars, purge, scan>>

\* scheduler_deadline_purge: read the counter and visit the tree
PurgeStart ==
    /\ scan = NoScan /\ purge > 0
    /\ scan' = [rest |-> tree, left |-> purge, count |-> purge]
    /\ UNCHANGED <<taskvars, mutexvars, condvars, statevars, inQueue, queue, yieldq, tree,
                   root, purge>>

\* ... a task that is ready moves to the queue
PurgeVisit ==
    /\ scan.rest # <<>> /\ scan.left > 0
    /\ LET t == Head(scan.rest) IN
         IF dstate[t] = "ready"
         THEN /\ TreeRemove(t) /\ WakeUp(t)
              /\ queue' = Append(queue, t)
              /\ scan' = [scan EXCEPT !.rest = Tail(@), !.left = @ - 1]
              /\ UNCHANGED blocking
         ELSE /\ scan' = [scan EXCEPT !.rest = Tail(@)]
              /\ UNCHANGED <<statevars, queue, tree, root>>
    /\ UNCHANGED <<taskvars, mutexvars, condvars, inQueue, yieldq, purge>>

\* Mutant: the counter is cleared.
PurgeEnd_Clears ==
    /\ scan.count > 0 /\ (scan.rest = <<>> \/ scan.left = 0)
    /\ purge' = 0
    /\ scan' = NoScan
    /\ UNCHANGED <<taskvars, mutexvars, condvars, statevars, inQueue, queue, yieldq, tree, root>>

\* ... and the counter goes down by what was read
PurgeEnd ==
    /\ scan.count > 0 /\ (scan.rest = <<>> \/ scan.left = 0)
    /\ purge' = purge - scan.count
    /\ scan' = NoScan
    /\ UNCHANGED <<taskvars, mutexvars, condvars, statevars, inQueue, queue, yieldq, tree, root>>

Expired(t) == deadline[t] # NULL /\ deadline[t] < 0

\* scheduler_get_deadline_expired
GetDeadlineExpired ==
    /\ scan = NoScan /\ tree # <<>>
    /\ LET t == Head(tree) IN
         /\ Expired(t)
         /\ TreeRemove(t) /\ WakeUp(t)
         /\ Goto(t, Resumed(t))
    /\ UNCHANGED <<ret, ops, target, todo, wait, mutexvars, condvars, blocking,
                   inQueue, queue, yieldq, purge, scan>>

\* scheduler_get_from_queue
GetFromQueue ==
    /\ scan = NoScan /\ queue # <<>>
    /\ queue' = Tail(queue)
    /\ Goto(Head(queue), Resumed(Head(queue)))
    /\ UNCHANGED <<ret, ops, target, todo, wait, mutexvars, condvars, statevars,
                   inQueue, yieldq, tree, root, purge, scan>>

\* scheduler_get_yield_expired, scheduler_find_task_yield_process
GetYield ==
    /\ scan = NoScan /\ yieldq # <<>>
    /\ LET t == Head(yieldq) IN Goto(t, Resumed(t)) /\ hook' = [hook EXCEPT ![t] = FALSE]
    /\ yieldq' = Tail(yieldq)
    /\ UNCHANGED <<ret, ops, target, todo, wait, mutexvars, condvars, blocking, deadline,
                   dstate, inQueue, queue, tree, root, purge, scan>>

\* Time passes.
Tick ==
    /\ \E t \in Tasks : deadline[t] # NULL /\ deadline[t] >= 0
    /\ deadline' = [t \in Tasks |-> IF deadline[t] = NULL \/ deadline[t] < 0
                                    THEN deadline[t] ELSE deadline[t] - 1]
    /\ UNCHANGED <<taskvars, mutexvars, condvars, blocking, dstate, hook, schedvars>>
-----------------------------------------------------------------------------
\* What a task does once it has made a call, and the unlock of the mutex
Continue(t) ==
    \/ MutexUnlock(t) \/ YieldTo(t) \/ SubmitHeir(t)
    \/ CondUnlock(t) \/ Pause(t) \/ SetDeadline(t) \/ LeaveList(t) \/ Relock(t)
    \/ NextTimed(t) \/ DeadlineWake(t) \/ RequestPurge(t) \/ SubmitWaiter(t)

MakeCall(t) ==
    \/ MutexLock(t) \/ MutexTrylock(t)
    \/ CondWait(t, NULL)
    \/ t \in Timed /\ \E w \in Timeouts : CondWait(t, w) \/ Waitfor(t, w)
    \/ CondSignal(t) \/ CondBroadcast(t) \/ WakeSleeper(t)

Serve ==
    \/ \E t \in Tasks : InsertReady(t)
    \/ PurgeStart \/ PurgeVisit \/ PurgeEnd
    \/ GetDeadlineExpired \/ GetFromQueue \/ GetYield

Next == (\E t \in Tasks : MakeCall(t) \/ Continue(t)) \/ Serve \/ Tick

\* A task that made a call goes on with it and unlocks the mutex in the end;
\* the server keeps working.  Time may stand still, and nobody has to call.
Fairness ==
    /\ \A t \in Tasks : WF_vars(Continue(t))
    /\ WF_vars(PurgeStart \/ PurgeVisit \/ PurgeEnd)
    /\ WF_vars(GetFromQueue) /\ WF_vars(GetYield) /\ WF_vars(GetDeadlineExpired)
    /\ \A t \in Tasks : WF_vars(InsertReady(t))

Spec == Init /\ [][Next]_vars /\ Fairness
-----------------------------------------------------------------------------
(***************************************************************************)
(* Properties.                                                             *)
(***************************************************************************)

Labels == {"run", "crit", "mwait", "handover", "yielded", "cunlock", "cgive", "block",
           "cwait", "waitfor", "twait", "sleep", "leave", "relock", "submit", "timed",
           "wake", "wakeall", "request", "requestall"}

\* Every variable has a value of its type; the blocking count of a live task
\* stays between -1 (woken before it paused) and 1 (paused).
TypeOK ==
    /\ pc \in [Tasks -> Labels] /\ ret \in [Tasks -> {"run", "crit"}]
    /\ ops \in [Tasks -> 0..MaxOps] /\ target \in [Tasks -> Tasks \cup {NULL}]
    /\ \A t \in Tasks : todo[t] \in Seq(Tasks) /\ wait[t] \in Timeouts \cup {NULL}
    /\ taken \in BOOLEAN /\ condLock \in Tasks \cup {NULL}
    /\ mlist \in Seq(Tasks) /\ list \in Seq(Tasks) /\ listTimed \in Seq(Tasks)
    /\ blocking \in [Tasks -> -1..1]
    /\ \A t \in Tasks : deadline[t] = NULL \/ deadline[t] \in Int
    /\ dstate \in [Tasks -> {"none", "pending", "waiting", "ready"}]
    /\ hook \in [Tasks -> BOOLEAN]
    /\ inQueue \subseteq Tasks /\ queue \in Seq(Tasks) /\ yieldq \in Seq(Tasks)
    /\ tree \in Seq(Tasks) /\ root \in Tasks \cup {NULL}
    /\ purge \in Nat /\ scan.rest \in Seq(Tasks)
    /\ scan.left \in Nat /\ scan.count \in Nat

\* t is between nosv_mutex_lock and nosv_mutex_unlock, in its own code, in a
\* signal or a broadcast, or in a wait before it unlocks the mutex.
Holds(t) ==
    \/ pc[t] \in {"crit", "cunlock"}
    \/ ret[t] = "crit" /\ pc[t] \in {"submit", "timed", "wake", "wakeall", "request", "requestall"}

\* The mutex has one owner while it is taken and none otherwise: a task inside
\* its critical section, or the waiter that inherited it and was not resumed
\* yet ("the lock is still marked as taken", nosv_mutex_lock).
MutexOwned ==
    LET heirs == {t \in Tasks : pc[t] = "mwait" /\ t \notin ToSet(mlist)}
    IN  Cardinality({t \in Tasks : Holds(t)} \cup heirs) = IF taken THEN 1 ELSE 0

Occurs(t, s) == Cardinality({i \in DOMAIN s : s[i] = t})

\* How often t is in the scheduler, or with a task that is about to submit it
Scheduled(t) ==
    Cardinality(inQueue \cap {t}) + Occurs(t, queue) + Occurs(t, yieldq) + Occurs(t, tree)
    + Cardinality({s \in Tasks : pc[s] \in {"handover", "cgive"} /\ target[s] = t})

\* How often t is in a list of tasks that were not unblocked yet
Listed(t) ==
    Occurs(t, mlist)
    + IF pc[t] # "cwait" THEN 0
      ELSE Occurs(t, list) + Cardinality({s \in Tasks : t \in ToSet(todo[s])})

\* No blocked task is lost, and none is submitted twice: a task that is
\* blocked is in one list or once in the scheduler, and a task that runs is
\* not in the scheduler, whatever way it was woken in (a mutex handed over, a
\* signal, a broadcast, a deadline that expired while a signal came).
BlockedOnce ==
    TypeOK /\ \A t \in Tasks :
        IF pc[t] \in {"mwait", "cwait", "twait", "sleep", "yielded"}
        THEN Scheduled(t) + Listed(t) = 1
        ELSE Scheduled(t) = 0

\* A request to purge the deadline tree is outstanding for every task in it
\* that was woken, or its waker is about to make it: scheduler_deadline_purge
\* subtracts what it read and never drops the wake-up of a task it did not
\* reach.
WokenIsPurged ==
    Cardinality({t \in Tasks : t \in ToSet(tree) /\ dstate[t] = "ready"})
        <= scan.left + (purge - scan.count)
           + Cardinality({s \in Tasks : pc[s] \in {"request", "requestall"}})

\* A task that was taken from the list of a condition variable, or woken by
\* nosv_submit, stops waiting, even if time stands still.
WakeArrives ==
    \A t \in Tasks :
        (\E s \in Tasks : \/ t \in ToSet(todo[s])
                          \/ pc[s] \in {"wake", "wakeall"} /\ target[s] = t)
        ~> (pc[t] \notin {"cunlock", "cgive", "block", "cwait", "twait", "sleep"})

\* A task that waits for the mutex gets it: holders unlock, and waiters are
\* served in the order of the list.
MutexGranted == \A t \in Tasks : (pc[t] = "mwait") ~> (pc[t] = "crit")

=============================================================================
