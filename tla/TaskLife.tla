------------------------------ MODULE TaskLife ------------------------------
(***************************************************************************)
(* The life of a task (src/src/system/tasks.c): submission, execution,     *)
(* pauses, yields, suspension, events, parallel executions, cancellation   *)
(* and completion, with the counters of the task and of the scheduler      *)
(* (src/src/scheduler/scheduler.c) that they share.                        *)
(*                                                                         *)
(* Workers are threads: one that runs a task body which pauses stays with  *)
(* its task, and the scheduler hands the task back to it.  External actors *)
(* are the other threads of the program: they submit tasks, unblock them   *)
(* and fulfil their events.  The program keeps the rules of the API: it    *)
(* submits a task again once it has completed, and unblocks it once for    *)
(* every pause or suspension that the task announced.                      *)
(***************************************************************************)
EXTENDS Integers, FiniteSets, FiniteSetsExt

CONSTANTS
    Tasks,
    Workers,    \* enough for every body that runs or is paused, and one more
    Externals,  \* threads that submit, unblock and fulfil events
    NULL,
    Degree,     \* degree of each task, 1 if it was not created as parallel
    Ops,        \* the calls that the body of each task makes
    MaxOps,     \* bound: calls of a task in its whole life
    MaxSubmits  \* bound: submissions of a task by the external actors

VARIABLES
    live,       \* submitted, and its completed callback has not been called
    blocking,   \* task->blocking_count
    events,     \* task->event_count without its flag
    waiting,    \* ... the flag TASK_WAITING_FOR_EVENTS
    degree,     \* task->degree
    scheduled,  \* task->scheduled_count
    wakeup,     \* task->wakeup
    mode,       \* "no", or the mode in which the task shall suspend (task->flags)
    cell,       \* task->yield, which is also task->suspend_args
    inQueue,    \* how often the task is in scheduler->in_queue
    queue,      \* sched->queue
    yieldq,     \* sched->yield_tasks
    count,      \* scheduler->tasks
    pc, cur,    \* of each actor: where it is, and the task it works on
    next,       \* the task that it shall submit after a completion
    pending,    \* events registered by the task and not yet fulfilled
    unblocks,   \* unblocks that the task announced and nobody made yet
    ops, submits

taskvars  == <<live, blocking, events, waiting, degree, scheduled, wakeup, mode, cell>>
schedvars == <<inQueue, queue, yieldq, count>>
actorvars == <<pc, cur, next>>
progvars  == <<pending, unblocks, ops, submits>>
vars == <<taskvars, schedvars, actorvars, progvars>>

Actors == Workers \cup Externals
IsParallel(t) == degree[t] \notin {1, -1}
Timeout == 2    \* the argument of a suspension with a timeout

Init ==
    /\ live = [t \in Tasks |-> FALSE]
    /\ blocking = [t \in Tasks |-> 1] /\ events = [t \in Tasks |-> 1]
    /\ waiting = [t \in Tasks |-> FALSE]
    /\ degree = Degree /\ scheduled = [t \in Tasks |-> 0]
    /\ wakeup = [t \in Tasks |-> NULL]
    /\ mode = [t \in Tasks |-> "no"] /\ cell = [t \in Tasks |-> 0]
    /\ inQueue = [t \in Tasks |-> 0] /\ queue = {} /\ yieldq = {} /\ count = 0
    /\ pc = [a \in Actors |-> "idle"] /\ cur = [a \in Actors |-> NULL]
    /\ next = [a \in Actors |-> NULL]
    /\ pending = [t \in Tasks |-> 0] /\ unblocks = [t \in Tasks |-> 0]
    /\ ops = [t \in Tasks |-> 0] /\ submits = [t \in Tasks |-> 0]

Goto(a, label) == pc' = [pc EXCEPT ![a] = label]
Leave(a) == Goto(a, "idle") /\ cur' = [cur EXCEPT ![a] = NULL]
Enqueue(t) == inQueue' = [inQueue EXCEPT ![t] = @ + 1]

\* The body that worker w runs makes the call op.
Call(w, op) ==
    /\ pc[w] = "body" /\ op \in Ops[cur[w]] /\ ops[cur[w]] < MaxOps
    /\ ops' = [ops EXCEPT ![cur[w]] = @ + 1]
-----------------------------------------------------------------------------
(***************************************************************************)
(* nosv_submit.                                                            *)
(***************************************************************************)

\* Mutant: also an unblock that comes before its pause submits the task.
Release_Any(t) ==
    /\ blocking' = [blocking EXCEPT ![t] = @ - 1]
    /\ IF blocking[t] <= 1 THEN Enqueue(t) ELSE UNCHANGED inQueue

\* The blocking count of t is decreased, and t is submitted if it drops to 0.
Release(t) ==
    /\ blocking' = [blocking EXCEPT ![t] = @ - 1]
    /\ IF blocking[t] = 1 THEN Enqueue(t) ELSE UNCHANGED inQueue

\* A task that is not live is about to be submitted: with the degree that it has,
\* which scheduler_insert_ready_task asserts to be positive, or after a call of
\* nosv_set_task_degree, which is for tasks created as parallel.  So a task of
\* degree 1 that was cancelled is not submitted again.
SetDegree(t) ==
    /\ ~live[t]
    /\ live' = [live EXCEPT ![t] = TRUE]
    /\ \/ degree[t] > 0 /\ UNCHANGED degree
       \/ Degree[t] # 1 /\ degree' = [degree EXCEPT ![t] = Degree[t]]

Submit(x, t) ==
    /\ pc[x] = "idle" /\ submits[t] < MaxSubmits
    /\ submits' = [submits EXCEPT ![t] = @ + 1]
    /\ SetDegree(t)
    /\ Release(t)
    /\ UNCHANGED <<events, waiting, scheduled, wakeup, mode, cell>>
    /\ UNCHANGED <<queue, yieldq, count, actorvars, pending, unblocks, ops>>

\* NOSV_SUBMIT_BLOCKING: the current task shall be woken when t completes ...
SubmitBlocking(w, t) ==
    /\ Call(w, "blocking") /\ t # cur[w]
    /\ SetDegree(t)
    /\ wakeup' = [wakeup EXCEPT ![t] = cur[w]]
    /\ Release(t)
    /\ Goto(w, "pause")
    /\ UNCHANGED <<events, waiting, scheduled, mode, cell>>
    /\ UNCHANGED <<queue, yieldq, count, cur, next, pending, unblocks, submits>>

\* An external actor unblocks a task that pauses or is about to.
Unblock(x, t) ==
    /\ pc[x] = "idle" /\ unblocks[t] > 0
    /\ unblocks' = [unblocks EXCEPT ![t] = @ - 1]
    /\ Release(t)
    /\ UNCHANGED <<live, events, waiting, degree, scheduled, wakeup, mode, cell>>
    /\ UNCHANGED <<queue, yieldq, count, actorvars, pending, ops, submits>>
-----------------------------------------------------------------------------
(***************************************************************************)
(* What a body does.                                                       *)
(***************************************************************************)

\* The task tells others that it is about to pause.
Announce(w) ==
    /\ Call(w, "pause")
    /\ unblocks' = [unblocks EXCEPT ![cur[w]] = @ + 1]
    /\ Goto(w, "pause")
    /\ UNCHANGED <<taskvars, schedvars, cur, next, pending, submits>>

\* task_pause: the worker blocks unless the task was unblocked before.
TaskPause(w) ==
    /\ pc[w] = "pause"
    /\ blocking' = [blocking EXCEPT ![cur[w]] = @ + 1]
    /\ Goto(w, IF blocking[cur[w]] >= 0 THEN "paused" ELSE "body")
    /\ UNCHANGED <<live, events, waiting, degree, scheduled, wakeup, mode, cell>>
    /\ UNCHANGED <<schedvars, cur, next, progvars>>

\* nosv_yield: if the scheduler has another task, the task is submitted as a
\* yield task and its worker blocks.
Yield(w) ==
    /\ Call(w, "yield")
    /\ \/ /\ queue \cup yieldq # {}
          /\ cell' = [cell EXCEPT ![cur[w]] = -1]
          /\ Enqueue(cur[w])
          /\ Goto(w, "paused")
       \/ /\ cell' = [cell EXCEPT ![cur[w]] = 0]
          /\ UNCHANGED <<inQueue, pc>>
    /\ UNCHANGED <<live, blocking, events, waiting, degree, scheduled, wakeup, mode>>
    /\ UNCHANGED <<queue, yieldq, count, cur, next, pending, unblocks, submits>>

\* nosv_increase_event_counter
IncreaseEvents(w) ==
    /\ Call(w, "increase")
    /\ events' = [events EXCEPT ![cur[w]] = @ + 1]
    /\ pending' = [pending EXCEPT ![cur[w]] = @ + 1]
    /\ UNCHANGED <<live, blocking, waiting, degree, scheduled, wakeup, mode, cell>>
    /\ UNCHANGED <<schedvars, actorvars, unblocks, submits>>

\* nosv_cancel
Cancel(w) ==
    /\ Call(w, "cancel")
    /\ degree' = [degree EXCEPT ![cur[w]] = IF @ > 0 THEN -@ ELSE @]
    /\ UNCHANGED <<live, blocking, events, waiting, scheduled, wakeup, mode, cell>>
    /\ UNCHANGED <<schedvars, actorvars, pending, unblocks, submits>>

\* nosv_set_suspend_mode and nosv_suspend; a task that suspends without a
\* mode tells others to submit it.
SetSuspend(w, m, arg) ==
    LET t == cur[w] IN
    /\ Call(w, m) /\ mode[t] = "no"
    /\ mode' = [mode EXCEPT ![t] = m]
    /\ cell' = [cell EXCEPT ![t] = arg]
    /\ unblocks' = IF m = "none" THEN [unblocks EXCEPT ![t] = @ + 1] ELSE unblocks
    /\ UNCHANGED <<live, blocking, events, waiting, degree, scheduled, wakeup>>
    /\ UNCHANGED <<schedvars, actorvars, pending, submits>>

Suspend(w) ==
    \/ SetSuspend(w, "none", 0)
    \/ SetSuspend(w, "event", 0)
    \/ SetSuspend(w, "timeout", Timeout)
    \/ \E arg \in {0, 1} : SetSuspend(w, "submit", arg)

\* The body returns: task_execute goes on, with the end callback if the task
\* does not suspend.
EndBody(w) ==
    /\ pc[w] = "body"
    /\ Goto(w, IF mode[cur[w]] = "no" THEN "end" ELSE "suspend")
    /\ UNCHANGED <<taskvars, schedvars, cur, next, progvars>>
-----------------------------------------------------------------------------
(***************************************************************************)
(* The end of an execution.                                                *)
(***************************************************************************)

\* task_suspend, by mode: unblocked before, submit at once (as a yield task
\* if the argument is 1) or after the deadline, or wait for the events.
TaskSuspend(w) ==
    LET t == cur[w] IN
    /\ pc[w] = "suspend"
    /\ mode' = [mode EXCEPT ![t] = "no"]
    /\ cell' = [cell EXCEPT ![t] = IF mode[t] = "submit" THEN @ ELSE 0]
    /\ IF mode[t] = "event" /\ events[t] = 1
       THEN Goto(w, "resubmit") /\ UNCHANGED cur
       ELSE Leave(w)
    /\ CASE mode[t] = "none" ->
              /\ blocking' = [blocking EXCEPT ![t] = @ + 1]
              /\ IF blocking[t] < 0 THEN Enqueue(t) ELSE UNCHANGED inQueue
              /\ UNCHANGED waiting
         [] mode[t] = "event" ->
              /\ waiting' = [waiting EXCEPT ![t] = TRUE]
              /\ UNCHANGED <<inQueue, blocking>>
         [] OTHER -> Enqueue(t) /\ UNCHANGED <<waiting, blocking>>
    /\ UNCHANGED <<live, events, degree, scheduled, wakeup>>
    /\ UNCHANGED <<queue, yieldq, count, next, progvars>>

\* The last event and the suspension met: the flag is removed and the task is
\* submitted, by the worker or by the actor that fulfilled the event.
Resubmit(a) ==
    LET t == cur[a] IN
    /\ pc[a] = "resubmit"
    /\ waiting' = [waiting EXCEPT ![t] = FALSE]
    /\ Enqueue(t)
    /\ Leave(a)
    /\ UNCHANGED <<live, blocking, events, degree, scheduled, wakeup, mode, cell>>
    /\ UNCHANGED <<queue, yieldq, count, next, progvars>>

\* The execution ended: the blocking count is reset ...
ResetBlocking(w) ==
    /\ pc[w] = "end"
    /\ blocking' = [blocking EXCEPT ![cur[w]] = 1]
    /\ Goto(w, "ended")
    /\ UNCHANGED <<live, events, waiting, degree, scheduled, wakeup, mode, cell>>
    /\ UNCHANGED <<schedvars, cur, next, progvars>>

\* ... and the execution's own event is taken away.
EndExecution(w) ==
    LET t == cur[w] IN
    /\ pc[w] = "ended"
    /\ events' = [events EXCEPT ![t] = @ - 1]
    /\ IF events[t] = 1 /\ ~waiting[t]
       THEN Goto(w, "complete") /\ UNCHANGED cur
       ELSE Leave(w)
    /\ UNCHANGED <<live, blocking, waiting, degree, scheduled, wakeup, mode, cell>>
    /\ UNCHANGED <<schedvars, next, progvars>>

\* nosv_decrease_event_counter
DecreaseEvents(x, t) ==
    /\ pc[x] = "idle" /\ pending[t] > 0
    /\ pending' = [pending EXCEPT ![t] = @ - 1]
    /\ events' = [events EXCEPT ![t] = @ - 1]
    /\ \/ waiting[t] /\ events[t] = 2 /\ Goto(x, "resubmit")
       \/ ~waiting[t] /\ events[t] = 1 /\ Goto(x, "complete")
       \/ events[t] # (IF waiting[t] THEN 2 ELSE 1) /\ UNCHANGED pc
    /\ cur' = [cur EXCEPT ![x] = IF pc'[x] = "idle" THEN NULL ELSE t]
    /\ UNCHANGED <<live, blocking, waiting, degree, scheduled, wakeup, mode, cell>>
    /\ UNCHANGED <<schedvars, next, unblocks, ops, submits>>

\* Mutant: the task that waits in a blocking submission is forgotten.
TaskComplete_Forgets(a) ==
    LET t == cur[a] IN
    /\ pc[a] = "complete"
    /\ wakeup' = [wakeup EXCEPT ![t] = NULL]
    /\ events' = [events EXCEPT ![t] = 1]
    /\ scheduled' = [scheduled EXCEPT ![t] = 0]
    /\ live' = [live EXCEPT ![t] = FALSE]
    /\ Leave(a)
    /\ UNCHANGED <<blocking, waiting, degree, mode, cell, schedvars, next, progvars>>

\* task_complete up to the completed callback, from which on the task may be
\* submitted again ...
TaskComplete(a) ==
    LET t == cur[a] IN
    /\ pc[a] = "complete"
    /\ wakeup' = [wakeup EXCEPT ![t] = NULL]
    /\ next' = [next EXCEPT ![a] = wakeup[t]]
    /\ events' = [events EXCEPT ![t] = 1]
    /\ scheduled' = [scheduled EXCEPT ![t] = 0]
    /\ live' = [live EXCEPT ![t] = FALSE]
    /\ IF wakeup[t] = NULL THEN Leave(a) ELSE Goto(a, "wake") /\ UNCHANGED cur
    /\ UNCHANGED <<blocking, waiting, degree, mode, cell, schedvars, progvars>>

\* ... and the task that waits for it in a blocking submission is unblocked.
WakeSubmitter(a) ==
    /\ pc[a] = "wake"
    /\ Release(next[a])
    /\ next' = [next EXCEPT ![a] = NULL]
    /\ Leave(a)
    /\ UNCHANGED <<live, events, waiting, degree, scheduled, wakeup, mode, cell>>
    /\ UNCHANGED <<queue, yieldq, count, progvars>>
-----------------------------------------------------------------------------
(***************************************************************************)
(* The scheduler, one server at a time.                                    *)
(***************************************************************************)

\* scheduler_insert_ready_task
InsertReady(t) ==
    /\ inQueue[t] > 0
    /\ inQueue' = [inQueue EXCEPT ![t] = @ - 1]
    /\ IF cell[t] # 0
       THEN /\ yieldq' = yieldq \cup {t} /\ UNCHANGED queue
            /\ cell' = [cell EXCEPT ![t] = -1]
       ELSE queue' = queue \cup {t} /\ UNCHANGED <<yieldq, cell>>
    /\ count' = count + degree[t]
    /\ UNCHANGED <<live, blocking, events, waiting, degree, scheduled, wakeup, mode>>
    /\ UNCHANGED <<actorvars, progvars>>

\* worker_execute_or_delegate: the worker that holds a paused task goes on
\* with it, or worker w runs the body.
Dispatch(w, t) ==
    LET holder == {v \in Workers : cur[v] = t /\ pc[v] = "paused"} IN
    /\ pc[w] = "idle"
    /\ IF holder # {}
       THEN pc' = [v \in Actors |-> IF v \in holder THEN "body" ELSE pc[v]] /\ UNCHANGED cur
       ELSE Goto(w, "body") /\ cur' = [cur EXCEPT ![w] = t]

\* Mutant: an execution of a parallel task that leaves others to run does not
\* count as an event.
GetFromQueue_NoEvent(w, t) ==
    LET n == scheduled[t] + 1
        last == degree[t] < 0 \/ n >= degree[t]
    IN
    /\ t \in queue /\ count # 0
    /\ scheduled' = [scheduled EXCEPT ![t] = n]
    /\ queue' = IF last THEN queue \ {t} ELSE queue
    /\ count' = count - 1 - (IF degree[t] < 0 THEN -degree[t] - n ELSE 0)
    /\ Dispatch(w, t)
    /\ UNCHANGED <<live, blocking, events, waiting, degree, wakeup, mode, cell>>
    /\ UNCHANGED <<inQueue, yieldq, next, progvars>>

\* Mutant: the executions that a cancellation removes stay counted.
GetFromQueue_Uncounted(w, t) ==
    LET n == scheduled[t] + 1
        last == degree[t] < 0 \/ n >= degree[t]
    IN
    /\ t \in queue /\ count # 0
    /\ scheduled' = [scheduled EXCEPT ![t] = n]
    /\ queue' = IF last THEN queue \ {t} ELSE queue
    /\ events' = IF last THEN events ELSE [events EXCEPT ![t] = @ + 1]
    /\ count' = count - 1
    /\ Dispatch(w, t)
    /\ UNCHANGED <<live, blocking, waiting, degree, wakeup, mode, cell>>
    /\ UNCHANGED <<inQueue, yieldq, next, progvars>>

\* scheduler_get_from_queue: one more execution is scheduled; the last one, or
\* the first after a cancellation, takes the task out of the queue, and any
\* other one counts as an event of the task.
GetFromQueue(w, t) ==
    LET n == scheduled[t] + 1
        last == degree[t] < 0 \/ n >= degree[t]
    IN
    /\ t \in queue /\ count # 0
    /\ scheduled' = [scheduled EXCEPT ![t] = n]
    /\ queue' = IF last THEN queue \ {t} ELSE queue
    /\ events' = IF last THEN events ELSE [events EXCEPT ![t] = @ + 1]
    /\ count' = count - 1 - (IF degree[t] < 0 THEN -degree[t] - n ELSE 0)
    /\ Dispatch(w, t)
    /\ UNCHANGED <<live, blocking, waiting, degree, wakeup, mode, cell>>
    /\ UNCHANGED <<inQueue, yieldq, next, progvars>>

\* scheduler_find_task_yield_process and scheduler_get_yield_expired
GetYield(w, t) ==
    /\ t \in yieldq /\ count # 0
    /\ yieldq' = yieldq \ {t}
    /\ cell' = [cell EXCEPT ![t] = 0]
    /\ scheduled' = [scheduled EXCEPT ![t] = @ + 1]
    /\ count' = count - 1
    /\ Dispatch(w, t)
    /\ UNCHANGED <<live, blocking, events, waiting, degree, wakeup, mode>>
    /\ UNCHANGED <<inQueue, queue, next, progvars>>
-----------------------------------------------------------------------------
\* What an actor has to do in a call that it is in
Continue(a) ==
    \/ Resubmit(a)
    \/ TaskComplete(a)
    \/ WakeSubmitter(a)

Body(w) ==
    \/ \E t \in Tasks : SubmitBlocking(w, t)
    \/ Announce(w)
    \/ Yield(w)
    \/ IncreaseEvents(w)
    \/ Cancel(w)
    \/ Suspend(w)

Finish(w) ==
    \/ TaskPause(w)
    \/ EndBody(w)
    \/ TaskSuspend(w)
    \/ ResetBlocking(w)
    \/ EndExecution(w)

Get(w, t) == GetFromQueue(w, t) \/ GetYield(w, t)

Next ==
    \/ \E x \in Externals, t \in Tasks : Submit(x, t) \/ Unblock(x, t) \/ DecreaseEvents(x, t)
    \/ \E w \in Workers : Body(w) \/ Finish(w)
    \/ \E a \in Actors : Continue(a)
    \/ \E t \in Tasks : InsertReady(t)
    \/ \E w \in Workers, t \in Tasks : Get(w, t)

\* A body returns, an announced pause is unblocked and a registered event is
\* fulfilled: the program owes these.  Workers, and a server for the
\* scheduler, take steps.
Fairness ==
    /\ \A w \in Workers : WF_vars(Finish(w))
    /\ \A a \in Actors : WF_vars(Continue(a))
    /\ \A t \in Tasks :
         /\ WF_vars(InsertReady(t))
         /\ WF_vars(\E w \in Workers : Get(w, t))
         /\ WF_vars(\E x \in Externals : Unblock(x, t))
         /\ WF_vars(\E x \in Externals : DecreaseEvents(x, t))

Spec == Init /\ [][Next]_vars /\ Fairness
-----------------------------------------------------------------------------
(***************************************************************************)
(* Properties.                                                             *)
(***************************************************************************)
Running(t) == {w \in Workers : cur[w] = t /\ pc[w] \in {"body", "pause", "suspend", "end", "ended"}}
Paused(t) == {w \in Workers : cur[w] = t /\ pc[w] = "paused"}
InScheduler(t) == inQueue[t] > 0 \/ t \in queue \cup yieldq

\* The counters stay in the ranges that their types and the calls of the
\* program allow; blocking_count drops below zero by the unblocks that come
\* before their pauses.
TypeOK ==
    /\ live \in [Tasks -> BOOLEAN] /\ waiting \in [Tasks -> BOOLEAN]
    /\ blocking \in [Tasks -> -MaxOps..1]
    /\ \A t \in Tasks :
          /\ events[t] \in 0..(MaxOps + Degree[t])
          /\ degree[t] \in {Degree[t], -Degree[t]} /\ scheduled[t] >= 0
    /\ wakeup \in [Tasks -> Tasks \cup {NULL}]
    /\ mode \in [Tasks -> {"no", "none", "event", "timeout", "submit"}]
    /\ cell \in [Tasks -> {-1, 0, 1, Timeout}]
    /\ inQueue \in [Tasks -> Nat] /\ queue \subseteq Tasks /\ yieldq \subseteq Tasks
    /\ pc \in [Actors -> {"idle", "body", "pause", "paused", "suspend", "end", "ended",
                          "resubmit", "complete", "wake"}]
    /\ cur \in [Actors -> Tasks \cup {NULL}] /\ next \in [Actors -> Tasks \cup {NULL}]

\* The counters of task and scheduler hand a task to one worker at a time: it
\* is in the scheduler or runs, never both or twice, however unblocks, events
\* and completions race with its pauses and suspensions.  Only the executions
\* of a parallel task run together, and no more of them than its degree.
RunsOnce ==
    \A t \in Tasks :
        LET places == inQueue[t] + Cardinality({q \in {queue, yieldq} : t \in q}) IN
        IF Degree[t] = 1
        THEN places + Cardinality(Running(t)) <= 1
        ELSE places <= 1 /\ Cardinality(Running(t)) <= Degree[t]

\* task_complete, and with it the completed callback from which on the task
\* may be freed or submitted again, is called by one thread, when every
\* execution has ended, none is left in the scheduler and no event is pending.
CompletesLast ==
    \A a \in Actors : pc[a] = "complete" =>
        LET t == cur[a] IN
        /\ live[t] /\ pending[t] = 0 /\ Running(t) = {} /\ Paused(t) = {}
        /\ ~InScheduler(t) /\ mode[t] = "no" /\ ~waiting[t]
        /\ blocking[t] = 1
        /\ \A b \in Actors \ {a} : ~(cur[b] = t /\ pc[b] \in {"complete", "resubmit"})

\* scheduler->tasks, which decides whether a server looks for a task at all,
\* counts the executions that are left in the queues, also when a task is
\* cancelled while some of its executions run.
TasksCounted ==
    TypeOK /\ count = MapThenSumSet(
        LAMBDA t : IF Degree[t] = 1 THEN 1 ELSE Degree[t] - scheduled[t], queue \cup yieldq)

\* A body that pauses, yields, suspends or waits in a blocking submission goes
\* on to its end and the task completes: no unblock, event or completion is
\* lost to the race with the step that waits for it.
Completes == \A t \in Tasks : live[t] ~> ~live[t]

=============================================================================
