---------------------------- MODULE ReadyQueues ----------------------------
(***************************************************************************)
(* The queues of the scheduler (src/src/scheduler/scheduler.c): where a    *)
(* ready task is put and which task a CPU gets.  Both run under the        *)
(* scheduler's lock (see SchedGet), so that each is one step here.         *)
(*                                                                         *)
(* Every process has a general queue, a list of tasks that yielded, a tree *)
(* of tasks that wait for a deadline, and strict and preferred queues for  *)
(* each CPU and each NUMA node.  A task enters the general queue; a CPU    *)
(* that finds it there and is not the right one moves it to the queue of   *)
(* its affinity.                                                           *)
(***************************************************************************)
EXTENDS Integers, Sequences, SequencesExt, FiniteSets, FiniteSetsExt

CONSTANTS
    Tasks, Pids,
    Attr,           \* of each task: pid, prio, level, index, type, first degree
    Cpus,           \* logical ids of the CPUs
    CpuSid,         \* the system id of each CPU
    NumaOf,         \* the logical NUMA node of each CPU
    NumaSid,        \* the system id of each logical NUMA node
    FirstPid,       \* the process that has each CPU at the start
    How,            \* the ways in which the program submits each task
    Yielders,       \* tasks that call nosv_yield and nosv_schedpoint
    Degrees,        \* the degrees that nosv_set_task_degree gives to a parallel task
    MaxInserts,     \* bound: submissions
    MaxYields,      \* bound: yields and scheduling points that leave the CPU
    MaxClock,       \* bound: time
    NULL

VARIABLES
    procs,          \* scheduler->queues, the ring of processes
    sched,          \* process_scheduler_t of each process
    task,           \* of each task: yield, deadline, scheduled_count, degree
    total,          \* scheduler->tasks
    stamp,          \* scheduler->timestamps[cpu].pid
    over,           \* more than a quantum has passed since timestamps[cpu].ts_ns
    cpuPid,         \* the process that has each CPU
    running,        \* the task that each CPU runs
    successor,      \* immediate_successor of the worker that has each CPU
    mark,           \* where a task is that is in no queue: "out", or submitted
    point,          \* tasks that wait inside nosv_schedpoint
    idle,           \* CPUs whose last request was answered with no task
    clock, inserts, yields

vars == <<procs, sched, task, total, stamp, over, cpuPid, running, successor, mark, point, idle, clock,
          inserts, yields>>

Numas == DOMAIN NumaSid
Prios == {Attr[t].prio : t \in Tasks} \cup {0}
\* task_is_parallel
IsParallel(t) == task[t].degree \notin {1, -1}

\* The queues with an affinity, by level, type and logical id
AffineNames ==
    [level : {"cpu"}, type : {"strict", "preferred"}, id : Cpus]
    \cup [level : {"numa"}, type : {"strict", "preferred"}, id : Numas]
Name(level, type, id) == [level |-> level, type |-> type, id |-> id]
General == Name("general", "none", 0)
Deadlines == Name("deadline", "none", 0)
QueueNames == AffineNames \cup {General}

\* scheduler_init_queue, and the queues of a process that scheduler_init_pid
\* makes
NoTree == [i \in Prios |-> <<>>]
EmptyQueue == [enabled |-> FALSE, list |-> <<>>, tree |-> NoTree]
InitPid == [tasks |-> 0, served |-> 0, pref |-> 0, yields |-> <<>>, deadlines |-> <<>>,
            queue |-> [q \in QueueNames |-> EmptyQueue]]

Init ==
    /\ procs = <<>> /\ sched = [p \in Pids |-> InitPid] /\ total = 0
    /\ task = [t \in Tasks |->
                 [yield |-> 0, deadline |-> 0, scheduled |-> 0, degree |-> Attr[t].degree]]
    /\ stamp = [c \in Cpus |-> -1] /\ over = [c \in Cpus |-> FALSE]
    /\ cpuPid = FirstPid /\ running = [c \in Cpus |-> NULL]
    /\ successor = [c \in Cpus |-> NULL]
    /\ mark = [t \in Tasks |-> "out"] /\ point = {} /\ idle = {} /\ clock = 1 /\ inserts = 0 /\ yields = 0
-----------------------------------------------------------------------------
(***************************************************************************)
(* A queue is a list, and from the first task with a priority on a tree    *)
(* whose nodes are rings of tasks of equal priority.                       *)
(***************************************************************************)

PrioOrder == SetToSortSeq(Prios, >)

\* The order in which scheduler_find_in_queue and scheduler_pop_queue empty it
Order(q) ==
    IF q.enabled
    THEN FlattenSeq([i \in DOMAIN PrioOrder |-> q.tree[PrioOrder[i]]])
    ELSE q.list

PopQueue(q, t) ==
    IF q.enabled THEN [q EXCEPT !.tree[Attr[t].prio] = Tail(@)] ELSE [q EXCEPT !.list = Tail(@)]

\* scheduler_add_queue.  The tasks that a list has when it becomes a tree have
\* no priority, and are the ring of one node.
AddQueue(q, t) ==
    CASE q.enabled -> [q EXCEPT !.tree[Attr[t].prio] = Append(@, t)]
      [] ~q.enabled /\ Attr[t].prio # 0 ->
           [enabled |-> TRUE, list |-> <<>>,
            tree |-> [NoTree EXCEPT ![0] = q.list, ![Attr[t].prio] = <<t>>]]
      [] OTHER -> [q EXCEPT !.list = Append(@, t)]
-----------------------------------------------------------------------------
(***************************************************************************)
(* The search for a task.  S is the state of the search: the queues and    *)
(* the tasks as it leaves them, the task that it got, and the number of    *)
(* executions that this removes from the counters.                         *)
(***************************************************************************)
Search == [sched |-> sched, task |-> task, got |-> NULL, removed |-> 1]

CpuLid(sid) == CHOOSE c \in Cpus : CpuSid[c] = sid
NumaLid(sid) == CHOOSE n \in Numas : NumaSid[n] = sid

\* Mutant: only CPUs are compared.
TaskAffine_CpuOnly(t, c) == Attr[t].level = "cpu" => Attr[t].index = CpuSid[c]

\* task_affine
TaskAffine(t, c) ==
    CASE Attr[t].level = "cpu" -> Attr[t].index = CpuSid[c]
      [] Attr[t].level = "numa" -> NumaLid(Attr[t].index) = NumaSid[NumaOf[c]]
      [] OTHER -> TRUE

\* scheduler_insert_affine
InsertAffine(S, p, t) ==
    LET a == Attr[t]
        q == Name(a.level, a.type, IF a.level = "cpu" THEN CpuLid(a.index) ELSE NumaLid(a.index))
    IN  [S EXCEPT !.sched[p].queue[q] = AddQueue(@, t),
                  !.sched[p].pref = IF a.type = "preferred" THEN @ + 1 ELSE @]

\* What is left of queue q once t was handed out for the n-th time, where d is its
\* degree: it leaves with its last execution, or the first after it was cancelled
Keep(q, t, n, d) == IF d < 0 \/ n >= d THEN PopQueue(q, t) ELSE q

\* Mutant: the executions of a cancelled task that are left stay counted.
GetFromQueue_Uncounted(S, p, q) ==
    LET tasks == Order(S.sched[p].queue[q])
        t == Head(tasks)
        n == S.task[t].scheduled + 1
    IN  IF tasks = <<>> THEN S
        ELSE [S EXCEPT !.got = t,
                       !.task[t].scheduled = IF IsParallel(t) THEN n ELSE @,
                       !.sched[p].queue[q] = Keep(@, t, n, S.task[t].degree),
                       !.sched[p].pref = IF q.type = "preferred" THEN @ - 1 ELSE @]

\* Mutant: the task at the back of the queue is taken, of those without priority.
GetFromQueue_Back(S, p, q) ==
    LET tasks == Order(S.sched[p].queue[q])
        t == Last(tasks)
    IN  IF tasks = <<>> THEN S
        ELSE [S EXCEPT !.got = t,
                       !.sched[p].queue[q] = IF @.enabled THEN [@ EXCEPT !.tree[Attr[t].prio] = Front(@)]
                                                          ELSE [@ EXCEPT !.list = Front(@)],
                       !.sched[p].pref = IF q.type = "preferred" THEN @ - 1 ELSE @]

\* scheduler_get_from_queue, with the decrement of preferred_affinity_tasks of
\* its callers.  The first execution that is handed out after a cancellation
\* removes those that are left.  The count of a task that is not parallel is not
\* read again and is not kept.
GetFromQueue(S, p, q) ==
    LET tasks == Order(S.sched[p].queue[q])
        t == Head(tasks)
        n == S.task[t].scheduled + 1
        d == S.task[t].degree
        removed == IF d < 0 THEN 1 + (-d - n) ELSE 1
    IN  IF tasks = <<>> THEN S
        ELSE [S EXCEPT !.got = t, !.removed = removed,
                       !.task[t].scheduled = IF IsParallel(t) THEN n ELSE @,
                       !.sched[p].queue[q] = Keep(@, t, n, d),
                       !.sched[p].pref = IF q.type = "preferred" THEN @ - removed ELSE @]

\* A task is taken out of the place where it was found, which for the deadlines
\* and the yields is part of scheduler_get_deadline_expired and
\* scheduler_get_yield_expired.
DropFrom(S, p, t, place) ==
    CASE place = "deadlines" -> [S EXCEPT !.sched[p].deadlines = Tail(@), !.task[t].deadline = 0]
      [] place = "yields" -> [S EXCEPT !.sched[p].yields = Tail(@), !.task[t].yield = 0]
      [] place = "general" -> [S EXCEPT !.sched[p].queue[General] = PopQueue(@, t)]

\* ... and is what the search returns.
TakeFrom(S, p, t, place) ==
    IF place = "general" THEN GetFromQueue(S, p, General)
    ELSE [DropFrom(S, p, t, place) EXCEPT !.got = t, !.removed = 1]

\* The loops that go through tasks until one is affine to the CPU: the others
\* are dropped from where they are and moved to the queues of their affinity.
Scan(S, p, c, tasks, place) ==
    LET i == SelectInSeq(tasks, LAMBDA t : TaskAffine(t, c))
        others == IF i = 0 THEN tasks ELSE SubSeq(tasks, 1, i - 1)
        moved == FoldLeft(LAMBDA A, t : InsertAffine(DropFrom(A, p, t, place), p, t), S, others)
    IN  IF i = 0 THEN moved ELSE TakeFrom(moved, p, tasks[i], place)

\* scheduler_get_deadline_expired, called until it fails
DeadlineExpired(S, p) == SelectSeq(S.sched[p].deadlines, LAMBDA t : S.task[t].deadline < clock)

\* scheduler_get_yield_expired, called until it fails
YieldExpired(S, p) ==
    LET ys == S.sched[p].yields
        i == SelectInSeq(ys, LAMBDA t : S.task[t].yield > S.sched[p].served)
    IN  IF i = 0 THEN ys ELSE SubSeq(ys, 1, i - 1)

Found(S) == S.got # NULL
\* sched->tasks is decremented when a search in the process ends with a task
Obtained(S, p) == IF Found(S) THEN [S EXCEPT !.sched[p].tasks = @ - S.removed] ELSE S

\* The queues of affinities that a CPU looks at, in this order
AffineQueues(c) ==
    << Name("cpu", "strict", c), Name("cpu", "preferred", c),
       Name("numa", "strict", NumaOf[c]), Name("numa", "preferred", NumaOf[c]) >>

FirstOf(S, p, names) ==
    FoldLeft(LAMBDA A, q : IF Found(A) THEN A ELSE GetFromQueue(A, p, q), S, names)

\* scheduler_find_task_process: four places, until a task is found
FindTask(S, p, c) ==
    LET Seen(A, place) == CASE place = "deadlines" -> DeadlineExpired(A, p)
                            [] place = "yields" -> YieldExpired(A, p)
                            [] place = "general" -> Order(A.sched[p].queue[General])
        Look(A, place) == IF place = "affine" THEN FirstOf(A, p, AffineQueues(c))
                          ELSE Scan(A, p, c, Seen(A, place), place)
    IN  IF S.sched[p].tasks = 0 THEN S
        ELSE Obtained(FoldLeft(LAMBDA A, place : IF Found(A) THEN A ELSE Look(A, place),
                               S, << "deadlines", "yields", "affine", "general" >>), p)

PreferredQueues ==
    [i \in 1..Cardinality(Cpus) |-> Name("cpu", "preferred", i - 1)]
    \o [i \in 1..Cardinality(Numas) |-> Name("numa", "preferred", i - 1)]

\* Mutant: only the queues of the CPUs are looked at.
FindNoAffine_Cpus(S, p, c) ==
    IF S.sched[p].tasks = 0 \/ S.sched[p].pref = 0 THEN S
    ELSE Obtained(FirstOf(S, p, SubSeq(PreferredQueues, 1, Cardinality(Cpus))), p)

\* scheduler_find_task_noaffine_process: steal a task that prefers another CPU
FindNoAffine(S, p, c) ==
    IF S.sched[p].tasks = 0 \/ S.sched[p].pref = 0 THEN S
    ELSE Obtained(FirstOf(S, p, PreferredQueues), p)

\* scheduler_find_task_yield_process
FindYield(S, p, c) == Obtained(Scan(S, p, c, S.sched[p].yields, "yields"), p)

\* scheduler_should_yield
ShouldYield(c) == stamp[c] = cpuPid[c] /\ over[c]

\* The processes in the order of a traversal that starts at position i
From(i) == [k \in 1..Len(procs) |-> procs[((i + k - 2) % Len(procs)) + 1]]

\* One of the three searches, in process p
Find(S, p, c, search) ==
    CASE search = "task" -> FindTask(S, p, c)
      [] search = "noaffine" -> FindNoAffine(S, p, c)
      [] search = "yield" -> FindYield(S, p, c)

\* SCHEDULER_FOREACH_DO: the processes in which a search is made
ForEach(order, search) == [k \in DOMAIN order |-> [pid |-> order[k], search |-> search]]

\* Mutant: the search starts at the own process although its quantum is over.
Start_Own(c) == LET i == SelectInSeq(procs, LAMBDA p : p = cpuPid[c]) IN IF i = 0 THEN 1 ELSE i

\* Where the search starts: at the own process, or the first if it has no
\* queues yet, and one further if its quantum is over
Start(c) ==
    LET i == SelectInSeq(procs, LAMBDA p : p = cpuPid[c])
    IN  (IF i = 0 THEN 1 ELSE i) + (IF ShouldYield(c) THEN 1 ELSE 0)

\* scheduler_get_internal: three searches, until a task is found.  A request for
\* tasks of others skips the own process.
GetInternal(c, external) ==
    LET own == Start(c)
        last == IF ShouldYield(c) THEN own ELSE own + 1
        searches == ForEach(From(own), "task") \o ForEach(From(own), "noaffine")
                    \o ForEach(From(last), "yield")
        Skip(A, s) == Found(A) \/ (external /\ s.pid = cpuPid[c])
    IN  IF total = 0 THEN Search
        ELSE FoldLeft(LAMBDA A, s : IF Skip(A, s) THEN A ELSE Find(A, s.pid, c, s.search),
                      Search, searches)
-----------------------------------------------------------------------------
(***************************************************************************)
(* Steps.                                                                  *)
(***************************************************************************)

\* What a request of CPU c whose search ended in S leaves, with
\* scheduler_update_accounting.  The CPU goes to the process of its task.
Request(c, S) ==
    LET p == Attr[S.got].pid
    IN  /\ task' = S.task
        /\ IF ~Found(S)
           THEN /\ sched' = S.sched
                /\ stamp' = IF total = 0 THEN [stamp EXCEPT ![c] = -1] ELSE stamp
                /\ UNCHANGED <<total, over, cpuPid, running, point>>
           ELSE /\ sched' = [S.sched EXCEPT ![p].served = @ + S.removed]
                /\ total' = total - S.removed
                /\ stamp' = [stamp EXCEPT ![c] = p]
                /\ over' = [over EXCEPT ![c] = @ /\ p = stamp[c] /\ S.got \notin point]
                /\ cpuPid' = [cpuPid EXCEPT ![c] = p]
                /\ running' = [running EXCEPT ![c] = S.got]
                /\ point' = point \ {S.got}

\* A worker asks for a task: scheduler_get in its loop
Get(c) ==
    /\ running[c] = NULL /\ successor[c] = NULL /\ c \notin idle
    /\ Request(c, GetInternal(c, FALSE))
    /\ idle' = IF running'[c] = NULL THEN idle \cup {c} ELSE idle
    /\ UNCHANGED <<procs, successor, mark, clock, inserts, yields>>

InQueues(t) ==
    LET s == sched[Attr[t].pid] IN
    {q \in QueueNames : s.queue[q] # EmptyQueue /\ t \in ToSet(Order(s.queue[q]))}
    \cup {Name("yield", "none", 0) : y \in ToSet(s.yields) \cap {t}}
    \cup {Deadlines : d \in ToSet(s.deadlines) \cap {t}}

\* The CPUs that run t, or whose worker has it as its successor
OnCpus(t) == {c \in Cpus : running[c] = t \/ successor[c] = t}

\* No execution of t is queued, submitted or running
NotLive(t) == mark[t] = "out" /\ InQueues(t) = {} /\ OnCpus(t) = {}

\* nosv_submit with NOSV_SUBMIT_IMMEDIATE, in a task that CPU c runs.  A successor
\* that the worker already has is submitted.
SubmitImmediate(c, t) ==
    /\ running[c] # NULL /\ cpuPid[c] = Attr[t].pid /\ inserts < MaxInserts
    /\ NotLive(t) /\ "immediate" \in How[t] /\ ~IsParallel(t)
    /\ successor' = [successor EXCEPT ![c] = t] /\ inserts' = inserts + 1
    /\ mark' = [u \in Tasks |-> IF u = successor[c] THEN "ready" ELSE mark[u]]
    /\ UNCHANGED <<procs, sched, task, total, stamp, over, cpuPid, running, point, idle, clock, yields>>

\* c has no other task to run, and goes on with t in a new quantum
GoesOn(c, t, S) ==
    /\ sched' = S.sched /\ task' = S.task
    /\ over' = [over EXCEPT ![c] = FALSE] /\ running' = [running EXCEPT ![c] = t]
    /\ UNCHANGED <<total, stamp, cpuPid, mark>>

\* A worker has an immediate successor to run.  If its quantum is over it asks
\* for a task of another process first, and submits the successor if it gets one.
RunSuccessor(c) ==
    /\ running[c] = NULL /\ successor[c] # NULL
    /\ \E S \in {GetInternal(c, TRUE)} :
       \/ /\ ~ShouldYield(c) /\ running' = [running EXCEPT ![c] = successor[c]]
          /\ UNCHANGED <<sched, task, total, stamp, over, cpuPid, mark, point>>
       \/ /\ ShouldYield(c) /\ Found(S)
          /\ Request(c, S) /\ mark' = [mark EXCEPT ![successor[c]] = "ready"]
       \/ /\ ShouldYield(c) /\ ~Found(S)
          /\ GoesOn(c, successor[c], S) /\ UNCHANGED point
    /\ successor' = [successor EXCEPT ![c] = NULL]
    /\ UNCHANGED <<procs, idle, clock, inserts, yields>>

\* worker_yield_if_needed with another task to run: the successor of the worker,
\* which runs at once, or else one from the scheduler.  The task that c leaves is
\* submitted, as m.
YieldTo(c, m) ==
    /\ yields < MaxYields /\ yields' = yields + 1
    /\ \/ /\ successor[c] # NULL /\ running' = [running EXCEPT ![c] = successor[c]]
          /\ UNCHANGED <<sched, task, total, stamp, over, cpuPid, point>>
       \/ /\ successor[c] = NULL
          /\ \E S \in {GetInternal(c, FALSE)} : Found(S) /\ Request(c, S)
    /\ successor' = [successor EXCEPT ![c] = NULL]
    /\ mark' = [mark EXCEPT ![running[c]] = m]

\* nosv_yield
Yield(c) ==
    /\ running[c] \in Yielders /\ ~IsParallel(running[c])
    /\ \/ YieldTo(c, "yield")
       \/ /\ successor[c] = NULL
          /\ \E S \in {GetInternal(c, FALSE)} : ~Found(S) /\ Request(c, S)
          /\ UNCHANGED <<successor, mark, yields>>
    /\ UNCHANGED <<procs, idle, clock, inserts>>

\* nosv_schedpoint
Schedpoint(c) ==
    /\ running[c] \in Yielders /\ ~IsParallel(running[c]) /\ ShouldYield(c)
    /\ \/ YieldTo(c, "point")
       \/ /\ successor[c] = NULL
          /\ \E S \in {GetInternal(c, FALSE)} : ~Found(S) /\ GoesOn(c, running[c], S)
          /\ UNCHANGED <<successor, point, yields>>
    /\ UNCHANGED <<procs, idle, clock, inserts>>

\* nosv_cancel by an execution of a parallel task
Cancel(c) ==
    /\ running[c] # NULL /\ IsParallel(running[c]) /\ task[running[c]].degree > 0
    /\ task' = [task EXCEPT ![running[c]].degree = -@]
    /\ UNCHANGED <<procs, sched, total, stamp, over, cpuPid, running, successor, mark, point, idle, clock,
                   inserts, yields>>

\* A task, or an execution of it, ends; with the last one the task completes.
EndTask(c) ==
    /\ running[c] # NULL /\ running' = [running EXCEPT ![c] = NULL]
    /\ LET t == running[c]
           last == InQueues(t) = {} /\ OnCpus(t) = {c}
       IN  task' = IF last THEN [task EXCEPT ![t].scheduled = 0] ELSE task
    /\ UNCHANGED <<procs, sched, total, stamp, over, cpuPid, successor, mark, point, idle, clock, inserts, yields>>

\* The insertion in the deadline tree: a deadline that is taken is moved on
FreeDeadline(p) ==
    Min({d \in clock..(clock + Cardinality(Tasks)) :
           \A u \in ToSet(sched[p].deadlines) : task[u].deadline # d})

\* scheduler_insert_ready_task
Insert(t, how) ==
    LET p == Attr[t].pid
        s == sched[p]
        n == task[t].degree
    IN
    /\ procs' = IF p \in ToSet(procs) THEN procs ELSE Append(procs, p)
    /\ CASE how = "yield" ->
              /\ sched' = [sched EXCEPT ![p] = [s EXCEPT !.yields = Append(@, t), !.tasks = @ + n]]
              /\ task' = [task EXCEPT ![t].yield = s.served + s.tasks]
         [] how = "deadline" ->
              /\ task' = [task EXCEPT ![t].deadline = FreeDeadline(p)]
              /\ sched' = [sched EXCEPT ![p] = [s EXCEPT !.tasks = @ + n, !.deadlines =
                             SetToSortSeq(ToSet(@) \cup {t},
                               LAMBDA u, v : task'[u].deadline < task'[v].deadline)]]
         [] OTHER ->
              /\ sched' = [sched EXCEPT ![p] =
                             [s EXCEPT !.queue[General] = AddQueue(@, t), !.tasks = @ + n]]
              /\ UNCHANGED task
    /\ total' = total + n
    /\ idle' = {}
    /\ UNCHANGED <<stamp, over, cpuPid, running, successor, clock>>

\* nosv_set_task_degree on a parallel task, which a cancellation has left with a
\* negative degree
SetDegree(t) ==
    /\ NotLive(t) /\ task[t].degree < 0
    /\ \E d \in Degrees : task' = [task EXCEPT ![t].degree = d]
    /\ UNCHANGED <<procs, sched, total, stamp, over, cpuPid, running, successor, mark, point, idle, clock,
                   inserts, yields>>

\* The program submits a task that is not live, for now or for a later time.  It
\* keeps to assert(degree > 0) of scheduler_insert_ready_task.
Submit(t, how) ==
    /\ NotLive(t) /\ how \in How[t] /\ inserts < MaxInserts /\ task[t].degree > 0
    /\ inserts' = inserts + 1
    /\ Insert(t, how)
    /\ UNCHANGED <<mark, point, yields>>

\* A task that left its CPU arrives in the scheduler
Resubmit(t) ==
    /\ mark[t] # "out" /\ mark' = [mark EXCEPT ![t] = "out"]
    /\ point' = IF mark[t] = "point" THEN point \cup {t} ELSE point
    /\ Insert(t, mark[t])
    /\ UNCHANGED <<inserts, yields>>

\* Time passes while a task waits for it; the idle CPUs ask again.
Tick ==
    /\ \E p \in Pids : sched[p].deadlines # <<>>
    /\ clock < MaxClock /\ clock' = clock + 1 /\ idle' = {}
    /\ UNCHANGED <<procs, sched, task, total, stamp, over, cpuPid, running, successor, mark, point, inserts, yields>>

QuantumOver(c) ==
    /\ stamp[c] # -1 /\ ~over[c] /\ over' = [over EXCEPT ![c] = TRUE]
    /\ UNCHANGED <<procs, sched, task, total, stamp, cpuPid, running, successor, mark, point, idle, clock,
                   inserts, yields>>

Next ==
    \/ \E c \in Cpus : \/ Get(c) \/ RunSuccessor(c) \/ Yield(c) \/ Schedpoint(c)
                       \/ Cancel(c) \/ EndTask(c) \/ QuantumOver(c)
    \/ \E c \in Cpus, t \in Tasks : SubmitImmediate(c, t)
    \/ \E t \in Tasks : \/ Resubmit(t) \/ SetDegree(t)
                        \/ \E how \in {"ready", "deadline"} : Submit(t, how)
    \/ Tick

Spec == Init /\ [][Next]_vars
-----------------------------------------------------------------------------
(***************************************************************************)
(* Properties.                                                             *)
(***************************************************************************)
Waiting(p) == {t \in Tasks : Attr[t].pid = p /\ InQueues(t) # {}}

\* Executions of a waiting task that were not handed out yet
Left(t) ==
    LET d == task[t].degree
    IN  IF IsParallel(t) THEN (IF d < 0 THEN -d ELSE d) - task[t].scheduled ELSE 1

\* The tasks in the preferred queues of process p
Preferring(p) ==
    UNION {ToSet(Order(sched[p].queue[q])) : q \in {n \in AffineNames : n.type = "preferred"}}

\* The counters agree with the queues.  A task is in one queue of its process at
\* most, and if it is not parallel in no other place then; tasks counts the
\* executions that are left, those of a cancelled task until it is taken out; and
\* preferred_affinity_tasks, on which stealing depends, is the number of tasks in
\* the preferred queues, if none of them is parallel.
QueuesMatch ==
    /\ \A t \in Tasks :
         LET queued == Cardinality(InQueues(t)) + (IF mark[t] = "out" THEN 0 ELSE 1)
         IN  queued <= 1 /\ (~IsParallel(t) => queued + Cardinality(OnCpus(t)) <= 1)
    /\ \A p \in Pids :
         /\ sched[p].tasks = MapThenSumSet(Left, Waiting(p))
         /\ (\A t \in Tasks : Attr[t].pid = p /\ Attr[t].type = "preferred" => Attr[t].degree = 1)
              => sched[p].pref = Cardinality(Preferring(p))
    /\ total = MapThenSumSet(LAMBDA p : sched[p].tasks, Pids)

\* c is a CPU that the affinity of t names
AffineTo(t, c) ==
    CASE Attr[t].level = "cpu" -> CpuSid[c] = Attr[t].index
      [] Attr[t].level = "numa" -> NumaSid[NumaOf[c]] = Attr[t].index
      [] OTHER -> TRUE

\* "Represents preferred or strict affinity to a specific CPU core or NUMA
\* domain": a task with a strict affinity runs on the CPUs that it names, by
\* whatever queue it got there.
StrictObeyed ==
    \A c \in Cpus : (running[c] # NULL /\ Attr[running[c]].type = "strict") => AffineTo(running[c], c)

\* t is in the scheduler, and c may run it now
CouldRun(c, t) ==
    /\ InQueues(t) # {}
    /\ Attr[t].type = "strict" => AffineTo(t, c)
    /\ Deadlines \in InQueues(t) => task[t].deadline < clock

\* "This may only happen if there are strict bindings that we couldn't steal"
\* (scheduler_get_internal): a CPU that got no task leaves none in the scheduler
\* that it could run.
OnlyStrictLeft == \A c \in idle, t \in Tasks : ~CouldRun(c, t)

\* What the search that ends without a task leaves behind, of any process and
\* wherever it and earlier ones have moved it: nothing that the CPU could run but
\* tasks that have yielded and prefer other CPUs, which the last of the three
\* searches moves to the queues that the second one has gone through.
NothingLeft ==
    [][\A c \in idle' \ idle, t \in Tasks :
         CouldRun(c, t)' => /\ Name("yield", "none", 0) \in InQueues(t)
                            /\ Attr[t].type = "preferred" /\ ~AffineTo(t, c)]_vars

\* The CPUs that start a task in this step
Starting == {c \in Cpus : running'[c] # running[c] /\ running'[c] # NULL}

\* A CPU whose process has used up its quantum is given to another process that
\* has a task in its general queue which the CPU may run.  The exception is the
\* immediate successor of a task that yields or reaches a scheduling point: it
\* runs next, and the scheduler is not asked (worker_yield_if_needed).
QuantumObeyed ==
    [][\A c \in Starting : ShouldYield(c) =>
         \/ cpuPid'[c] # cpuPid[c]
         \/ running[c] # NULL /\ running'[c] = successor[c]
         \/ \A t \in Tasks : (Attr[t].pid # cpuPid[c] /\ General \in InQueues(t)) => ~AffineTo(t, c)]_vars

\* Tasks of one queue start by priority, and in the order in which they came
\* within a priority.  A queue holds its tasks in that order, also where its list
\* becomes a tree; and when a CPU starts a task, those in front of it leave the
\* queue in the same step, because they belong to other CPUs.
InOrder ==
    [][\A p \in Pids, q \in QueueNames :
         LET before == Order(sched[p].queue[q])
             after == Order(sched'[p].queue[q])
             Pos(s, t) == CHOOSE i \in DOMAIN s : s[i] = t
         IN  /\ \A c \in Starting : \A i, j \in DOMAIN before :
                  before[j] = running'[c] /\ i < j
                    => before[i] \notin ToSet(after) /\ ~AffineTo(before[i], c)
             /\ sched[p].queue[q] # sched'[p].queue[q] =>
                  /\ \A i, j \in DOMAIN after : i < j => Attr[after[i]].prio >= Attr[after[j]].prio
                  /\ \A t, u \in ToSet(before) \cap ToSet(after) :
                       Pos(before, t) < Pos(before, u) /\ Attr[t].prio = Attr[u].prio
                         => Pos(after, t) < Pos(after, u)
                  /\ \A t \in ToSet(after) \ ToSet(before), u \in ToSet(before) \cap ToSet(after) :
                       Attr[t].prio = Attr[u].prio => Pos(after, u) < Pos(after, t)]_vars
=============================================================================
