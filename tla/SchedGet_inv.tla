---------------------------- MODULE SchedGet_inv -----------------------------
(***************************************************************************)
(* The invariant of SchedGet, and what keeps it: one lemma for each action,*)
(* in terms of what the scheduler sees of the lock.  That the lock does    *)
(* what these lemmas ask of it is shown in SchedGet_proofs.                *)
(***************************************************************************)
EXTENDS SchedGet, TLAPS
-----------------------------------------------------------------------------
(***************************************************************************)
(* The inductive invariant.                                                *)
(***************************************************************************)

\* c is in dtlock_lock_or_delegate; the thread in the lock serves for c.
Inside(c) == pc[c] \notin {"out", "try", "cas", "held"}
Serves(c) == server.thread = c /\ ~server.drain

\* c was answered with u; the server keeps u for its CPU.
HasAnswer(c, u) == Answered(c) /\ items[c].item = u
Keeps(c, u) == server.thread = c /\ server.task = u

\* The type of server
Locals == [thread : Submitter \cup {NoThread},
           phase : {"none", "ready", "shutdowns", "masks", "waiters", "sleepers",
                    "policy", "own", "leave", "unlock"},
           todo : SUBSET Cpu, pids : SUBSET Pids, skip : BOOLEAN, served : Nat,
           task : Tasks \cup {NULL}, drain : BOOLEAN]

\* Whose local variables server has, and what they say
ServerInv ==
    /\ \A t \in Thread : pc[t] = "held" <=> server.thread = t
    /\ server.thread = NoThread => server.task = NULL
    /\ server.drain => server.task = NULL /\ server.phase \in {"ready", "shutdowns", "unlock"}
    /\ server.thread # NoThread /\ ~server.drain => server.thread \in Cpu
    /\ server.task # NULL => server.phase \in {"leave", "unlock"}

\* The worker of c has nothing to submit while it asks for a task, a CPU
\* without process has no worker, and requests for a task of another process
\* are honoured.
WorkerInv(c) ==
    /\ Inside(c) => submitting[c] = NULL
    /\ Serves(c) => submitting[c] = NULL /\ items[c].flags = mode[c]
    /\ ~Owned(c) => pc[c] = "out" /\ running[c] = NULL /\ submitting[c] = NULL
    /\ mode[c] = "external" =>
         \A u \in Tasks : HasAnswer(c, u) \/ Keeps(c, u) => TaskPid[u] # cpuPid[c]

\* p is a place where u is.
At(p, u) ==
    \/ p = <<"fresh", 0>> /\ u \in fresh
    \/ \E t \in Submitter : p = <<"submitting", t>> /\ submitting[t] = u
    \/ p = <<"inQueue", 0>> /\ u \in inQueue
    \/ p = <<"ready", 0>> /\ u \in ready
    \/ \E c \in Cpu : p = <<"answer", c>> /\ HasAnswer(c, u)
    \/ p = <<"server", 0>> /\ server.task = u
    \/ \E c \in Cpu : p = <<"running", c>> /\ running[c] = u
    \/ p = <<"ended", 0>> /\ u \in ended

\* Every task has one place.
Placed(u) == \E p : \A q : At(q, u) <=> q = p
PlaceInv == \A u \in Tasks : Placed(u)

SchedOK == ServerInv /\ PlaceInv /\ \A c \in Cpu : WorkerInv(c)

SchedInv == TypeOK /\ SchedTypeOK /\ SchedOK
-----------------------------------------------------------------------------
(***************************************************************************)
(* What the scheduler sees of a step of the lock.                          *)
(***************************************************************************)

\* Nobody is answered and nobody picks up an answer.
SameAnswers == \A c \in Cpu, u \in Tasks : HasAnswer(c, u)' <=> HasAnswer(c, u)

\* A step of thread t that moves no other thread, keeps the flags of whoever
\* holds the lock and answers nobody
Quiet(t) ==
    /\ \A u \in Thread : u # t => pc'[u] = pc[u]
    /\ \A c \in Cpu : c # t => mode'[c] = mode[c]
    /\ \A c \in Cpu : pc[c] = "held" => items'[c].flags = items[c].flags
    /\ SameAnswers

\* What the server does to c when it answers i
Answers(c, i) ==
    /\ c \in Cpu /\ Inside(c) /\ Inside(c)' /\ mode' = mode
    /\ \A u \in Thread : u # c => pc'[u] = pc[u]
    /\ \A d \in Cpu : items'[d].flags = items[d].flags
    /\ \A u \in Tasks : ~HasAnswer(c, u) /\ (HasAnswer(c, u)' <=> u = i)
    /\ \A d \in Cpu, u \in Tasks : d # c => (HasAnswer(d, u)' <=> HasAnswer(d, u))

\* ... knowing how c asked.
Replies(c, i) ==
    /\ Answers(c, i)
    /\ c \in waiters => items[c].flags = mode[c]
    /\ c \notin waiters => mode[c] = "default"

\* What the lock does for its holder t when it answers, or sends to sleep
Tells(t) ==
    /\ \A c : \A i \in Items : ServeOrWake(t, c, i) => Replies(c, i)
    /\ \A c : SleepCpu(t, c) => Quiet(t) /\ UNCHANGED <<pc, mode>>

\* A worker reads its answer.
Receives(c) ==
    /\ Inside(c) /\ Answered(c) /\ mode' = mode /\ items' = items
    /\ pc'[c] = (IF items[c].item = RETRY THEN "ticket" ELSE "out")
    /\ \A u \in Thread : u # c => pc'[u] = pc[u]
    /\ \A u \in Tasks : ~HasAnswer(c, u)'
    /\ \A d \in Cpu, u \in Tasks : d # c => (HasAnswer(d, u)' <=> HasAnswer(d, u))

\* What the scheduler sees of a step of the lock, whoever takes it
LockDoes ==
    /\ \A c \in Cpu : \A m : LockOrDelegate(c, m) => Quiet(c) /\ pc[c] = "out" /\ Inside(c)'
    /\ \A c \in Cpu :
          TakeTicket(c) \/ Announce(c) \/ Delegated(c) \/ Signalled(c) \/ FutexWait(c) \/ FutexSyscall(c)
             => Quiet(c) /\ Inside(c) /\ Inside(c)' /\ mode' = mode
    /\ \A c \in Cpu : Acquire(c) => /\ Quiet(c) /\ Inside(c) /\ pc'[c] = "held" /\ mode' = mode
                                     /\ items'[c].flags = mode[c] /\ \A s \in Thread : pc[s] # "held"
    /\ \A c \in Cpu : Receive(c) => Receives(c)
    /\ \A t \in Submitter : TryLoad(t) \/ TryCheck(t) \/ TryCas(t) =>
          /\ Quiet(t) /\ mode' = mode
          /\ pc[t] \in {"out", "try", "cas"} /\ pc'[t] \in {"out", "try", "cas", "held"}
          /\ pc'[t] = "held" => TryCas(t) /\ pc[t] = "cas" /\ \A s \in Thread : pc[s] # "held"
    /\ \A t \in Thread : Tells(t)
    /\ \A t \in Thread : PopfrontWait(t) => Quiet(t) /\ UNCHANGED <<pc, mode>>
    /\ \A t \in Thread : Unlock(t) => Quiet(t) /\ pc[t] = "held" /\ pc'[t] = "out" /\ mode' = mode

\* What Least is for: the first of a set of CPUs or of processes
LeastIsIn == \A S : S \subseteq Nat /\ S # {} => Least(S) \in S
-----------------------------------------------------------------------------
(***************************************************************************)
(* What keeps the parts of the invariant.                                  *)
(***************************************************************************)

\* u stays where it is, or leaves one place for another.
Stays(u) == \A q : At(q, u)' <=> At(q, u)
Passes(u, p0, p1) == At(p0, u) /\ \A q : At(q, u)' <=> q = p1 \/ (At(q, u) /\ q # p0)
Moves(u) == \E p0, p1 : Passes(u, p0, p1)

\* A place that is the only one
LEMMA OnlyPlace ==
    ASSUME NEW u, NEW p, \A q : At(q, u) <=> q = p PROVE Placed(u)
BY DEF Placed

\* Then it still has one place.
LEMMA PlaceStep ==
    ASSUME PlaceInv, \A u \in Tasks : Stays(u) \/ Moves(u) PROVE PlaceInv'
<1> SUFFICES ASSUME NEW u \in Tasks PROVE \E p : \A q : At(q, u)' <=> q = p
  BY Zenon DEF PlaceInv, Placed
<1>1. PICK p : \A q : At(q, u) <=> q = p
  BY Zenon DEF PlaceInv, Placed
<1>2. CASE Stays(u)
  <2>1. \A q : At(q, u)' <=> q = p
    BY <1>1, <1>2 DEF Stays
  <2> QED BY <2>1
<1>3. ASSUME NEW p0, NEW p1, Passes(u, p0, p1) PROVE \E r : \A q : At(q, u)' <=> q = r
  <2>1. \A q : At(q, u)' <=> q = p1
    BY <1>1, <1>3 DEF Passes
  <2> QED BY <2>1
<1> QED BY <1>2, <1>3, Zenon DEF Moves

\* Nothing that says where u is changes.
SamePlace(u) ==
    /\ u \in fresh' <=> u \in fresh
    /\ \A t \in Submitter : submitting'[t] = u <=> submitting[t] = u
    /\ u \in inQueue' <=> u \in inQueue
    /\ u \in ready' <=> u \in ready
    /\ \A c \in Cpu : HasAnswer(c, u)' <=> HasAnswer(c, u)
    /\ server'.task = u <=> server.task = u
    /\ \A c \in Cpu : running'[c] = u <=> running[c] = u
    /\ u \in ended' <=> u \in ended

\* Then u stays where it is.
LEMMA PlaceSame == ASSUME NEW u, SamePlace(u) PROVE Stays(u)
BY Zenon DEF SamePlace, At, Stays

\* One task moves.
LEMMA PlaceMove ==
    ASSUME SchedInv, NEW v, NEW p0, NEW p1, \A u \in Tasks : u # v => SamePlace(u), Passes(v, p0, p1)
    PROVE  PlaceInv'
<1>1. Moves(v)
  BY Zenon DEF Moves
<1>2. \A u \in Tasks : u # v => Stays(u)
  BY PlaceSame, Zenon
<1> QED BY <1>1, <1>2, PlaceStep, Zenon DEF SchedInv, SchedOK

\* What concerns the worker of c does not change.
SameWorker(c) ==
    /\ Inside(c)' => Inside(c)
    /\ pc[c] = "out" => pc'[c] = "out"
    /\ mode'[c] = mode[c] /\ submitting'[c] = submitting[c]
    /\ running'[c] = running[c] /\ cpuPid'[c] = cpuPid[c]
    /\ Serves(c)' => Serves(c) /\ items'[c].flags = items[c].flags
    /\ \A u \in Tasks : (HasAnswer(c, u)' => HasAnswer(c, u)) /\ (Keeps(c, u)' => Keeps(c, u))

\* Then its invariant is kept.
LEMMA WorkerFrame == ASSUME NEW c \in Cpu, WorkerInv(c), SameWorker(c) PROVE WorkerInv(c)'
BY Zenon DEF WorkerInv, SameWorker, Owned

\* The local variables that matter stay with the thread that is in the lock.
SameServer ==
    /\ server'.thread = server.thread /\ server'.task = server.task /\ server'.drain = server.drain
    /\ \A t \in Thread : pc'[t] = "held" <=> pc[t] = "held"
    /\ server.drain => server'.phase \in {"ready", "shutdowns", "unlock"}
    /\ server.task # NULL => server'.phase \in {"leave", "unlock"}

\* Then what they say stays true.
LEMMA ServerFrame == ASSUME ServerInv, SameServer PROVE ServerInv'
BY Zenon DEF ServerInv, SameServer

\* Steps in which no task moves and no worker enters or leaves the lock
LEMMA Bookkeeping ==
    ASSUME SchedInv, SameServer, SameAnswers, mode' = mode,
           \A c \in Cpu : (Inside(c)' => Inside(c)) /\ (pc[c] = "out" => pc'[c] = "out"),
           \A c \in Cpu : pc[c] = "held" => items'[c].flags = items[c].flags,
           UNCHANGED <<fresh, submitting, inQueue, ready, running, ended, cpuPid>>
    PROVE  SchedOK'
<1>1. ServerInv /\ PlaceInv /\ \A c \in Cpu : WorkerInv(c)
  BY Zenon DEF SchedInv, SchedOK
<1>2. ServerInv'
  BY <1>1, ServerFrame, Zenon
<1>3. PlaceInv'
  <2>1. \A u \in Tasks : SamePlace(u)
    BY Zenon DEF SamePlace, SameAnswers, SameServer
  <2> QED BY <1>1, <2>1, PlaceSame, PlaceStep, Zenon
<1>4. ASSUME NEW c \in Cpu PROVE WorkerInv(c)'
  <2>1. Serves(c)' => Serves(c) /\ items'[c].flags = items[c].flags
    BY <1>1, Zenon DEF Serves, SameServer, ServerInv, Thread
  <2>2. \A u \in Tasks : (HasAnswer(c, u)' => HasAnswer(c, u)) /\ (Keeps(c, u)' => Keeps(c, u))
    BY Zenon DEF SameAnswers, Keeps, SameServer
  <2>3. SameWorker(c)
    BY <2>1, <2>2, Zenon DEF SameWorker
  <2> QED BY <1>1, <2>3, WorkerFrame, Zenon
<1> QED BY <1>2, <1>3, <1>4, Zenon DEF SchedOK

\* Steps of one thread in the lock that the scheduler does not see
LEMMA LockOnly ==
    ASSUME SchedInv, NEW t \in Thread, Quiet(t), pc[t] # "held", pc'[t] # "held",
           t \in Cpu => WorkerInv(t)', UNCHANGED server,
           UNCHANGED <<fresh, submitting, inQueue, ready, running, ended, cpuPid>>
    PROVE  SchedOK'
<1>1. ServerInv /\ PlaceInv /\ \A c \in Cpu : WorkerInv(c)
  BY Zenon DEF SchedInv, SchedOK
<1>2. ServerInv'
  BY <1>1, Zenon DEF ServerInv, Quiet
<1>3. PlaceInv'
  <2>1. \A u \in Tasks : SamePlace(u)
    BY Zenon DEF SamePlace, SameAnswers, Quiet
  <2> QED BY <1>1, <2>1, PlaceSame, PlaceStep, Zenon
<1>4. ASSUME NEW c \in Cpu PROVE WorkerInv(c)'
  <2>1. CASE c = t
    BY <2>1, Zenon
  <2>2. CASE c # t
    <3>1. pc'[c] = pc[c] /\ mode'[c] = mode[c] /\ c \in Thread
      BY <2>2, Zenon DEF Quiet, Thread
    <3>2. Serves(c)' => Serves(c) /\ items'[c].flags = items[c].flags
      BY <1>1, <3>1, Zenon DEF Serves, ServerInv, Quiet
    <3>3. \A u \in Tasks : (HasAnswer(c, u)' => HasAnswer(c, u)) /\ (Keeps(c, u)' => Keeps(c, u))
      BY Zenon DEF SameAnswers, Keeps, Quiet
    <3>4. SameWorker(c)
      BY <3>1, <3>2, <3>3, Zenon DEF SameWorker, Inside
    <3> QED BY <1>1, <3>4, WorkerFrame, Zenon
  <2> QED BY <2>1, <2>2, Zenon
<1> QED BY <1>2, <1>3, <1>4, Zenon DEF SchedOK

\* All workers but one are as before.
LEMMA WorkersStep ==
    ASSUME SchedInv, NEW t, \A c \in Cpu : c # t => SameWorker(c), t \in Cpu => WorkerInv(t)'
    PROVE  \A c \in Cpu : WorkerInv(c)'
<1> TAKE c \in Cpu
<1>1. CASE c = t
  BY <1>1, Zenon
<1>2. CASE c # t
  BY <1>2, WorkerFrame, Zenon DEF SchedInv, SchedOK
<1> QED BY <1>1, <1>2, Zenon

\* Steps outside the lock
LEMMA Outside ==
    ASSUME UNCHANGED lockvars
    PROVE  SameAnswers /\ UNCHANGED <<pc, mode, items, waiters, sleepers>>
<1>1. UNCHANGED <<pc, mode, items, my, waiters, sleepers>>
  BY Zenon DEF lockvars
<1> QED BY <1>1, Zenon DEF SameAnswers, HasAnswer, Answered, Popped

\* ... of worker c leave the others alone, if the scheduler's own state does.
LEMMA OutsideOthers ==
    ASSUME UNCHANGED lockvars, UNCHANGED server, NEW t,
           \A c \in Cpu : c # t => /\ submitting'[c] = submitting[c] /\ running'[c] = running[c]
                                   /\ cpuPid'[c] = cpuPid[c]
    PROVE  \A c \in Cpu : c # t => SameWorker(c)
BY Outside, Zenon DEF SameWorker, SameAnswers, Inside, Serves, Keeps

\* A worker outside the lock has no answer and does not serve.
LEMMA OutIsOut ==
    ASSUME SchedInv, NEW c \in Cpu, pc[c] = "out"
    PROVE  ~Inside(c) /\ server.thread # c /\ \A u : ~HasAnswer(c, u)
BY Zenon DEF SchedInv, SchedOK, ServerInv, Inside, HasAnswer, Answered, Thread

\* So what is left to show of it is about the CPU's process.
LEMMA OutWorker ==
    ASSUME SchedInv, NEW c \in Cpu, pc[c] = "out", UNCHANGED lockvars, UNCHANGED server,
           ~Owned(c)' => running'[c] = NULL /\ submitting'[c] = NULL
    PROVE  WorkerInv(c)'
<1>1. SameAnswers /\ UNCHANGED <<pc, mode, items>>
  BY Outside, Zenon
<1>2. ~Inside(c)' /\ ~Serves(c)' /\ \A u \in Tasks : ~HasAnswer(c, u)' /\ ~Keeps(c, u)'
  BY <1>1, OutIsOut, Zenon DEF SameAnswers, Inside, Serves, Keeps
<1> QED BY <1>1, <1>2, Zenon DEF WorkerInv

\* The server's variables when a step does not touch them
LEMMA ServerUntouched ==
    ASSUME SchedInv, UNCHANGED server, \A t \in Thread : pc'[t] = "held" <=> pc[t] = "held"
    PROVE  SameServer
BY Zenon DEF SchedInv, SchedOK, ServerInv, SameServer
-----------------------------------------------------------------------------
(***************************************************************************)
(* The steps outside the lock.                                             *)
(***************************************************************************)

\* nosv_submit: a task enters the scheduler.
LEMMA SubmitStep ==
    ASSUME SchedInv, NEW t \in Submitter, Submit(t) PROVE SchedTypeOK' /\ SchedOK'
<1>1. PICK v \in fresh : fresh' = fresh \ {v} /\ submitting' = [submitting EXCEPT ![t] = v]
  BY Zenon DEF Submit
<1>2. /\ pc[t] = "out" /\ submitting[t] = NULL /\ (t \in Cpu => running[t] # NULL)
      /\ UNCHANGED <<lockvars, inQueue, ready, running, ended, cpuPid, registered, stop, notify, leader,
                     spin, yields, server>>
  BY Zenon DEF Submit, procvars
<1>3. SchedTypeOK /\ v \in Tasks /\ v # NULL
  BY TasksAssumption, Zenon DEF SchedInv, SchedTypeOK
<1>4. SchedTypeOK'
  BY <1>1, <1>2, <1>3 DEF SchedTypeOK
<1>5. SameAnswers /\ UNCHANGED <<pc, mode, items>>
  BY <1>2, Outside, Zenon
<1>6. submitting'[t] = v /\ \A s \in Submitter : s # t => submitting'[s] = submitting[s]
  BY <1>1, <1>3, Zenon DEF SchedTypeOK
<1>7. ServerInv'
  BY <1>2, <1>5, ServerUntouched, ServerFrame, Zenon DEF SchedInv, SchedOK
<1>8. PlaceInv'
  <2>1. ASSUME NEW u \in Tasks, u # v PROVE SamePlace(u)
    <3>1. u # NULL
      BY TasksAssumption, Zenon
    <3> QED BY <1>1, <1>2, <1>5, <1>6, <2>1, <3>1, Zenon DEF SamePlace, SameAnswers
  <2>2. Passes(v, <<"fresh", 0>>, <<"submitting", t>>)
    <3>1. \A c \in Cpu : HasAnswer(c, v)' <=> HasAnswer(c, v)
      BY <1>3, <1>5, Zenon DEF SameAnswers
    <3> QED BY <1>1, <1>2, <1>3, <1>6, <3>1 DEF At, Passes
  <2> QED BY <2>1, <2>2, PlaceMove, Zenon
<1>9. \A c \in Cpu : WorkerInv(c)'
  <2>1. \A c \in Cpu : c # t => SameWorker(c)
    BY <1>2, <1>6, OutsideOthers, Zenon DEF Submitter
  <2>2. t \in Cpu => WorkerInv(t)'
    <3>1. t \in Cpu => Owned(t)
      BY <1>2, Zenon DEF SchedInv, SchedOK, WorkerInv
    <3> QED BY <1>2, <3>1, OutWorker, Zenon DEF Owned
  <2> QED BY <2>1, <2>2, WorkersStep, Zenon
<1> QED BY <1>4, <1>7, <1>8, <1>9, Zenon DEF SchedOK

\* It goes into the submission queue.
LEMMA PushStep ==
    ASSUME SchedInv, NEW t \in Submitter, Push(t) PROVE SchedTypeOK' /\ SchedOK'
<1>1. PICK v : v = submitting[t] /\ v # NULL /\ inQueue' = inQueue \cup {v}
  BY Zenon DEF Push
<1>2. /\ pc[t] = "out" /\ submitting' = [submitting EXCEPT ![t] = NULL]
      /\ UNCHANGED <<lockvars, fresh, ready, running, ended, cpuPid, registered, stop, notify, leader,
                     spin, yields, server>>
  BY Zenon DEF Push, procvars
<1>3. SchedTypeOK /\ v \in Tasks
  BY <1>1 DEF SchedInv, SchedTypeOK
<1>4. SchedTypeOK'
  BY <1>1, <1>2, <1>3 DEF SchedTypeOK
<1>5. SameAnswers /\ UNCHANGED <<pc, mode, items>>
  BY <1>2, Outside, Zenon
<1>6. submitting'[t] = NULL /\ \A s \in Submitter : s # t => submitting'[s] = submitting[s]
  BY <1>2, <1>3, Zenon DEF SchedTypeOK
<1>7. ServerInv'
  BY <1>2, <1>5, ServerUntouched, ServerFrame, Zenon DEF SchedInv, SchedOK
<1>8. PlaceInv'
  <2>1. ASSUME NEW u \in Tasks, u # v PROVE SamePlace(u)
    <3>1. u # NULL
      BY TasksAssumption, Zenon
    <3> QED BY <1>1, <1>2, <1>5, <1>6, <2>1, <3>1, Zenon DEF SamePlace, SameAnswers
  <2>2. Passes(v, <<"submitting", t>>, <<"inQueue", 0>>)
    <3>1. \A c \in Cpu : HasAnswer(c, v)' <=> HasAnswer(c, v)
      BY <1>3, <1>5, Zenon DEF SameAnswers
    <3> QED BY <1>1, <1>2, <1>3, <1>6, <3>1 DEF At, Passes
  <2> QED BY <2>1, <2>2, PlaceMove, Zenon
<1>9. \A c \in Cpu : WorkerInv(c)'
  <2>1. \A c \in Cpu : c # t => SameWorker(c)
    BY <1>2, <1>6, OutsideOthers, Zenon DEF Submitter
  <2>2. t \in Cpu => WorkerInv(t)'
    <3>1. t \in Cpu => Owned(t)
      BY <1>1, Zenon DEF SchedInv, SchedOK, WorkerInv
    <3> QED BY <1>2, <3>1, OutWorker, Zenon DEF Owned
  <2> QED BY <2>1, <2>2, WorkersStep, Zenon
<1> QED BY <1>4, <1>7, <1>8, <1>9, Zenon DEF SchedOK

\* The end of a task
LEMMA EndStep ==
    ASSUME SchedInv, NEW c \in Cpu, EndTask(c) PROVE SchedTypeOK' /\ SchedOK'
<1>1. PICK v : v = running[c] /\ v # NULL /\ ended' = ended \cup {v}
  BY Zenon DEF EndTask
<1>2. /\ pc[c] = "out" /\ submitting[c] = NULL /\ running' = [running EXCEPT ![c] = NULL]
      /\ UNCHANGED <<lockvars, fresh, submitting, inQueue, ready, cpuPid, registered, stop,
                     leader, spin, yields, server>>
  BY Zenon DEF EndTask
<1>3. SchedTypeOK /\ v \in Tasks
  BY <1>1 DEF SchedInv, SchedTypeOK
<1>4. SchedTypeOK'
  <2>1. notify' \in [Pids -> BOOLEAN]
    BY <1>3 DEF EndTask, SchedTypeOK
  <2> QED BY <1>1, <1>2, <1>3, <2>1 DEF SchedTypeOK
<1>5. SameAnswers /\ UNCHANGED <<pc, mode, items>>
  BY <1>2, Outside, Zenon
<1>6. running'[c] = NULL /\ \A d \in Cpu : d # c => running'[d] = running[d]
  BY <1>2, <1>3, Zenon DEF SchedTypeOK
<1>7. ServerInv'
  BY <1>2, <1>5, ServerUntouched, ServerFrame, Zenon DEF SchedInv, SchedOK
<1>8. PlaceInv'
  <2>1. ASSUME NEW u \in Tasks, u # v PROVE SamePlace(u)
    <3>1. u # NULL
      BY TasksAssumption, Zenon
    <3> QED BY <1>1, <1>2, <1>5, <1>6, <2>1, <3>1, Zenon DEF SamePlace, SameAnswers
  <2>2. Passes(v, <<"running", c>>, <<"ended", 0>>)
    <3>1. \A d \in Cpu : HasAnswer(d, v)' <=> HasAnswer(d, v)
      BY <1>3, <1>5, Zenon DEF SameAnswers
    <3> QED BY <1>1, <1>2, <1>3, <1>6, <3>1 DEF At, Passes
  <2> QED BY <2>1, <2>2, PlaceMove, Zenon
<1>9. \A d \in Cpu : WorkerInv(d)'
  <2>1. \A d \in Cpu : d # c => SameWorker(d)
    BY <1>2, <1>6, OutsideOthers, Zenon
  <2>2. WorkerInv(c)'
    BY <1>2, <1>6, OutWorker, Zenon
  <2> QED BY <2>1, <2>2, WorkersStep, Zenon
<1> QED BY <1>4, <1>7, <1>8, <1>9, Zenon DEF SchedOK

\* The killer task, and the leader that waits for the other workers
LEMMA KillerStep ==
    ASSUME SchedInv, NEW c \in Cpu, KillerUnregister(c) \/ KillerSignal(c) \/ LeaderRetry(c)
    PROVE  SchedTypeOK' /\ SchedOK'
<1>1. UNCHANGED <<lockvars, fresh, submitting, inQueue, ready, running, ended, cpuPid, spin, yields, server>>
  BY Zenon DEF KillerUnregister, KillerSignal, LeaderRetry, taskvars
<1>2. SchedTypeOK
  BY Zenon DEF SchedInv
<1>3. SchedTypeOK'
  <2>1. CASE KillerUnregister(c)
    BY <1>1, <1>2, <2>1 DEF KillerUnregister, SchedTypeOK
  <2>2. CASE KillerSignal(c)
    BY <1>1, <1>2, <2>2 DEF KillerSignal, SchedTypeOK
  <2>3. CASE LeaderRetry(c)
    BY <1>1, <1>2, <2>3 DEF LeaderRetry, SchedTypeOK
  <2> QED BY <2>1, <2>2, <2>3
<1>4. SameAnswers /\ UNCHANGED <<pc, mode, items>>
  BY <1>1, Outside, Zenon
<1>5. SameServer
  BY <1>1, <1>4, ServerUntouched, Zenon
<1>6. SchedOK'
  BY <1>1, <1>4, <1>5, Bookkeeping, Zenon DEF Inside
<1> QED BY <1>3, <1>6

\* A worker that stops gives its CPU away.
LEMMA ExitStep ==
    ASSUME SchedInv, NEW c \in Cpu, WorkerExit(c) \/ LeaderExit(c),
           registered # {} => Least(registered) \in Pids
    PROVE  SchedTypeOK' /\ SchedOK'
<1>1. /\ pc[c] = "out" /\ running[c] = NULL /\ submitting[c] = NULL /\ TransferToIdle(c)
      /\ UNCHANGED <<lockvars, fresh, submitting, inQueue, ready, running, ended, registered, stop,
                     notify, leader, spin, yields, server>>
  BY Zenon DEF WorkerExit, LeaderExit, InLoop, taskvars
<1>2. SchedTypeOK
  BY Zenon DEF SchedInv
<1>3. PICK p \in Pids \cup {-1} : cpuPid' = [cpuPid EXCEPT ![c] = p]
  BY <1>1, Zenon DEF TransferToIdle
<1>4. SchedTypeOK'
  BY <1>1, <1>2, <1>3 DEF SchedTypeOK
<1>5. SameAnswers /\ UNCHANGED <<pc, mode, items>>
  BY <1>1, Outside, Zenon
<1>6. \A d \in Cpu : d # c => cpuPid'[d] = cpuPid[d]
  BY <1>2, <1>3, Zenon DEF SchedTypeOK
<1>7. ServerInv'
  BY <1>1, <1>5, ServerUntouched, ServerFrame, Zenon DEF SchedInv, SchedOK
<1>8. PlaceInv'
  <2>1. \A u \in Tasks : SamePlace(u)
    BY <1>1, <1>5, Zenon DEF SamePlace, SameAnswers
  <2> QED BY <2>1, PlaceSame, PlaceStep, Zenon DEF SchedInv, SchedOK
<1>9. \A d \in Cpu : WorkerInv(d)'
  <2>1. \A d \in Cpu : d # c => SameWorker(d)
    BY <1>1, <1>6, OutsideOthers, Zenon
  <2>2. WorkerInv(c)'
    BY <1>1, OutWorker, Zenon
  <2> QED BY <2>1, <2>2, WorkersStep, Zenon
<1> QED BY <1>4, <1>7, <1>8, <1>9, Zenon DEF SchedOK
-----------------------------------------------------------------------------
(***************************************************************************)
(* The steps of a thread that enters the lock.                             *)
(***************************************************************************)

\* A step that leaves the scheduler's state alone
LEMMA SchedTypeSame == ASSUME SchedInv, UNCHANGED schedvars PROVE SchedTypeOK'
BY Zenon DEF SchedInv, SchedTypeOK, schedvars

\* Who is not in the lock is not the server.
LEMMA NotServer ==
    ASSUME SchedInv, NEW t \in Thread, pc[t] # "held" PROVE server.thread # t
BY Zenon DEF SchedInv, SchedOK, ServerInv

\* scheduler_get, blocking or not
LEMMA GetStep ==
    ASSUME SchedInv, NEW c \in Cpu, GetBlocking(c) \/ GetNonblocking(c),
           Quiet(c), pc[c] = "out", Inside(c)'
    PROVE  SchedTypeOK' /\ SchedOK'
<1>2. UNCHANGED <<fresh, submitting, inQueue, ready, running, ended, cpuPid, registered, stop, notify,
                  leader, spin, server>>
  BY Zenon DEF GetBlocking, GetNonblocking, schedvars, taskvars, procvars
<1>3. Quiet(c) /\ pc[c] = "out" /\ Inside(c)' /\ c \in Thread
  BY Zenon DEF Thread
<1>4. submitting[c] = NULL /\ Owned(c)
  <2>1. WorkerInv(c)
    BY Zenon DEF SchedInv, SchedOK
  <2> QED BY <2>1, Zenon DEF GetBlocking, GetNonblocking, InLoop, WorkerInv
<1>5. SchedTypeOK'
  <2>1. yields' \in Nat
    BY DEF GetBlocking, GetNonblocking, schedvars, SchedInv, SchedTypeOK
  <2> QED BY <1>2, <2>1, Zenon DEF SchedInv, SchedTypeOK
<1>6. WorkerInv(c)'
  <2>1. server.thread # c /\ \A u : ~HasAnswer(c, u)
    BY <1>3, OutIsOut, Zenon
  <2>2. ~Serves(c)' /\ \A u \in Tasks : ~HasAnswer(c, u)' /\ ~Keeps(c, u)'
    BY <1>2, <1>3, <2>1, Zenon DEF Serves, Keeps, Quiet, SameAnswers
  <2> QED BY <1>2, <1>4, <2>2, Zenon DEF WorkerInv, Owned
<1>7. pc[c] # "held" /\ pc'[c] # "held"
  BY <1>3 DEF Inside
<1> QED BY <1>2, <1>3, <1>5, <1>6, <1>7, LockOnly, Zenon

\* From the ticket to the answer
LEMMA ClientStepKept ==
    ASSUME SchedInv, NEW c \in Cpu, UNCHANGED schedvars, Quiet(c), Inside(c), Inside(c)', mode' = mode
    PROVE  SchedTypeOK' /\ SchedOK'
<1>1. Quiet(c) /\ Inside(c) /\ Inside(c)' /\ mode' = mode /\ c \in Thread
  BY Zenon DEF Thread
<1>2. pc[c] # "held" /\ pc'[c] # "held" /\ pc[c] # "out"
  BY <1>1 DEF Inside
<1>3. UNCHANGED <<fresh, submitting, inQueue, ready, running, ended, cpuPid, server>>
  BY Zenon DEF schedvars
<1>4. SameWorker(c)
  <2>1. server.thread # c
    BY <1>1, <1>2, NotServer, Zenon
  <2> QED BY <1>1, <1>2, <1>3, <2>1, Zenon DEF SameWorker, Serves, Keeps, Quiet, SameAnswers
<1>5. WorkerInv(c)'
  BY <1>4, WorkerFrame, Zenon DEF SchedInv, SchedOK
<1> QED BY <1>1, <1>2, <1>3, <1>5, LockOnly, SchedTypeSame, Zenon

\* dtlock_try_lock, up to the point where it succeeds
LEMMA TryFailStep ==
    ASSUME SchedInv, NEW t \in Submitter, UNCHANGED schedvars, Quiet(t), mode' = mode,
           pc[t] \in {"out", "try", "cas"}, pc'[t] \in {"out", "try", "cas"},
           pc[t] = "out" => submitting[t] # NULL
    PROVE  SchedTypeOK' /\ SchedOK'
<1>1. Quiet(t) /\ mode' = mode /\ t \in Thread /\ pc[t] \in {"out", "try", "cas"}
  BY Zenon DEF Submitter, Thread
<1>2. UNCHANGED <<fresh, submitting, inQueue, ready, running, ended, cpuPid, server>>
  BY Zenon DEF schedvars
<1>3. pc[t] # "held" /\ pc'[t] # "held" /\ server.thread # t
  BY <1>1, NotServer
<1>4. ASSUME t \in Cpu PROVE WorkerInv(t)'
  <2>1. WorkerInv(t)
    BY <1>4, Zenon DEF SchedInv, SchedOK
  <2>2. Owned(t)
    BY <2>1, Zenon DEF WorkerInv
  <2>3. ~Inside(t)'
    BY Zenon DEF Inside
  <2>4. ~Serves(t)' /\ \A u \in Tasks : (HasAnswer(t, u)' => HasAnswer(t, u)) /\ ~Keeps(t, u)'
    BY <1>1, <1>2, <1>3, <1>4, Zenon DEF Serves, Keeps, Quiet, SameAnswers
  <2> QED BY <1>1, <1>2, <2>1, <2>2, <2>3, <2>4, Zenon DEF WorkerInv, Owned
<1> QED BY <1>1, <1>2, <1>3, <1>4, LockOnly, SchedTypeSame, Zenon

\* A thread becomes the holder, whichever way.
LEMMA EnterStep ==
    ASSUME SchedInv, NEW t \in Submitter, NEW drain \in BOOLEAN, Quiet(t), mode' = mode,
           pc[t] # "out", pc'[t] = "held", \A s \in Thread : pc[s] # "held",
           server' \in Locals, server'.thread = t, server'.task = NULL, server'.phase = "ready",
           server'.drain = drain,
           ~drain => t \in Cpu /\ submitting[t] = NULL /\ items'[t].flags = mode[t],
           UNCHANGED <<taskvars, procvars, spin, yields>>
    PROVE  SchedTypeOK' /\ SchedOK'
<1>1. UNCHANGED <<fresh, submitting, inQueue, ready, running, ended, cpuPid, registered, stop, notify,
                  leader, spin, yields>>
  BY Zenon DEF taskvars, procvars
<1>2. SchedTypeOK /\ ServerInv /\ t \in Thread
  BY Zenon DEF SchedInv, SchedOK, Submitter, Thread
<1>3. server'.thread = t /\ server'.task = NULL /\ server'.phase = "ready" /\ server'.drain = drain
  OBVIOUS
<1>4. server.task = NULL
  <2>1. server.thread = NoThread
    BY <1>2 DEF ServerInv, SchedTypeOK, Submitter, Thread
  <2> QED BY <1>2, <2>1, Zenon DEF ServerInv
<1>5. SchedTypeOK'
  BY <1>1, <1>2, Zenon DEF SchedTypeOK, Locals
<1>6. ServerInv'
  <2>1. t # NoThread
    BY <1>2, CallsAssumption, Zenon
  <2> QED BY <1>2, <1>3, <2>1, Zenon DEF ServerInv, Quiet
<1>7. PlaceInv'
  <2>1. \A u \in Tasks : SamePlace(u)
    BY <1>1, <1>3, <1>4, Zenon DEF SamePlace, SameAnswers, Quiet
  <2> QED BY <2>1, PlaceSame, PlaceStep, Zenon DEF SchedInv, SchedOK
<1>8. \A u \in Tasks : u # NULL
  BY TasksAssumption, Zenon
<1>9. ASSUME NEW c \in Cpu, c # t PROVE SameWorker(c)
  <2>1. pc'[c] = pc[c]
    BY <1>9, Zenon DEF Quiet, Thread
  <2> QED BY <1>1, <1>3, <1>9, <2>1, Zenon DEF SameWorker, Inside, Serves, Keeps, Quiet, SameAnswers
<1>10. ASSUME t \in Cpu PROVE WorkerInv(t)'
  <2>1. WorkerInv(t)
    BY <1>10, Zenon DEF SchedInv, SchedOK
  <2>2. Owned(t) /\ ~Inside(t)'
    BY <2>1, Zenon DEF WorkerInv, Inside
  <2>3. \A u \in Tasks : (HasAnswer(t, u)' => HasAnswer(t, u)) /\ ~Keeps(t, u)'
    BY <1>3, <1>8, <1>10, Zenon DEF Keeps, Quiet, SameAnswers
  <2>4. Serves(t)' => submitting[t] = NULL /\ items'[t].flags = mode[t]
    BY <1>3, Zenon DEF Serves
  <2> QED BY <1>1, <2>1, <2>2, <2>3, <2>4, Zenon DEF WorkerInv, Owned
<1> QED BY <1>5, <1>6, <1>7, <1>9, <1>10, WorkersStep, Zenon DEF SchedOK

-----------------------------------------------------------------------------
(***************************************************************************)
(* A worker goes on with the task that it was given.                       *)
(***************************************************************************)

\* u is an answer or kept by the server, and that place is p.
Handed(p, u) ==
    \/ \E c \in Cpu : p = <<"answer", c>> /\ HasAnswer(c, u)
    \/ p = <<"server", 0>> /\ server.task = u

\* The task leaves the scheduler for c, and the one that ran there goes back.
LEMMA TakePlace ==
    ASSUME SchedInv, NEW c \in Cpu, NEW v \in Tasks, NEW p0, Handed(p0, v), submitting[c] = NULL,
           running' = [running EXCEPT ![c] = v], submitting' = [submitting EXCEPT ![c] = running[c]],
           UNCHANGED <<fresh, inQueue, ready, ended>>,
           \A u \in Tasks : u # v => \A q : Handed(q, u)' <=> Handed(q, u),
           \A q : ~Handed(q, v)'
    PROVE  PlaceInv'
<1>1. c \in Submitter /\ \A u \in Tasks : u # NULL
  BY TasksAssumption, Zenon DEF Submitter
<1>2. running'[c] = v /\ \A d \in Cpu : d # c => running'[d] = running[d]
  BY Zenon DEF SchedInv, SchedTypeOK
<1>3. submitting'[c] = running[c] /\ \A t \in Submitter : t # c => submitting'[t] = submitting[t]
  BY <1>1, Zenon DEF SchedInv, SchedTypeOK
<1>4. \A q : At(q, v) <=> q = p0
  <2>1. At(p0, v)
    BY Zenon DEF At, Handed
  <2> QED BY <2>1 DEF SchedInv, SchedOK, PlaceInv, Placed
<1>5. /\ v \notin fresh /\ v \notin inQueue /\ v \notin ready /\ v \notin ended
      /\ \A t \in Submitter : submitting[t] # v
      /\ \A d \in Cpu : running[d] # v
  <2>1. \A x : /\ <<"fresh", 0>> # p0 /\ <<"inQueue", 0>> # p0 /\ <<"ready", 0>> # p0 /\ <<"ended", 0>> # p0
               /\ <<"submitting", x>> # p0 /\ <<"running", x>> # p0
    BY DEF Handed
  <2>2. /\ v \in fresh => At(<<"fresh", 0>>, v)
        /\ v \in inQueue => At(<<"inQueue", 0>>, v)
        /\ v \in ready => At(<<"ready", 0>>, v)
        /\ v \in ended => At(<<"ended", 0>>, v)
        /\ \A t \in Submitter : submitting[t] = v => At(<<"submitting", t>>, v)
        /\ \A d \in Cpu : running[d] = v => At(<<"running", d>>, v)
    BY Zenon DEF At
  <2>3. \A q : q # p0 => ~At(q, v)
    BY <1>4, Zenon
  <2>4. /\ ~At(<<"fresh", 0>>, v) /\ ~At(<<"inQueue", 0>>, v) /\ ~At(<<"ready", 0>>, v) /\ ~At(<<"ended", 0>>, v)
        /\ \A x : ~At(<<"submitting", x>>, v) /\ ~At(<<"running", x>>, v)
    BY <2>1, <2>3
  <2> QED BY <2>2, <2>4, Zenon
<1>6. Passes(v, p0, <<"running", c>>)
  <2>1. \A q : At(q, v)' <=> q = <<"running", c>>
    BY <1>1, <1>2, <1>3, <1>5 DEF At, Handed
  <2> QED BY <1>4, <2>1 DEF Passes
<1>7. ASSUME NEW u \in Tasks, u # v, u # running[c] PROVE Stays(u)
  BY <1>1, <1>2, <1>3, <1>7 DEF At, Handed, Stays
<1>8. ASSUME NEW u \in Tasks, u # v, u = running[c]
      PROVE  Passes(u, <<"running", c>>, <<"submitting", c>>)
  BY <1>1, <1>2, <1>3, <1>8 DEF At, Handed, Passes
<1>9. \A u \in Tasks : Stays(u) \/ Moves(u)
  BY <1>6, <1>7, <1>8, Zenon DEF Moves
<1> QED BY <1>9, PlaceStep, Zenon DEF SchedInv, SchedOK

\* What Take changes, when there is a task
LEMMA TakeType ==
    ASSUME SchedInv, NEW c \in Cpu, NEW v \in Tasks, Take(c, v)
    PROVE  /\ running' = [running EXCEPT ![c] = v] /\ submitting' = [submitting EXCEPT ![c] = running[c]]
           /\ cpuPid' = [cpuPid EXCEPT ![c] = TaskPid[v]]
           /\ running' \in [Cpu -> Tasks \cup {NULL}] /\ submitting' \in [Submitter -> Tasks \cup {NULL}]
           /\ cpuPid' \in [Cpu -> Pids \cup {-1}] /\ Owned(c)'
           /\ \A d \in Cpu : d # c => /\ running'[d] = running[d] /\ submitting'[d] = submitting[d]
                                      /\ cpuPid'[d] = cpuPid[d]
<1>1. v # NULL /\ TaskPid[v] \in Pids /\ TaskPid[v] # -1 /\ c \in Submitter
  BY TasksAssumption, PidsAssumption DEF Submitter
<1>2. /\ running' = [running EXCEPT ![c] = v] /\ submitting' = [submitting EXCEPT ![c] = running[c]]
      /\ cpuPid' = [cpuPid EXCEPT ![c] = TaskPid[v]]
  BY <1>1, Zenon DEF Take
<1>3. SchedTypeOK
  BY Zenon DEF SchedInv
<1>4. /\ running' \in [Cpu -> Tasks \cup {NULL}] /\ submitting' \in [Submitter -> Tasks \cup {NULL}]
      /\ cpuPid' \in [Cpu -> Pids \cup {-1}]
  BY <1>1, <1>2, <1>3 DEF SchedTypeOK
<1>5. cpuPid'[c] = TaskPid[v]
  BY <1>2, <1>3, Zenon DEF SchedTypeOK
<1>6. \A d \in Cpu : d # c => /\ running'[d] = running[d] /\ submitting'[d] = submitting[d]
                              /\ cpuPid'[d] = cpuPid[d]
  BY <1>2, <1>3, Zenon DEF SchedTypeOK, Submitter
<1> QED BY <1>1, <1>2, <1>4, <1>5, <1>6, Zenon DEF Owned

\* A worker was served.
LEMMA ServedStep ==
    ASSUME SchedInv, NEW c \in Cpu, Served(c), Receives(c) PROVE SchedTypeOK' /\ SchedOK'
<1>0. PICK i : i = items[c].item
  OBVIOUS
<1>1. /\ Take(c, IF i = RETRY THEN NULL ELSE i)
      /\ UNCHANGED <<fresh, inQueue, ready, ended, registered, stop, notify, leader, spin, yields, server>>
  BY <1>0, Zenon DEF Served
<1>2. /\ Inside(c) /\ Answered(c) /\ mode' = mode /\ items' = items /\ c \in Thread
      /\ pc'[c] = (IF i = RETRY THEN "ticket" ELSE "out")
      /\ \A u \in Thread : u # c => pc'[u] = pc[u]
      /\ \A u \in Tasks : ~HasAnswer(c, u)'
      /\ \A d \in Cpu, u \in Tasks : d # c => (HasAnswer(d, u)' <=> HasAnswer(d, u))
  BY <1>0, Zenon DEF Receives, Thread
<1>3. SchedTypeOK /\ ServerInv /\ WorkerInv(c) /\ i \in Tasks \cup {NULL, RETRY}
  BY <1>0, TasksAssumption DEF SchedInv, SchedOK, TypeOK
<1>4. pc[c] # "held" /\ pc'[c] # "held" /\ pc[c] # "out" /\ server.thread # c
  <2>1. pc[c] # "held" /\ pc'[c] # "held" /\ pc[c] # "out"
    BY <1>2 DEF Inside
  <2> QED BY <1>2, <2>1, NotServer, Zenon
<1>5. submitting[c] = NULL /\ Owned(c)
  BY <1>2, <1>3, <1>4, Zenon DEF WorkerInv
<1>6. ServerInv'
  <2>1. SameServer
    BY <1>1, <1>2, <1>4, ServerUntouched, Zenon
  <2> QED BY <1>3, <2>1, ServerFrame, Zenon
<1>7. ~Serves(c)' /\ \A u \in Tasks : ~Keeps(c, u)'
  BY <1>1, <1>4, Zenon DEF Serves, Keeps
<1>8. ASSUME \A d \in Cpu : d # c => /\ running'[d] = running[d] /\ submitting'[d] = submitting[d]
                                     /\ cpuPid'[d] = cpuPid[d]
      PROVE  \A d \in Cpu : d # c => SameWorker(d)
  BY <1>1, <1>2, <1>8, Zenon DEF SameWorker, Inside, Serves, Keeps, Thread
<1>9. CASE i \in {NULL, RETRY}
  <2>1. UNCHANGED <<running, submitting, cpuPid>> /\ i \notin Tasks
    BY <1>1, <1>9, TasksAssumption, Zenon DEF Take
  <2>2. SchedTypeOK'
    BY <1>1, <1>3, <2>1, Zenon DEF SchedTypeOK
  <2>3. PlaceInv'
    <3>1. \A u \in Tasks : ~HasAnswer(c, u)
      BY <1>0, <2>1, Zenon DEF HasAnswer
    <3>2. \A u \in Tasks : SamePlace(u)
      BY <1>1, <1>2, <2>1, <3>1, Zenon DEF SamePlace
    <3> QED BY <3>2, PlaceSame, PlaceStep, Zenon DEF SchedInv, SchedOK
  <2>4. WorkerInv(c)'
    BY <1>2, <1>5, <1>7, <2>1, Zenon DEF WorkerInv, Owned
  <2> QED BY <1>6, <1>8, <2>1, <2>2, <2>3, <2>4, WorkersStep, Zenon DEF SchedOK
<1>10. CASE i \in Tasks
  <2>1. i # RETRY /\ Take(c, i) /\ pc'[c] = "out"
    BY <1>1, <1>2, <1>10, TasksAssumption, Zenon
  <2>2. SchedTypeOK'
    BY <1>1, <1>3, <1>10, <2>1, TakeType, Zenon DEF SchedTypeOK
  <2>3. PlaceInv'
    <3>1. HasAnswer(c, i) /\ Handed(<<"answer", c>>, i)
      BY <1>0, <1>2, Zenon DEF HasAnswer, Handed
    <3>2. \A u \in Tasks : u # i => ~HasAnswer(c, u)
      BY <1>0, Zenon DEF HasAnswer
    <3>3. \A u \in Tasks : u # i => \A q : Handed(q, u)' <=> Handed(q, u)
      BY <1>1, <1>2, <3>2, Zenon DEF Handed
    <3>4. \A q : At(q, i) <=> q = <<"answer", c>>
      <4>1. At(<<"answer", c>>, i)
        BY <3>1, Zenon DEF At
      <4> QED BY <1>10, <4>1 DEF SchedInv, SchedOK, PlaceInv, Placed
    <3>5. server.task # i /\ \A d \in Cpu : HasAnswer(d, i) => d = c
      <4>1. /\ server.task = i => At(<<"server", 0>>, i)
            /\ \A d \in Cpu : HasAnswer(d, i) => At(<<"answer", d>>, i)
        BY Zenon DEF At
      <4>2. /\ <<"server", 0>> # <<"answer", c>>
            /\ \A d : <<"answer", d>> = <<"answer", c>> => d = c
        OBVIOUS
      <4>3. \A q : q # <<"answer", c>> => ~At(q, i)
        BY <3>4, Zenon
      <4>4. ~At(<<"server", 0>>, i) /\ \A d : d # c => ~At(<<"answer", d>>, i)
        BY <4>2, <4>3
      <4> QED BY <4>1, <4>4, Zenon
    <3>6. \A q : ~Handed(q, i)'
      BY <1>1, <1>2, <1>10, <3>5, Zenon DEF Handed
    <3>7. /\ running' = [running EXCEPT ![c] = i] /\ submitting' = [submitting EXCEPT ![c] = running[c]]
          /\ UNCHANGED <<fresh, inQueue, ready, ended>>
      BY <1>1, <1>10, <2>1, TakeType, Zenon
    <3> QED BY <1>5, <1>10, <3>1, <3>3, <3>6, <3>7, TakePlace, Zenon
  <2>4. WorkerInv(c)'
    <3>1. Owned(c)' /\ ~Inside(c)'
      BY <1>10, <2>1, TakeType, Zenon DEF Inside
    <3> QED BY <1>2, <1>7, <3>1, Zenon DEF WorkerInv
  <2>5. \A d \in Cpu : d # c => SameWorker(d)
    BY <1>8, <1>10, <2>1, TakeType, Zenon
  <2> QED BY <1>6, <2>2, <2>3, <2>4, <2>5, WorkersStep, Zenon DEF SchedOK
<1> QED BY <1>3, <1>9, <1>10, Zenon

\* dtlock_unlock, and the return to the worker
LEMMA LeaveStep ==
    ASSUME SchedInv, NEW t \in Submitter, Leave(t),
           Quiet(t), pc[t] = "held", pc'[t] = "out", mode' = mode
    PROVE  SchedTypeOK' /\ SchedOK'
<1>0. PICK v : v = server.task
  OBVIOUS
<1>1. /\ server' = NoServer /\ server.thread = t
      /\ UNCHANGED <<fresh, inQueue, ready, ended, registered, stop, notify, leader, spin, yields>>
      /\ IF server.drain THEN UNCHANGED <<running, submitting, cpuPid>> ELSE Take(t, v)
  BY <1>0, Zenon DEF Leave, In
<1>2. SchedTypeOK /\ ServerInv /\ t \in Thread
  BY Zenon DEF SchedInv, SchedOK, Submitter, Thread
<1>3. Quiet(t) /\ pc[t] = "held" /\ pc'[t] = "out" /\ mode' = mode
  OBVIOUS
<1>4. server'.thread = NoThread /\ server'.task = NULL /\ server'.drain = FALSE
  BY <1>1 DEF NoServer
<1>5. server' \in Locals
  BY <1>1 DEF NoServer, Locals
<1>6. NoThread \notin Thread /\ NULL \notin Tasks
  BY CallsAssumption, TasksAssumption, Zenon
<1>7. ServerInv'
  BY <1>1, <1>2, <1>3, <1>4, <1>6, Zenon DEF ServerInv, Quiet
<1>8. \A c \in Cpu : ~Serves(c)' /\ \A u \in Tasks : ~Keeps(c, u)'
  BY <1>4, <1>6, Zenon DEF Serves, Keeps, Thread
<1>9. ASSUME \A d \in Cpu : d # t => /\ running'[d] = running[d] /\ submitting'[d] = submitting[d]
                                     /\ cpuPid'[d] = cpuPid[d]
      PROVE  \A d \in Cpu : d # t => SameWorker(d)
  BY <1>3, <1>8, <1>9, Zenon DEF SameWorker, Inside, Quiet, SameAnswers, Thread
<1>10. ASSUME t \in Cpu, Owned(t)' PROVE WorkerInv(t)'
  <2>1. ~Inside(t)' /\ \A u \in Tasks : ~HasAnswer(t, u)'
    BY <1>3, Zenon DEF Inside, HasAnswer, Answered
  <2> QED BY <1>8, <1>10, <2>1, Zenon DEF WorkerInv
<1>11. CASE v = NULL
  <2>1. UNCHANGED <<running, submitting, cpuPid>>
    BY <1>1, <1>11, Zenon DEF Take
  <2>2. SchedTypeOK'
    BY <1>1, <1>2, <1>5, <2>1, Zenon DEF SchedTypeOK, Locals
  <2>3. PlaceInv'
    <3>1. \A u \in Tasks : SamePlace(u)
      BY <1>0, <1>1, <1>3, <1>4, <1>11, <2>1, Zenon DEF SamePlace, Quiet, SameAnswers
    <3> QED BY <3>1, PlaceSame, PlaceStep, Zenon DEF SchedInv, SchedOK
  <2>4. t \in Cpu => WorkerInv(t)'
    <3>1. t \in Cpu => Owned(t)
      BY <1>3, Zenon DEF SchedInv, SchedOK, WorkerInv
    <3> QED BY <1>10, <2>1, <3>1, Zenon DEF Owned
  <2> QED BY <1>7, <1>9, <2>1, <2>2, <2>3, <2>4, WorkersStep, Zenon DEF SchedOK
<1>12. CASE v # NULL
  <2>1. ~server.drain /\ t \in Cpu /\ v \in Tasks /\ Take(t, v)
    BY <1>0, <1>1, <1>2, <1>6, <1>12 DEF ServerInv, SchedTypeOK
  <2>2. SchedTypeOK'
    BY <1>1, <1>2, <1>5, <2>1, TakeType, Zenon DEF SchedTypeOK, Locals
  <2>3. PlaceInv'
    <3>1. Handed(<<"server", 0>>, v)
      BY <1>0, Zenon DEF Handed
    <3>2. \A u \in Tasks : u # v => \A q : Handed(q, u)' <=> Handed(q, u)
      BY <1>0, <1>3, <1>4, <1>6, Zenon DEF Handed, Quiet, SameAnswers
    <3>3. \A q : At(q, v) <=> q = <<"server", 0>>
      <4>1. At(<<"server", 0>>, v)
        BY <1>0, Zenon DEF At
      <4> QED BY <2>1, <4>1 DEF SchedInv, SchedOK, PlaceInv, Placed
    <3>4. \A d \in Cpu : ~HasAnswer(d, v)
      <4>1. \A d \in Cpu : HasAnswer(d, v) => At(<<"answer", d>>, v)
        BY Zenon DEF At
      <4>2. \A d : <<"answer", d>> # <<"server", 0>>
        OBVIOUS
      <4>3. \A q : q # <<"server", 0>> => ~At(q, v)
        BY <3>3, Zenon
      <4>4. \A d : ~At(<<"answer", d>>, v)
        BY <4>2, <4>3
      <4> QED BY <4>1, <4>4, Zenon
    <3>5. \A q : ~Handed(q, v)'
      BY <1>3, <1>4, <1>12, <2>1, <3>4, Zenon DEF Handed, Quiet, SameAnswers
    <3>6. submitting[t] = NULL
      BY <1>1, <2>1, Zenon DEF SchedInv, SchedOK, WorkerInv, Serves
    <3>7. /\ running' = [running EXCEPT ![t] = v] /\ submitting' = [submitting EXCEPT ![t] = running[t]]
          /\ UNCHANGED <<fresh, inQueue, ready, ended>>
      BY <1>1, <2>1, TakeType, Zenon
    <3> QED BY <2>1, <3>1, <3>2, <3>5, <3>6, <3>7, TakePlace, Zenon
  <2>4. WorkerInv(t)'
    BY <1>10, <2>1, TakeType, Zenon
  <2>5. \A d \in Cpu : d # t => SameWorker(d)
    BY <1>9, <2>1, TakeType, Zenon
  <2> QED BY <1>7, <2>2, <2>3, <2>4, <2>5, WorkersStep, Zenon DEF SchedOK
<1> QED BY <1>11, <1>12, Zenon
-----------------------------------------------------------------------------
(***************************************************************************)
(* The steps of the thread in the lock.                                    *)
(***************************************************************************)

\* Its next step is in the order of scheduler_get.
Goes(phase) ==
    /\ server'.thread = server.thread /\ server'.task = server.task /\ server'.drain = server.drain
    /\ server'.phase = phase
    /\ \/ server.phase \notin {"leave", "unlock"} /\ phase \in {"ready", "shutdowns", "unlock"}
       \/ server.phase \notin {"leave", "unlock"} /\ ~server.drain
       \/ server.phase = "leave" /\ phase = "unlock"

\* The local variables that matter stay.
LEMMA GoesServer ==
    ASSUME SchedInv, NEW phase, Goes(phase), \A t \in Thread : pc'[t] = "held" <=> pc[t] = "held"
    PROVE  SameServer
BY DEF SchedInv, SchedOK, ServerInv, SameServer, Goes

\* A submitter only empties the queue and tells the processes that shut down.
LEMMA NoDrain ==
    ASSUME SchedInv, server.phase \in {"masks", "waiters", "sleepers", "policy", "own", "leave"}
    PROVE  ~server.drain
BY DEF SchedInv, SchedOK, ServerInv

\* A task is kept from the moment it is found until the lock is left.
LEMMA KeepsNothing ==
    ASSUME SchedInv, server.phase \notin {"leave", "unlock"} PROVE server.task = NULL
BY DEF SchedInv, SchedOK, ServerInv

\* Its steps that touch neither the lock nor a task
LEMMA ServerBookkeeping ==
    ASSUME SchedInv, NEW phase, Goes(phase), UNCHANGED lockvars, UNCHANGED <<taskvars, cpuPid>>
    PROVE  SchedOK'
<1>1. UNCHANGED <<fresh, submitting, inQueue, ready, running, ended, cpuPid>>
  BY Zenon DEF taskvars
<1>2. SameAnswers /\ UNCHANGED <<pc, mode, items>>
  BY Outside, Zenon
<1>3. SameServer
  BY <1>2, GoesServer, Zenon
<1> QED BY <1>1, <1>2, <1>3, Bookkeeping, Zenon DEF Inside

\* Its steps that answer a client that gets no task
LEMMA ServerReply ==
    ASSUME SchedInv, NEW phase, Goes(phase), NEW c, NEW i \in {NULL, RETRY}, Answers(c, i),
           UNCHANGED <<taskvars, cpuPid>>
    PROVE  SchedOK'
<1>1. UNCHANGED <<fresh, submitting, inQueue, ready, running, ended, cpuPid>> /\ i \notin Tasks
  BY TasksAssumption, Zenon DEF taskvars
<1>2. SameAnswers
  BY <1>1, Zenon DEF SameAnswers, Answers
<1>3. \A t \in Thread : pc'[t] = "held" <=> pc[t] = "held"
  BY Zenon DEF Answers, Inside
<1>4. SameServer
  BY <1>3, GoesServer, Zenon
<1>5. \A d \in Cpu : (Inside(d)' => Inside(d)) /\ (pc[d] = "out" => pc'[d] = "out")
  BY Zenon DEF Answers, Inside, Thread
<1> QED BY <1>1, <1>2, <1>4, <1>5, Bookkeeping, Zenon DEF Answers

\* The spin counters count.
LEMMA SpinType ==
    ASSUME SchedInv, NEW c, ResetSpin(c) \/ UNCHANGED spin PROVE spin' \in [Cpu -> Nat]
BY DEF SchedInv, SchedTypeOK, ResetSpin

\* scheduler_process_ready_tasks
LEMMA ReadyStep ==
    ASSUME SchedInv, NEW t, ProcessReady(t) PROVE SchedTypeOK' /\ SchedOK'
<1>1. /\ server.thread = t /\ server.phase = "ready" /\ ready' = ready \cup inQueue /\ inQueue' = {}
      /\ server' = [server EXCEPT !.phase = "shutdowns", !.pids = Pids, !.todo = {},
                                  !.skip = FALSE, !.served = 0]
      /\ UNCHANGED <<lockvars, fresh, submitting, running, ended, cpuPid, registered, stop, notify, leader,
                     spin, yields>>
  BY Zenon DEF ProcessReady, In, procvars
<1>2. SchedTypeOK /\ server \in Locals
  BY Zenon DEF SchedInv, SchedTypeOK, Locals
<1>3. server' \in Locals /\ Goes("shutdowns")
  BY <1>1, <1>2 DEF Locals, Goes
<1>4. SchedTypeOK'
  BY <1>1, <1>2, <1>3 DEF SchedTypeOK, Locals
<1>5. SameAnswers /\ UNCHANGED <<pc, mode, items>>
  BY <1>1, Outside, Zenon
<1>6. SameServer
  BY <1>3, <1>5, GoesServer, Zenon
<1>7. ServerInv'
  BY <1>6, ServerFrame, Zenon DEF SchedInv, SchedOK
<1>8. PlaceInv'
  <2>1. ASSUME NEW u \in Tasks
        PROVE  Stays(u) \/ Moves(u)
    <3>1. \A c \in Cpu : HasAnswer(c, u)' <=> HasAnswer(c, u)
      BY <1>5, Zenon DEF SameAnswers
    <3>2. server'.task = server.task
      BY <1>6, Zenon DEF SameServer
    <3>3. CASE u \notin inQueue
      <4>1. SamePlace(u)
        BY <1>1, <3>1, <3>2, <3>3, Zenon DEF SamePlace
      <4> QED BY <4>1, PlaceSame, Zenon
    <3>4. CASE u \in inQueue
      <4>1. Passes(u, <<"inQueue", 0>>, <<"ready", 0>>)
        BY <1>1, <3>1, <3>2, <3>4 DEF At, Passes
      <4> QED BY <4>1, Zenon DEF Moves
    <3> QED BY <3>3, <3>4, Zenon
  <2> QED BY <2>1, PlaceStep, Zenon DEF SchedInv, SchedOK
<1>9. ASSUME NEW c \in Cpu PROVE SameWorker(c)
  BY <1>1, <1>5, <1>6, Zenon DEF SameWorker, SameServer, SameAnswers, Inside, Serves, Keeps
<1> QED BY <1>4, <1>7, <1>8, <1>9, WorkerFrame, Zenon DEF SchedInv, SchedOK

\* The type invariant after a step that leaves tasks and processes alone
LEMMA ServerType ==
    ASSUME SchedInv, server' \in Locals, spin' \in [Cpu -> Nat], notify' \in [Pids -> BOOLEAN],
           UNCHANGED <<taskvars, cpuPid, registered, stop, leader, yields>>
    PROVE  SchedTypeOK'
BY Zenon DEF SchedInv, SchedTypeOK, Locals, taskvars

\* The steps of the server between two CPUs or two processes
LEMMA PhaseStep ==
    ASSUME SchedInv, NEW t, CheckShutdown(t) \/ ShutdownsChecked(t) \/ MasksUpdated(t) \/ NextBatch(t)
    PROVE  SchedTypeOK' /\ SchedOK'
<1>1. UNCHANGED <<lockvars, taskvars, cpuPid, registered, stop, leader, spin, yields>>
  BY Zenon DEF CheckShutdown, ShutdownsChecked, MasksUpdated, NextBatch, procvars
<1>2. SchedTypeOK /\ server \in Locals /\ waiters \subseteq Cpu /\ sleepers \subseteq Cpu
  BY Zenon DEF SchedInv, SchedTypeOK, Locals, TypeOK
<1>3. spin' \in [Cpu -> Nat]
  BY <1>1, <1>2, Zenon DEF SchedTypeOK
<1>4. /\ server' \in Locals /\ notify' \in [Pids -> BOOLEAN]
      /\ \E phase : Goes(phase)
  <2>1. CASE CheckShutdown(t)
    <3>1. PICK p \in server.pids :
             /\ notify' = [notify EXCEPT ![p] = FALSE]
             /\ server' = [server EXCEPT !.pids = @ \ {p},
                              !.todo = IF notify[p] THEN {c \in waiters \cup sleepers : cpuPid[c] = p}
                                                    ELSE {}]
      BY <2>1, Zenon DEF CheckShutdown
    <3>2. server.phase = "shutdowns"
      BY <2>1, Zenon DEF CheckShutdown, In
    <3>3. notify' \in [Pids -> BOOLEAN]
      BY <1>2, <3>1 DEF SchedTypeOK
    <3>4. (IF notify[p] THEN {c \in waiters \cup sleepers : cpuPid[c] = p} ELSE {}) \in SUBSET Cpu
      BY <1>2
    <3>5. server' \in Locals
      BY <1>2, <3>1, <3>4 DEF Locals
    <3>6. Goes("shutdowns")
      BY <1>2, <3>1, <3>2 DEF Goes, Locals
    <3> QED BY <3>3, <3>5, <3>6, Zenon
  <2>2. CASE ShutdownsChecked(t)
    <3>1. /\ server.phase = "shutdowns" /\ UNCHANGED notify
          /\ server' = [server EXCEPT !.phase = IF server.drain THEN "unlock" ELSE "masks"]
      BY <2>2, Zenon DEF ShutdownsChecked, In, Go, procvars
    <3>2. server' \in Locals /\ (Goes("unlock") \/ Goes("masks"))
      BY <1>2, <3>1 DEF Goes, Locals
    <3> QED BY <1>2, <3>1, <3>2, Zenon DEF SchedTypeOK
  <2>3. CASE MasksUpdated(t)
    <3>1. /\ server.phase = "masks" /\ UNCHANGED notify
          /\ \/ server' = [server EXCEPT !.phase = "waiters", !.todo = waiters]
             \/ server' = [server EXCEPT !.phase = "own"]
      BY <2>3, Zenon DEF MasksUpdated, In, Go, GoWith, procvars
    <3>2. ~server.drain
      BY <3>1, NoDrain
    <3>3. server' \in Locals /\ (Goes("waiters") \/ Goes("own"))
      BY <1>2, <3>1, <3>2 DEF Goes, Locals
    <3> QED BY <1>2, <3>1, <3>3, Zenon DEF SchedTypeOK
  <2>4. CASE NextBatch(t)
    <3>1. /\ server.phase \in {"waiters", "sleepers", "policy"} /\ UNCHANGED notify
          /\ \/ server' = [server EXCEPT !.phase = "sleepers", !.todo = sleepers]
             \/ server' = [server EXCEPT !.phase = "policy", !.todo = waiters]
             \/ server' = [server EXCEPT !.phase = "masks"]
      BY <2>4 DEF NextBatch, Go, GoWith, procvars
    <3>2. ~server.drain
      BY <3>1, NoDrain
    <3>3. CASE server' = [server EXCEPT !.phase = "sleepers", !.todo = sleepers]
      <4>1. server' \in Locals /\ Goes("sleepers")
        BY <1>2, <3>1, <3>2, <3>3 DEF Goes, Locals
      <4> QED BY <1>2, <3>1, <4>1, Zenon DEF SchedTypeOK
    <3>4. CASE server' = [server EXCEPT !.phase = "policy", !.todo = waiters]
      <4>1. server' \in Locals /\ Goes("policy")
        BY <1>2, <3>1, <3>2, <3>4 DEF Goes, Locals
      <4> QED BY <1>2, <3>1, <4>1, Zenon DEF SchedTypeOK
    <3>5. CASE server' = [server EXCEPT !.phase = "masks"]
      <4>1. server' \in Locals /\ Goes("masks")
        BY <1>2, <3>1, <3>2, <3>5 DEF Goes, Locals
      <4> QED BY <1>2, <3>1, <4>1, Zenon DEF SchedTypeOK
    <3> QED BY <3>1, <3>3, <3>4, <3>5, Zenon
  <2> QED BY <2>1, <2>2, <2>3, <2>4, Zenon
<1> QED BY <1>1, <1>3, <1>4, ServerType, ServerBookkeeping, Zenon

\* One round of dtlock_update_waiters, and a waiter that is told to sleep
LEMMA HolderQuiet ==
    ASSUME SchedInv, NEW t \in Thread, NEW phase, Goes(phase), Quiet(t), UNCHANGED <<pc, mode>>,
           UNCHANGED <<taskvars, cpuPid>>
    PROVE  SchedOK'
<1>1. UNCHANGED <<fresh, submitting, inQueue, ready, running, ended, cpuPid>>
  BY Zenon DEF taskvars
<1>2. SameServer
  BY GoesServer, Zenon
<1> QED BY <1>1, <1>2, Bookkeeping, Zenon DEF Inside, Quiet

\* governor_update_cpumasks
LEMMA MasksStep ==
    ASSUME SchedInv, NEW t \in Thread, UpdateMasks(t), Quiet(t), UNCHANGED <<pc, mode>>
    PROVE  SchedTypeOK' /\ SchedOK'
<1>1. server.phase = "masks" /\ UNCHANGED schedvars
  BY Zenon DEF UpdateMasks, In
<1>3. Goes("masks")
  BY <1>1, NoDrain DEF Goes, schedvars
<1>4. UNCHANGED <<taskvars, cpuPid>>
  BY <1>1, Zenon DEF schedvars, taskvars
<1> QED BY <1>1, <1>3, <1>4, HolderQuiet, SchedTypeSame, Zenon

\* A waiter or sleeper that is sent away without a task
LEMMA SendAwayStep ==
    ASSUME SchedInv, NEW t \in Thread, Tells(t), ShutdownServe(t) \/ WakeOne(t)
    PROVE  SchedTypeOK' /\ SchedOK'
<1>1. UNCHANGED <<taskvars, cpuPid, registered, stop, notify, leader, yields>>
  BY Zenon DEF ShutdownServe, WakeOne, procvars
<1>2. SchedTypeOK /\ server \in Locals /\ NULL \in Items /\ RETRY \in Items
  BY TasksAssumption, Zenon DEF SchedInv, SchedTypeOK, Locals
<1>3. server' \in Locals /\ \E phase : Goes(phase)
  <2>1. CASE ShutdownServe(t)
    <3>1. server.phase = "shutdowns" /\ \E c : server' = [server EXCEPT !.todo = @ \ {c}]
      BY <2>1, Zenon DEF ShutdownServe, In, DoneWith
    <3>2. server' \in Locals /\ Goes("shutdowns")
      BY <1>2, <3>1 DEF Goes, Locals
    <3> QED BY <3>2, Zenon
  <2>2. CASE WakeOne(t)
    <3>1. server.phase = "leave" /\ server' = [server EXCEPT !.phase = "unlock"]
      BY <2>2, Zenon DEF WakeOne, In, Go
    <3>2. server' \in Locals /\ Goes("unlock")
      BY <1>2, <3>1 DEF Goes, Locals
    <3> QED BY <3>2, Zenon
  <2> QED BY <2>1, <2>2, Zenon
<1>4. CASE \E c, i : i \in {NULL, RETRY} /\ ServeOrWake(t, c, i)
  <2>1. PICK c, i : i \in {NULL, RETRY} /\ i \in Items /\ ServeOrWake(t, c, i)
    BY <1>2, <1>4, Zenon
  <2>2. Answers(c, i)
    BY <2>1, Zenon DEF Tells, Replies
  <2>3. spin' \in [Cpu -> Nat]
    BY <2>1, SpinType, Zenon DEF ServeOrWake
  <2>4. notify' \in [Pids -> BOOLEAN]
    BY <1>1, <1>2, Zenon DEF SchedTypeOK
  <2> QED BY <1>1, <1>3, <2>1, <2>2, <2>3, <2>4, ServerReply, ServerType, Zenon
<1>5. CASE UNCHANGED <<lockvars, spin>>
  <2>1. spin' \in [Cpu -> Nat] /\ notify' \in [Pids -> BOOLEAN]
    BY <1>1, <1>2, <1>5, Zenon DEF SchedTypeOK
  <2> QED BY <1>1, <1>3, <1>5, <2>1, ServerBookkeeping, ServerType, Zenon
<1> QED BY <1>4, <1>5, Zenon DEF ShutdownServe, WakeOne

\* governor_apply_policy
LEMMA PolicyStep ==
    ASSUME SchedInv, NEW t \in Thread, Tells(t), ApplyPolicy(t), Least(server.todo) \in Cpu
    PROVE  SchedTypeOK' /\ SchedOK'
<1>1. /\ UNCHANGED <<taskvars, cpuPid, registered, stop, notify, leader, yields>>
      /\ server.phase = "policy" /\ \E c : server' = [server EXCEPT !.todo = @ \ {c}]
  BY Zenon DEF ApplyPolicy, In, DoneWith, procvars
<1>2. SchedTypeOK /\ server \in Locals /\ NULL \in Items /\ ~server.drain
  BY <1>1, TasksAssumption, NoDrain DEF SchedInv, SchedTypeOK, Locals
<1>3. server' \in Locals /\ Goes("policy")
  BY <1>1, <1>2 DEF Goes, Locals
<1>4. notify' \in [Pids -> BOOLEAN]
  BY <1>1, <1>2, Zenon DEF SchedTypeOK
<1>5. ASSUME NEW c, Serve(t, c, NULL), ResetSpin(c) PROVE SchedTypeOK' /\ SchedOK'
  <2>1. ServeOrWake(t, c, NULL)
    BY <1>5, Zenon DEF ServeOrWake, Serve
  <2>2. Answers(c, NULL)
    BY <1>2, <2>1, Zenon DEF Tells, Replies
  <2>3. spin' \in [Cpu -> Nat]
    BY <1>5, SpinType, Zenon
  <2> QED BY <1>1, <1>3, <1>4, <2>2, <2>3, ServerReply, ServerType, Zenon
<1>6. ASSUME NEW c, SleepCpu(t, c), ResetSpin(c) PROVE SchedTypeOK' /\ SchedOK'
  <2>1. Quiet(t) /\ UNCHANGED <<pc, mode>>
    BY <1>6, Zenon DEF Tells
  <2>2. spin' \in [Cpu -> Nat]
    BY <1>6, SpinType, Zenon
  <2> QED BY <1>1, <1>3, <1>4, <2>1, <2>2, HolderQuiet, ServerType, Zenon
<1>7. ASSUME NEW c \in Cpu, spin' = [spin EXCEPT ![c] = @ + 1], UNCHANGED lockvars
      PROVE  SchedTypeOK' /\ SchedOK'
  <2>1. spin' \in [Cpu -> Nat]
    BY <1>2, <1>7 DEF SchedTypeOK
  <2> QED BY <1>1, <1>3, <1>4, <1>7, <2>1, ServerBookkeeping, ServerType, Zenon
<1> QED BY <1>5, <1>6, <1>7, Zenon DEF ApplyPolicy

\* scheduler_serve_batch
LEMMA ServeStep ==
    ASSUME SchedInv, NEW t \in Thread, Tells(t), ServeOne(t) PROVE SchedTypeOK' /\ SchedOK'
<1>1. /\ UNCHANGED <<fresh, submitting, inQueue, running, ended, cpuPid, registered, stop, notify, leader,
                     yields>>
      /\ server.phase \in {"waiters", "sleepers"}
  BY Zenon DEF ServeOne, procvars
<1>2. SchedTypeOK /\ server \in Locals /\ ~server.drain
  BY <1>1, NoDrain DEF SchedInv, SchedTypeOK, Locals
<1>3. ASSUME NEW c, server' = [server EXCEPT !.todo = @ \ {c}, !.skip = TRUE],
             UNCHANGED <<lockvars, ready, spin>>
      PROVE  SchedTypeOK' /\ SchedOK'
  <2>1. server' \in Locals /\ \E phase : Goes(phase)
    BY <1>1, <1>2, <1>3 DEF Goes, Locals
  <2>2. spin' \in [Cpu -> Nat] /\ notify' \in [Pids -> BOOLEAN]
    BY <1>1, <1>2, <1>3, Zenon DEF SchedTypeOK
  <2>3. UNCHANGED taskvars
    BY <1>1, <1>3, Zenon DEF taskvars
  <2> QED BY <1>1, <1>3, <2>1, <2>2, <2>3, ServerBookkeeping, ServerType, Zenon
<1>4. ASSUME NEW c, NEW v \in Candidates(c), ready' = ready \ {v}, ServeOrWake(t, c, v),
             server' = [server EXCEPT !.todo = @ \ {c}, !.served = @ + 1]
      PROVE  SchedTypeOK' /\ SchedOK'
  <2>1. /\ v \in ready /\ v \in Tasks /\ v \in Items
        /\ items[c].flags = "external" => TaskPid[v] # cpuPid[c]
    BY <1>2, TasksAssumption, Zenon DEF Candidates, SchedTypeOK
  <2>2. /\ Answers(c, v) /\ c \in Cpu /\ c \in Thread
        /\ mode[c] = "external" => items[c].flags = "external"
    <3>1. /\ Answers(c, v) /\ (c \in waiters => items[c].flags = mode[c])
          /\ (c \notin waiters => mode[c] = "default")
      BY <1>4, <2>1, Zenon DEF Tells, Replies
    <3> QED BY <3>1 DEF Answers, Thread
  <2>3. server' \in Locals /\ \E phase : Goes(phase)
    <3>1. server.served + 1 \in Nat /\ server.todo \ {c} \in SUBSET Cpu
      BY <1>2 DEF Locals
    <3>2. server' \in Locals
      BY <1>2, <1>4, <3>1 DEF Locals
    <3>3. Goes(server.phase)
      BY <1>1, <1>2, <1>4 DEF Goes, Locals
    <3> QED BY <3>2, <3>3, Zenon
  <2>4. SchedTypeOK'
    <3>1. spin' \in [Cpu -> Nat]
      BY <1>4, SpinType, Zenon DEF ServeOrWake
    <3> QED BY <1>1, <1>2, <1>4, <2>3, <3>1, Zenon DEF SchedTypeOK, Locals
  <2>5. SameServer
    <3>1. \A s \in Thread : pc'[s] = "held" <=> pc[s] = "held"
      BY <2>2, Zenon DEF Answers, Inside
    <3> QED BY <2>3, <3>1, GoesServer, Zenon
  <2>6. ServerInv'
    BY <2>5, ServerFrame, Zenon DEF SchedInv, SchedOK
  <2>7. PlaceInv'
    <3>1. ASSUME NEW u \in Tasks, u # v PROVE SamePlace(u)
      BY <1>1, <1>4, <2>2, <2>5, <3>1, Zenon DEF SamePlace, Answers, SameServer
    <3>2. Passes(v, <<"ready", 0>>, <<"answer", c>>)
      <4>1. \A d \in Cpu : HasAnswer(d, v)' <=> d = c \/ HasAnswer(d, v)
        BY <2>1, <2>2, Zenon DEF Answers
      <4>2. server'.task = server.task
        BY <2>5, Zenon DEF SameServer
      <4> QED BY <2>1, <1>1, <1>4, <2>2, <4>1, <4>2 DEF At, Passes
    <3> QED BY <3>1, <3>2, PlaceMove, Zenon
  <2>8. WorkerInv(c)'
    <3>1. WorkerInv(c) /\ server.thread # c /\ pc[c] # "out"
      BY <2>2, NotServer, Zenon DEF SchedInv, SchedOK, Answers, Inside
    <3>2. Owned(c) /\ submitting[c] = NULL
      BY <2>2, <3>1, Zenon DEF WorkerInv, Answers
    <3>3. ~Serves(c)' /\ \A u \in Tasks : ~Keeps(c, u)' /\ (HasAnswer(c, u)' => u = v)
      BY <2>2, <2>5, <3>1, Zenon DEF Serves, Keeps, SameServer, Answers
    <3>4. mode'[c] = mode[c]
      BY <2>2, Zenon DEF Answers
    <3> QED BY <1>1, <2>1, <2>2, <3>2, <3>3, <3>4, Zenon DEF WorkerInv, Owned
  <2>9. ASSUME NEW d \in Cpu, d # c PROVE SameWorker(d)
    BY <1>1, <2>2, <2>5, <2>9, Zenon DEF SameWorker, Answers, SameServer, Inside, Serves, Keeps, Thread
  <2> QED BY <2>4, <2>6, <2>7, <2>8, <2>9, WorkersStep, Zenon DEF SchedOK
<1> QED BY <1>3, <1>4, Zenon DEF ServeOne

\* The server looks for a task for its own CPU.
LEMMA OwnStep ==
    ASSUME SchedInv, NEW c \in Cpu, OwnTask(c) PROVE SchedTypeOK' /\ SchedOK'
<1>1. /\ UNCHANGED <<lockvars, fresh, submitting, inQueue, running, ended, cpuPid, registered, stop, notify,
                     leader, spin, yields>>
      /\ server.thread = c /\ server.phase = "own"
  BY Zenon DEF OwnTask, In, procvars
<1>2. SchedTypeOK /\ server \in Locals /\ ~server.drain /\ server.task = NULL
  BY <1>1, NoDrain, KeepsNothing DEF SchedInv, SchedTypeOK, Locals
<1>3. ASSUME NEW phase \in {"ready", "leave"}, server' = [server EXCEPT !.phase = phase], UNCHANGED ready
      PROVE  SchedTypeOK' /\ SchedOK'
  <2>1. server' \in Locals /\ Goes(phase)
    BY <1>1, <1>2, <1>3 DEF Goes, Locals
  <2>2. spin' \in [Cpu -> Nat] /\ notify' \in [Pids -> BOOLEAN]
    BY <1>1, <1>2, Zenon DEF SchedTypeOK
  <2>3. UNCHANGED taskvars
    BY <1>1, <1>3, Zenon DEF taskvars
  <2> QED BY <1>1, <2>1, <2>2, <2>3, ServerBookkeeping, ServerType, Zenon
<1>4. ASSUME NEW v \in Candidates(c), ready' = ready \ {v},
             server' = [server EXCEPT !.phase = "leave", !.task = v]
      PROVE  SchedTypeOK' /\ SchedOK'
  <2>1. /\ v \in ready /\ v \in Tasks /\ v # NULL
        /\ items[c].flags = "external" => TaskPid[v] # cpuPid[c]
    BY <1>2, TasksAssumption, Zenon DEF Candidates, SchedTypeOK
  <2>2. /\ server' \in Locals /\ server'.thread = c /\ server'.task = v /\ server'.drain = FALSE
        /\ server'.phase = "leave"
    BY <1>1, <1>2, <1>4, <2>1 DEF Locals
  <2>3. SchedTypeOK'
    BY <1>1, <1>2, <1>4, <2>2, Zenon DEF SchedTypeOK, Locals
  <2>4. SameAnswers /\ UNCHANGED <<pc, mode, items>>
    BY <1>1, Outside, Zenon
  <2>5. ServerInv'
    <3>1. c # NoThread
      BY CallsAssumption, Zenon DEF Thread
    <3> QED BY <1>1, <2>2, <2>4, <3>1, Zenon DEF SchedInv, SchedOK, ServerInv
  <2>6. PlaceInv'
    <3>1. ASSUME NEW u \in Tasks, u # v PROVE SamePlace(u)
      <4>1. u # NULL
        BY TasksAssumption, Zenon
      <4> QED BY <1>1, <1>2, <1>4, <2>2, <2>4, <3>1, <4>1, Zenon DEF SamePlace, SameAnswers
    <3>2. Passes(v, <<"ready", 0>>, <<"server", 0>>)
      <4>1. \A d \in Cpu : HasAnswer(d, v)' <=> HasAnswer(d, v)
        BY <2>1, <2>4, Zenon DEF SameAnswers
      <4> QED BY <1>1, <1>2, <1>4, <2>1, <2>2, <4>1 DEF At, Passes
    <3> QED BY <3>1, <3>2, PlaceMove, Zenon
  <2>7. WorkerInv(c)'
    <3>1. WorkerInv(c) /\ Serves(c)
      BY <1>1, <1>2, Zenon DEF SchedInv, SchedOK, Serves
    <3>2. \A u \in Tasks : (HasAnswer(c, u)' => HasAnswer(c, u)) /\ (Keeps(c, u)' => u = v)
      BY <2>2, <2>4, Zenon DEF SameAnswers, Keeps
    <3> QED BY <1>1, <2>1, <2>4, <3>1, <3>2, Zenon DEF WorkerInv, Inside, Owned
  <2>8. ASSUME NEW d \in Cpu, d # c PROVE SameWorker(d)
    BY <1>1, <2>2, <2>4, <2>8, Zenon DEF SameWorker, SameAnswers, Inside, Serves, Keeps
  <2> QED BY <2>3, <2>5, <2>6, <2>7, <2>8, WorkersStep, Zenon DEF SchedOK
<1> QED BY <1>3, <1>4, Zenon DEF OwnTask, Go

\* dtlock_try_lock
LEMMA TryStepKept ==
    ASSUME SchedInv, LockDoes, NEW t \in Submitter, PushFull(t) \/ TryStep(t)
    PROVE  SchedTypeOK' /\ SchedOK'
<1>1. ASSUME TryLoad(t) \/ TryCheck(t) \/ TryCas(t), pc'[t] # "held", UNCHANGED schedvars,
             pc[t] = "out" => submitting[t] # NULL
      PROVE  SchedTypeOK' /\ SchedOK'
  <2>1. Quiet(t) /\ mode' = mode /\ pc[t] \in {"out", "try", "cas"} /\ pc'[t] \in {"out", "try", "cas", "held"}
    BY <1>1, Zenon DEF LockDoes
  <2>2. pc'[t] \in {"out", "try", "cas"}
    BY <1>1, <2>1, Zenon
  <2> QED BY <1>1, <2>1, <2>2, TryFailStep, Zenon
<1>2. CASE PushFull(t)
  <2>1. TryLoad(t) /\ submitting[t] # NULL /\ UNCHANGED schedvars
    BY <1>2, Zenon DEF PushFull
  <2>2. pc'[t] # "held"
    <3>1. ~TryCas(t)
      BY <2>1 DEF TryLoad, TryCas, Goto
    <3> QED BY <2>1, <3>1, Zenon DEF LockDoes
  <2> QED BY <1>1, <2>1, <2>2, Zenon
<1>3. CASE TryCheck(t) /\ UNCHANGED schedvars
  <2>1. pc[t] # "out" /\ ~TryCas(t)
    BY <1>3 DEF TryCheck, TryCas, Goto
  <2>2. pc'[t] # "held"
    BY <1>3, <2>1, Zenon DEF LockDoes
  <2> QED BY <1>1, <1>3, <2>1, <2>2, Zenon
<1>4. ASSUME TryCas(t), pc'[t] # "held", server' = server, UNCHANGED <<taskvars, procvars, spin, yields>>
      PROVE  SchedTypeOK' /\ SchedOK'
  <2>1. UNCHANGED schedvars
    BY <1>4, Zenon DEF schedvars, taskvars, procvars
  <2>2. pc[t] # "out"
    BY <1>4 DEF TryCas, Goto
  <2> QED BY <1>1, <1>4, <2>1, <2>2, Zenon
<1>5. ASSUME TryCas(t), pc'[t] = "held", UNCHANGED <<taskvars, procvars, spin, yields>>,
             server' = [NoServer EXCEPT !.thread = t, !.phase = "ready", !.drain = TRUE]
      PROVE  SchedTypeOK' /\ SchedOK'
  <2>1. Quiet(t) /\ mode' = mode /\ pc[t] = "cas" /\ \A s \in Thread : pc[s] # "held"
    BY <1>5, Zenon DEF LockDoes
  <2>2. pc[t] # "out"
    BY <2>1
  <2>3. /\ server' \in Locals /\ server'.thread = t /\ server'.task = NULL /\ server'.phase = "ready"
        /\ server'.drain = TRUE
    BY <1>5 DEF NoServer, Locals
  <2>4. TRUE \in BOOLEAN
    OBVIOUS
  <2> QED BY <1>5, <2>1, <2>2, <2>3, <2>4, EnterStep, Zenon
<1> QED BY <1>2, <1>3, <1>4, <1>5, Zenon DEF TryStep

\* A worker becomes the server.
LEMMA EnterServerStep ==
    ASSUME SchedInv, LockDoes, NEW c \in Cpu, EnterServer(c) PROVE SchedTypeOK' /\ SchedOK'
<1>1. /\ Acquire(c) /\ UNCHANGED <<taskvars, procvars, spin, yields>> /\ c \in Submitter
      /\ server' = [NoServer EXCEPT !.thread = c, !.phase = "ready"]
  BY Zenon DEF EnterServer, Submitter
<1>2. /\ Quiet(c) /\ Inside(c) /\ pc'[c] = "held" /\ mode' = mode /\ items'[c].flags = mode[c]
      /\ \A s \in Thread : pc[s] # "held"
  BY <1>1, Zenon DEF LockDoes
<1>3. submitting[c] = NULL /\ pc[c] # "out"
  BY <1>2, Zenon DEF SchedInv, SchedOK, WorkerInv, Inside
<1>4. /\ server' \in Locals /\ server'.thread = c /\ server'.task = NULL /\ server'.phase = "ready"
      /\ server'.drain = FALSE
  BY <1>1 DEF NoServer, Locals
<1>5. FALSE \in BOOLEAN
  OBVIOUS
<1> QED BY <1>1, <1>2, <1>3, <1>4, <1>5, EnterStep, Zenon
-----------------------------------------------------------------------------
(***************************************************************************)
(* The invariant.                                                          *)
(***************************************************************************)

\* At the start, tasks run or were not submitted yet.
LEMMA SchedInit == ASSUME Init, TypeOK PROVE SchedInv
<1>1. /\ running = FirstTask /\ cpuPid = FirstPid /\ submitting = [t \in Submitter |-> NULL]
      /\ fresh = Tasks \ {FirstTask[c] : c \in Cpu} /\ inQueue = {} /\ ready = {} /\ ended = {}
      /\ server = NoServer /\ pc = [t \in Thread |-> "out"] /\ mode = [c \in Cpu |-> "default"]
  BY Zenon DEF Init, LockInit
<1>2. server.thread = NoThread /\ server.task = NULL /\ server.drain = FALSE /\ server \in Locals
  BY <1>1 DEF NoServer, Locals
<1>3. SchedTypeOK
  <2>1. leader \in [Pids -> Cpu \cup {-1}] /\ spin \in [Cpu -> Nat] /\ yields \in Nat
    BY DEF Init
  <2> QED BY <1>1, <1>2, <2>1, FirstAssumption, Zenon DEF Init, SchedTypeOK, Locals
<1>4. NULL \notin Tasks /\ NoThread \notin Thread /\ \A t \in Thread : pc[t] = "out"
  BY <1>1, TasksAssumption, CallsAssumption, Zenon
<1>5. ServerInv
  BY <1>2, <1>4, Zenon DEF ServerInv
<1>6. \A c \in Cpu, u \in Tasks : ~HasAnswer(c, u)
  BY <1>4, Zenon DEF HasAnswer, Answered, Thread
<1>7. PlaceInv
  <2> SUFFICES ASSUME NEW u \in Tasks PROVE Placed(u)
    BY Zenon DEF PlaceInv
  <2>1. CASE \E c \in Cpu : FirstTask[c] = u
    <3>1. PICK c \in Cpu : FirstTask[c] = u
      BY <2>1, Zenon
    <3>2. \A d \in Cpu : FirstTask[d] = u => d = c
      BY <1>4, <3>1, FirstAssumption, Zenon
    <3>3. ASSUME NEW q PROVE At(q, u) <=> q = <<"running", c>>
      <4>1. /\ u \notin fresh /\ u \notin inQueue /\ u \notin ready /\ u \notin ended /\ server.task # u
            /\ \A t \in Submitter : submitting[t] # u
            /\ \A d \in Cpu : running[d] = u <=> d = c
        BY <1>1, <1>2, <1>4, <3>1, <3>2, Zenon
      <4>2. At(q, u) => q = <<"running", c>>
        BY <1>6, <4>1, Zenon DEF At
      <4>3. At(<<"running", c>>, u)
        BY <4>1, Zenon DEF At
      <4> QED BY <4>2, <4>3
    <3>4. PICK p : p = <<"running", c>>
      OBVIOUS
    <3>5. \A q : At(q, u) <=> q = p
      BY <3>3, <3>4
    <3> QED BY <3>5, OnlyPlace
  <2>2. CASE \A c \in Cpu : FirstTask[c] # u
    <3>1. ASSUME NEW q PROVE At(q, u) <=> q = <<"fresh", 0>>
      <4>1. /\ u \in fresh /\ u \notin inQueue /\ u \notin ready /\ u \notin ended /\ server.task # u
            /\ \A t \in Submitter : submitting[t] # u
            /\ \A d \in Cpu : running[d] # u
        BY <1>1, <1>2, <1>4, <2>2, Zenon
      <4>2. At(q, u) => q = <<"fresh", 0>>
        BY <1>6, <4>1, Zenon DEF At
      <4>3. At(<<"fresh", 0>>, u)
        BY <4>1, Zenon DEF At
      <4> QED BY <4>2, <4>3
    <3>4. PICK p : p = <<"fresh", 0>>
      OBVIOUS
    <3>5. \A q : At(q, u) <=> q = p
      BY <3>1, <3>4
    <3> QED BY <3>5, OnlyPlace
  <2> QED BY <2>1, <2>2, Zenon
<1>8. ASSUME NEW c \in Cpu PROVE WorkerInv(c)
  <2>1. pc[c] = "out" /\ ~Inside(c) /\ ~Serves(c) /\ submitting[c] = NULL
    BY <1>1, <1>2, <1>4, Zenon DEF Inside, Serves, Thread, Submitter
  <2>2. ~Owned(c) => running[c] = NULL
    BY <1>1, FirstAssumption, Zenon DEF Owned
  <2>3. \A u \in Tasks : ~Keeps(c, u)
    BY <1>2, <1>4, Zenon DEF Keeps
  <2> QED BY <1>6, <2>1, <2>2, <2>3, Zenon DEF WorkerInv
<1> QED BY <1>3, <1>5, <1>7, <1>8, Zenon DEF SchedInv, SchedOK

\* Every step keeps it.
LEMMA SchedStep ==
    ASSUME SchedInv, [Next]_vars, LockDoes, LeastIsIn PROVE SchedTypeOK' /\ SchedOK'
<1>2. CASE UNCHANGED vars
  <2>1. UNCHANGED <<lockvars, server, schedvars>>
    BY <1>2, Zenon DEF vars, schedvars
  <2>2. UNCHANGED <<fresh, submitting, inQueue, ready, running, ended, cpuPid>>
    BY <2>1, Zenon DEF schedvars
  <2>3. SameAnswers /\ UNCHANGED <<pc, mode, items>>
    BY <2>1, Outside, Zenon
  <2>4. SameServer
    BY <2>1, <2>3, ServerUntouched, Zenon
  <2> QED BY <2>1, <2>2, <2>3, <2>4, Bookkeeping, SchedTypeSame, Zenon DEF Inside
<1>1. ASSUME NEW c \in Cpu, GetBlocking(c) \/ GetNonblocking(c) PROVE SchedTypeOK' /\ SchedOK'
  <2>1. PICK m : LockOrDelegate(c, m)
    BY <1>1, Zenon DEF GetBlocking, GetNonblocking
  <2>2. Quiet(c) /\ pc[c] = "out" /\ Inside(c)'
    BY <2>1, Zenon DEF LockDoes
  <2> QED BY <1>1, <1>1, <2>2, GetStep, Zenon
<1>3. ASSUME NEW c \in Cpu, WorkerActs(c) PROVE SchedTypeOK' /\ SchedOK'
  <2>1. CASE GetBlocking(c)
    BY <1>1, <2>1, Zenon
  <2>9. CASE EndTask(c)
    BY <2>9, EndStep, Zenon
  <2>2. CASE KillerUnregister(c) \/ KillerSignal(c) \/ LeaderRetry(c)
    BY <2>2, KillerStep, Zenon
  <2>3. CASE WorkerExit(c) \/ LeaderExit(c)
    <3>1. registered # {} => Least(registered) \in Pids
      BY PidsAssumption DEF LeastIsIn, SchedInv, SchedTypeOK
    <3> QED BY <2>3, <3>1, ExitStep, Zenon
  <2>4. CASE ClientStep(c)
    <3>1. CASE EnterServer(c)
      BY <3>1, EnterServerStep, Zenon
    <3>3. CASE Served(c)
      <4>1. Receives(c)
        BY <3>3, Zenon DEF LockDoes, Served
      <4> QED BY <3>3, <4>1, ServedStep, Zenon
    <3>2. CASE /\ \/ TakeTicket(c) \/ Announce(c) \/ Delegated(c)
                  \/ Signalled(c) \/ FutexWait(c) \/ FutexSyscall(c)
               /\ UNCHANGED schedvars
      <4>1. Quiet(c) /\ Inside(c) /\ Inside(c)' /\ mode' = mode
        BY <3>2, Zenon DEF LockDoes
      <4> QED BY <3>2, <4>1, ClientStepKept, Zenon
    <3> QED BY <2>4, <3>3, <3>1, <3>2, Zenon DEF ClientStep
  <2> QED BY <1>3, <2>9, <2>1, <2>2, <2>3, <2>4, Zenon DEF WorkerActs
<1>4. ASSUME NEW c \in Cpu, GetNonblocking(c) PROVE SchedTypeOK' /\ SchedOK'
  BY <1>1, <1>4, Zenon
<1>5. ASSUME NEW t \in Submitter, Submit(t) \/ Push(t) \/ PushFull(t) \/ TryStep(t)
      PROVE  SchedTypeOK' /\ SchedOK'
  BY <1>5, SubmitStep, PushStep, TryStepKept, Zenon
<1>6. ASSUME NEW t \in Submitter, ServerStep(t) PROVE SchedTypeOK' /\ SchedOK'
  <2>1. t \in Thread
    BY Zenon DEF Submitter, Thread
  <2>9. Tells(t)
    BY <2>1, Zenon DEF LockDoes
  <2>2. CASE ProcessReady(t) \/ (t \in Cpu /\ OwnTask(t))
    BY <2>2, ReadyStep, OwnStep, Zenon
  <2>3. CASE CheckShutdown(t) \/ ShutdownsChecked(t) \/ MasksUpdated(t) \/ NextBatch(t)
    BY <2>3, PhaseStep, Zenon
  <2>4. CASE UpdateMasks(t)
    <3>1. Quiet(t) /\ UNCHANGED <<pc, mode>>
      BY <2>1, <2>4, Zenon DEF LockDoes, UpdateMasks
    <3> QED BY <2>1, <2>4, <3>1, MasksStep, Zenon
  <2>5. CASE ShutdownServe(t) \/ WakeOne(t)
    BY <2>9, <2>1, <2>5, SendAwayStep, Zenon
  <2>6. CASE ServeOne(t)
    BY <2>9, <2>1, <2>6, ServeStep, Zenon
  <2>7. CASE ApplyPolicy(t)
    <3>1. Least(server.todo) \in Cpu
      <4>1. server.todo # {}
        BY <2>7, Zenon DEF ApplyPolicy
      <4>2. server.todo \subseteq Cpu /\ server.todo \subseteq Nat
        BY SizesAssumption DEF SchedInv, SchedTypeOK, Locals, Cpu
      <4> QED BY <4>1, <4>2, Zenon DEF LeastIsIn
    <3> QED BY <2>9, <2>1, <2>7, <3>1, PolicyStep, Zenon
  <2>8. CASE Leave(t)
    <3>1. Quiet(t) /\ pc[t] = "held" /\ pc'[t] = "out" /\ mode' = mode
      BY <2>1, <2>8, Zenon DEF LockDoes, Leave
    <3> QED BY <2>8, <3>1, LeaveStep, Zenon
  <2> QED BY <1>6, <2>2, <2>3, <2>4, <2>5, <2>6, <2>7, <2>8, Zenon DEF ServerStep
<1> QED BY <1>2, <1>3, <1>4, <1>5, <1>6, Zenon DEF Next, SubmitActs, Finished
=============================================================================
