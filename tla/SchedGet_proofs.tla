--------------------------- MODULE SchedGet_proofs ---------------------------
(***************************************************************************)
(* Proofs about SchedGet, for any number of CPUs, submitting threads,      *)
(* tasks and processes, any capacity of the submission queue and any       *)
(* setting of the governor.  What the lock does is taken from the proofs   *)
(* that DTLock implements Delegation.                                      *)
(***************************************************************************)
EXTENDS SchedGet_inv, DTLock_proofs

\* The invariants of the lock and of the scheduler
JointInv == IInv /\ SchedInv
-----------------------------------------------------------------------------
(***************************************************************************)
(* The steps of the lock, as the scheduler sees them.                      *)
(***************************************************************************)

\* An answer is a reply of Delegation.
LEMMA AnswerIs == \A c \in Cpu, u \in Tasks : HasAnswer(c, u) <=> ReplyBar[c] = <<u>>
<1> TAKE c \in Cpu, u \in Tasks
<1>1. ReplyBar[c] = IF Answered(c) THEN <<items[c].item>> ELSE <<>>
  BY ReplyType, Zenon
<1>2. <<u>> # <<>> /\ (<<items[c].item>> = <<u>> <=> items[c].item = u)
  OBVIOUS
<1> QED BY <1>1, <1>2, Zenon DEF HasAnswer

\* The same in the next state
LEMMA AnswerIsNext == (\A c \in Cpu, u \in Tasks : HasAnswer(c, u) <=> ReplyBar[c] = <<u>>)'
BY AnswerIs, PTL

\* Unchanged replies are unchanged answers.
LEMMA AnswersSame == ASSUME ReplyBar' = ReplyBar PROVE SameAnswers
BY AnswerIs, AnswerIsNext, Zenon DEF SameAnswers

\* A new value of pc[t]
LEMMA Moved ==
    ASSUME IInv, NEW t \in Thread, NEW v, pc' = [pc EXCEPT ![t] = v]
    PROVE  pc'[t] = v /\ \A u \in Thread : u # t => pc'[u] = pc[u]
BY Zenon DEF IInv, TypeOK, PcOK

\* The call of dtlock_lock_or_delegate
LEMMA CallQuiet ==
    ASSUME IInv, IInv', NEW c \in Cpu, NEW m, LockOrDelegate(c, m)
    PROVE  Quiet(c) /\ pc[c] = "out" /\ Inside(c)'
<1>1. /\ pc[c] = "out" /\ pc' = [pc EXCEPT ![c] = "ticket"] /\ c \in Thread /\ UNCHANGED items
      /\ \A d \in Cpu : d # c => mode'[d] = mode[d]
  BY Zenon DEF LockOrDelegate, Goto, Thread, IInv, TypeOK
<1>2. pc'[c] = "ticket" /\ \A u \in Thread : u # c => pc'[u] = pc[u]
  BY <1>1, Moved, Zenon
<1>3. SameAnswers
  BY CallUnseen, AnswersSame, Zenon DEF D!avars
<1> QED BY <1>1, <1>2, <1>3, Zenon DEF Quiet, Inside

\* From the ticket to the answer
LEMMA ClientQuiet ==
    ASSUME IInv, IInv', NEW c \in Cpu,
           TakeTicket(c) \/ Announce(c) \/ Delegated(c) \/ Signalled(c) \/ FutexWait(c) \/ FutexSyscall(c)
    PROVE  Quiet(c) /\ Inside(c) /\ Inside(c)' /\ mode' = mode
<1>1. /\ c \in Thread /\ UNCHANGED <<items, mode>>
      /\ pc[c] \in {"ticket", "announce", "spin", "signal", "futex", "syscall"}
  BY Zenon DEF TakeTicket, Announce, Delegated, Signalled, FutexWait, FutexSyscall, Goto, Thread
<1>2. PICK v \in {"announce", "spin", "signal", "futex", "syscall", "asleep", "recv"} :
             pc' = [pc EXCEPT ![c] = v]
  BY DEF TakeTicket, Announce, Delegated, Signalled, FutexWait, FutexSyscall, Goto
<1>3. pc'[c] = v /\ \A u \in Thread : u # c => pc'[u] = pc[u]
  BY <1>1, <1>2, Moved, Zenon
<1>4. ReplyBar' = ReplyBar
  <2>1. CASE TakeTicket(c)
    BY <2>1, TakeTicketSeen, Zenon DEF D!Request
  <2>2. CASE Announce(c) \/ Delegated(c)
    BY <2>2, AnnounceUnseen, DelegatedUnseen, Zenon DEF D!avars
  <2>3. CASE Signalled(c) \/ FutexWait(c) \/ FutexSyscall(c)
    BY <2>3, ParkedUnseen, Zenon DEF D!avars
  <2> QED BY <2>1, <2>2, <2>3, Zenon
<1> QED BY <1>1, <1>3, <1>4, AnswersSame, Zenon DEF Quiet, Inside

\* dtlock_try_lock
LEMMA TryQuiet ==
    ASSUME IInv, IInv', NEW t \in Submitter, TryLoad(t) \/ TryCheck(t) \/ TryCas(t)
    PROVE  /\ Quiet(t) /\ mode' = mode /\ t \in Thread
           /\ pc[t] \in {"out", "try", "cas"} /\ pc'[t] \in {"out", "try", "cas", "held"}
           /\ ~TryCas(t) => pc'[t] # "held"
<1>1. /\ t \in Thread /\ UNCHANGED <<items, mode>> /\ pc[t] \in {"out", "try", "cas"}
  BY Zenon DEF TryLoad, TryCheck, TryCas, Goto, Thread, Submitter
<1>2. PICK v \in {"out", "try", "cas", "held"} :
             pc' = [pc EXCEPT ![t] = v] /\ (~TryCas(t) => v # "held")
  BY DEF TryLoad, TryCheck, TryCas, Goto
<1>3. pc'[t] = v /\ \A u \in Thread : u # t => pc'[u] = pc[u]
  BY <1>1, <1>2, Moved, Zenon
<1>4. ReplyBar' = ReplyBar
  BY TryCasSeen, TryUnseen, Zenon DEF D!avars, D!Request, Submitter
<1> QED BY <1>1, <1>2, <1>3, <1>4, AnswersSame, Zenon DEF Quiet

\* A worker becomes the server.
LEMMA AcquireQuiet ==
    ASSUME IInv, IInv', NEW c \in Cpu, Acquire(c)
    PROVE  /\ Quiet(c) /\ Inside(c) /\ pc'[c] = "held" /\ mode' = mode /\ c \in Thread
           /\ items'[c].flags = mode[c] /\ Owns(c)
<1>1. /\ c \in Thread /\ pc[c] = "spin" /\ pc' = [pc EXCEPT ![c] = "held"] /\ UNCHANGED mode
      /\ \A d \in Cpu : d # c => items'[d] = items[d]
  BY Zenon DEF Acquire, Goto, Thread, IInv, TypeOK
<1>2. items'[c].flags = mode[c]
  BY DEF Acquire, IInv, TypeOK
<1>3. pc'[c] = "held" /\ \A u \in Thread : u # c => pc'[u] = pc[u]
  BY <1>1, Moved, Zenon
<1>4. SameAnswers
  BY AcquireUnseen, AnswersSame, Zenon DEF D!avars
<1>5. \A d \in Cpu : pc[d] = "held" => items'[d].flags = items[d].flags
  BY <1>1, Zenon
<1>6. Owns(c)
  <2>1. my[c] \in Nat /\ next \in Nat /\ Slot(my[c]) \in Slots
    BY <1>1, SlotType, Zenon DEF IInv, TypeOK
  <2>2. waitqueue[Slot(my[c])].ticket < next /\ waitqueue[Slot(my[c])].ticket \in Nat
    BY <2>1 DEF IInv, TypeOK, TicketInv
  <2>3. waitqueue[Slot(my[c])].ticket >= my[c] /\ ~Popped(c)
    BY Zenon DEF Acquire, Released, Popped
  <2>4. my[c] < next
    BY <2>1, <2>2, <2>3
  <2> QED BY <1>1, <2>3, <2>4, Zenon DEF Owns, Pending
<1> QED BY <1>1, <1>2, <1>3, <1>4, <1>5, <1>6, Zenon DEF Quiet, Inside

\* The server takes a request out of the queue.
LEMMA PopQuiet ==
    ASSUME IInv, IInv', NEW t \in Thread, PopfrontWait(t)
    PROVE  Quiet(t) /\ UNCHANGED <<pc, mode>>
<1>1. PICK c \in Cpu : c = Front /\ Announced(c, next)
  BY FrontFact, Zenon DEF IInv, PopfrontWait
<1>2. UNCHANGED <<pc, mode>> /\ pc[c] = "spin"
  BY <1>1, Zenon DEF PopfrontWait, Announced
<1>3. \A d \in Cpu : d # c => items'[d] = items[d]
  BY <1>1 DEF PopfrontWait, IInv, TypeOK
<1>4. \A d \in Cpu : pc[d] = "held" => items'[d].flags = items[d].flags
  BY <1>2, <1>3, Zenon
<1>5. SameAnswers
  BY PopfrontSeen, AnswersSame, Zenon DEF D!Park
<1> QED BY <1>2, <1>4, <1>5, Zenon DEF Quiet

\* A waiter is told to sleep.
LEMMA SleepQuiet ==
    ASSUME IInv, IInv', NEW t \in Thread, NEW c, SleepCpu(t, c)
    PROVE  Quiet(t) /\ UNCHANGED <<pc, mode>> /\ c \in Cpu
<1>1. c \in Cpu /\ UNCHANGED <<pc, mode>>
  BY Zenon DEF SleepCpu, IInv, TypeOK
<1>2. \A d \in Cpu : items'[d].flags = items[d].flags
  BY <1>1 DEF SleepCpu, IInv, TypeOK
<1>3. SameAnswers
  BY <1>1, SleepUnseen, AnswersSame, Zenon DEF D!avars
<1> QED BY <1>1, <1>2, <1>3, Zenon DEF Quiet

\* The lock is released.
LEMMA UnlockQuiet ==
    ASSUME IInv, IInv', NEW t \in Thread, Unlock(t)
    PROVE  Quiet(t) /\ pc[t] = "held" /\ pc'[t] = "out" /\ mode' = mode
<1>1. pc[t] = "held" /\ pc' = [pc EXCEPT ![t] = "out"] /\ UNCHANGED <<items, mode>>
  BY Zenon DEF Unlock, Goto
<1>2. pc'[t] = "out" /\ \A u \in Thread : u # t => pc'[u] = pc[u]
  BY <1>1, Moved, Zenon
<1>3. SameAnswers
  BY UnlockSeen, AnswersSame, Zenon DEF D!Release
<1> QED BY <1>1, <1>2, <1>3, Zenon DEF Quiet

\* dtlock_serve, in both ways
LEMMA ServeAnswers ==
    ASSUME IInv, IInv', NEW t \in Thread, NEW c, NEW i \in Items, ServeOrWake(t, c, i)
    PROVE  /\ Answers(c, i) /\ HolderStep(t) /\ (c \in waiters => items[c].flags = mode[c])
           /\ (c \notin waiters => mode[c] = "default")
<1>1. c \in Cpu /\ (Serve(t, c, i) \/ Wake(t, c, i)) /\ c \in Thread /\ (c \notin waiters => c \in sleepers)
  BY Zenon DEF ServeOrWake, Serve, Wake, IInv, TypeOK, Thread
<1>2. CpuInv(c)
  BY <1>1, Zenon DEF IInv, ParkInv
<1>3. Inside(c) /\ (c \in waiters => items[c].flags = mode[c]) /\ (c \notin waiters => mode[c] = "default")
  BY <1>1, <1>2, Zenon DEF CpuInv, WaiterInv, SleeperInv, Inside
<1>4. D!Reply(c, i)
  BY <1>1, ServeSeen, WakeSeen, Zenon
<1>5. mode' = mode
  BY <1>1, Zenon DEF Serve, Wake
<1>6. Inside(c)' /\ \A u \in Thread : u # c => pc'[u] = pc[u]
  <2>1. CASE Serve(t, c, i)
    BY <1>3, <2>1, Zenon DEF Serve, Inside
  <2>2. CASE Wake(t, c, i)
    <3>1. PICK v : pc' = [pc EXCEPT ![c] = v] /\ (v = "recv" \/ v = pc[c])
      BY <2>2 DEF Wake
    <3> QED BY <1>1, <1>3, <3>1, Moved, Zenon DEF Inside
  <2> QED BY <1>1, <2>1, <2>2, Zenon
<1>7. \A d \in Cpu : items'[d].flags = items[d].flags
  <2>1. CASE Serve(t, c, i)
    BY <1>1, <2>1 DEF Serve, IInv, TypeOK
  <2>2. CASE Wake(t, c, i)
    BY <1>1, <2>2 DEF Wake, IInv, TypeOK
  <2> QED BY <1>1, <2>1, <2>2, Zenon
<1>8. ~Answered(c)
  BY <1>1, <1>2, Zenon DEF Answered, CpuInv, WaiterInv, SleeperInv
<1>9. ReplyBar[c] = <<>> /\ ReplyBar' = [ReplyBar EXCEPT ![c] = Append(ReplyBar[c], i)]
  BY <1>1, <1>4, <1>8, ReplyType, Zenon DEF D!Reply
<1>10. ReplyBar'[c] = <<i>> /\ \A d \in Cpu : d # c => ReplyBar'[d] = ReplyBar[d]
  <2>1. DOMAIN ReplyBar = Cpu
    BY Zenon DEF ReplyBar
  <2>2. Append(<<>>, i) = <<i>>
    OBVIOUS
  <2> QED BY <1>1, <1>9, <2>1, <2>2, Zenon
<1>11. \A u \in Tasks : HasAnswer(c, u)' <=> u = i
  <2>1. \A u \in Tasks : <<i>> = <<u>> <=> u = i
    OBVIOUS
  <2> QED BY <1>1, <1>10, <2>1, AnswerIsNext, Zenon
<1>12. \A d \in Cpu, u \in Tasks : d # c => (HasAnswer(d, u)' <=> HasAnswer(d, u))
  BY <1>10, AnswerIs, AnswerIsNext, Zenon
<1>13. HolderStep(t)
  BY <1>1, Zenon DEF HolderStep
<1> QED BY <1>1, <1>3, <1>5, <1>6, <1>7, <1>8, <1>11, <1>12, <1>13, Zenon DEF Answers, HasAnswer

\* A worker reads its answer.
LEMMA ReceiveAnswers ==
    ASSUME IInv, IInv', NEW c \in Cpu, Receive(c)
    PROVE  Receives(c)
<1>1. /\ c \in Thread /\ pc[c] = "recv" /\ UNCHANGED <<items, mode>>
      /\ pc' = [pc EXCEPT ![c] = IF items[c].item = RETRY THEN "ticket" ELSE "out"]
  BY Zenon DEF Receive, Goto, Thread
<1>2. /\ pc'[c] = (IF items[c].item = RETRY THEN "ticket" ELSE "out")
      /\ \A u \in Thread : u # c => pc'[u] = pc[u]
  BY <1>1, Moved, Zenon
<1>3. Inside(c) /\ Answered(c) /\ ~Answered(c)'
  <2>1. pc'[c] \in {"ticket", "out"}
    BY <1>2
  <2> QED BY <1>1, <2>1, Zenon DEF Inside, Answered
<1>4. \A d \in Cpu : d # c => ReplyBar'[d] = ReplyBar[d]
  <2>1. ReplyBar' = [ReplyBar EXCEPT ![c] = Tail(ReplyBar[c])]
    BY ReceiveSeen, Zenon DEF D!PickUp
  <2> QED BY <2>1 DEF ReplyBar
<1>5. \A d \in Cpu, u \in Tasks : d # c => (HasAnswer(d, u)' <=> HasAnswer(d, u))
  BY <1>4, AnswerIs, AnswerIsNext, Zenon
<1> QED BY <1>1, <1>2, <1>3, <1>5, Zenon DEF HasAnswer, Receives
-----------------------------------------------------------------------------
(***************************************************************************)
(* Every step of the scheduler is a step of the lock, or does not touch it.*)
(***************************************************************************)

\* Whatever the scheduler does, dtlock.h allows.
LEMMA LockStep == JointInv /\ [Next]_vars => [LockNext]_lockvars
<1> SUFFICES ASSUME JointInv, [Next]_vars PROVE LockNext \/ UNCHANGED lockvars
  BY Zenon
<1>1. IInv /\ ready \subseteq Tasks /\ Tasks \subseteq Items /\ NULL \in Items /\ RETRY \in Items
  BY TasksAssumption, Zenon DEF JointInv, SchedInv, SchedTypeOK
<1>2. Submitter \subseteq Thread /\ Cpu \subseteq Submitter /\ Submitter = Cpu \cup Submitters
  BY Zenon DEF Thread, Submitter
<1>3. ASSUME NEW t \in Thread, NEW c, NEW i \in Items, ServeOrWake(t, c, i) PROVE LockNext
  <2>1. c \in Cpu /\ (Serve(t, c, i) \/ Wake(t, c, i))
    BY <1>1, <1>3, Zenon DEF ServeOrWake, Serve, Wake, IInv, TypeOK
  <2> QED BY <2>1, Zenon DEF LockNext, HolderStep
<1>4. ASSUME NEW t \in Thread, NEW c, SleepCpu(t, c) PROVE LockNext
  <2>1. c \in Cpu
    BY <1>1, <1>4, Zenon DEF SleepCpu, IInv, TypeOK
  <2> QED BY <1>4, <2>1, Zenon DEF LockNext, HolderStep
<1>5. CASE UNCHANGED vars
  BY <1>5, Zenon DEF vars
<1>6. ASSUME NEW c \in Cpu, WorkerActs(c) PROVE LockNext \/ UNCHANGED lockvars
  <2>1. CASE GetBlocking(c)
    BY <2>1, CallsAssumption, Zenon DEF GetBlocking, LockNext
  <2>2. CASE KillerUnregister(c) \/ KillerSignal(c) \/ EndTask(c) \/ WorkerExit(c) \/ LeaderRetry(c) \/ LeaderExit(c)
    BY <2>2, Zenon DEF KillerUnregister, KillerSignal, EndTask, WorkerExit, LeaderRetry, LeaderExit
  <2>3. CASE ClientStep(c)
    BY <2>3, Zenon DEF ClientStep, EnterServer, Served, LockNext, WorkerStep
  <2> QED BY <1>6, <2>1, <2>2, <2>3, Zenon DEF WorkerActs
<1>7. ASSUME NEW c \in Cpu, GetNonblocking(c) PROVE LockNext
  BY <1>7, Zenon DEF GetNonblocking, LockNext
<1>8. ASSUME NEW t \in Submitter, Submit(t) \/ Push(t) \/ PushFull(t) \/ TryStep(t)
      PROVE  LockNext \/ UNCHANGED lockvars
  BY <1>2, <1>8, Zenon DEF Submit, Push, PushFull, TryStep, LockNext
<1>9. ASSUME NEW t \in Submitter, ServerStep(t) PROVE LockNext \/ UNCHANGED lockvars
  <2>1. t \in Thread
    BY <1>2, Zenon
  <2>2. CASE ProcessReady(t) \/ CheckShutdown(t) \/ ShutdownsChecked(t) \/ MasksUpdated(t) \/ NextBatch(t) \/ OwnTask(t)
    BY <2>2, Zenon DEF ProcessReady, CheckShutdown, ShutdownsChecked, MasksUpdated, NextBatch, OwnTask
  <2>3. CASE UpdateMasks(t) \/ Leave(t)
    BY <2>1, <2>3, Zenon DEF UpdateMasks, Leave, LockNext, HolderStep
  <2>4. CASE ShutdownServe(t)
    BY <1>1, <1>3, <2>1, <2>4, Zenon DEF ShutdownServe
  <2>5. CASE ServeOne(t)
    <3>1. \A c : Candidates(c) \subseteq Items
      BY <1>1, Zenon DEF Candidates
    <3> QED BY <1>3, <2>1, <2>5, <3>1, Zenon DEF ServeOne
  <2>6. CASE ApplyPolicy(t)
    <3>1. ASSUME NEW c, Serve(t, c, NULL) PROVE LockNext
      <4>1. c \in Cpu
        BY <1>1, <3>1, Zenon DEF Serve, IInv, TypeOK
      <4> QED BY <1>1, <2>1, <3>1, <4>1, Zenon DEF LockNext, HolderStep
    <3> QED BY <1>4, <2>1, <2>6, <3>1, Zenon DEF ApplyPolicy
  <2>7. CASE WakeOne(t)
    BY <1>1, <1>3, <2>1, <2>7, Zenon DEF WakeOne
  <2> QED BY <1>9, <2>2, <2>3, <2>4, <2>5, <2>6, <2>7, Zenon DEF ServerStep
<1>10. CASE Finished
  BY <1>10, Zenon DEF Finished, vars
<1> QED BY <1>5, <1>6, <1>7, <1>8, <1>9, <1>10, Zenon DEF Next, SubmitActs

\* The lock keeps its invariant while the scheduler uses it.
LEMMA LockKept == JointInv /\ [Next]_vars => IInv'
BY LockStep, StepInv, Zenon DEF JointInv

\* The least element of a set of natural numbers
LEMMA LeastIn == LeastIsIn
<1> SUFFICES ASSUME NEW S, S \subseteq Nat, S # {} PROVE Least(S) \in S
  BY Zenon DEF LeastIsIn
<1>1. \E x \in S : \A y \in S : <<y, x>> \notin OpToRel(<, Nat)
  BY NatLessThanWellFounded, WFMin
<1>2. PICK x \in S : \A y \in S : <<y, x>> \notin {ss \in Nat \X Nat : ss[1] < ss[2]}
  BY <1>1, Zenon DEF OpToRel
<1>3. \A y \in S : x <= y
  <2> TAKE y \in S
  <2>1. <<y, x>> \in Nat \X Nat /\ <<y, x>>[1] = y /\ <<y, x>>[2] = x
    OBVIOUS
  <2>2. ~(y < x)
    BY <1>2, <2>1, Zenon
  <2> QED BY <2>2
<1> QED BY <1>3, Zenon DEF Least

\* What the scheduler asks of a step of the lock is what it does.
LEMMA LockDoesIt == ASSUME IInv, IInv' PROVE LockDoes
<1>1. ASSUME NEW c \in Cpu, NEW m, LockOrDelegate(c, m) PROVE Quiet(c) /\ pc[c] = "out" /\ Inside(c)'
  BY <1>1, CallQuiet, Zenon
<1>2. ASSUME NEW c \in Cpu, Acquire(c)
      PROVE  /\ Quiet(c) /\ Inside(c) /\ pc'[c] = "held" /\ mode' = mode
             /\ items'[c].flags = mode[c] /\ \A s \in Thread : pc[s] # "held"
  <2>1. /\ Quiet(c) /\ Inside(c) /\ pc'[c] = "held" /\ mode' = mode /\ c \in Thread
        /\ items'[c].flags = mode[c] /\ Owns(c)
    BY <1>2, AcquireQuiet, Zenon
  <2>2. \A s \in Thread : pc[s] # "held"
    BY <2>1, Zenon DEF IInv, OwnerInv, Owns, Inside
  <2> QED BY <2>1, <2>2, Zenon
<1>3. ASSUME NEW t \in Submitter, TryLoad(t) \/ TryCheck(t) \/ TryCas(t), pc'[t] = "held"
      PROVE  TryCas(t) /\ pc[t] = "cas" /\ \A s \in Thread : pc[s] # "held"
  <2>1. TryCas(t) /\ t \in Thread
    BY <1>3, TryQuiet, Zenon
  <2>2. pc[t] = "cas" /\ head = my[t]
    <3>1. CASE pc' = [pc EXCEPT ![t] = "out"]
      BY <1>3, <2>1, <3>1, Moved
    <3> QED BY <2>1, <3>1, Zenon DEF TryCas, Goto
  <2>3. head < next
    BY <2>1, <2>2, Zenon DEF IInv, TryInv
  <2>4. ~(head >= next)
    BY <2>3 DEF IInv, TypeOK
  <2> QED BY <2>1, <2>2, <2>4, Zenon DEF IInv, OwnerInv, Owns
<1>4. ASSUME NEW t \in Thread PROVE Tells(t)
  <2>1. ASSUME NEW c, NEW i \in Items, ServeOrWake(t, c, i) PROVE Replies(c, i)
    BY <2>1, ServeAnswers, Zenon DEF Replies
  <2>2. ASSUME NEW c, SleepCpu(t, c) PROVE Quiet(t) /\ UNCHANGED <<pc, mode>>
    BY <2>2, SleepQuiet, Zenon
  <2> QED BY <2>1, <2>2, Zenon DEF Tells
<1> QED BY <1>1, <1>2, <1>3, <1>4, ClientQuiet, ReceiveAnswers, TryQuiet, PopQuiet, UnlockQuiet, Zenon DEF LockDoes
-----------------------------------------------------------------------------
(***************************************************************************)
(* The theorems.                                                           *)
(***************************************************************************)

\* The joint invariant holds at the start.
LEMMA JointInit == Init => JointInv
BY InitInv, SchedInit, Zenon DEF Init, IInv, JointInv

\* Every step keeps it.
LEMMA JointStep == JointInv /\ [Next]_vars => JointInv'
<1> SUFFICES ASSUME JointInv, [Next]_vars PROVE JointInv'
  OBVIOUS
<1>1. IInv /\ IInv' /\ TypeOK' /\ SchedInv
  BY LockKept, Zenon DEF JointInv, IInv
<1>2. SchedTypeOK' /\ SchedOK'
  BY <1>1, LockDoesIt, LeastIn, SchedStep, Zenon
<1> QED BY <1>1, <1>2, Zenon DEF JointInv, SchedInv

\* The lock and the scheduler keep their joint invariant in every behaviour.
THEOREM SchedInvariance == Spec => []JointInv
BY JointInit, JointStep, PTL DEF Spec

\* scheduler_get and scheduler_submit use the lock only as dtlock.h allows:
\* every behaviour of the scheduler is one of the lock with an arbitrary holder,
\* so that whatever is proved of LockSpec holds in the scheduler.
THEOREM UsesLock == Spec => LockSpec
<1>1. Init => LockInit
  BY Zenon DEF Init
<1> QED BY <1>1, LockStep, SchedInvariance, PTL DEF Spec, LockSpec

\* Under the scheduler the lock is still a first-come first-served delegation
\* lock, with no reply of dtlock_serve lost, duplicated or overwritten.
THEOREM SchedDelegates == Spec => ImplementsDelegation
BY UsesLock, Refinement, PTL

\* The places of TaskInOnePlace
LEMMA PlacesAre == ASSUME NEW u PROVE \A q : q \in Places(u) <=> At(q, u)
BY Zenon DEF Places, At, HasAnswer

\* No task is lost or handed out twice: from its submission through the queue,
\* the serving loop, answers to waiters and sleepers, retries and yields, every
\* task is in exactly one place (scheduler_submit_internal, scheduler_get).
THEOREM OnePlace == Spec => []TaskInOnePlace
<1>1. ASSUME JointInv PROVE TaskInOnePlace
  <2>1. ASSUME NEW u \in Tasks PROVE Cardinality(Places(u)) = 1
    <3>1. PICK p : \A q : At(q, u) <=> q = p
      BY <1>1, Zenon DEF JointInv, SchedInv, SchedOK, PlaceInv, Placed
    <3>2. Places(u) = {p}
      <4>1. \A q : q \in Places(u) <=> q = p
        BY <3>1, PlacesAre
      <4> QED BY <4>1
    <3> QED BY <3>2, FS_Singleton, Zenon
  <2> QED BY <1>1, <2>1, Zenon DEF TaskInOnePlace, JointInv, SchedInv
<1> QED BY <1>1, SchedInvariance, PTL

\* A worker whose quantum is over is not handed a task of its own process
\* (the assertion on candidate.task in worker_start_routine).
THEOREM ExternalObeyed == Spec => []ExternalIsObeyed
<1>1. ASSUME JointInv, NEW c \in Cpu
      PROVE  /\ mode[c] = "external" /\ Answered(c) /\ items[c].item \in Tasks
                   => TaskPid[items[c].item] # cpuPid[c]
             /\ mode[c] = "external" /\ server.thread = c /\ server.task # NULL
                   => TaskPid[server.task] # cpuPid[c]
  <2>1. WorkerInv(c) /\ (server.task # NULL => server.task \in Tasks)
    BY <1>1 DEF JointInv, SchedInv, SchedOK, SchedTypeOK, Locals
  <2> QED BY <2>1, Zenon DEF WorkerInv, HasAnswer, Keeps
<1>2. JointInv => ExternalIsObeyed
  BY <1>1, Zenon DEF ExternalIsObeyed
<1> QED BY <1>2, SchedInvariance, PTL
-----------------------------------------------------------------------------
(***************************************************************************)
(* The shutdown of a process.                                              *)
(***************************************************************************)

\* A worker that runs a killer has its CPU for the process and asks for nothing.
KillerInv(c) ==
    running[c] \in Killers => cpuPid[c] = TaskPid[running[c]] /\ ~Inside(c) /\ ~Serves(c)

\* A killer is submitted after the tasks of its process.
LastInv ==
    \A k \in Killers, u \in Tasks \ Killers : k \notin fresh /\ TaskPid[u] = TaskPid[k] => u \in ended

\* It has unregistered the process before it tells the workers to stop.
StopInv ==
    \A p \in Pids : stop[p] =>
        /\ p \notin registered
        /\ \E k \in Killers : TaskPid[k] = p /\ (k \in ended \/ \E c \in Cpu : running[c] = k)

ShutInv == LastInv /\ StopInv /\ \A c \in Cpu : KillerInv(c)

\* What a step may do with what ShutInv is about: nothing, give CPU c to the
\* process of a task that it takes from the scheduler, or give it away.
Unmoved == UNCHANGED <<fresh, running, ended, cpuPid, registered, stop>>

Takes(c, u) ==
    /\ u \in Tasks /\ u \notin ended /\ (Inside(c) \/ Serves(c))
    /\ running' = [running EXCEPT ![c] = u] /\ cpuPid' = [cpuPid EXCEPT ![c] = TaskPid[u]]
    /\ pc'[c] = "out" /\ ~Serves(c)'
    /\ UNCHANGED <<fresh, ended, registered, stop>>

Exits(c) ==
    /\ pc[c] = "out" /\ running[c] = NULL /\ TransferToIdle(c)
    /\ UNCHANGED <<lockvars, fresh, running, ended, registered, stop>>

Ways ==
    \/ Unmoved
    \/ \E t \in Submitter : Submit(t)
    \/ \E c \in Cpu : KillerUnregister(c) \/ KillerSignal(c) \/ EndTask(c) \/ Exits(c) \/ \E u : Takes(c, u)

\* A worker that runs a killer and is out stays out.
StaysOut(c) == running[c] \in Killers /\ ~Inside(c) /\ ~Serves(c) => ~Inside(c)' /\ ~Serves(c)'
AllStayOut == \A c \in Cpu : StaysOut(c)

\* The thread in the lock goes on.
SameHolder == server'.thread = server.thread /\ server'.drain = server.drain

\* Steps in the lock of a thread that was in it, or only tries to enter
LEMMA OtherStaysOut ==
    ASSUME JointInv, NEW d \in Thread, \A u \in Thread : u # d => pc'[u] = pc[u],
           Inside(d) \/ ~Inside(d)', SameHolder \/ server'.drain \/ server'.thread = NoThread
    PROVE  AllStayOut
<1> SUFFICES ASSUME NEW c \in Cpu, ~Inside(c), ~Serves(c) PROVE ~Inside(c)' /\ ~Serves(c)'
  BY Zenon DEF AllStayOut, StaysOut
<1>1. c \in Thread /\ NoThread # c
  BY CallsAssumption, Zenon DEF Thread
<1>2. ~Inside(c)'
  BY <1>1, Zenon DEF Inside
<1>3. ~Serves(c)'
  BY <1>1, Zenon DEF Serves, SameHolder
<1> QED BY <1>2, <1>3, Zenon

\* Steps outside it
LEMMA AllOutside ==
    ASSUME UNCHANGED pc, SameHolder PROVE AllStayOut
BY Zenon DEF AllStayOut, StaysOut, Inside, Serves, SameHolder

\* A worker that asks for a task does not run a killer.
LEMMA AskWays ==
    ASSUME JointInv, IInv', NEW c \in Cpu, GetBlocking(c) \/ GetNonblocking(c)
    PROVE  AllStayOut /\ Ways
<1>1. /\ running[c] \notin Killers /\ UNCHANGED <<taskvars, procvars, server>>
      /\ \E m : LockOrDelegate(c, m)
  BY TasksAssumption, Zenon DEF GetBlocking, GetNonblocking, InLoop, schedvars, taskvars, procvars
<1>2. \A d \in Cpu : d # c => pc'[d] = pc[d]
  BY <1>1, CallQuiet, Zenon DEF JointInv, Quiet, Thread
<1>3. AllStayOut
  BY <1>1, <1>2, Zenon DEF AllStayOut, StaysOut, Inside, Serves
<1> QED BY <1>1, <1>3, Zenon DEF Ways, Unmoved, taskvars, procvars

\* A task that is handed out has not ended.
LEMMA HandedLives ==
    ASSUME SchedInv, NEW u \in Tasks, NEW p, Handed(p, u) PROVE u \notin ended
<1>1. At(p, u) /\ (u \in ended => At(<<"ended", 0>>, u))
  BY Zenon DEF At, Handed
<1>2. <<"ended", 0>> # p
  BY DEF Handed
<1>3. PICK r : \A q : At(q, u) <=> q = r
  BY Zenon DEF SchedInv, SchedOK, PlaceInv, Placed
<1> QED BY <1>1, <1>2, <1>3

\* A worker in the lock, or on its way to it or out of it
LEMMA ClientWays ==
    ASSUME JointInv, IInv', NEW c \in Cpu, ClientStep(c) PROVE AllStayOut /\ Ways
<1>0. c \in Thread /\ IInv /\ SchedInv /\ ServerInv /\ SchedTypeOK
  BY Zenon DEF Thread, JointInv, SchedInv, SchedOK
<1>1. CASE EnterServer(c)
  <2>1. Acquire(c) /\ UNCHANGED <<taskvars, procvars>> /\ server'.thread = c
    BY <1>1 DEF EnterServer, NoServer
  <2>2. Quiet(c) /\ Inside(c)
    BY <1>0, <2>1, AcquireQuiet, Zenon
  <2>3. ASSUME NEW d \in Cpu, ~Inside(d), ~Serves(d) PROVE ~Inside(d)' /\ ~Serves(d)'
    BY <2>1, <2>2, <2>3, Zenon DEF Quiet, Inside, Serves, Thread
  <2> QED BY <2>1, <2>3, Zenon DEF AllStayOut, StaysOut, Ways, Unmoved, taskvars, procvars
<1>2. CASE Served(c)
  <2>0. PICK i : i = items[c].item
    OBVIOUS
  <2>1. /\ Receive(c) /\ Take(c, IF i = RETRY THEN NULL ELSE i)
        /\ UNCHANGED <<fresh, ended, registered, stop, server>>
    BY <1>2, <2>0, Zenon DEF Served
  <2>2. /\ Inside(c) /\ Answered(c) /\ pc'[c] = (IF i = RETRY THEN "ticket" ELSE "out")
        /\ \A u \in Thread : u # c => pc'[u] = pc[u]
    BY <1>0, <2>0, <2>1, ReceiveAnswers, Zenon DEF Receives
  <2>3. AllStayOut
    BY <1>0, <2>1, <2>2, OtherStaysOut, Zenon DEF SameHolder
  <2>4. i \in Items
    BY <1>0, <2>0 DEF IInv, TypeOK
  <2>5. CASE i \in Tasks
    <3>1. i # RETRY /\ pc'[c] = "out"
      BY <2>2, <2>5, TasksAssumption, Zenon
    <3>2. running' = [running EXCEPT ![c] = i] /\ cpuPid' = [cpuPid EXCEPT ![c] = TaskPid[i]]
      BY <1>0, <2>1, <2>5, <3>1, TakeType, Zenon
    <3>3. ~Serves(c)'
      BY <1>0, <2>1, <2>2, Zenon DEF Serves, ServerInv, Inside
    <3>4. i \notin ended
      BY <1>0, <2>0, <2>2, <2>5, HandedLives, Zenon DEF Handed, HasAnswer
    <3>5. Takes(c, i)
      BY <2>1, <2>2, <2>5, <3>1, <3>2, <3>3, <3>4, Zenon DEF Takes
    <3> QED BY <2>3, <3>5, Zenon DEF Ways
  <2>6. CASE i \notin Tasks
    <3>1. UNCHANGED <<running, cpuPid>>
      BY <2>1, <2>4, <2>6, TasksAssumption, Zenon DEF Take
    <3> QED BY <2>1, <2>3, <3>1, Zenon DEF Ways, Unmoved
  <2> QED BY <2>5, <2>6, Zenon
<1>3. CASE /\ \/ TakeTicket(c) \/ Announce(c) \/ Delegated(c)
              \/ Signalled(c) \/ FutexWait(c) \/ FutexSyscall(c)
           /\ UNCHANGED schedvars
  <2>1. Quiet(c) /\ Inside(c)
    BY <1>0, <1>3, ClientQuiet, Zenon
  <2>2. AllStayOut
    BY <1>0, <1>3, <2>1, OtherStaysOut, Zenon DEF SameHolder, Quiet, schedvars
  <2> QED BY <1>3, <2>2, Zenon DEF Ways, Unmoved, schedvars
<1> QED BY <1>1, <1>2, <1>3, Zenon DEF ClientStep

\* A worker outside the lock
LEMMA OutsideWays ==
    ASSUME JointInv, NEW c \in Cpu,
           \/ KillerUnregister(c) \/ KillerSignal(c) \/ EndTask(c)
           \/ WorkerExit(c) \/ LeaderRetry(c) \/ LeaderExit(c)
    PROVE  AllStayOut /\ Ways
<1>1. UNCHANGED <<lockvars, server>>
  BY Zenon DEF KillerUnregister, KillerSignal, EndTask, WorkerExit, LeaderRetry, LeaderExit
<1>2. AllStayOut
  BY <1>1, AllOutside, Zenon DEF lockvars, SameHolder
<1>3. CASE LeaderRetry(c)
  BY <1>2, <1>3, Zenon DEF LeaderRetry, Ways, Unmoved, taskvars
<1>4. CASE WorkerExit(c) \/ LeaderExit(c)
  BY <1>2, <1>4, Zenon DEF WorkerExit, LeaderExit, InLoop, Ways, Exits, taskvars
<1> QED BY <1>2, <1>3, <1>4, Zenon DEF Ways

\* A thread that submits a task
LEMMA SubmitWays ==
    ASSUME JointInv, IInv', NEW t \in Submitter, Submit(t) \/ Push(t) \/ PushFull(t) \/ TryStep(t)
    PROVE  AllStayOut /\ Ways
<1>0. t \in Thread /\ IInv
  BY Zenon DEF Thread, Submitter, JointInv
<1>1. CASE Submit(t)
  <2>1. UNCHANGED <<pc, server>>
    BY <1>1, Zenon DEF Submit, lockvars
  <2> QED BY <1>1, <2>1, AllOutside, Zenon DEF SameHolder, Ways
<1>2. CASE Push(t)
  <2>1. UNCHANGED <<pc, server>>
    BY <1>2, Zenon DEF Push, lockvars
  <2>2. Unmoved
    BY <1>2, Zenon DEF Push, Unmoved, procvars
  <2> QED BY <2>1, <2>2, AllOutside, Zenon DEF SameHolder, Ways
<1>3. CASE PushFull(t) \/ TryStep(t)
  <2>1. TryLoad(t) \/ TryCheck(t) \/ TryCas(t)
    BY <1>3, Zenon DEF PushFull, TryStep
  <2>2. /\ \A u \in Thread : u # t => pc'[u] = pc[u]
        /\ pc'[t] \in {"out", "try", "cas", "held"}
    BY <1>0, <2>1, TryQuiet, Zenon DEF Quiet
  <2>3. Unmoved
    BY <1>3, Zenon DEF PushFull, TryStep, schedvars, taskvars, procvars, Unmoved
  <2>4. SameHolder \/ server'.drain
    <3>1. server' = server \/ server' = [NoServer EXCEPT !.thread = t, !.phase = "ready", !.drain = TRUE]
      BY <1>3, Zenon DEF PushFull, TryStep, schedvars
    <3> QED BY <3>1 DEF NoServer, SameHolder
  <2>5. ~Inside(t)'
    BY <2>2, Zenon DEF Inside
  <2> QED BY <1>0, <2>2, <2>3, <2>4, <2>5, OtherStaysOut, Zenon DEF Ways
<1> QED BY <1>1, <1>2, <1>3, Zenon

\* The thread in the lock, until it leaves
LEMMA ServerWays ==
    ASSUME JointInv, IInv', NEW t \in Submitter, ServerStep(t), ~Leave(t)
    PROVE  AllStayOut /\ Ways
<1>0. t \in Thread /\ IInv /\ SchedTypeOK /\ NULL \in Items /\ RETRY \in Items /\ Tasks \subseteq Items
  BY TasksAssumption, Zenon DEF Thread, Submitter, JointInv, SchedInv
<1>1. UNCHANGED <<fresh, running, ended, procvars>> \/ CheckShutdown(t)
  BY Zenon DEF ServerStep, ProcessReady, ShutdownServe, ShutdownsChecked, UpdateMasks, MasksUpdated, ServeOne,
               NextBatch, ApplyPolicy, OwnTask, WakeOne, taskvars, schedvars, procvars
<1>2. Unmoved
  BY <1>1, Zenon DEF Unmoved, procvars, CheckShutdown, taskvars
<1>3. SameHolder
  <2>1. server \in Locals
    BY <1>0, Zenon DEF SchedTypeOK, Locals
  <2>2. CASE ProcessReady(t) \/ CheckShutdown(t) \/ ShutdownsChecked(t) \/ UpdateMasks(t) \/ MasksUpdated(t) \/ NextBatch(t)
    BY <2>1, <2>2 DEF ProcessReady, CheckShutdown, ShutdownsChecked, UpdateMasks, MasksUpdated, NextBatch,
                      Go, GoWith, schedvars, Locals, SameHolder
  <2>3. CASE ShutdownServe(t) \/ ServeOne(t) \/ ApplyPolicy(t) \/ OwnTask(t) \/ WakeOne(t)
    BY <2>1, <2>3 DEF ShutdownServe, ServeOne, ApplyPolicy, OwnTask, WakeOne, Go, DoneWith, Locals, SameHolder
  <2> QED BY <2>2, <2>3, Zenon DEF ServerStep
<1>4. ASSUME NEW c, NEW i \in Items, ServeOrWake(t, c, i) PROVE AllStayOut
  <2>1. Answers(c, i)
    BY <1>0, <1>4, ServeAnswers, Zenon
  <2>2. c \in Thread
    BY <2>1, Zenon DEF Answers, Thread
  <2> QED BY <1>3, <2>1, <2>2, OtherStaysOut, Zenon DEF Answers
<1>5. ASSUME UNCHANGED pc PROVE AllStayOut
  BY <1>3, <1>5, AllOutside, Zenon
<1>6. AllStayOut
  <2>1. CASE ProcessReady(t) \/ CheckShutdown(t) \/ ShutdownsChecked(t) \/ MasksUpdated(t) \/ NextBatch(t) \/ OwnTask(t)
    BY <1>5, <2>1, Zenon DEF ProcessReady, CheckShutdown, ShutdownsChecked, MasksUpdated, NextBatch, OwnTask, lockvars
  <2>2. CASE UpdateMasks(t)
    BY <1>0, <1>5, <2>2, PopQuiet, Zenon DEF UpdateMasks
  <2>3. CASE ShutdownServe(t)
    BY <1>0, <1>4, <2>3, Zenon DEF ShutdownServe
  <2>4. CASE ServeOne(t)
    <3>1. \A c : Candidates(c) \subseteq Items
      BY <1>0, Zenon DEF Candidates, SchedTypeOK
    <3> QED BY <1>4, <1>5, <2>4, <3>1, Zenon DEF ServeOne, lockvars
  <2>5. CASE ApplyPolicy(t)
    <3>1. ASSUME NEW c, Serve(t, c, NULL) PROVE UNCHANGED pc
      BY <3>1, Zenon DEF Serve
    <3>2. ASSUME NEW c, SleepCpu(t, c) PROVE UNCHANGED pc
      BY <3>2, Zenon DEF SleepCpu
    <3> QED BY <1>5, <2>5, <3>1, <3>2, Zenon DEF ApplyPolicy, lockvars
  <2>6. CASE WakeOne(t)
    BY <1>0, <1>4, <1>5, <2>6, Zenon DEF WakeOne, lockvars
  <2> QED BY <2>1, <2>2, <2>3, <2>4, <2>5, <2>6, Zenon DEF ServerStep
<1> QED BY <1>2, <1>6, Zenon DEF Ways

\* It leaves, and a worker takes what it found.
LEMMA LeaveWays ==
    ASSUME JointInv, IInv', NEW t \in Submitter, Leave(t) PROVE AllStayOut /\ Ways
<1>0. t \in Thread /\ IInv /\ SchedInv /\ SchedTypeOK /\ ServerInv
  BY Zenon DEF Thread, Submitter, JointInv, SchedInv, SchedOK
<1>1. PICK v : v = server.task
  OBVIOUS
<1>2. /\ server.thread = t /\ Unlock(t) /\ server' = NoServer
      /\ IF server.drain THEN UNCHANGED <<running, submitting, cpuPid>> ELSE Take(t, v)
      /\ UNCHANGED <<fresh, ended, registered, stop>>
  BY <1>1, Zenon DEF Leave, In
<1>3. pc'[t] = "out" /\ \A u \in Thread : u # t => pc'[u] = pc[u]
  BY <1>0, <1>2, UnlockQuiet, Zenon DEF Quiet
<1>4. server'.thread = NoThread
  BY <1>2 DEF NoServer
<1>5. AllStayOut
  BY <1>0, <1>3, <1>4, OtherStaysOut, Zenon DEF Inside
<1>6. CASE v = NULL
  <2>1. UNCHANGED <<running, cpuPid>>
    BY <1>2, <1>6, Zenon DEF Take
  <2> QED BY <1>2, <1>5, <2>1, Zenon DEF Ways, Unmoved
<1>7. CASE v # NULL
  <2>1. ~server.drain /\ t \in Cpu /\ v \in Tasks
    <3>1. NoThread # t /\ server.task \in Tasks \cup {NULL}
      BY <1>0, CallsAssumption DEF SchedTypeOK
    <3> QED BY <1>0, <1>1, <1>2, <1>7, <3>1, Zenon DEF ServerInv
  <2>2. running' = [running EXCEPT ![t] = v] /\ cpuPid' = [cpuPid EXCEPT ![t] = TaskPid[v]]
    BY <1>0, <1>2, <2>1, TakeType, Zenon
  <2>3. v \notin ended
    BY <1>0, <1>1, <2>1, HandedLives, Zenon DEF Handed
  <2>4. Serves(t) /\ ~Serves(t)'
    BY <1>0, <1>2, <1>4, <2>1, CallsAssumption, Zenon DEF Serves
  <2>5. Takes(t, v)
    BY <1>2, <1>3, <2>1, <2>2, <2>3, <2>4, Zenon DEF Takes
  <2> QED BY <1>5, <2>1, <2>5, Zenon DEF Ways
<1> QED BY <1>6, <1>7, Zenon

\* So every step of the scheduler is of one of these kinds.
LEMMA StepWays == ASSUME JointInv, IInv', [Next]_vars PROVE AllStayOut /\ Ways
<1>1. CASE UNCHANGED vars
  <2>1. UNCHANGED <<pc, server>> /\ Unmoved
    BY <1>1, Zenon DEF vars, lockvars, schedvars, Unmoved
  <2> QED BY <2>1, AllOutside, Zenon DEF SameHolder, Ways
<1>2. ASSUME NEW c \in Cpu, WorkerActs(c) \/ GetNonblocking(c) PROVE AllStayOut /\ Ways
  BY <1>2, AskWays, OutsideWays, ClientWays, Zenon DEF WorkerActs
<1>3. ASSUME NEW t \in Submitter, Submit(t) \/ SubmitActs(t) PROVE AllStayOut /\ Ways
  BY <1>3, SubmitWays, ServerWays, LeaveWays, Zenon DEF SubmitActs
<1> QED BY <1>1, <1>2, <1>3, Zenon DEF Next, Finished

\* The invariant of a shutdown holds at the start.
LEMMA ShutInit == Init => ShutInv
<1> SUFFICES ASSUME Init PROVE ShutInv
  OBVIOUS
<1>1. /\ fresh = Tasks \ {FirstTask[c] : c \in Cpu} /\ running = FirstTask /\ cpuPid = FirstPid
      /\ stop = [p \in Pids |-> FALSE] /\ server = NoServer /\ LockInit
  BY Zenon DEF Init
<1>2. LastInv
  <2> SUFFICES ASSUME NEW k \in Killers, NEW u \in Tasks \ Killers, k \notin fresh PROVE TaskPid[u] # TaskPid[k]
    BY Zenon DEF LastInv
  <2>1. PICK c \in Cpu : FirstTask[c] = k
    BY <1>1, TasksAssumption, Zenon
  <2> QED BY <2>1, KillersAssumption, Zenon
<1>3. StopInv
  BY <1>1, Zenon DEF StopInv
<1>4. ASSUME NEW c \in Cpu PROVE KillerInv(c)
  <2>1. pc[c] = "out"
    BY <1>1 DEF LockInit, Thread
  <2>2. server.thread = NoThread /\ NoThread # c
    BY <1>1, CallsAssumption DEF NoServer, Thread
  <2> QED BY <1>1, <2>1, <2>2, KillersAssumption, Zenon DEF KillerInv, Inside, Serves
<1> QED BY <1>2, <1>3, <1>4, Zenon DEF ShutInv

\* Every step keeps it.
LEMMA ShutStep == ASSUME JointInv, IInv', [Next]_vars, ShutInv PROVE ShutInv'
<1>1. AllStayOut /\ Ways /\ LastInv /\ StopInv /\ (\A c \in Cpu : KillerInv(c)) /\ SchedTypeOK
  BY StepWays, Zenon DEF ShutInv, JointInv, SchedInv
<1>2. ASSUME NEW c \in Cpu, running'[c] = running[c], cpuPid'[c] = cpuPid[c] PROVE KillerInv(c)'
  BY <1>1, <1>2, Zenon DEF KillerInv, AllStayOut, StaysOut
<1>3. Killers \subseteq Tasks /\ NULL \notin Killers
  BY TasksAssumption, Zenon
<1>4. ASSUME UNCHANGED <<running, cpuPid>> PROVE \A c \in Cpu : KillerInv(c)'
  BY <1>2, <1>4, Zenon
<1>l. ASSUME UNCHANGED <<fresh, ended>> PROVE LastInv'
  BY <1>1, <1>l, Zenon DEF LastInv
<1>s. ASSUME UNCHANGED <<running, ended, stop>>, registered' \subseteq registered PROVE StopInv'
  <2>1. ASSUME NEW q \in Pids, stop'[q]
        PROVE  /\ q \notin registered'
               /\ \E k \in Killers : TaskPid[k] = q /\ (k \in ended' \/ \E d \in Cpu : running'[d] = k)
    BY <1>1, <1>s, <2>1 DEF StopInv
  <2> QED BY <2>1, Zenon DEF StopInv
<1>5. CASE Unmoved
  BY <1>4, <1>5, <1>l, <1>s, Zenon DEF Unmoved, ShutInv
<1>6. ASSUME NEW t \in Submitter, Submit(t) PROVE ShutInv'
  <2>1. PICK v \in fresh : fresh' = fresh \ {v} /\ (v \in Killers => MayShutdown(t, v))
    BY <1>6, Zenon DEF Submit
  <2>2. UNCHANGED <<running, ended, cpuPid, registered, stop>>
    BY <1>6, Zenon DEF Submit, procvars
  <2>3. LastInv'
    BY <1>1, <2>1, <2>2, Zenon DEF LastInv, MayShutdown
  <2> QED BY <1>4, <1>s, <2>2, <2>3, Zenon DEF ShutInv
<1>7. ASSUME NEW c \in Cpu, KillerUnregister(c) PROVE ShutInv'
  <2>1. registered' \subseteq registered /\ UNCHANGED <<fresh, running, ended, cpuPid, stop>>
    BY <1>7, Zenon DEF KillerUnregister, taskvars
  <2> QED BY <1>4, <1>l, <1>s, <2>1, Zenon DEF ShutInv
<1>8. ASSUME NEW c \in Cpu, KillerSignal(c) PROVE ShutInv'
  <2>1. PICK p \in Pids \ registered : Killing(c, p) /\ stop' = [stop EXCEPT ![p] = TRUE]
    BY <1>8, Zenon DEF KillerSignal
  <2>2. UNCHANGED <<fresh, running, ended, cpuPid, registered>>
    BY <1>8, Zenon DEF KillerSignal, taskvars
  <2>3. \A q \in Pids : q # p => stop'[q] = stop[q]
    BY <1>1, <2>1, Zenon DEF SchedTypeOK
  <2>4. StopInv'
    <3>1. p \notin registered' /\ \E k \in Killers : TaskPid[k] = p /\ \E d \in Cpu : running'[d] = k
      BY <2>1, <2>2, Zenon DEF Killing
    <3>2. ASSUME NEW q \in Pids, q # p, stop'[q]
          PROVE  /\ q \notin registered'
                 /\ \E k \in Killers : TaskPid[k] = q /\ (k \in ended' \/ \E d \in Cpu : running'[d] = k)
      BY <1>1, <2>2, <2>3, <3>2 DEF StopInv
    <3> QED BY <3>1, <3>2, Zenon DEF StopInv
  <2> QED BY <1>4, <1>l, <2>2, <2>4, Zenon DEF ShutInv
<1>9. ASSUME NEW c \in Cpu, EndTask(c) PROVE ShutInv'
  <2>1. /\ running' = [running EXCEPT ![c] = NULL] /\ ended' = ended \cup {running[c]}
        /\ UNCHANGED <<fresh, cpuPid, registered, stop>>
    BY <1>9, Zenon DEF EndTask
  <2>2. running'[c] = NULL /\ \A d \in Cpu : d # c => running'[d] = running[d]
    BY <1>1, <2>1, Zenon DEF SchedTypeOK
  <2>3. \A k : k \in ended \/ (\E d \in Cpu : running[d] = k) => k \in ended' \/ \E d \in Cpu : running'[d] = k
    BY <2>1, <2>2, Zenon
  <2>4. StopInv'
    BY <1>1, <2>1, <2>3, Zenon DEF StopInv
  <2>5. LastInv'
    BY <1>1, <2>1, Zenon DEF LastInv
  <2>6. \A d \in Cpu : KillerInv(d)'
    BY <1>2, <1>3, <2>1, <2>2, Zenon DEF KillerInv
  <2> QED BY <2>4, <2>5, <2>6, Zenon DEF ShutInv
<1>10. ASSUME NEW c \in Cpu, Exits(c) PROVE ShutInv'
  <2>1. UNCHANGED <<fresh, running, ended, registered, stop>> /\ running[c] = NULL
    BY <1>10, Zenon DEF Exits
  <2>2. \A d \in Cpu : d # c => cpuPid'[d] = cpuPid[d]
    BY <1>1, <1>10, Zenon DEF Exits, TransferToIdle, SchedTypeOK
  <2>3. \A d \in Cpu : KillerInv(d)'
    BY <1>2, <1>3, <2>1, <2>2, Zenon DEF KillerInv
  <2> QED BY <1>l, <1>s, <2>1, <2>3, Zenon DEF ShutInv
<1>11. ASSUME NEW c \in Cpu, NEW u, Takes(c, u) PROVE ShutInv'
  <2>1. /\ running' = [running EXCEPT ![c] = u] /\ cpuPid' = [cpuPid EXCEPT ![c] = TaskPid[u]]
        /\ pc'[c] = "out" /\ ~Serves(c)' /\ (Inside(c) \/ Serves(c))
        /\ UNCHANGED <<fresh, ended, registered, stop>>
    BY <1>11, Zenon DEF Takes
  <2>2. /\ running'[c] = u /\ cpuPid'[c] = TaskPid[u]
        /\ \A d \in Cpu : d # c => running'[d] = running[d] /\ cpuPid'[d] = cpuPid[d]
    BY <1>1, <2>1, Zenon DEF SchedTypeOK
  <2>3. running[c] \notin Killers
    BY <1>1, <2>1, Zenon DEF KillerInv
  <2>4. \A k \in Killers : (\E d \in Cpu : running[d] = k) => \E d \in Cpu : running'[d] = k
    BY <2>2, <2>3, Zenon
  <2>5. StopInv'
    BY <1>1, <2>1, <2>4, Zenon DEF StopInv
  <2>6. LastInv'
    BY <1>1, <2>1, Zenon DEF LastInv
  <2>7. KillerInv(c)'
    BY <2>1, <2>2, Zenon DEF KillerInv, Inside
  <2>8. \A d \in Cpu : KillerInv(d)'
    BY <1>2, <2>2, <2>7, Zenon
  <2> QED BY <2>5, <2>6, <2>8, Zenon DEF ShutInv
<1> QED BY <1>1, <1>5, <1>6, <1>7, <1>8, <1>9, <1>10, <1>11, Zenon DEF Ways

\* A process is gone after all of its tasks, the killer last.
LEMMA GoneTasks ==
    ASSUME JointInv, ShutInv, NEW p \in Pids, Gone(p), NEW u \in Tasks, TaskPid[u] = p PROVE u \in ended
<1>1. PICK k \in Killers : TaskPid[k] = p /\ (k \in ended \/ \E c \in Cpu : running[c] = k)
  BY Zenon DEF ShutInv, StopInv, Gone
<1>2. k \in ended
  BY <1>1, Zenon DEF ShutInv, KillerInv, Gone
<1>3. k \notin fresh
  <2>1. k \in Tasks
    BY TasksAssumption, Zenon
  <2>2. PICK r : \A q : At(q, k) <=> q = r
    BY <2>1, Zenon DEF JointInv, SchedInv, SchedOK, PlaceInv, Placed
  <2>3. At(<<"ended", 0>>, k) /\ (k \in fresh => At(<<"fresh", 0>>, k))
    BY <1>2, Zenon DEF At
  <2> QED BY <2>2, <2>3
<1> QED BY <1>1, <1>2, <1>3, KillersAssumption, Zenon DEF ShutInv, LastInv

\* No step brings back a process that is gone, or takes a CPU from a worker that
\* is in the lock.
LEMMA FinalStep ==
    ASSUME JointInv, JointInv', ShutInv, [Next]_vars
    PROVE  /\ \A p \in Pids : Gone(p) => Gone(p)'
           /\ \A c \in Cpu : cpuPid'[c] # cpuPid[c] => pc'[c] = "out" /\ c \notin waiters' \cup sleepers'
<1>1. Ways /\ SchedTypeOK /\ StopInv
  BY StepWays, Zenon DEF JointInv, SchedInv, ShutInv
<1>2. ASSUME NEW c \in Cpu, pc'[c] = "out" PROVE c \notin waiters' \cup sleepers'
  <2>1. CpuInv(c)'
    BY Zenon DEF JointInv, IInv, ParkInv
  <2> QED BY <1>2, <2>1, Zenon DEF CpuInv, WaiterInv, SleeperInv
<1>3. \A p \in Pids : stop[p] => stop'[p]
  <2>1. CASE UNCHANGED stop
    BY <2>1, Zenon
  <2>2. ASSUME NEW c \in Cpu, KillerSignal(c) PROVE \A p \in Pids : stop[p] => stop'[p]
    <3>1. PICK q \in Pids : stop' = [stop EXCEPT ![q] = TRUE]
      BY <2>2, Zenon DEF KillerSignal
    <3> QED BY <1>1, <3>1, Zenon DEF SchedTypeOK
  <2> QED BY <1>1, <2>1, <2>2, Zenon DEF Ways, Unmoved, Submit, KillerUnregister, EndTask, Exits, Takes, procvars
<1>4. CASE UNCHANGED cpuPid
  BY <1>3, <1>4, Zenon DEF Gone
<1>5. ASSUME NEW c \in Cpu, Exits(c)
      PROVE  /\ \A p \in Pids : Gone(p) => Gone(p)'
             /\ \A d \in Cpu : cpuPid'[d] # cpuPid[d] => pc'[d] = "out" /\ d \notin waiters' \cup sleepers'
  <2>1. \A d \in Cpu : d # c => cpuPid'[d] = cpuPid[d]
    BY <1>1, <1>5, Zenon DEF Exits, TransferToIdle, SchedTypeOK
  <2>2. cpuPid'[c] = IF registered = {} THEN -1 ELSE Least(registered)
    BY <1>1, <1>5, Zenon DEF Exits, TransferToIdle, SchedTypeOK
  <2>3. registered # {} => Least(registered) \in registered
    BY <1>1, LeastIn, PidsAssumption DEF LeastIsIn, SchedTypeOK
  <2>4. -1 \notin Pids
    BY PidsAssumption
  <2>5. ASSUME NEW p \in Pids, Gone(p) PROVE cpuPid'[c] # p
    <3>1. p \notin registered
      BY <1>1, <2>5, Zenon DEF Gone, StopInv
    <3> QED BY <2>2, <2>3, <2>4, <3>1, Zenon
  <2>6. pc'[c] = "out"
    BY <1>5, Zenon DEF Exits, lockvars
  <2> QED BY <1>2, <1>3, <2>1, <2>5, <2>6, Zenon DEF Gone
<1>6. ASSUME NEW c \in Cpu, NEW u, Takes(c, u)
      PROVE  /\ \A p \in Pids : Gone(p) => Gone(p)'
             /\ \A d \in Cpu : cpuPid'[d] # cpuPid[d] => pc'[d] = "out" /\ d \notin waiters' \cup sleepers'
  <2>1. /\ u \in Tasks /\ u \notin ended /\ pc'[c] = "out"
        /\ cpuPid'[c] = TaskPid[u] /\ \A d \in Cpu : d # c => cpuPid'[d] = cpuPid[d]
    BY <1>1, <1>6, Zenon DEF Takes, SchedTypeOK
  <2>2. ASSUME NEW p \in Pids, Gone(p) PROVE TaskPid[u] # p
    BY <2>1, <2>2, GoneTasks, Zenon
  <2> QED BY <1>2, <1>3, <2>1, <2>2, Zenon DEF Gone
<1> QED BY <1>1, <1>4, <1>5, <1>6, Zenon
        DEF Ways, Unmoved, Submit, KillerUnregister, KillerSignal, EndTask, procvars

\* A process that has shut down gets no CPU again, and no CPU changes hands while
\* its worker is in the lock or parked (pidmanager_transfer_to_idle,
\* worker_coordinate_shutdown, cpu_transfer).
THEOREM FinalShutdown == Spec => ShutdownIsFinal
<1>1. ShutInv /\ JointInv /\ JointInv' /\ [Next]_vars => ShutInv'
  BY ShutStep, Zenon DEF JointInv
<1>2. Spec => []ShutInv
  BY <1>1, ShutInit, SchedInvariance, PTL DEF Spec
<1>3. ShutInv /\ JointInv /\ JointInv' /\ [Next]_vars =>
          [/\ \A p \in Pids : Gone(p) => Gone(p)'
           /\ \A c \in Cpu : cpuPid'[c] # cpuPid[c] => pc'[c] = "out" /\ c \notin waiters' \cup sleepers']_vars
  BY FinalStep, Zenon
<1> QED BY <1>2, <1>3, SchedInvariance, PTL DEF Spec, ShutdownIsFinal
=============================================================================
