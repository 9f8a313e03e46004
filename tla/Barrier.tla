------------------------------- MODULE Barrier ------------------------------
(***************************************************************************)
(* nosv_barrier_t (src/support/barrier.c): a group of paused tasks and a   *)
(* countdown under a spinlock.  The task that counts down to zero takes    *)
(* the group, restores the barrier, releases the lock and submits the      *)
(* group, while faster tasks are already waiting for the next round and    *)
(* the others of its round have perhaps not paused yet.                    *)
(***************************************************************************)
EXTENDS Integers, Sequences

CONSTANTS
    Team,           \* the tasks that use the barrier
    Width,          \* count: the calls that make up a round
    Rounds,         \* bound: rounds that the program makes
    NoHolder        \* the lock is free

ASSUME BarrierAssumption == Width \in Nat \ {0} /\ Rounds \in Nat \ {0} /\ NoHolder \notin Team

VARIABLES
    waiting,        \* barrier->waiting_tasks
    towait,         \* barrier->towait
    holder,         \* the task that has barrier->lock
    memory,         \* whether the barrier is "live" or "freed"
    call,           \* where each task is in nosv_barrier_wait
    group,          \* the copy of waiting_tasks that each last task has
    submitted,      \* paused tasks handed to the scheduler
    woken,          \* tasks whose worker was woken
    round,          \* the round that waits for tasks, as a reference
    my              \* the last round in which each task arrived, as a reference

barvars == << waiting, towait, holder, memory, call, group, submitted, woken, round, my >>

Members(s) == {s[i] : i \in DOMAIN s}

BarInit ==
    /\ waiting = << >> /\ towait = Width /\ holder = NoHolder /\ memory = "live"
    /\ call = [t \in Team |-> "out"] /\ group = [t \in Team |-> << >>]
    /\ submitted = {} /\ woken = {}
    /\ round = 1 /\ my = [t \in Team |-> 0]
-----------------------------------------------------------------------------
\* nosv_barrier_wait, up to the lock; the program makes the calls of Rounds
\* rounds.
WaitLock(t) ==
    /\ call[t] = "out" /\ round <= Rounds
    /\ holder = NoHolder /\ holder' = t
    /\ call' = [call EXCEPT ![t] = "locked"]
    /\ UNCHANGED << waiting, towait, memory, group, submitted, woken, round, my >>

\* A task that is not the last one joins the group.
AddWaiting(t) ==
    /\ call[t] = "locked" /\ towait - 1 # 0
    /\ towait' = towait - 1
    /\ waiting' = Append(waiting, t)
    /\ my' = [my EXCEPT ![t] = round]
    /\ call' = [call EXCEPT ![t] = "unlock to pause"]
    /\ UNCHANGED << holder, memory, group, submitted, woken, round >>

\* Mutant: the group is copied and stays in the barrier.
TakeWaiting_KeepsGroup(t) ==
    /\ call[t] = "locked" /\ towait - 1 = 0
    /\ group' = [group EXCEPT ![t] = waiting]
    /\ towait' = Width
    /\ round' = round + 1 /\ my' = [my EXCEPT ![t] = round]
    /\ call' = [call EXCEPT ![t] = "unlock to submit"]
    /\ UNCHANGED << waiting, holder, memory, submitted, woken >>

\* The last task takes the group and restores the barrier.
TakeWaiting(t) ==
    /\ call[t] = "locked" /\ towait - 1 = 0
    /\ group' = [group EXCEPT ![t] = waiting]
    /\ waiting' = << >> /\ towait' = Width
    /\ round' = round + 1 /\ my' = [my EXCEPT ![t] = round]
    /\ call' = [call EXCEPT ![t] = "unlock to submit"]
    /\ UNCHANGED << holder, memory, submitted, woken >>

WaitUnlock(t) ==
    /\ call[t] \in {"unlock to pause", "unlock to submit"}
    /\ holder' = NoHolder
    /\ call' = [call EXCEPT ![t] = IF @ = "unlock to pause" THEN "pause" ELSE "submit"]
    /\ UNCHANGED << waiting, towait, memory, group, submitted, woken, round, my >>

\* scheduler_submit_group, unless nobody waited, and the return of the last task.
SubmitGroup(t) ==
    /\ call[t] = "submit"
    /\ submitted' = submitted \cup Members(group[t])
    /\ group' = [group EXCEPT ![t] = << >>]
    /\ call' = [call EXCEPT ![t] = "out"]
    /\ UNCHANGED << waiting, towait, holder, memory, woken, round, my >>

\* A worker obtains the task and wakes the worker it belongs to, which has
\* perhaps not blocked yet.
Obtain(t) ==
    /\ t \in submitted
    /\ submitted' = submitted \ {t} /\ woken' = woken \cup {t}
    /\ UNCHANGED << waiting, towait, holder, memory, call, group, round, my >>

\* task_pause and the call return.
Unpause(t) ==
    /\ call[t] = "pause" /\ t \in woken
    /\ woken' = woken \ {t}
    /\ call' = [call EXCEPT ![t] = "out"]
    /\ UNCHANGED << waiting, towait, holder, memory, group, submitted, round, my >>

\* nosv_barrier_destroy by a task whose call of the last round has returned; the
\* others of that round need not have returned.
BarrierDestroy(t) ==
    /\ memory = "live" /\ call[t] = "out" /\ my[t] = Rounds
    /\ memory' = "freed"
    /\ UNCHANGED << waiting, towait, holder, call, group, submitted, woken, round, my >>

BarNext ==
    \E t \in Team : \/ WaitLock(t) \/ AddWaiting(t) \/ TakeWaiting(t) \/ WaitUnlock(t)
                    \/ SubmitGroup(t) \/ Obtain(t) \/ Unpause(t) \/ BarrierDestroy(t)

BarSpec == BarInit /\ [][BarNext]_barvars
-----------------------------------------------------------------------------
Asleep(t) == call[t] \in {"unlock to pause", "pause"} /\ t \notin woken

\* A paused task that nobody has woken is known in one place: the barrier, the
\* last task of its round or the scheduler; any other task in none.
KnownOnce ==
    \A t \in Team :
        /\ Asleep(t) <=> t \in Members(waiting) \/ t \in submitted \/ \E l \in Team : t \in Members(group[l])
        /\ ~(t \in Members(waiting) /\ t \in submitted)
        /\ \A l \in Team : t \in Members(group[l]) =>
              t \notin Members(waiting) \cup submitted /\ \A m \in Team \ {l} : t \notin Members(group[m])

\* The tasks of a round are different ones and as many as count says.
FullRounds ==
    /\ towait = Width - Len(waiting)
    /\ \A i, j \in DOMAIN waiting : i # j => waiting[i] # waiting[j]
    /\ \A l \in Team : call[l] \in {"unlock to submit", "submit"} => Len(group[l]) = Width - 1

\* nosv_barrier_wait keeps its promise although rounds overlap: no call returns
\* before the whole round of its task has arrived, no paused task is forgotten
\* or woken for a round that is not its own, and a task whose last round is over
\* may free the barrier, as nobody touches it once the group is submitted.
BarrierHolds ==
    /\ \A t \in Team : call[t] = "out" => my[t] < round
    /\ KnownOnce /\ FullRounds
    /\ memory = "freed" => holder = NoHolder
=============================================================================
