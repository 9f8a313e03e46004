------------------------------- MODULE DTLock -------------------------------
(***************************************************************************)
(* The delegation ticket lock of the central scheduler                     *)
(* (src/src/include/scheduler/dtlock.h), together with the two CPU masks   *)
(* in which its holder remembers the threads it took out of the queue      *)
(* (governor->waiters and governor->sleepers).                             *)
(*                                                                         *)
(* A thread that calls dtlock_lock_or_delegate takes a ticket and either   *)
(* becomes the holder (it will serve the others) or is popped by the       *)
(* holder, moved to a second wait location, items[cpu], and there handed   *)
(* an item, told to try again (DTLOCK_ITEM_RETRY) or put to sleep on a     *)
(* futex.  What the holder does between acquiring and releasing the lock   *)
(* is the caller's business: here it may call any operation of dtlock.h    *)
(* whose documented precondition holds, in any order.  SchedGet.tla fixes  *)
(* the order that scheduler_get uses.                                      *)
(*                                                                         *)
(* Every atomic load, store or read-modify-write that another thread can   *)
(* observe is a step of its own.  Plain accesses are merged with the       *)
(* atomic access that publishes them.                                      *)
(***************************************************************************)
EXTENDS Integers, FiniteSets

CONSTANTS
    NCpus,       \* topo_lvl_cnt(TOPO_CPU): one requesting worker per CPU
    Size,        \* dtlock->size, the slots of the first wait queue
    Lockers,     \* other threads, which call dtlock_lock
    Submitters,  \* other threads, which call dtlock_try_lock
    Items,       \* what the holder can hand over: NULL, RETRY and tasks
    NULL, RETRY, \* no task, and DTLOCK_ITEM_RETRY
    CallModes,   \* how the workers call scheduler_get, a subset of Modes
    SignalMod,   \* 2^31: values of the 31-bit signal_cnt
    MaxTicket    \* bound: no ticket after this one is handed out

Cpu == 0 .. NCpus - 1
Thread == Cpu \cup Lockers \cup Submitters
Slots == 0 .. Size - 1

\* The three ways in which scheduler_get is called: SCHED_GET_DEFAULT,
\* SCHED_GET_NONBLOCKING and SCHED_GET_NONBLOCKING | SCHED_GET_EXTERNAL.
Modes == {"default", "nonblocking", "external"}

ASSUME SizesAssumption ==
    /\ NCpus \in Nat \ {0}
    /\ Size \in Nat \ {0}
    /\ SignalMod \in Nat /\ SignalMod >= 2
    /\ MaxTicket \in Nat

ASSUME ItemsAssumption ==
    /\ {NULL, RETRY} \subseteq Items
    /\ CallModes \subseteq Modes

ASSUME ThreadsAssumption ==
    /\ IsFiniteSet(Lockers)
    /\ Lockers \cap Cpu = {}
    /\ Submitters \cap (Cpu \cup Lockers) = {}
    /\ NCpus + Cardinality(Lockers) <= Size

VARIABLES
    head,        \* dtlock->head, the next ticket to be taken
    next,        \* dtlock->next, the next ticket to be released
    waitqueue,   \* dtlock->waitqueue[slot]: ticket, and the word (cpu, flags)
    items,       \* dtlock->items[cpu]
    futex,       \* dtlock->cpu_sleep_vars[cpu].memory
    waiters,     \* governor->waiters: popped, spinning on items[cpu].signal
    sleepers,    \* governor->sleepers: popped, told to sleep
    pc,          \* where each thread is
    my,          \* the local variable head of each thread
    prev,        \* prev_signal.signal_cnt of each worker
    mode         \* blocking and external arguments of each worker's call

lockvars == <<head, next, waitqueue, items, futex, waiters, sleepers,
          pc, my, prev, mode>>

WorkerPcs == {"out", "ticket", "announce", "spin", "held", "signal",
              "futex", "syscall", "asleep", "recv", "try", "cas"}
LockerPcs == {"out", "lspin", "held"}
SubmitterPcs == {"out", "try", "cas", "held"}
-----------------------------------------------------------------------------
Slot(ticket) == ticket % Size

\* signal_cnt is ++items[cpu].next cut to 31 bits.
NextSignal(cnt) == (cnt + 1) % SignalMod

\* dtlock_init.  It does not set items[].next, which starts at 0 because the
\* segment is fresh; no flags are read before a request has written them.
LockInit ==
    /\ head = Size
    /\ next = Size + 1
    /\ waitqueue = [i \in Slots |-> [ticket |-> IF i = 0 THEN Size ELSE 0,
                                     cpu    |-> 0,
                                     flags  |-> "default"]]
    /\ items = [c \in Cpu |-> [ticket |-> 0, item |-> NULL, cnt |-> 0,
                               sleep |-> FALSE, flags |-> "default"]]
    /\ futex = [c \in Cpu |-> 0]
    /\ waiters = {}
    /\ sleepers = {}
    /\ pc = [t \in Thread |-> "out"]
    /\ my = [t \in Thread |-> 0]
    /\ prev = [c \in Cpu |-> 0]
    /\ mode = [c \in Cpu |-> "default"]

Goto(t, from, to) ==
    /\ pc[t] = from
    /\ pc' = [pc EXCEPT ![t] = to]
-----------------------------------------------------------------------------
(***************************************************************************)
(* dtlock_lock_or_delegate, by the worker of CPU c.                        *)
(***************************************************************************)

\* The call, and the first load of the do-while loop: prev_signal.
LockOrDelegate(c, m) ==
    /\ Goto(c, "out", "ticket")
    /\ mode' = [mode EXCEPT ![c] = m]
    /\ prev' = [prev EXCEPT ![c] = items[c].cnt]
    /\ UNCHANGED <<head, next, waitqueue, items, futex, waiters, sleepers, my>>

\* head = fetch_add(&dtlock->head, 1)
TakeTicket(c) ==
    /\ Goto(c, "ticket", "announce")
    /\ head < MaxTicket
    /\ my' = [my EXCEPT ![c] = head]
    /\ head' = head + 1
    /\ UNCHANGED <<next, waitqueue, items, futex, waiters, sleepers, prev, mode>>

\* Store head + cpu_index and the flags in the first wait queue.
Announce(c) ==
    /\ Goto(c, "announce", "spin")
    /\ waitqueue' = [waitqueue EXCEPT ![Slot(my[c])].cpu = my[c] + c,
                                      ![Slot(my[c])].flags = mode[c]]
    /\ UNCHANGED <<head, next, items, futex, waiters, sleepers, my, prev, mode>>

\* The spin on the slot's ticket ends.
Released(c) == waitqueue[Slot(my[c])].ticket >= my[c]

\* Mutant: the new server does not store the flags of its own request.
Acquire_NoFlags(c) ==
    /\ Goto(c, "spin", "held")
    /\ Released(c)
    /\ items[c].ticket # my[c]
    /\ UNCHANGED <<head, next, waitqueue, items, futex, waiters, sleepers, my, prev, mode>>

\* items[cpu].ticket != head: the lock is ours.
Acquire(c) ==
    /\ Goto(c, "spin", "held")
    /\ Released(c)
    /\ items[c].ticket # my[c]
    /\ items' = [items EXCEPT ![c].flags = mode[c]]
    /\ UNCHANGED <<head, next, waitqueue, futex, waiters, sleepers, my, prev, mode>>

\* items[cpu].ticket == head: moved to the second wait location.
Delegated(c) ==
    /\ Goto(c, "spin", "signal")
    /\ Released(c)
    /\ items[c].ticket = my[c]
    /\ UNCHANGED <<head, next, waitqueue, items, futex, waiters, sleepers, my, prev, mode>>

\* Mutant: no wait for a new signal.
Signalled_AtOnce(c) ==
    /\ Goto(c, "signal", IF items[c].sleep THEN "futex" ELSE "recv")
    /\ UNCHANGED <<head, next, waitqueue, items, futex, waiters, sleepers, my, prev, mode>>

\* The spin on the signal counter ends; the flag says sleep or receive.
Signalled(c) ==
    /\ items[c].cnt # prev[c]
    /\ Goto(c, "signal", IF items[c].sleep THEN "futex" ELSE "recv")
    /\ UNCHANGED <<head, next, waitqueue, items, futex, waiters, sleepers, my, prev, mode>>

\* nosv_futex_wait: the fetch_add; a wake that came first leaves -1.
FutexWait(c) ==
    /\ Goto(c, "futex", IF futex[c] = 0 THEN "syscall" ELSE "recv")
    /\ futex' = [futex EXCEPT ![c] = @ + 1]
    /\ UNCHANGED <<head, next, waitqueue, items, waiters, sleepers, my, prev, mode>>

\* The kernel blocks the caller only while the word is still 1 (else EAGAIN).  The
\* call is not repeated, and the word is asserted to be 0 after it, which takes
\* for granted that no signal interrupts a worker asleep: this is assumed here.
FutexSyscall(c) ==
    /\ Goto(c, "syscall", IF futex[c] = 1 THEN "asleep" ELSE "recv")
    /\ UNCHANGED <<head, next, waitqueue, items, futex, waiters, sleepers, my, prev, mode>>

\* Read the item; DTLOCK_ITEM_RETRY starts the loop again.
Receive(c) ==
    /\ Goto(c, "recv", IF items[c].item = RETRY THEN "ticket" ELSE "out")
    /\ prev' = [prev EXCEPT ![c] = IF items[c].item = RETRY THEN items[c].cnt ELSE @]
    /\ UNCHANGED <<head, next, waitqueue, items, futex, waiters, sleepers, my, mode>>
-----------------------------------------------------------------------------
(***************************************************************************)
(* dtlock_try_lock, by any thread, and dtlock_lock, by a locker.           *)
(***************************************************************************)

TryLoad(t) ==
    /\ Goto(t, "out", "try")
    /\ my' = [my EXCEPT ![t] = head]
    /\ UNCHANGED <<head, next, waitqueue, items, futex, waiters, sleepers, prev, mode>>

\* Mutant: the ticket is taken without looking whether it was released.
TryCheck_Unchecked(t) ==
    /\ Goto(t, "try", "cas")
    /\ UNCHANGED <<head, next, waitqueue, items, futex, waiters, sleepers, my, prev, mode>>

TryCheck(t) ==
    /\ Goto(t, "try", IF waitqueue[Slot(my[t])].ticket = my[t] THEN "cas" ELSE "out")
    /\ UNCHANGED <<head, next, waitqueue, items, futex, waiters, sleepers, my, prev, mode>>

\* The compare-and-exchange is the weak one: it may fail for no reason.
TryCas(t) ==
    \/ /\ Goto(t, "cas", "held")
       /\ head = my[t] /\ head < MaxTicket
       /\ head' = head + 1
       /\ UNCHANGED <<next, waitqueue, items, futex, waiters, sleepers, my, prev, mode>>
    \/ /\ Goto(t, "cas", "out")
       /\ UNCHANGED <<head, next, waitqueue, items, futex, waiters, sleepers, my, prev, mode>>

LockTicket(l) ==
    /\ Goto(l, "out", "lspin")
    /\ head < MaxTicket
    /\ my' = [my EXCEPT ![l] = head]
    /\ head' = head + 1
    /\ UNCHANGED <<next, waitqueue, items, futex, waiters, sleepers, prev, mode>>

LockAcquire(l) ==
    /\ Goto(l, "lspin", "held")
    /\ waitqueue[Slot(my[l])].ticket = my[l]
    /\ UNCHANGED <<head, next, waitqueue, items, futex, waiters, sleepers, my, prev, mode>>
-----------------------------------------------------------------------------
(***************************************************************************)
(* The operations of the holder t.                                         *)
(***************************************************************************)

\* Mutant: a ticket that was taken counts as a thread that waits.
Empty_ByTicket == head <= next

\* dtlock_empty and dtlock_front: the slot of next, and the CPU that it names
Empty == waitqueue[Slot(next)].cpu < next
Front == waitqueue[Slot(next)].cpu - next

\* Mutant: the waiters mask is not updated.
PopfrontWait_NoMask(t) ==
    /\ pc[t] = "held"
    /\ ~Empty
    /\ items' = [items EXCEPT ![Front].ticket = next,
                              ![Front].flags = waitqueue[Slot(next)].flags]
    /\ waitqueue' = [waitqueue EXCEPT ![Slot(next)].ticket = next]
    /\ next' = next + 1
    /\ UNCHANGED <<head, futex, waiters, sleepers, pc, my, prev, mode>>

\* One round of dtlock_update_waiters: dtlock_front, the waiters mask and
\* dtlock_popfront_wait.
PopfrontWait(t) ==
    /\ pc[t] = "held"
    /\ ~Empty
    /\ items' = [items EXCEPT ![Front].ticket = next,
                              ![Front].flags = waitqueue[Slot(next)].flags]
    /\ waitqueue' = [waitqueue EXCEPT ![Slot(next)].ticket = next]
    /\ waiters' = waiters \cup {Front}
    /\ next' = next + 1
    /\ UNCHANGED <<head, futex, sleepers, pc, my, prev, mode>>

\* dtlock_serve with DTLOCK_SIGNAL_DEFAULT, and governor_served
Serve(t, c, item) ==
    /\ pc[t] = "held"
    /\ c \in waiters
    /\ items' = [items EXCEPT ![c].item = item,
                              ![c].cnt = NextSignal(@),
                              ![c].sleep = FALSE]
    /\ waiters' = waiters \ {c}
    /\ UNCHANGED <<head, next, waitqueue, futex, sleepers, pc, my, prev, mode>>

\* dtlock_is_cpu_blockable, from the flags that popfront copied
Blockable(c) == items[c].flags = "default"

\* governor_sleep_cpu: dtlock_serve with DTLOCK_SIGNAL_SLEEP and no task
SleepCpu(t, c) ==
    /\ pc[t] = "held"
    /\ c \in waiters /\ Blockable(c)
    /\ items' = [items EXCEPT ![c].item = NULL,
                              ![c].cnt = NextSignal(@),
                              ![c].sleep = TRUE]
    /\ waiters' = waiters \ {c}
    /\ sleepers' = sleepers \cup {c}
    /\ UNCHANGED <<head, next, waitqueue, futex, pc, my, prev, mode>>

\* dtlock_serve with DTLOCK_SIGNAL_WAKE: nosv_futex_signal, which wakes the
\* thread in the kernel if it got that far.
Wake(t, c, item) ==
    /\ pc[t] = "held"
    /\ c \in sleepers
    /\ items' = [items EXCEPT ![c].item = item]
    /\ futex' = [futex EXCEPT ![c] = @ - 1]
    /\ pc' = [pc EXCEPT ![c] = IF @ = "asleep" THEN "recv" ELSE @]
    /\ sleepers' = sleepers \ {c}
    /\ UNCHANGED <<head, next, waitqueue, waiters, my, prev, mode>>

\* dtlock_unlock: dtlock_popfront releases the ticket next.
Unlock(t) ==
    /\ Goto(t, "held", "out")
    /\ waitqueue' = [waitqueue EXCEPT ![Slot(next)].ticket = next]
    /\ next' = next + 1
    /\ UNCHANGED <<head, items, futex, waiters, sleepers, my, prev, mode>>
-----------------------------------------------------------------------------
\* One step of a thread inside dtlock_lock_or_delegate
WorkerStep(c) ==
    \/ TakeTicket(c) \/ Announce(c) \/ Acquire(c) \/ Delegated(c)
    \/ Signalled(c) \/ FutexWait(c) \/ FutexSyscall(c) \/ Receive(c)

HolderStep(t) ==
    \/ PopfrontWait(t)
    \/ \E c \in Cpu : \/ SleepCpu(t, c)
                      \/ \E i \in Items : Serve(t, c, i) \/ Wake(t, c, i)
    \/ Unlock(t)

LockNext ==
    \/ \E c \in Cpu : WorkerStep(c) \/ \E m \in CallModes : LockOrDelegate(c, m)
    \/ \E t \in Cpu \cup Submitters : TryLoad(t) \/ TryCheck(t) \/ TryCas(t)
    \/ \E l \in Lockers : LockTicket(l) \/ LockAcquire(l)
    \/ \E t \in Thread : HolderStep(t)

LockSpec == LockInit /\ [][LockNext]_lockvars
-----------------------------------------------------------------------------
(***************************************************************************)
(* Properties.                                                             *)
(***************************************************************************)

\* t holds a ticket that it has not yet turned into the lock or a reply
Pending(t) == pc[t] \in {"announce", "spin", "lspin"}

\* The ticket of worker c was popped by the holder.
Popped(c) == items[c].ticket = my[c]

\* c was popped and answered, and has not read the answer yet.
Answered(c) ==
    \/ pc[c] = "recv"
    \/ /\ pc[c] \in {"signal", "futex", "syscall"} \/ (pc[c] = "spin" /\ Popped(c))
       /\ c \notin waiters \cup sleepers

\* The lock is t's: it holds it, or its ticket was released and not popped.
Owns(t) ==
    \/ pc[t] = "held"
    \/ Pending(t) /\ my[t] < next /\ ~(t \in Cpu /\ Popped(t))

\* Each kind of thread only goes through the entry points that it calls.
PcOK ==
    /\ pc \in [Thread -> WorkerPcs \cup LockerPcs \cup SubmitterPcs]
    /\ \A c \in Cpu : pc[c] \in WorkerPcs
    /\ \A l \in Lockers : pc[l] \in LockerPcs
    /\ \A s \in Submitters : pc[s] \in SubmitterPcs

\* Every variable has the values that its C type and its use allow.
TypeOK ==
    /\ head \in Nat /\ next \in Nat
    /\ waitqueue \in [Slots -> [ticket : Nat, cpu : Nat, flags : Modes]]
    /\ items \in [Cpu -> [ticket : Nat, item : Items, cnt : 0 .. SignalMod - 1,
                          sleep : BOOLEAN, flags : Modes]]
    /\ futex \in [Cpu -> {-1, 0, 1}]
    /\ waiters \in SUBSET Cpu /\ sleepers \in SUBSET Cpu
    /\ PcOK
    /\ my \in [Thread -> Nat]
    /\ prev \in [Cpu -> 0 .. SignalMod - 1]
    /\ mode \in [Cpu -> Modes]

\* At most one thread is between acquiring and releasing the lock, whichever
\* of the three entry points it used (dtlock_lock, dtlock_try_lock,
\* dtlock_lock_or_delegate): the scheduler state that it guards is not atomic.
MutualExclusion ==
    \A s, t \in Thread : pc[s] = "held" /\ pc[t] = "held" => s = t

\* The lock is never lost: while tickets are outstanding past the last one
\* released, some thread has the lock or is about to find that it has it.
LockNotLost == head >= next => \E t \in Thread : Owns(t)

\* What dtlock_empty takes for a waiting thread is one: the CPU that
\* dtlock_front computes exists, its worker spins on ticket next, and the CPU
\* is in neither mask (the assertion of dtlock_update_waiters).  A slot is
\* reused every Size tickets and its old (ticket + cpu) word is never cleared.
FrontIsWaiting ==
    (\E t \in Thread : pc[t] = "held") /\ ~Empty =>
        /\ Front \in Cpu
        /\ pc[Front] = "spin" /\ my[Front] = next
        /\ Front \notin waiters \cup sleepers

\* The queue of waiting threads never loses its place: the lock is not lost
\* between a release and the next owner, and a holder pops only threads that
\* wait for it.
QueueSound == LockNotLost /\ FrontIsWaiting

\* No signal is lost: a popped worker that still sees the old signal counter
\* is in the waiters mask and one blocked in the kernel is in the sleepers
\* mask, so that some later holder knows that it has to serve it.
ParkedIsKnown ==
    \A c \in Cpu :
        /\ pc[c] = "signal" /\ items[c].cnt = prev[c] => c \in waiters
        /\ pc[c] = "asleep" => c \in sleepers

\* A worker in a mask is parked, in one mask only, and was not answered yet.
MasksAreParked ==
    /\ waiters \cap sleepers = {}
    /\ \A c \in waiters : /\ pc[c] \in {"spin", "signal"} /\ Popped(c)
                          /\ items[c].cnt = prev[c]
    /\ \A c \in sleepers :
          /\ pc[c] \in {"spin", "signal", "futex", "syscall", "asleep"} /\ Popped(c)
          /\ items[c].cnt # prev[c] /\ items[c].sleep

\* The assertions on the futex word: nosv_futex_wait finds 0 or -1 and leaves
\* with 0, nosv_futex_signal finds 1 or 0.
FutexAssertions ==
    \A c \in Cpu :
        /\ pc[c] = "futex" => futex[c] \in {-1, 0}
        /\ pc[c] = "recv" => futex[c] = 0
        /\ c \in sleepers => futex[c] \in {0, 1}

\* Only a worker that called with blocking set is put to sleep (the assertion
\* before nosv_futex_wait in dtlock_lock_or_delegate): the holder decides from
\* a copy of the flags that the worker published with its ticket.
SleepOnlyIfBlocking ==
    \A c \in Cpu : pc[c] \in {"futex", "syscall", "asleep"} => mode[c] = "default"
=============================================================================
