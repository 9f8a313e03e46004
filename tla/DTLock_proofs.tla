---------------------------- MODULE DTLock_proofs ----------------------------
(***************************************************************************)
(* Proofs about DTLock, for any number of CPUs, lockers and submitters,    *)
(* any queue size that holds the CPUs and the lockers, any signal counter  *)
(* with at least two values and any bound on the tickets: the inductive    *)
(* invariant, and that the lock implements Delegation.                     *)
(***************************************************************************)
EXTENDS DTLockDelegation, FiniteSetTheorems, TLAPS
-----------------------------------------------------------------------------
(***************************************************************************)
(* The inductive invariant.                                                *)
(***************************************************************************)

\* Tickets: those from next to head - 1 are pending, each with one thread.
TicketInv ==
    /\ Size <= head /\ 1 <= next /\ next <= head + 1
    /\ \A t \in Thread : Pending(t) => my[t] < head
    /\ \A s, t \in Thread : Pending(s) /\ Pending(t) /\ my[s] = my[t] => s = t
    /\ \A k \in next .. head - 1 : \E t \in Thread : Pending(t) /\ my[t] = k
    /\ \A i \in Slots : waitqueue[i].ticket < next
    /\ \A c \in Cpu : items[c].ticket < head

\* The lock has one owner exactly when tickets were taken beyond the last one
\* released.
OwnerInv ==
    /\ \A s, t \in Thread : Owns(s) /\ Owns(t) => s = t
    /\ \A t \in Thread : Owns(t) => head >= next
    /\ LockNotLost

\* c spins on ticket k and its slot says so.
Announced(c, k) ==
    /\ pc[c] = "spin" /\ my[c] = k
    /\ waitqueue[Slot(k)].cpu = k + c
    /\ waitqueue[Slot(k)].flags = mode[c]

\* In the window of the next Size tickets a slot holds either the announcement
\* of its ticket or an old word, which is below the ticket.
SlotInv ==
    \A k \in next .. next + Size - 1 :
        waitqueue[Slot(k)].cpu < k \/ \E c \in Cpu : Announced(c, k)

\* c is waiting for a signal, told to sleep, or neither; in the last case it
\* is outside the second wait location, or an answer is on its way.
WaiterInv(c) ==
    /\ pc[c] \in {"spin", "signal"} /\ Popped(c) /\ items[c].cnt = prev[c]
    /\ futex[c] = 0 /\ items[c].flags = mode[c]

SleeperInv(c) ==
    /\ Popped(c) /\ items[c].cnt # prev[c] /\ items[c].sleep /\ mode[c] = "default"
    /\ \/ pc[c] \in {"spin", "signal", "futex"} /\ futex[c] = 0
       \/ pc[c] \in {"syscall", "asleep"} /\ futex[c] = 1

FreeInv(c) ==
    \/ pc[c] \in {"out", "ticket", "announce", "held", "try", "cas"} /\ futex[c] = 0
    \/ pc[c] = "spin" /\ ~Popped(c) /\ futex[c] = 0
    \/ /\ pc[c] \in {"spin", "signal"} /\ Popped(c) /\ items[c].cnt # prev[c]
       /\ \/ ~items[c].sleep /\ futex[c] = 0
          \/ items[c].sleep /\ futex[c] = -1 /\ mode[c] = "default"
    \/ pc[c] = "futex" /\ futex[c] = -1 /\ mode[c] = "default"
    \/ pc[c] = "syscall" /\ futex[c] = 0 /\ mode[c] = "default"
    \/ pc[c] = "recv" /\ futex[c] = 0

\* What holds of the worker of CPU c
CpuInv(c) ==
    /\ ~(c \in waiters /\ c \in sleepers)
    /\ c \in waiters => WaiterInv(c)
    /\ c \in sleepers => SleeperInv(c)
    /\ c \notin waiters /\ c \notin sleepers => FreeInv(c)
    /\ pc[c] \in {"ticket", "announce"} => items[c].cnt = prev[c]
    /\ pc[c] = "spin" /\ ~Popped(c) => items[c].cnt = prev[c]
    /\ pc[c] = "announce" => ~Popped(c)
    /\ pc[c] = "spin" /\ Popped(c) => my[c] < next

ParkInv == \A c \in Cpu : CpuInv(c)

\* A thread about to compare-and-exchange saw the ticket of head released.
TryInv == \A t \in Thread : pc[t] = "cas" => my[t] < next

IInv == TypeOK /\ TicketInv /\ OwnerInv /\ SlotInv /\ ParkInv /\ TryInv
-----------------------------------------------------------------------------
(***************************************************************************)
(* Arithmetic.                                                             *)
(***************************************************************************)

\* A ticket has a slot.
LEMMA SlotType == \A k \in Nat : Slot(k) \in Slots
  BY SizesAssumption DEF Slot, Slots

\* Two tickets that share a slot are at least Size apart.
LEMMA SlotDistance ==
  ASSUME NEW j \in Nat, NEW k \in Nat, j < k, Slot(j) = Slot(k)
  PROVE  j + Size <= k
<1> DEFINE q == j \div Size
           r == k \div Size
<1>1. /\ q \in Nat /\ r \in Nat
      /\ j = Size * q + (j % Size)
      /\ k = Size * r + (k % Size)
  BY SizesAssumption
<1>2. k - j = Size * r - Size * q
  BY <1>1, SizesAssumption DEF Slot
<1>3. Size * r - Size * q = Size * (r - q)
  BY <1>1, SizesAssumption
<1>4. r - q >= 1
  <2>1. SUFFICES ASSUME r <= q PROVE FALSE
    BY <1>1
  <2>2. Size * r <= Size * q
    BY <2>1, <1>1, SizesAssumption
  <2> QED BY <2>2, <1>2, <1>1, SizesAssumption
<1>5. Size * (r - q) >= Size
  BY <1>4, <1>1, SizesAssumption
<1> QED BY <1>2, <1>3, <1>5, SizesAssumption, <1>1

\* The signal counter is never the same after one signal.
LEMMA NextSignalChanges ==
  ASSUME NEW n \in 0 .. SignalMod - 1
  PROVE  NextSignal(n) \in 0 .. SignalMod - 1 /\ NextSignal(n) # n
  BY SizesAssumption DEF NextSignal

\* Tickets that are Size apart share a slot.
LEMMA SlotPeriod == \A k \in Nat : Slot(k + Size) = Slot(k)
<1> TAKE k \in Nat
<1> DEFINE q == k \div Size
           r == (k + Size) \div Size
<1>1. /\ q \in Nat /\ k = Size * q + (k % Size) /\ k % Size \in 0 .. Size - 1
      /\ r \in Nat /\ k + Size = Size * r + ((k + Size) % Size)
      /\ (k + Size) % Size \in 0 .. Size - 1
  BY SizesAssumption
<1>2. Size * (r - q - 1) = (k % Size) - ((k + Size) % Size)
  BY <1>1, SizesAssumption
<1>3. r - q - 1 = 0
  <2>1. CASE r - q - 1 >= 1
    <3>1. Size * (r - q - 1) >= Size
      BY <2>1, <1>1, SizesAssumption
    <3> QED BY <3>1, <1>1, <1>2, SizesAssumption
  <2>2. CASE r - q - 1 <= -1
    <3>1. Size * (r - q - 1) <= -Size
      BY <2>2, <1>1, SizesAssumption
    <3> QED BY <3>1, <1>1, <1>2, SizesAssumption
  <2> QED BY <2>1, <2>2, <1>1
<1>4. (k % Size) - ((k + Size) % Size) = 0
  BY <1>2, <1>3, SizesAssumption
<1> QED BY <1>4, <1>1 DEF Slot
-----------------------------------------------------------------------------
(***************************************************************************)
(* Consequences of the invariant.                                          *)
(***************************************************************************)

\* Workers and lockers fit in the queue.
LEMMA RequestersFit ==
  /\ IsFiniteSet(Cpu \cup Lockers)
  /\ Cardinality(Cpu \cup Lockers) <= Size
<1>1. IsFiniteSet(Cpu) /\ Cardinality(Cpu) = NCpus
  BY FS_Interval, SizesAssumption DEF Cpu
<1>2. IsFiniteSet(Lockers)
  BY ThreadsAssumption, Zenon
<1>3. /\ IsFiniteSet(Cpu \cup Lockers)
      /\ Cardinality(Cpu \cup Lockers) =
           Cardinality(Cpu) + Cardinality(Lockers) - Cardinality(Cpu \cap Lockers)
  BY <1>1, <1>2, FS_Union, Zenon
<1>4. Cpu \cap Lockers = {}
  BY ThreadsAssumption, Zenon
<1>5. Cardinality(Cpu \cap Lockers) = 0
  BY <1>4, FS_EmptySet, Zenon
<1>6. Cardinality(Lockers) \in Nat
  BY <1>2, FS_CardinalityType, Zenon
<1> QED BY <1>1, <1>3, <1>5, <1>6, ThreadsAssumption, SizesAssumption

\* The pending tickets never outnumber the slots: each belongs to a different
\* worker or locker.
LEMMA QueueBound ==
  ASSUME TypeOK, TicketInv
  PROVE  head <= next + Size
<1> DEFINE S == next .. head - 1
           f == [k \in S |-> CHOOSE t \in Thread : Pending(t) /\ my[t] = k]
<1>0. head \in Nat /\ next \in Nat /\ Size \in Nat
  BY SizesAssumption, Zenon DEF TypeOK
<1>1. SUFFICES ASSUME head > next PROVE head <= next + Size
  BY <1>0
<1>2. \A k \in S : f[k] \in Thread /\ Pending(f[k]) /\ my[f[k]] = k
  BY Zenon DEF TicketInv
<1>3. \A t \in Thread : Pending(t) => t \in Cpu \cup Lockers
  BY Zenon DEF TypeOK, PcOK, Pending, Thread, SubmitterPcs
<1>4. f \in [S -> Cpu \cup Lockers]
  BY <1>2, <1>3, Zenon
<1>5. \A j, k \in S : f[j] = f[k] => j = k
  BY <1>2, Zenon
<1> HIDE DEF S, f
<1>6. f \in Injection(S, Cpu \cup Lockers)
  BY <1>4, <1>5, Zenon DEF Injection, IsInjective
<1>7. Cardinality(S) <= Cardinality(Cpu \cup Lockers)
  BY <1>6, RequestersFit, FS_Injection, Zenon
<1>8. Cardinality(S) = head - next
  BY <1>0, <1>1, FS_Interval DEF S
<1>9. Cardinality(Cpu \cup Lockers) \in Nat
  BY RequestersFit, FS_CardinalityType, Zenon
<1> QED BY <1>0, <1>7, <1>8, <1>9, RequestersFit

\* The thread that the holder would pop is the one that spins on ticket next.
LEMMA FrontFact ==
  ASSUME TypeOK, SlotInv, ~Empty
  PROVE  Front \in Cpu /\ Announced(Front, next)
<1>1. next \in Nat /\ Slot(next) \in Slots /\ Size \in Nat \ {0}
  BY SlotType, SizesAssumption, Zenon DEF TypeOK
<1>2. waitqueue[Slot(next)].cpu \in Nat
  BY <1>1, Zenon DEF TypeOK
<1>3. ~(waitqueue[Slot(next)].cpu < next)
  BY Zenon DEF Empty
<1>4. next \in next .. next + Size - 1
  BY <1>1
<1>5. PICK c \in Cpu : Announced(c, next)
  BY <1>3, <1>4, Zenon DEF SlotInv
<1>6. Front = c
  BY <1>1, <1>2, <1>5, SizesAssumption DEF Front, Announced, Cpu
<1> QED BY <1>5, <1>6, Zenon
-----------------------------------------------------------------------------
(***************************************************************************)
(* The invariant holds initially and is preserved by every action.         *)
(***************************************************************************)

\* The invariant holds after dtlock_init.
LEMMA InitInv == LockInit => IInv
<1> SUFFICES ASSUME LockInit PROVE IInv
  BY Zenon
<1> USE SizesAssumption DEF LockInit
<1>1. TypeOK
  BY ItemsAssumption, SlotType DEF TypeOK, PcOK, Modes, WorkerPcs, LockerPcs, SubmitterPcs, Thread
<1>2. TicketInv
  BY DEF TicketInv, Pending, Thread, Cpu, Slots
<1>3. OwnerInv
  BY DEF OwnerInv, LockNotLost, Owns, Pending
<1>4. SlotInv
  BY SlotType DEF SlotInv
<1>5. ParkInv
  BY Zenon DEF ParkInv, CpuInv, FreeInv, Thread
<1>6. TryInv
  BY Zenon DEF TryInv
<1> QED BY <1>1, <1>2, <1>3, <1>4, <1>5, <1>6, Zenon DEF IInv

\* A step of one thread t to a place where a thread of its kind can be
LEMMA GotoType ==
  ASSUME TypeOK, NEW t \in Thread, NEW v,
         pc' = [pc EXCEPT ![t] = v],
         t \in Cpu => v \in WorkerPcs,
         t \in Lockers => v \in LockerPcs,
         t \in Submitters => v \in SubmitterPcs
  PROVE  PcOK'
  BY ThreadsAssumption, Zenon DEF TypeOK, PcOK, Thread

\* Steps that neither take nor release a ticket
LEMMA TicketFrame ==
  ASSUME TypeOK, TicketInv, UNCHANGED <<head, next>>,
         \A i \in Slots : waitqueue'[i].ticket = waitqueue[i].ticket,
         \A c \in Cpu : items'[c].ticket = items[c].ticket,
         \A t \in Thread : Pending(t)' => Pending(t) /\ my'[t] = my[t],
         \A t \in Thread : Pending(t) /\ my[t] >= next => Pending(t)' /\ my'[t] = my[t]
  PROVE  TicketInv'
<1>1. ASSUME NEW k \in next .. head - 1
      PROVE  \E t \in Thread : Pending(t)' /\ my'[t] = k
  <2>1. PICK t \in Thread : Pending(t) /\ my[t] = k
    BY Zenon DEF TicketInv
  <2>2. my[t] >= next
    BY <2>1 DEF TypeOK
  <2> QED BY <2>1, <2>2, Zenon
<1> QED BY <1>1, Zenon DEF TicketInv

\* A step that neither takes a ticket nor releases the lock, and moves
\* nobody in or out of it, keeps OwnerInv.
LEMMA OwnerFrame ==
  ASSUME OwnerInv, UNCHANGED <<head, next>>, \A t \in Thread : Owns(t)' <=> Owns(t)
  PROVE  OwnerInv'
  BY Zenon DEF OwnerInv, LockNotLost

\* A step that announces nobody and takes no announced worker away keeps
\* SlotInv.
LEMMA SlotFrame ==
  ASSUME TypeOK, SlotInv, UNCHANGED next,
         \A i \in Slots : /\ waitqueue'[i].cpu = waitqueue[i].cpu
                          /\ waitqueue'[i].flags = waitqueue[i].flags,
         \A c \in Cpu : pc[c] = "spin" /\ my[c] >= next =>
                          pc'[c] = "spin" /\ my'[c] = my[c] /\ mode'[c] = mode[c]
  PROVE  SlotInv'
<1>1. SUFFICES ASSUME NEW k \in next .. next + Size - 1
               PROVE  waitqueue'[Slot(k)].cpu < k \/ \E c \in Cpu : Announced(c, k)'
  BY SizesAssumption, Zenon DEF SlotInv
<1>2. k \in Nat /\ k >= next /\ Slot(k) \in Slots
  BY SlotType, SizesAssumption DEF TypeOK
<1>3. CASE waitqueue[Slot(k)].cpu < k
  BY <1>2, <1>3, Zenon
<1>4. ASSUME NEW c \in Cpu, Announced(c, k) PROVE Announced(c, k)'
  BY <1>2, <1>4, Zenon DEF Announced
<1> QED BY <1>3, <1>4, Zenon DEF SlotInv

\* Nothing that concerns CPU c changes, except that next may advance.
Untouched(c) ==
    /\ pc'[c] = pc[c] /\ my'[c] = my[c] /\ prev'[c] = prev[c] /\ mode'[c] = mode[c]
    /\ items'[c] = items[c] /\ futex'[c] = futex[c]
    /\ c \in waiters' <=> c \in waiters
    /\ c \in sleepers' <=> c \in sleepers

\* What holds of CPU c is kept by a step that does not concern it.
LEMMA CpuFrame ==
  ASSUME TypeOK, NEW c \in Cpu, CpuInv(c), Untouched(c), next' \in Nat, next <= next'
  PROVE  CpuInv(c)'
<1>1. my[c] \in Nat /\ next \in Nat
  BY Zenon DEF TypeOK, Thread
<1>2. Popped(c)' <=> Popped(c)
  BY Zenon DEF Popped, Untouched
<1>3. /\ WaiterInv(c)' <=> WaiterInv(c)
      /\ SleeperInv(c)' <=> SleeperInv(c)
  BY <1>2, Zenon DEF WaiterInv, SleeperInv, Untouched
<1>4. FreeInv(c)' <=> FreeInv(c)
  BY <1>2, Zenon DEF FreeInv, Untouched
<1> QED BY <1>1, <1>2, <1>3, <1>4 DEF CpuInv, Untouched

\* A step that concerns at most CPU c
LEMMA ParkStep ==
  ASSUME TypeOK, ParkInv, NEW c, next' \in Nat, next <= next',
         \A d \in Cpu : d # c => Untouched(d),
         c \in Cpu => CpuInv(c)'
  PROVE  ParkInv'
<1>1. ASSUME NEW d \in Cpu PROVE CpuInv(d)'
  <2>1. CASE d = c
    BY <2>1, Zenon
  <2>2. CASE d # c
    BY <2>2, CpuFrame, Zenon DEF ParkInv
  <2> QED BY <2>1, <2>2, Zenon
<1> QED BY <1>1, Zenon DEF ParkInv

\* A thread that stays away from the second wait location
LEMMA AwayStep ==
  ASSUME TypeOK, NEW c \in Cpu, CpuInv(c),
         UNCHANGED <<items, futex, waiters, sleepers, prev, mode>>,
         pc[c] \in {"out", "try", "cas", "held"},
         pc'[c] \in {"out", "try", "cas", "held"}
  PROVE  CpuInv(c)'
  BY Zenon DEF CpuInv, WaiterInv, SleeperInv, FreeInv

\* A worker that starts a request reads the signal it was last sent.
LEMMA LockOrDelegateInv ==
  ASSUME IInv, NEW c \in Cpu, NEW m \in CallModes, LockOrDelegate(c, m)
  PROVE  IInv'
<1> USE DEF IInv, LockOrDelegate, Goto
<1>0. c \in Thread /\ c \notin Lockers /\ c \notin Submitters
  BY ThreadsAssumption, Zenon DEF Thread
<1>1. TypeOK'
  <2>1. PcOK'
    BY <1>0, GotoType, Zenon DEF WorkerPcs
  <2> QED BY <2>1, ItemsAssumption, Zenon DEF TypeOK
<1>2. TicketInv'
  BY <1>0, TicketFrame, Zenon DEF TypeOK, PcOK, Pending
<1>3. OwnerInv'
  BY <1>0, OwnerFrame, Zenon DEF TypeOK, PcOK, Owns, Pending, Popped
<1>4. SlotInv'
  BY <1>0, SlotFrame DEF TypeOK, PcOK
<1>5. ParkInv'
  <2>1. CpuInv(c)
    BY Zenon DEF ParkInv
  <2>2. CpuInv(c)'
    BY <1>0, <2>1, Zenon DEF TypeOK, PcOK, CpuInv, WaiterInv, SleeperInv, FreeInv, Popped
  <2>3. \A d \in Cpu : d # c => Untouched(d)
    BY <1>0, Zenon DEF TypeOK, PcOK, Thread, Untouched
  <2> QED BY <2>2, <2>3, ParkStep DEF TypeOK
<1>9. TryInv'
  BY <1>0, Zenon DEF TypeOK, PcOK, TryInv
<1> QED BY <1>1, <1>2, <1>3, <1>4, <1>5, <1>9, Zenon

\* The worker whose ticket is served and that was not popped becomes the holder.
LEMMA AcquireInv ==
  ASSUME IInv, NEW c \in Cpu, Acquire(c)
  PROVE  IInv'
<1> USE DEF IInv, Acquire, Goto
<1>0. c \in Thread /\ c \notin Lockers /\ c \notin Submitters
  BY ThreadsAssumption, Zenon DEF Thread
<1>1. TypeOK'
  <2>1. PcOK'
    BY <1>0, GotoType, Zenon DEF WorkerPcs
  <2> QED BY <2>1 DEF TypeOK
<1>r. my[c] < next
  BY <1>0, SlotType DEF TypeOK, TicketInv, Released
<1>2. TicketInv'
  BY <1>0, TicketFrame, <1>r DEF TypeOK, PcOK, Pending
<1>3. OwnerInv'
  BY <1>0, OwnerFrame, <1>r, Zenon DEF TypeOK, PcOK, Owns, Pending, Popped
<1>4. SlotInv'
  BY <1>0, SlotFrame, <1>r DEF TypeOK, PcOK
<1>5. ParkInv'
  <2>1. CpuInv(c)
    BY Zenon DEF ParkInv
  <2>2. CpuInv(c)'
    BY <1>0, <2>1, Zenon DEF TypeOK, PcOK, CpuInv, WaiterInv, SleeperInv, FreeInv, Popped
  <2>3. \A d \in Cpu : d # c => Untouched(d)
    BY <1>0, Zenon DEF TypeOK, PcOK, Thread, Untouched
  <2> QED BY <2>2, <2>3, ParkStep DEF TypeOK
<1>9. TryInv'
  BY <1>0, Zenon DEF TypeOK, PcOK, TryInv
<1> QED BY <1>1, <1>2, <1>3, <1>4, <1>5, <1>9, Zenon

\* The worker whose ticket is served because it was popped turns to items[cpu].
LEMMA DelegatedInv ==
  ASSUME IInv, NEW c \in Cpu, Delegated(c)
  PROVE  IInv'
<1> USE DEF IInv, Delegated, Goto
<1>0. c \in Thread /\ c \notin Lockers /\ c \notin Submitters
  BY ThreadsAssumption, Zenon DEF Thread
<1>1. TypeOK'
  <2>1. PcOK'
    BY <1>0, GotoType, Zenon DEF WorkerPcs
  <2> QED BY <2>1, Zenon DEF TypeOK
<1>r. my[c] < next
  BY <1>0, SlotType DEF TypeOK, TicketInv, Released
<1>2. TicketInv'
  BY <1>0, TicketFrame, <1>r DEF TypeOK, PcOK, Pending
<1>3. OwnerInv'
  BY <1>0, OwnerFrame, <1>r, Zenon DEF TypeOK, PcOK, Owns, Pending, Popped
<1>4. SlotInv'
  BY <1>0, SlotFrame, <1>r DEF TypeOK, PcOK
<1>5. ParkInv'
  <2>1. CpuInv(c)
    BY Zenon DEF ParkInv
  <2>2. CpuInv(c)'
    BY <1>0, <2>1, Zenon DEF TypeOK, PcOK, CpuInv, WaiterInv, SleeperInv, FreeInv, Popped
  <2>3. \A d \in Cpu : d # c => Untouched(d)
    BY <1>0, Zenon DEF TypeOK, PcOK, Thread, Untouched
  <2> QED BY <2>2, <2>3, ParkStep DEF TypeOK
<1>9. TryInv'
  BY <1>0, Zenon DEF TypeOK, PcOK, TryInv
<1> QED BY <1>1, <1>2, <1>3, <1>4, <1>5, <1>9, Zenon

\* A popped worker sees a new signal: an item, or the order to sleep.
LEMMA SignalledInv ==
  ASSUME IInv, NEW c \in Cpu, Signalled(c)
  PROVE  IInv'
<1> USE DEF IInv, Signalled, Goto
<1>0. c \in Thread /\ c \notin Lockers /\ c \notin Submitters
  BY ThreadsAssumption, Zenon DEF Thread
<1>1. TypeOK'
  <2>1. PcOK'
    BY <1>0, GotoType, Zenon DEF WorkerPcs
  <2> QED BY <2>1, Zenon DEF TypeOK
<1>2. TicketInv'
  BY <1>0, TicketFrame, Zenon DEF TypeOK, PcOK, Pending
<1>3. OwnerInv'
  BY <1>0, OwnerFrame, Zenon DEF TypeOK, PcOK, Owns, Pending, Popped
<1>4. SlotInv'
  BY <1>0, SlotFrame DEF TypeOK, PcOK
<1>5. ParkInv'
  <2>1. CpuInv(c)
    BY Zenon DEF ParkInv
  <2>2. CpuInv(c)'
    BY <1>0, <2>1, Zenon DEF TypeOK, PcOK, CpuInv, WaiterInv, SleeperInv, FreeInv, Popped
  <2>3. \A d \in Cpu : d # c => Untouched(d)
    BY <1>0, Zenon DEF TypeOK, PcOK, Thread, Untouched
  <2> QED BY <2>2, <2>3, ParkStep DEF TypeOK
<1>9. TryInv'
  BY <1>0, Zenon DEF TypeOK, PcOK, TryInv
<1> QED BY <1>1, <1>2, <1>3, <1>4, <1>5, <1>9, Zenon

\* A worker told to sleep looks at its futex word.
LEMMA FutexWaitInv ==
  ASSUME IInv, NEW c \in Cpu, FutexWait(c)
  PROVE  IInv'
<1> USE DEF IInv, FutexWait, Goto
<1>0. c \in Thread /\ c \notin Lockers /\ c \notin Submitters
  BY ThreadsAssumption, Zenon DEF Thread
<1>1. TypeOK'
  <2>1. PcOK'
    BY <1>0, GotoType, Zenon DEF WorkerPcs
  <2>2. futex'[c] \in {-1, 0, 1}
    BY <1>0 DEF TypeOK, ParkInv, CpuInv, WaiterInv, SleeperInv, FreeInv
  <2> QED BY <2>1, <2>2, Zenon DEF TypeOK
<1>2. TicketInv'
  BY <1>0, TicketFrame, Zenon DEF TypeOK, PcOK, Pending
<1>3. OwnerInv'
  BY <1>0, OwnerFrame, Zenon DEF TypeOK, PcOK, Owns, Pending, Popped
<1>4. SlotInv'
  BY <1>0, SlotFrame DEF TypeOK, PcOK
<1>5. ParkInv'
  <2>1. CpuInv(c)
    BY Zenon DEF ParkInv
  <2>2. CpuInv(c)'
    BY <1>0, <2>1 DEF TypeOK, PcOK, CpuInv, WaiterInv, SleeperInv, FreeInv, Popped
  <2>3. \A d \in Cpu : d # c => Untouched(d)
    BY <1>0, Zenon DEF TypeOK, PcOK, Thread, Untouched
  <2> QED BY <2>2, <2>3, ParkStep DEF TypeOK
<1>9. TryInv'
  BY <1>0, Zenon DEF TypeOK, PcOK, TryInv
<1> QED BY <1>1, <1>2, <1>3, <1>4, <1>5, <1>9, Zenon

\* The futex system call puts the worker to sleep, or returns.
LEMMA FutexSyscallInv ==
  ASSUME IInv, NEW c \in Cpu, FutexSyscall(c)
  PROVE  IInv'
<1> USE DEF IInv, FutexSyscall, Goto
<1>0. c \in Thread /\ c \notin Lockers /\ c \notin Submitters
  BY ThreadsAssumption, Zenon DEF Thread
<1>1. TypeOK'
  <2>1. PcOK'
    BY <1>0, GotoType, Zenon DEF WorkerPcs
  <2> QED BY <2>1, Zenon DEF TypeOK
<1>2. TicketInv'
  BY <1>0, TicketFrame, Zenon DEF TypeOK, PcOK, Pending
<1>3. OwnerInv'
  BY <1>0, OwnerFrame, Zenon DEF TypeOK, PcOK, Owns, Pending, Popped
<1>4. SlotInv'
  BY <1>0, SlotFrame DEF TypeOK, PcOK
<1>5. ParkInv'
  <2>1. CpuInv(c)
    BY Zenon DEF ParkInv
  <2>2. CpuInv(c)'
    BY <1>0, <2>1 DEF TypeOK, PcOK, CpuInv, WaiterInv, SleeperInv, FreeInv, Popped
  <2>3. \A d \in Cpu : d # c => Untouched(d)
    BY <1>0, Zenon DEF TypeOK, PcOK, Thread, Untouched
  <2> QED BY <2>2, <2>3, ParkStep DEF TypeOK
<1>9. TryInv'
  BY <1>0, Zenon DEF TypeOK, PcOK, TryInv
<1> QED BY <1>1, <1>2, <1>3, <1>4, <1>5, <1>9, Zenon

\* A worker takes its item and leaves.
LEMMA ReceiveInv ==
  ASSUME IInv, NEW c \in Cpu, Receive(c)
  PROVE  IInv'
<1> USE DEF IInv, Receive, Goto
<1>0. c \in Thread /\ c \notin Lockers /\ c \notin Submitters
  BY ThreadsAssumption, Zenon DEF Thread
<1>1. TypeOK'
  <2>1. PcOK'
    BY <1>0, GotoType, Zenon DEF WorkerPcs
  <2> QED BY <2>1, Zenon DEF TypeOK
<1>2. TicketInv'
  BY <1>0, TicketFrame, Zenon DEF TypeOK, PcOK, Pending
<1>3. OwnerInv'
  BY <1>0, OwnerFrame, Zenon DEF TypeOK, PcOK, Owns, Pending, Popped
<1>4. SlotInv'
  BY <1>0, SlotFrame DEF TypeOK, PcOK
<1>5. ParkInv'
  <2>1. CpuInv(c)
    BY Zenon DEF ParkInv
  <2>2. CpuInv(c)'
    BY <1>0, <2>1, Zenon DEF TypeOK, PcOK, CpuInv, WaiterInv, SleeperInv, FreeInv, Popped
  <2>3. \A d \in Cpu : d # c => Untouched(d)
    BY <1>0, Zenon DEF TypeOK, PcOK, Thread, Untouched
  <2> QED BY <2>2, <2>3, ParkStep DEF TypeOK
<1>9. TryInv'
  BY <1>0, Zenon DEF TypeOK, PcOK, TryInv
<1> QED BY <1>1, <1>2, <1>3, <1>4, <1>5, <1>9, Zenon

\* dtlock_try_lock reads head.
LEMMA TryLoadInv ==
  ASSUME IInv, NEW t \in Cpu \cup Submitters, TryLoad(t)
  PROVE  IInv'
<1> USE DEF IInv, TryLoad, Goto
<1>0. t \in Thread /\ t \notin Lockers
  BY ThreadsAssumption, Zenon DEF Thread
<1>1. TypeOK'
  <2>1. PcOK'
    BY <1>0, GotoType, Zenon DEF WorkerPcs, SubmitterPcs
  <2> QED BY <2>1, Zenon DEF TypeOK, TicketInv
<1>2. TicketInv'
  BY <1>0, TicketFrame, Zenon DEF TypeOK, PcOK, Pending
<1>3. OwnerInv'
  BY <1>0, OwnerFrame, Zenon DEF TypeOK, PcOK, Owns, Pending, Popped
<1>4. SlotInv'
  BY <1>0, SlotFrame, Zenon DEF TypeOK, PcOK, Thread
<1>5. ParkInv'
  <2>1. t \in Cpu => CpuInv(t)'
    BY <1>0, AwayStep, Zenon DEF TypeOK, PcOK, ParkInv
  <2>2. \A d \in Cpu : d # t => Untouched(d)
    BY <1>0, Zenon DEF TypeOK, PcOK, Thread, Untouched
  <2> QED BY <1>0, <2>1, <2>2, ParkStep DEF TypeOK
<1>9. TryInv'
  BY <1>0, Zenon DEF TypeOK, PcOK, TryInv
<1> QED BY <1>1, <1>2, <1>3, <1>4, <1>5, <1>9, Zenon

\* dtlock_try_lock gives up, or has seen the ticket of head released.
LEMMA TryCheckInv ==
  ASSUME IInv, NEW t \in Cpu \cup Submitters, TryCheck(t)
  PROVE  IInv'
<1> USE DEF IInv, TryCheck, Goto
<1>0. t \in Thread /\ t \notin Lockers
  BY ThreadsAssumption, Zenon DEF Thread
<1>1. TypeOK'
  <2>1. PcOK'
    BY <1>0, GotoType, Zenon DEF WorkerPcs, SubmitterPcs
  <2> QED BY <2>1, Zenon DEF TypeOK
<1>2. TicketInv'
  BY <1>0, TicketFrame, Zenon DEF TypeOK, PcOK, Pending
<1>3. OwnerInv'
  BY <1>0, OwnerFrame, Zenon DEF TypeOK, PcOK, Owns, Pending, Popped
<1>4. SlotInv'
  BY <1>0, SlotFrame, Zenon DEF TypeOK, PcOK, Thread
<1>5. ParkInv'
  <2>1. t \in Cpu => CpuInv(t)'
    BY <1>0, AwayStep, Zenon DEF TypeOK, PcOK, ParkInv
  <2>2. \A d \in Cpu : d # t => Untouched(d)
    BY <1>0, Zenon DEF TypeOK, PcOK, Thread, Untouched
  <2> QED BY <1>0, <2>1, <2>2, ParkStep DEF TypeOK
<1>9. TryInv'
  BY <1>0, SlotType DEF TypeOK, PcOK, TicketInv, TryInv
<1> QED BY <1>1, <1>2, <1>3, <1>4, <1>5, <1>9, Zenon

\* dtlock_lock is served.
LEMMA LockAcquireInv ==
  ASSUME IInv, NEW l \in Lockers, LockAcquire(l)
  PROVE  IInv'
<1> USE DEF IInv, LockAcquire, Goto
<1>0. l \in Thread /\ l \notin Cpu /\ l \notin Submitters
  BY ThreadsAssumption, Zenon DEF Thread
<1>1. TypeOK'
  <2>1. PcOK'
    BY <1>0, GotoType, Zenon DEF LockerPcs
  <2> QED BY <2>1, Zenon DEF TypeOK
<1>2. my[l] < next
  BY <1>0, SlotType, Zenon DEF TypeOK, TicketInv
<1>3. TicketInv'
  BY <1>0, <1>2, TicketFrame DEF TypeOK, PcOK, Pending
<1>4. OwnerInv'
  BY <1>0, <1>2, OwnerFrame, Zenon DEF TypeOK, PcOK, Owns, Pending, Popped
<1>5. SlotInv'
  BY <1>0, SlotFrame, Zenon DEF TypeOK, PcOK, Thread
<1>6. ParkInv'
  <2>1. l \in Cpu => CpuInv(l)'
    BY <1>0, AwayStep, Zenon DEF TypeOK, PcOK, ParkInv
  <2>2. \A d \in Cpu : d # l => Untouched(d)
    BY <1>0, Zenon DEF TypeOK, PcOK, Thread, Untouched
  <2> QED BY <1>0, <2>1, <2>2, ParkStep DEF TypeOK
<1>9. TryInv'
  BY <1>0, Zenon DEF TypeOK, PcOK, TryInv
<1> QED BY <1>1, <1>3, <1>4, <1>5, <1>6, <1>9, Zenon

\* The holder serves a popped worker that spins.
LEMMA ServeInv ==
  ASSUME IInv, NEW t \in Thread, NEW c \in Cpu, NEW i \in Items, Serve(t, c, i)
  PROVE  IInv'
<1> USE DEF IInv, Serve
<1>1. items[c].cnt \in 0 .. SignalMod - 1 /\ items'[c].cnt = NextSignal(items[c].cnt)
  BY Zenon DEF TypeOK
<1>2. items'[c].cnt \in 0 .. SignalMod - 1 /\ items'[c].cnt # items[c].cnt
  BY <1>1, NextSignalChanges, Zenon
<1>3. TypeOK'
  BY <1>1, <1>2, ItemsAssumption DEF TypeOK, PcOK
<1>4. \A d \in Cpu : items'[d].ticket = items[d].ticket
  BY DEF TypeOK
<1>5. TicketInv'
  BY <1>4, TicketFrame, Zenon DEF Pending
<1>6. OwnerInv'
  BY <1>4, OwnerFrame, Zenon DEF Owns, Pending, Popped
<1>7. SlotInv'
  BY SlotFrame, Zenon
<1>8. ParkInv'
  <2>1. CpuInv(c)
    BY Zenon DEF ParkInv
  <2>2. CpuInv(c)'
    BY <1>1, <1>2, <2>1 DEF TypeOK, CpuInv, WaiterInv, SleeperInv, FreeInv, Popped, Blockable
  <2>3. \A d \in Cpu : d # c => Untouched(d)
    BY Zenon DEF TypeOK, Untouched
  <2> QED BY <2>2, <2>3, ParkStep DEF TypeOK
<1>9. TryInv'
  BY Zenon DEF TypeOK, PcOK, TryInv
<1> QED BY <1>3, <1>5, <1>6, <1>7, <1>8, <1>9, Zenon

\* The holder sends a popped worker to sleep.
LEMMA SleepCpuInv ==
  ASSUME IInv, NEW t \in Thread, NEW c \in Cpu, SleepCpu(t, c)
  PROVE  IInv'
<1> USE DEF IInv, SleepCpu
<1>1. items[c].cnt \in 0 .. SignalMod - 1 /\ items'[c].cnt = NextSignal(items[c].cnt)
  BY Zenon DEF TypeOK
<1>2. items'[c].cnt \in 0 .. SignalMod - 1 /\ items'[c].cnt # items[c].cnt
  BY <1>1, NextSignalChanges, Zenon
<1>3. TypeOK'
  BY <1>1, <1>2, ItemsAssumption DEF TypeOK, PcOK
<1>4. \A d \in Cpu : items'[d].ticket = items[d].ticket
  BY DEF TypeOK
<1>5. TicketInv'
  BY <1>4, TicketFrame, Zenon DEF Pending
<1>6. OwnerInv'
  BY <1>4, OwnerFrame, Zenon DEF Owns, Pending, Popped
<1>7. SlotInv'
  BY SlotFrame, Zenon
<1>8. ParkInv'
  <2>1. CpuInv(c)
    BY Zenon DEF ParkInv
  <2>2. CpuInv(c)'
    BY <1>1, <1>2, <2>1 DEF TypeOK, CpuInv, WaiterInv, SleeperInv, FreeInv, Popped, Blockable
  <2>3. \A d \in Cpu : d # c => Untouched(d)
    BY Zenon DEF TypeOK, Untouched
  <2> QED BY <2>2, <2>3, ParkStep DEF TypeOK
<1>9. TryInv'
  BY Zenon DEF TypeOK, PcOK, TryInv
<1> QED BY <1>3, <1>5, <1>6, <1>7, <1>8, <1>9, Zenon

\* The holder serves a worker that sleeps.
LEMMA WakeInv ==
  ASSUME IInv, NEW t \in Thread, NEW c \in Cpu, NEW i \in Items, Wake(t, c, i)
  PROVE  IInv'
<1> USE DEF IInv, Wake
<1>0. c \in Thread /\ c \notin Lockers /\ c \notin Submitters
  BY ThreadsAssumption, Zenon DEF Thread
<1>1. SleeperInv(c)
  BY Zenon DEF ParkInv, CpuInv
<1>2. TypeOK'
  <2>1. PcOK'
    <3>1. pc[c] \in WorkerPcs
      BY Zenon DEF TypeOK, PcOK
    <3> QED BY <3>1, <1>0, GotoType, Zenon DEF WorkerPcs
  <2>2. futex[c] - 1 \in {-1, 0, 1}
    BY <1>1 DEF SleeperInv
  <2> QED BY <2>1, <2>2 DEF TypeOK
<1>3. \A d \in Cpu : items'[d].ticket = items[d].ticket
  BY Zenon DEF TypeOK
<1>4. TicketInv'
  BY <1>0, <1>3, TicketFrame, Zenon DEF TypeOK, PcOK, Pending
<1>5. OwnerInv'
  BY <1>0, <1>3, OwnerFrame, Zenon DEF TypeOK, PcOK, Owns, Pending, Popped
<1>6. SlotInv'
  BY <1>0, SlotFrame DEF TypeOK, PcOK
<1>7. ParkInv'
  <2>1. CpuInv(c)
    BY Zenon DEF ParkInv
  <2>2. CpuInv(c)'
    BY <1>0, <2>1 DEF TypeOK, PcOK, CpuInv, WaiterInv, SleeperInv, FreeInv, Popped
  <2>3. \A d \in Cpu : d # c => Untouched(d)
    BY <1>0, Zenon DEF TypeOK, PcOK, Thread, Untouched
  <2> QED BY <2>2, <2>3, ParkStep DEF TypeOK
<1>9. TryInv'
  BY <1>0, Zenon DEF TypeOK, PcOK, TryInv
<1> QED BY <1>2, <1>4, <1>5, <1>6, <1>7, <1>9, Zenon

\* A CPU number is smaller than the queue.
LEMMA CpusFit == \A c \in Cpu : c \in Nat /\ c < Size
<1>1. Cardinality(Lockers) \in Nat
  BY ThreadsAssumption, FS_CardinalityType, Zenon
<1> QED BY <1>1, ThreadsAssumption, SizesAssumption DEF Cpu

\* When next advances, the slot that it leaves holds a word below its new ticket.
LEMMA SlotShift ==
  ASSUME TypeOK, SlotInv, next' = next + 1,
         \A i \in Slots : /\ waitqueue'[i].cpu = waitqueue[i].cpu
                          /\ waitqueue'[i].flags = waitqueue[i].flags,
         \A c \in Cpu : pc[c] = "spin" => pc'[c] = "spin" /\ my'[c] = my[c] /\ mode'[c] = mode[c]
  PROVE  SlotInv'
<1>0. next \in Nat /\ Size \in Nat \ {0}
  BY SizesAssumption, Zenon DEF TypeOK
<1>1. SUFFICES ASSUME NEW k \in next + 1 .. next + Size
               PROVE  waitqueue'[Slot(k)].cpu < k \/ \E c \in Cpu : Announced(c, k)'
  BY <1>0 DEF SlotInv
<1>2. k \in Nat /\ Slot(k) \in Slots
  BY <1>0, SlotType
<1>3. ASSUME NEW c \in Cpu, Announced(c, k) PROVE Announced(c, k)'
  BY <1>2, <1>3, Zenon DEF Announced
<1>4. CASE k \in next .. next + Size - 1
  <2>1. waitqueue[Slot(k)].cpu < k \/ \E c \in Cpu : Announced(c, k)
    BY <1>4, Zenon DEF SlotInv
  <2> QED BY <2>1, <1>2, <1>3, Zenon
<1>5. CASE k = next + Size
  <2>1. Slot(k) = Slot(next) /\ Slot(next) \in Slots
    BY <1>0, <1>5, SlotPeriod, SlotType, Zenon
  <2>2. next \in next .. next + Size - 1
    BY <1>0
  <2>3. waitqueue[Slot(next)].cpu < next \/ \E c \in Cpu : Announced(c, next)
    BY <2>2, Zenon DEF SlotInv
  <2>4. waitqueue[Slot(next)].cpu \in Nat
    BY <2>1, Zenon DEF TypeOK
  <2>5. waitqueue[Slot(next)].cpu < k
    BY <2>3, <2>4, <1>0, <1>5, CpusFit DEF Announced
  <2> QED BY <2>1, <2>5, Zenon
<1> QED BY <1>0, <1>4, <1>5

\* A worker takes a ticket: head advances.
LEMMA TakeTicketInv ==
  ASSUME IInv, NEW c \in Cpu, TakeTicket(c)
  PROVE  IInv'
<1> USE DEF IInv, TakeTicket, Goto
<1>0. c \in Thread /\ c \notin Lockers /\ c \notin Submitters
  BY ThreadsAssumption, Zenon DEF Thread
<1>1. TypeOK'
  <2>1. PcOK'
    BY <1>0, GotoType, Zenon DEF WorkerPcs
  <2>2. my' \in [Thread -> Nat] /\ head' \in Nat
    BY <1>0 DEF TypeOK
  <2> QED BY <2>1, <2>2, Zenon DEF TypeOK
<1>2. /\ head \in Nat /\ next \in Nat /\ head' = head + 1 /\ my'[c] = head
      /\ ~Pending(c) /\ Pending(c)' /\ pc[c] # "held" /\ pc'[c] # "held"
      /\ \A t \in Thread \ {c} : /\ pc'[t] = pc[t] /\ my'[t] = my[t]
                                 /\ Pending(t)' <=> Pending(t)
  BY <1>0, Zenon DEF TypeOK, PcOK, Pending
<1>3. TicketInv'
  <2>1. ASSUME NEW k \in next .. head PROVE \E t \in Thread : Pending(t)' /\ my'[t] = k
    <3>1. CASE k = head
      BY <3>1, <1>0, <1>2, Zenon
    <3>2. CASE k \in next .. head - 1
      <4>1. PICK t \in Thread : Pending(t) /\ my[t] = k
        BY <3>2, Zenon DEF TicketInv
      <4> QED BY <4>1, <1>2, Zenon
    <3> QED BY <3>1, <3>2, <1>2
  <2>2. \A t \in Thread : Pending(t)' => my'[t] < head'
    BY <1>2 DEF TypeOK, TicketInv
  <2>3. \A s, t \in Thread : Pending(s)' /\ Pending(t)' /\ my'[s] = my'[t] => s = t
    BY <1>2 DEF TypeOK, TicketInv
  <2>4. \A d \in Cpu : items[d].ticket < head'
    BY <1>2 DEF TypeOK, TicketInv
  <2>5. /\ Size <= head' /\ 1 <= next' /\ next' <= head' + 1
        /\ next' .. head' - 1 = next .. head
        /\ next' = next /\ waitqueue' = waitqueue /\ items' = items
    BY <1>2, SizesAssumption DEF TicketInv
  <2>6. \A k \in next' .. head' - 1 : \E t \in Thread : Pending(t)' /\ my'[t] = k
    BY <2>1, <2>5, Zenon
  <2>7. /\ \A i \in Slots : waitqueue'[i].ticket < next'
        /\ \A d \in Cpu : items'[d].ticket < head'
    BY <2>4, <2>5 DEF TicketInv
  <2>8. Size <= head' /\ 1 <= next' /\ next' <= head' + 1
    BY <2>5, Zenon
  <2> HIDE DEF TakeTicket, Goto, IInv
  <2> QED BY <2>2, <2>3, <2>6, <2>7, <2>8, Zenon DEF TicketInv
<1>4. OwnerInv'
  <2>1. \A t \in Thread \ {c} : Owns(t)' <=> Owns(t)
    BY <1>2, Zenon DEF Owns, Popped
  <2>2. ~Owns(c)
    BY <1>2, Zenon DEF Owns
  <2>3. Owns(c)' <=> head < next
    BY <1>0, <1>2 DEF Owns, Popped, TypeOK, TicketInv
  <2>4. CASE head < next
    <3>1. \A t \in Thread : ~Owns(t)
      BY <2>4, <1>2 DEF OwnerInv
    <3>2. head' >= next
      BY <1>2, Zenon DEF TicketInv
    <3> QED BY <3>1, <3>2, <2>1, <2>3, <2>4, <1>0, Zenon DEF OwnerInv, LockNotLost
  <2>5. CASE head >= next
    <3>1. \A t \in Thread : Owns(t)' <=> Owns(t)
      BY <2>1, <2>2, <2>3, <2>5, <1>2
    <3> QED BY <3>1, <2>5, <1>2 DEF OwnerInv, LockNotLost
  <2> QED BY <2>4, <2>5, <1>2
<1>5. SlotInv'
  BY <1>0, SlotFrame, Zenon DEF TypeOK, PcOK, Thread
<1>6. ParkInv'
  <2>1. CpuInv(c)
    BY Zenon DEF ParkInv
  <2>2. CpuInv(c)'
    <3>1. /\ pc[c] = "ticket" /\ pc'[c] = "announce" /\ my'[c] = head
          /\ items' = items /\ futex' = futex /\ prev' = prev
          /\ waiters' = waiters /\ sleepers' = sleepers
      BY <1>0, <1>2, Zenon DEF TypeOK, PcOK
    <3>2. c \notin waiters /\ c \notin sleepers /\ futex[c] = 0 /\ items[c].cnt = prev[c]
      BY <2>1, <3>1, Zenon DEF CpuInv, WaiterInv, SleeperInv, FreeInv
    <3>3. items[c].ticket # head
      BY <1>2 DEF TypeOK, TicketInv
    <3> HIDE DEF IInv, TakeTicket, Goto
    <3> QED BY <3>1, <3>2, <3>3, Zenon DEF CpuInv, WaiterInv, SleeperInv, FreeInv, Popped
  <2>3. \A d \in Cpu : d # c => Untouched(d)
    BY <1>0, Zenon DEF TypeOK, PcOK, Thread, Untouched
  <2> QED BY <2>2, <2>3, ParkStep DEF TypeOK
<1>9. TryInv'
  BY <1>0, Zenon DEF TypeOK, PcOK, TryInv
<1> QED BY <1>1, <1>3, <1>4, <1>5, <1>6, <1>9, Zenon

\* dtlock_lock takes a ticket: head advances.
LEMMA LockTicketInv ==
  ASSUME IInv, NEW l \in Lockers, LockTicket(l)
  PROVE  IInv'
<1> USE DEF IInv, LockTicket, Goto
<1>0. l \in Thread /\ l \notin Cpu /\ l \notin Submitters
  BY ThreadsAssumption, Zenon DEF Thread
<1>1. TypeOK'
  <2>1. PcOK'
    BY <1>0, GotoType, Zenon DEF LockerPcs
  <2>2. my' \in [Thread -> Nat] /\ head' \in Nat
    BY <1>0 DEF TypeOK
  <2> QED BY <2>1, <2>2, Zenon DEF TypeOK
<1>2. /\ head \in Nat /\ next \in Nat /\ head' = head + 1 /\ my'[l] = head
      /\ ~Pending(l) /\ Pending(l)' /\ pc[l] # "held" /\ pc'[l] # "held"
      /\ \A t \in Thread \ {l} : /\ pc'[t] = pc[t] /\ my'[t] = my[t]
                                 /\ Pending(t)' <=> Pending(t)
  BY <1>0, Zenon DEF TypeOK, PcOK, Pending
<1>3. TicketInv'
  <2>1. ASSUME NEW k \in next .. head PROVE \E t \in Thread : Pending(t)' /\ my'[t] = k
    <3>1. CASE k = head
      BY <3>1, <1>0, <1>2, Zenon
    <3>2. CASE k \in next .. head - 1
      <4>1. PICK t \in Thread : Pending(t) /\ my[t] = k
        BY <3>2, Zenon DEF TicketInv
      <4> QED BY <4>1, <1>2, Zenon
    <3> QED BY <3>1, <3>2, <1>2
  <2>2. \A t \in Thread : Pending(t)' => my'[t] < head'
    BY <1>2 DEF TypeOK, TicketInv
  <2>3. \A s, t \in Thread : Pending(s)' /\ Pending(t)' /\ my'[s] = my'[t] => s = t
    BY <1>2 DEF TypeOK, TicketInv
  <2>4. \A d \in Cpu : items[d].ticket < head'
    BY <1>2 DEF TypeOK, TicketInv
  <2>5. /\ Size <= head' /\ 1 <= next' /\ next' <= head' + 1
        /\ next' .. head' - 1 = next .. head
        /\ next' = next /\ waitqueue' = waitqueue /\ items' = items
    BY <1>2, SizesAssumption DEF TicketInv
  <2>6. \A k \in next' .. head' - 1 : \E t \in Thread : Pending(t)' /\ my'[t] = k
    BY <2>1, <2>5, Zenon
  <2>7. /\ \A i \in Slots : waitqueue'[i].ticket < next'
        /\ \A d \in Cpu : items'[d].ticket < head'
    BY <2>4, <2>5 DEF TicketInv
  <2>8. Size <= head' /\ 1 <= next' /\ next' <= head' + 1
    BY <2>5, Zenon
  <2> HIDE DEF LockTicket, Goto, IInv
  <2> QED BY <2>2, <2>3, <2>6, <2>7, <2>8, Zenon DEF TicketInv
<1>4. OwnerInv'
  <2>1. \A t \in Thread \ {l} : Owns(t)' <=> Owns(t)
    BY <1>2, Zenon DEF Owns, Popped
  <2>2. ~Owns(l)
    BY <1>2, Zenon DEF Owns
  <2>3. Owns(l)' <=> head < next
    BY <1>0, <1>2 DEF Owns, Popped, TypeOK, TicketInv
  <2>4. CASE head < next
    <3>1. \A t \in Thread : ~Owns(t)
      BY <2>4, <1>2 DEF OwnerInv
    <3>2. head' >= next
      BY <1>2, Zenon DEF TicketInv
    <3> QED BY <3>1, <3>2, <2>1, <2>3, <2>4, <1>0, Zenon DEF OwnerInv, LockNotLost
  <2>5. CASE head >= next
    <3>1. \A t \in Thread : Owns(t)' <=> Owns(t)
      BY <2>1, <2>2, <2>3, <2>5, <1>2
    <3> QED BY <3>1, <2>5, <1>2 DEF OwnerInv, LockNotLost
  <2> QED BY <2>4, <2>5, <1>2
<1>5. SlotInv'
  BY <1>0, SlotFrame, Zenon DEF TypeOK, PcOK, Thread
<1>6. ParkInv'
  <2>1. \A d \in Cpu : d # l => Untouched(d)
    BY <1>0, Zenon DEF TypeOK, PcOK, Thread, Untouched
  <2> QED BY <1>0, <2>1, ParkStep DEF TypeOK
<1>9. TryInv'
  BY <1>0, Zenon DEF TypeOK, PcOK, TryInv
<1> QED BY <1>1, <1>3, <1>4, <1>5, <1>6, <1>9, Zenon

\* dtlock_try_lock takes the ticket that is already served, or fails because
\* head has moved.
LEMMA TryCasInv ==
  ASSUME IInv, NEW t \in Cpu \cup Submitters, TryCas(t)
  PROVE  IInv'
<1> USE DEF IInv, Goto
<1>0. t \in Thread /\ t \notin Lockers
  BY ThreadsAssumption, Zenon DEF Thread
<1>1. CASE pc'[t] = "out"
  <2>1. /\ pc' = [pc EXCEPT ![t] = "out"] /\ pc[t] = "cas"
        /\ UNCHANGED <<head, next, waitqueue, items, futex, waiters, sleepers, my, prev, mode>>
    BY <1>0, <1>1, Zenon DEF TryCas, TypeOK, PcOK
  <2>2. TypeOK'
    <3>1. PcOK'
      BY <1>0, <2>1, GotoType, Zenon DEF WorkerPcs, SubmitterPcs
    <3> QED BY <2>1, <3>1, Zenon DEF TypeOK
  <2>3. TicketInv'
    BY <1>0, <2>1, TicketFrame, Zenon DEF TypeOK, PcOK, Pending
  <2>4. OwnerInv'
    BY <1>0, <2>1, OwnerFrame, Zenon DEF TypeOK, PcOK, Owns, Pending, Popped
  <2>5. SlotInv'
    BY <1>0, <2>1, SlotFrame, Zenon DEF TypeOK, PcOK, Thread
  <2>6. ParkInv'
    <3>1. t \in Cpu => CpuInv(t)'
      BY <1>0, <2>1, AwayStep, Zenon DEF TypeOK, PcOK, ParkInv
    <3>2. \A d \in Cpu : d # t => Untouched(d)
      BY <1>0, <2>1, Zenon DEF TypeOK, PcOK, Thread, Untouched
    <3> QED BY <1>0, <2>1, <3>1, <3>2, ParkStep DEF TypeOK
  <2>7. TryInv'
    BY <1>0, <2>1, Zenon DEF TypeOK, PcOK, TryInv
  <2> QED BY <2>2, <2>3, <2>4, <2>5, <2>6, <2>7, Zenon
<1>2. CASE pc'[t] # "out"
  <2>1. /\ pc' = [pc EXCEPT ![t] = "held"] /\ pc[t] = "cas"
        /\ head = my[t] /\ head' = head + 1 /\ head \in Nat /\ next \in Nat
        /\ UNCHANGED <<next, waitqueue, items, futex, waiters, sleepers, my, prev, mode>>
    BY <1>0, <1>2, Zenon DEF TryCas, TypeOK, PcOK
  <2>2. head = next - 1
    BY <1>0, <2>1 DEF TryInv, TicketInv
  <2>3. TypeOK'
    <3>1. PcOK'
      BY <1>0, <2>1, GotoType, Zenon DEF WorkerPcs, SubmitterPcs
    <3> QED BY <2>1, <3>1 DEF TypeOK
  <2>4. \A s \in Thread : /\ Pending(s)' <=> Pending(s)
                          /\ s # t => pc'[s] = pc[s]
    BY <1>0, <2>1, Zenon DEF TypeOK, PcOK, Pending
  <2>5. TicketInv'
    <3>1. \A s \in Thread : Pending(s)' => my'[s] < head'
      BY <2>1, <2>4 DEF TypeOK, TicketInv
    <3>2. \A d \in Cpu : items[d].ticket < head'
      BY <2>1 DEF TypeOK, TicketInv
    <3>3. next' .. head' - 1 = {}
      BY <2>1, <2>2
    <3>4. \A s, u \in Thread : Pending(s)' /\ Pending(u)' /\ my'[s] = my'[u] => s = u
      BY <2>1, <2>4, Zenon DEF TicketInv
    <3>5. /\ Size <= head' /\ 1 <= next' /\ next' <= head' + 1
          /\ next' = next /\ waitqueue' = waitqueue /\ items' = items
      BY <2>1, SizesAssumption DEF TicketInv
    <3> QED BY <3>1, <3>2, <3>3, <3>4, <3>5, Zenon DEF TicketInv
  <2>6. OwnerInv'
    <3>1. \A s \in Thread : ~Owns(s)
      BY <2>1, <2>2 DEF OwnerInv
    <3>2. \A s \in Thread \ {t} : ~Owns(s)'
      BY <3>1, <2>1, <2>4, Zenon DEF Owns, Popped
    <3>3. Owns(t)'
      BY <1>0, <2>1, Zenon DEF Owns, TypeOK, PcOK
    <3> QED BY <1>0, <2>1, <2>2, <3>2, <3>3 DEF OwnerInv, LockNotLost
  <2>7. SlotInv'
    BY <1>0, <2>1, SlotFrame, Zenon DEF TypeOK, PcOK, Thread
  <2>8. ParkInv'
    <3>1. t \in Cpu => CpuInv(t)'
      BY <1>0, <2>1, AwayStep, Zenon DEF TypeOK, PcOK, ParkInv
    <3>2. \A d \in Cpu : d # t => Untouched(d)
      BY <1>0, <2>1, Zenon DEF TypeOK, PcOK, Thread, Untouched
    <3> QED BY <1>0, <2>1, <3>1, <3>2, ParkStep DEF TypeOK
  <2>9. TryInv'
    BY <1>0, <2>1, Zenon DEF TypeOK, PcOK, TryInv
  <2> QED BY <2>3, <2>5, <2>6, <2>7, <2>8, <2>9, Zenon
<1> QED BY <1>1, <1>2, Zenon

\* A worker announces its CPU in the slot of its ticket.
LEMMA AnnounceInv ==
  ASSUME IInv, NEW c \in Cpu, Announce(c)
  PROVE  IInv'
<1> USE DEF IInv, Announce, Goto
<1>0. /\ c \in Thread /\ c \notin Lockers /\ c \notin Submitters
      /\ my[c] \in Nat /\ Slot(my[c]) \in Slots /\ c \in Nat /\ c < Size
      /\ mode[c] \in Modes
  BY ThreadsAssumption, SlotType, CpusFit, Zenon DEF Thread, TypeOK
<1>1. TypeOK'
  <2>1. PcOK'
    BY <1>0, GotoType, Zenon DEF WorkerPcs
  <2>2. waitqueue' \in [Slots -> [ticket : Nat, cpu : Nat, flags : Modes]]
    BY <1>0 DEF TypeOK
  <2> QED BY <2>1, <2>2, Zenon DEF TypeOK
<1>2. \A i \in Slots : waitqueue'[i].ticket = waitqueue[i].ticket
  BY <1>0 DEF TypeOK
<1>3. TicketInv'
  BY <1>0, <1>2, TicketFrame, Zenon DEF TypeOK, PcOK, Pending
<1>4. OwnerInv'
  BY <1>0, OwnerFrame, Zenon DEF TypeOK, PcOK, Owns, Pending, Popped
<1>5. SlotInv'
  <2>0. /\ next \in Nat /\ head \in Nat /\ Size \in Nat
        /\ head <= next + Size /\ my[c] < head
    BY <1>0, QueueBound, SizesAssumption, Zenon DEF TypeOK, TicketInv, Pending
  <2>1. SUFFICES ASSUME NEW k \in next .. next + Size - 1
                 PROVE  waitqueue'[Slot(k)].cpu < k \/ \E d \in Cpu : Announced(d, k)'
    BY Zenon DEF SlotInv
  <2>2. k \in Nat /\ Slot(k) \in Slots
    BY <2>0, SlotType
  <2>3. CASE Slot(k) = Slot(my[c])
    <3>1. waitqueue'[Slot(k)].cpu = my[c] + c /\ waitqueue'[Slot(k)].flags = mode[c]
      BY <1>0, <2>3, Zenon DEF TypeOK
    <3>2. CASE my[c] = k
      <4>1. Announced(c, k)'
        BY <1>0, <3>1, <3>2, Zenon DEF Announced, TypeOK, PcOK
      <4> QED BY <4>1, Zenon
    <3>3. CASE my[c] < k
      BY <1>0, <2>0, <2>2, <2>3, <3>1, <3>3, SlotDistance
    <3>4. CASE my[c] > k
      <4>1. k + Size <= my[c]
        BY <1>0, <2>2, <2>3, <3>4, SlotDistance, Zenon
      <4> QED BY <4>1, <2>0, <2>2, <1>0
    <3> QED BY <3>2, <3>3, <3>4, <1>0, <2>2
  <2>4. CASE Slot(k) # Slot(my[c])
    <3>1. waitqueue'[Slot(k)] = waitqueue[Slot(k)]
      BY <1>0, <2>2, <2>4, Zenon DEF TypeOK
    <3>2. ASSUME NEW d \in Cpu, Announced(d, k) PROVE Announced(d, k)'
      <4>1. d # c
        BY <3>2, Zenon DEF Announced
      <4> QED BY <3>1, <3>2, <4>1, Zenon DEF Announced, TypeOK, PcOK, Thread
    <3>3. waitqueue[Slot(k)].cpu < k \/ \E d \in Cpu : Announced(d, k)
      BY Zenon DEF SlotInv
    <3> QED BY <3>1, <3>2, <3>3, Zenon
  <2> QED BY <2>3, <2>4, Zenon
<1>6. ParkInv'
  <2>1. CpuInv(c)
    BY Zenon DEF ParkInv
  <2>2. CpuInv(c)'
    BY <1>0, <2>1, Zenon DEF TypeOK, PcOK, CpuInv, WaiterInv, SleeperInv, FreeInv, Popped
  <2>3. \A d \in Cpu : d # c => Untouched(d)
    BY <1>0, Zenon DEF TypeOK, PcOK, Thread, Untouched
  <2> QED BY <2>2, <2>3, ParkStep DEF TypeOK
<1>9. TryInv'
  BY <1>0, Zenon DEF TypeOK, PcOK, TryInv
<1> QED BY <1>1, <1>3, <1>4, <1>5, <1>6, <1>9, Zenon

\* The holder pops the worker at the front: next advances, and the worker is
\* in a mask from now on.
LEMMA PopfrontWaitInv ==
  ASSUME IInv, NEW t \in Thread, PopfrontWait(t)
  PROVE  IInv'
<1> USE DEF IInv
<1>0. PICK f \in Cpu :
        /\ f = Front /\ f \in Thread /\ pc[f] = "spin" /\ my[f] = next
        /\ waitqueue[Slot(next)].flags = mode[f]
        /\ next \in Nat /\ head \in Nat /\ Slot(next) \in Slots
  BY FrontFact, SlotType, Zenon DEF PopfrontWait, Announced, Thread, TypeOK
<1>1. /\ pc[t] = "held"
      /\ items' = [items EXCEPT ![f].ticket = next, ![f].flags = mode[f]]
      /\ waitqueue' = [waitqueue EXCEPT ![Slot(next)].ticket = next]
      /\ waiters' = waiters \cup {f}
      /\ next' = next + 1
      /\ UNCHANGED <<head, futex, sleepers, pc, my, prev, mode>>
  BY <1>0, Zenon DEF PopfrontWait
<1>2. /\ ~Popped(f) /\ f \notin waiters /\ f \notin sleepers
      /\ Pending(f) /\ next < head
  BY <1>0 DEF Pending, TicketInv, ParkInv, CpuInv, WaiterInv, SleeperInv
<1>3. TypeOK'
  <2>1. mode[f] \in Modes
    BY Zenon DEF TypeOK
  <2>2. items' \in [Cpu -> [ticket : Nat, item : Items, cnt : 0 .. SignalMod - 1,
                           sleep : BOOLEAN, flags : Modes]]
    <3> DEFINE R == [ticket : Nat, item : Items, cnt : 0 .. SignalMod - 1,
                     sleep : BOOLEAN, flags : Modes]
               r == [items[f] EXCEPT !.ticket = next, !.flags = mode[f]]
    <3>1. items \in [Cpu -> R] /\ items[f] \in R
      BY Zenon DEF TypeOK
    <3>2. r \in R
      BY <3>1, <2>1, <1>0, Zenon
    <3>3. items' = [items EXCEPT ![f] = r]
      BY <1>1, <3>1, Zenon
    <3> HIDE DEF R, r
    <3>4. items' \in [Cpu -> R]
      BY <3>1, <3>2, <3>3, Zenon
    <3> QED BY <3>4, Zenon DEF R
  <2>3. waitqueue' \in [Slots -> [ticket : Nat, cpu : Nat, flags : Modes]]
    BY <1>0, <1>1 DEF TypeOK
  <2>4. waiters' \in SUBSET Cpu /\ next' \in Nat
    BY <1>0, <1>1 DEF TypeOK
  <2> QED BY <2>2, <2>3, <2>4, <1>1, Zenon DEF TypeOK, PcOK
<1>4. /\ \A i \in Slots : /\ waitqueue'[i].cpu = waitqueue[i].cpu
                          /\ waitqueue'[i].flags = waitqueue[i].flags
                          /\ waitqueue'[i].ticket \in {waitqueue[i].ticket, next}
      /\ items'[f].ticket = next
      /\ \A c \in Cpu \ {f} : items'[c] = items[c]
  BY <1>0, <1>1 DEF TypeOK
<1>5. TicketInv'
  <2>1. \A i \in Slots : waitqueue'[i].ticket < next'
    BY <1>0, <1>1, <1>4 DEF TypeOK, TicketInv
  <2>2. \A c \in Cpu : items'[c].ticket < head
    BY <1>0, <1>2, <1>4, Zenon DEF TicketInv
  <2>3. next' .. head - 1 \subseteq next .. head - 1
    BY <1>0, <1>1
  <2>4. \A s \in Thread : Pending(s)' <=> Pending(s)
    BY <1>1, Zenon DEF Pending
  <2>5. next' <= head + 1 /\ 1 <= next'
    BY <1>0, <1>1, <1>2
  <2>6. \A k \in next' .. head - 1 : \E s \in Thread : Pending(s)' /\ my[s] = k
    BY <2>3, <2>4, Zenon DEF TicketInv
  <2>7. /\ \A s \in Thread : Pending(s)' => my[s] < head
        /\ \A s, u \in Thread : Pending(s)' /\ Pending(u)' /\ my[s] = my[u] => s = u
    BY <2>4, Zenon DEF TicketInv
  <2>8. Size <= head /\ head' = head /\ my' = my
    BY <1>1, Zenon DEF TicketInv
  <2> QED BY <2>1, <2>2, <2>5, <2>6, <2>7, <2>8, Zenon DEF TicketInv
<1>6. OwnerInv'
  <2>1. ~Owns(f) /\ ~Owns(f)'
    BY <1>0, <1>1, <1>4 DEF Owns, Popped
  <2>2. ASSUME NEW s \in Thread, s # f PROVE Owns(s)' <=> Owns(s)
    <3>1. Pending(s) => my[s] # next
      BY <1>0, <1>2, <2>2, Zenon DEF TicketInv
    <3>2. my[s] \in Nat /\ (s \in Cpu => items'[s] = items[s])
      BY <1>4, <2>2, Zenon DEF TypeOK
    <3> QED BY <3>1, <3>2, <1>0, <1>1 DEF Owns, Pending, Popped
  <2>3. \A s \in Thread : Owns(s)' <=> Owns(s)
    BY <2>1, <2>2, <1>0, Zenon
  <2>4. Owns(t)
    BY <1>1, Zenon DEF Owns
  <2> QED BY <2>3, <2>4, <1>0, <1>1, <1>2 DEF OwnerInv, LockNotLost
<1>7. SlotInv'
  BY <1>1, <1>4, SlotShift, Zenon
<1>8. ParkInv'
  <2>1. CpuInv(f)
    BY Zenon DEF ParkInv
  <2>2. items'[f].cnt = items[f].cnt /\ items'[f].flags = mode[f]
    BY <1>1, Zenon DEF TypeOK
  <2>3. CpuInv(f)'
    BY <2>1, <2>2, <1>0, <1>1, <1>2, <1>4
       DEF CpuInv, WaiterInv, SleeperInv, FreeInv, Popped
  <2>4. \A d \in Cpu : d # f => Untouched(d)
    BY <1>1, <1>4, Zenon DEF Untouched
  <2> QED BY <2>3, <2>4, <1>0, <1>1, ParkStep
<1>9. TryInv'
  BY <1>0, <1>1 DEF TypeOK, TryInv
<1> QED BY <1>3, <1>5, <1>6, <1>7, <1>8, <1>9, Zenon

\* The holder releases the lock to the next ticket.
LEMMA UnlockInv ==
  ASSUME IInv, NEW t \in Thread, Unlock(t)
  PROVE  IInv'
<1> USE DEF IInv, Unlock, Goto
<1>0. next \in Nat /\ head \in Nat /\ Slot(next) \in Slots
  BY SlotType, Zenon DEF TypeOK
<1>1. TypeOK'
  <2>1. PcOK'
    BY GotoType, Zenon DEF WorkerPcs, LockerPcs, SubmitterPcs
  <2> QED BY <1>0, <2>1 DEF TypeOK
<1>2. \A i \in Slots : /\ waitqueue'[i].cpu = waitqueue[i].cpu
                       /\ waitqueue'[i].flags = waitqueue[i].flags
                       /\ waitqueue'[i].ticket \in {waitqueue[i].ticket, next}
  BY <1>0, Zenon DEF TypeOK
<1>3. Owns(t) /\ next <= head /\ \A s \in Thread : Owns(s) => s = t
  BY <1>0, Zenon DEF Owns, OwnerInv
<1>4. \A s \in Thread : (Pending(s)' <=> Pending(s)) /\ (s # t => pc'[s] = pc[s])
  BY Zenon DEF TypeOK, PcOK, Pending
<1>5. TicketInv'
  <2>1. \A i \in Slots : waitqueue'[i].ticket < next'
    BY <1>0, <1>2 DEF TypeOK, TicketInv
  <2>2. next' .. head - 1 \subseteq next .. head - 1
    BY <1>0
  <2> QED BY <2>1, <2>2, <1>0, <1>3, <1>4, SizesAssumption DEF TicketInv
<1>6. OwnerInv'
  <2>1. ~Owns(t)'
    BY Zenon DEF Owns, Pending, TypeOK, PcOK
  <2>2. ASSUME NEW s \in Thread, Owns(s)' PROVE Pending(s) /\ my[s] = next
    <3>1. s # t /\ ~Owns(s) /\ pc'[s] = pc[s] /\ my[s] \in Nat
      BY <2>1, <2>2, <1>3, <1>4, Zenon DEF TypeOK
    <3> QED BY <3>1, <2>2, <1>0, <1>4 DEF Owns, Popped
  <2>3. \A s, u \in Thread : Owns(s)' /\ Owns(u)' => s = u
    BY <2>2, Zenon DEF TicketInv
  <2>4. \A s \in Thread : Owns(s)' => head >= next'
    BY <2>2, <1>0 DEF TicketInv
  <2>5. ASSUME head >= next' PROVE \E s \in Thread : Owns(s)'
    <3>1. PICK s \in Thread : Pending(s) /\ my[s] = next
      BY <2>5, <1>0 DEF TicketInv
    <3>2. s # t
      BY <3>1, Zenon DEF Pending
    <3>3. s \in Cpu => ~Popped(s)
      <4>1. SUFFICES ASSUME s \in Cpu PROVE ~Popped(s)
        BY Zenon
      <4>2. pc[s] \in {"announce", "spin"}
        BY <3>1, <4>1, Zenon DEF Pending, TypeOK, PcOK, WorkerPcs
      <4> QED BY <3>1, <4>1, <4>2, <1>0 DEF ParkInv, CpuInv
    <3>4. Owns(s)'
      BY <3>1, <3>2, <3>3, <1>0, <1>4 DEF Owns, Popped
    <3> QED BY <3>4, Zenon
  <2> QED BY <2>3, <2>4, <2>5, Zenon DEF OwnerInv, LockNotLost
<1>7. SlotInv'
  BY <1>2, <1>4, SlotShift, Zenon DEF Thread
<1>8. ParkInv'
  <2>1. t \in Cpu => CpuInv(t)'
    BY <1>0, <1>4, AwayStep, Zenon DEF TypeOK, PcOK, ParkInv
  <2>2. \A d \in Cpu : d # t => Untouched(d)
    BY <1>0, <1>4, Zenon DEF TypeOK, PcOK, Thread, Untouched
  <2> QED BY <1>0, <1>4, <2>1, <2>2, ParkStep DEF TypeOK
<1>9. TryInv'
  BY <1>0 DEF TypeOK, PcOK, TryInv
<1> QED BY <1>1, <1>5, <1>6, <1>7, <1>8, <1>9, Zenon
-----------------------------------------------------------------------------
(***************************************************************************)
(* Theorems.                                                               *)
(***************************************************************************)

\* Every step of any thread preserves the invariant.
LEMMA StepInv == IInv /\ [LockNext]_lockvars => IInv'
<1> SUFFICES ASSUME IInv, [LockNext]_lockvars PROVE IInv'
  BY Zenon
<1>1. ASSUME NEW c \in Cpu, WorkerStep(c) PROVE IInv'
  BY <1>1, TakeTicketInv, AnnounceInv, AcquireInv, DelegatedInv, SignalledInv,
     FutexWaitInv, FutexSyscallInv, ReceiveInv, Zenon DEF WorkerStep
<1>2. ASSUME NEW c \in Cpu, NEW m \in CallModes, LockOrDelegate(c, m) PROVE IInv'
  BY <1>2, LockOrDelegateInv, Zenon
<1>3. ASSUME NEW t \in Cpu \cup Submitters, TryLoad(t) \/ TryCheck(t) \/ TryCas(t) PROVE IInv'
  BY <1>3, TryLoadInv, TryCheckInv, TryCasInv, Zenon
<1>4. ASSUME NEW l \in Lockers, LockTicket(l) \/ LockAcquire(l) PROVE IInv'
  BY <1>4, LockTicketInv, LockAcquireInv, Zenon
<1>5. ASSUME NEW t \in Thread, HolderStep(t) PROVE IInv'
  <2>1. CASE PopfrontWait(t)
    BY <2>1, PopfrontWaitInv, Zenon
  <2>2. ASSUME NEW c \in Cpu, SleepCpu(t, c) PROVE IInv'
    BY <2>2, SleepCpuInv, Zenon
  <2>3. ASSUME NEW c \in Cpu, NEW i \in Items, Serve(t, c, i) PROVE IInv'
    BY <2>3, ServeInv, Zenon
  <2>4. ASSUME NEW c \in Cpu, NEW i \in Items, Wake(t, c, i) PROVE IInv'
    BY <2>4, WakeInv, Zenon
  <2>5. CASE Unlock(t)
    BY <2>5, UnlockInv, Zenon
  <2> QED BY <1>5, <2>1, <2>2, <2>3, <2>4, <2>5, Zenon DEF HolderStep
<1>6. CASE UNCHANGED lockvars
  <2> USE <1>6 DEF lockvars, IInv
  <2>1. TypeOK'
    BY Zenon DEF TypeOK, PcOK
  <2>2. TicketInv'
    BY Zenon DEF TicketInv, Pending
  <2>3. OwnerInv'
    BY DEF OwnerInv, LockNotLost, Owns, Pending, Popped
  <2>4. SlotInv'
    BY DEF SlotInv, Announced
  <2>5. ParkInv'
    <3>1. \A c \in Cpu : Untouched(c)
      BY Zenon DEF Untouched
    <3> QED BY <3>1, CpuFrame DEF ParkInv, TypeOK
  <2>6. TryInv'
    BY Zenon DEF TryInv
  <2> QED BY <2>1, <2>2, <2>3, <2>4, <2>5, <2>6, Zenon
<1> QED BY <1>1, <1>2, <1>3, <1>4, <1>5, <1>6, Zenon DEF LockNext

\* The inductive invariant holds in every reachable state.
THEOREM Invariance == LockSpec => []IInv
  BY InitInv, StepInv, PTL DEF LockSpec

\* Type correctness of the lock, its masks and its threads.
THEOREM TypeCorrect == LockSpec => []TypeOK
<1>1. IInv => TypeOK
  BY Zenon DEF IInv
<1> QED BY <1>1, Invariance, PTL

\* At most one thread is inside the lock, for any number of CPUs, lockers and
\* submitters, as long as the CPUs and the lockers fit in the queue.
THEOREM Mutex == LockSpec => []MutualExclusion
<1>1. IInv => MutualExclusion
  BY Zenon DEF IInv, OwnerInv, MutualExclusion, Owns
<1> QED BY <1>1, Invariance, PTL

\* The lock is never lost: outstanding tickets have an owner among them.
THEOREM NotLost == LockSpec => []LockNotLost
<1>1. IInv => LockNotLost
  BY Zenon DEF IInv, OwnerInv
<1> QED BY <1>1, Invariance, PTL

\* A slot that looks taken is taken by the worker that dtlock_front names.
THEOREM FrontWaits == LockSpec => []FrontIsWaiting
<1>1. ASSUME IInv, ~Empty
      PROVE  /\ Front \in Cpu /\ pc[Front] = "spin" /\ my[Front] = next
             /\ Front \notin waiters \cup sleepers
  <2>1. Front \in Cpu /\ Announced(Front, next)
    BY <1>1, FrontFact, Zenon DEF IInv
  <2>2. pc[Front] = "spin" /\ my[Front] = next /\ next \in Nat
    BY <1>1, <2>1, Zenon DEF Announced, IInv, TypeOK
  <2>3. /\ pc[Front] = "spin" /\ Popped(Front) => my[Front] < next
        /\ Front \in waiters => Popped(Front)
        /\ Front \in sleepers => Popped(Front)
    <3>1. CpuInv(Front)
      BY <1>1, <2>1, Zenon DEF IInv, ParkInv
    <3> QED BY <3>1, Zenon DEF CpuInv, WaiterInv, SleeperInv
  <2>4. ~(next < next)
    BY <2>2, SMT
  <2>5. ~Popped(Front)
    BY <2>2, <2>3, <2>4, Zenon
  <2> QED BY <2>1, <2>2, <2>3, <2>5, Zenon
<1>2. IInv => FrontIsWaiting
  BY <1>1, Zenon DEF FrontIsWaiting
<1> QED BY <1>2, Invariance, PTL

\* The wait queue keeps its place although its slots are reused.
THEOREM QueueKept == LockSpec => []QueueSound
<1>1. LockNotLost /\ FrontIsWaiting => QueueSound
  BY Zenon DEF QueueSound
<1> QED BY <1>1, NotLost, FrontWaits, PTL

\* No signal is lost, and no worker is in a mask that it does not wait in.
THEOREM SignalsKept == LockSpec => [](ParkedIsKnown /\ MasksAreParked)
<1>1. ASSUME IInv, NEW c \in Cpu
      PROVE  /\ pc[c] = "signal" /\ items[c].cnt = prev[c] => c \in waiters
             /\ pc[c] = "asleep" => c \in sleepers
  BY <1>1, Zenon DEF IInv, ParkInv, CpuInv, WaiterInv, SleeperInv, FreeInv
<1>2. IInv => ParkedIsKnown
  BY <1>1, Zenon DEF ParkedIsKnown
<1>3. ASSUME IInv, NEW c \in Cpu
      PROVE  /\ ~(c \in waiters /\ c \in sleepers)
             /\ c \in waiters => WaiterInv(c)
             /\ c \in sleepers => SleeperInv(c)
  BY <1>3, Zenon DEF IInv, ParkInv, CpuInv
<1>4. ASSUME IInv PROVE waiters \subseteq Cpu /\ sleepers \subseteq Cpu
  BY <1>4, Zenon DEF IInv, TypeOK
<1>5. IInv => MasksAreParked
  BY <1>3, <1>4, Zenon DEF WaiterInv, SleeperInv, MasksAreParked
<1> QED BY <1>2, <1>5, Invariance, PTL

\* The assertions of futex.h and the one on blocking in dtlock.h never fail.
THEOREM AssertionsHold == LockSpec => [](FutexAssertions /\ SleepOnlyIfBlocking)
<1>1. ASSUME IInv, NEW c \in Cpu
      PROVE  /\ pc[c] = "futex" => futex[c] \in {-1, 0}
             /\ pc[c] = "recv" => futex[c] = 0
             /\ c \in sleepers => futex[c] \in {0, 1}
             /\ pc[c] \in {"futex", "syscall", "asleep"} => mode[c] = "default"
  BY <1>1, Zenon DEF IInv, ParkInv, CpuInv, WaiterInv, SleeperInv, FreeInv
<1>2. IInv => FutexAssertions /\ SleepOnlyIfBlocking
  BY <1>1, Zenon DEF FutexAssertions, SleepOnlyIfBlocking
<1> QED BY <1>2, Invariance, PTL
-----------------------------------------------------------------------------
(***************************************************************************)
(* DTLock implements Delegation: every step of the lock is a step of the   *)
(* abstract one under the mapping of DTLockDelegation, or changes nothing  *)
(* that the mapping shows.                                                 *)
(***************************************************************************)

\* How many tickets are pending
QLen == IF head >= next THEN head - next ELSE 0

\* Who has a released ticket is the owner.
LEMMA OwnerIs ==
    IInv => (\A t \in Thread : Owns(t) => OwnerBar = t) /\ (head < next => OwnerBar = Nobody)
<1> SUFFICES ASSUME IInv PROVE (\A t \in Thread : Owns(t) => OwnerBar = t) /\ (head < next => OwnerBar = Nobody)
  OBVIOUS
<1>1. \A t \in Thread : Owns(t) => OwnerBar = t
  BY Zenon DEF IInv, OwnerInv, OwnerBar
<1>2. head < next => ~(head >= next)
  BY DEF IInv, TypeOK
<1>3. head < next => \A t \in Thread : ~Owns(t)
  BY <1>2, Zenon DEF IInv, OwnerInv
<1> QED BY <1>1, <1>3, Zenon DEF OwnerBar

\* The same in the next state
LEMMA OwnerIsNext ==
    (IInv => (\A t \in Thread : Owns(t) => OwnerBar = t) /\ (head < next => OwnerBar = Nobody))'
BY OwnerIs, PTL

\* The queue holds the threads of the tickets from next on, each at its place.
QueueFact ==
    /\ QLen \in Nat /\ QueueBar \in [1 .. QLen -> Thread]
    /\ \A i \in 1 .. QLen : Pending(QueueBar[i]) /\ my[QueueBar[i]] = next + i - 1
    /\ \A i \in 1 .. QLen, t \in Thread : Pending(t) /\ my[t] = next + i - 1 => QueueBar[i] = t

\* The abstract queue holds the pending threads by their tickets.
LEMMA QueueIs == IInv => QueueFact
<1> SUFFICES ASSUME IInv PROVE QueueFact
  OBVIOUS
<1>1. head \in Nat /\ next \in Nat /\ QLen \in Nat
  <2>1. head \in Nat /\ next \in Nat
    BY Zenon DEF IInv, TypeOK
  <2> QED BY <2>1 DEF QLen
<1>2. WaitingTickets = next .. head - 1
  BY Zenon DEF IInv, TicketInv, WaitingTickets
<1>3. Cardinality(next .. head - 1) = QLen
  <2>1. next \in Int /\ head - 1 \in Int
    BY <1>1
  <2>2. Cardinality(next .. head - 1) = IF next > head - 1 THEN 0 ELSE (head - 1) - next + 1
    BY <2>1, FS_Interval, Zenon
  <2> QED BY <1>1, <2>2 DEF QLen
<1>4. QueueBar = [i \in 1 .. QLen |-> HolderOf(next + i - 1)]
  BY <1>2, <1>3, Zenon DEF QueueBar
<1>5. ASSUME NEW i \in 1 .. QLen
      PROVE  /\ QueueBar[i] \in Thread /\ Pending(QueueBar[i]) /\ my[QueueBar[i]] = next + i - 1
             /\ \A t \in Thread : Pending(t) /\ my[t] = next + i - 1 => QueueBar[i] = t
  <2>1. PICK k \in next .. head - 1 : k = next + i - 1
    BY <1>1 DEF QLen
  <2>2. \E t \in Thread : Pending(t) /\ my[t] = k
    BY Zenon DEF IInv, TicketInv
  <2>3. QueueBar[i] = HolderOf(k)
    BY <1>4, <2>1, Zenon
  <2>4. HolderOf(k) \in Thread /\ Pending(HolderOf(k)) /\ my[HolderOf(k)] = k
    BY <2>2, Zenon DEF HolderOf
  <2> QED BY <2>1, <2>3, <2>4, Zenon DEF IInv, TicketInv
<1>6. QueueBar \in [1 .. QLen -> Thread]
  BY <1>4, <1>5, Zenon
<1> QED BY <1>1, <1>5, <1>6, Zenon DEF QueueFact

\* The same in the next state
LEMMA QueueIsNext == (IInv => QueueFact)'
BY QueueIs, PTL

\* Nobody is queued when every ticket is released.
LEMMA QueueEmpty ==
    ASSUME QueueFact, QLen = 0 PROVE QueueBar = <<>>
BY DEF QueueFact
-----------------------------------------------------------------------------
(***************************************************************************)
(* What a step changes of the queue.                                       *)
(***************************************************************************)

\* The thread at place i, if it keeps its ticket
LEMMA PlaceKept ==
    ASSUME QueueFact, QueueFact', NEW i \in 1 .. QLen, NEW j \in 1 .. QLen',
           next' + j - 1 = next + i - 1,
           \A t \in Thread : Pending(t) /\ my[t] = next + i - 1 => Pending(t)' /\ my'[t] = my[t]
    PROVE  QueueBar'[j] = QueueBar[i]
<1>1. PICK t \in Thread : t = QueueBar[i] /\ Pending(t) /\ my[t] = next + i - 1
  BY Zenon DEF QueueFact
<1>2. Pending(t)' /\ my'[t] = next' + j - 1
  BY <1>1, Zenon
<1>3. \A u \in Thread : Pending(u)' /\ my'[u] = next' + j - 1 => QueueBar'[j] = u
  BY Zenon DEF QueueFact
<1> QED BY <1>1, <1>2, <1>3, Zenon

\* Steps that take no ticket and release none
LEMMA QueueStays ==
    ASSUME IInv, IInv', UNCHANGED <<head, next>>,
           \A t \in Thread : Pending(t) /\ my[t] >= next => Pending(t)' /\ my'[t] = my[t]
    PROVE  QueueBar' = QueueBar
<1>1. QueueFact /\ QueueFact' /\ QLen' = QLen /\ head \in Nat /\ next \in Nat
  BY QueueIs, QueueIsNext, Zenon DEF IInv, TypeOK, QLen
<1>2. ASSUME NEW i \in 1 .. QLen PROVE QueueBar'[i] = QueueBar[i]
  <2>1. next + i - 1 >= next
    BY <1>1
  <2>2. \A t \in Thread : Pending(t) /\ my[t] = next + i - 1 => Pending(t)' /\ my'[t] = my[t]
    BY <2>1, Zenon
  <2> QED BY <1>1, <2>2, PlaceKept, Zenon
<1>3. QueueBar \in [1 .. QLen -> Thread] /\ QueueBar' \in [1 .. QLen -> Thread]
  BY <1>1, Zenon DEF QueueFact
<1>4. \A i \in 1 .. QLen : QueueBar'[i] = QueueBar[i]
  BY <1>2, Zenon
<1>5. QLen \in Nat
  BY <1>1, Zenon DEF QueueFact
<1> QED BY <1>3, <1>4, <1>5

\* Thread t takes ticket head while another one has the lock.
LEMMA QueueJoined ==
    ASSUME IInv, IInv', NEW t \in Thread, head >= next, head' = head + 1, next' = next,
           Pending(t)', my'[t] = head,
           \A u \in Thread : Pending(u) => Pending(u)' /\ my'[u] = my[u]
    PROVE  QueueBar' = Append(QueueBar, t)
<1>1. QueueFact /\ QueueFact' /\ head \in Nat /\ next \in Nat
  BY QueueIs, QueueIsNext, Zenon DEF IInv, TypeOK
<1>2. QLen = head - next /\ QLen' = QLen + 1 /\ QLen \in Nat
  BY <1>1 DEF QLen
<1>3. ASSUME NEW i \in 1 .. QLen PROVE QueueBar'[i] = QueueBar[i]
  <2>1. i \in 1 .. QLen'
    BY <1>2
  <2> QED BY <1>1, <2>1, PlaceKept, Zenon
<1>4. QueueBar'[QLen'] = t
  <2>1. QLen' \in 1 .. QLen' /\ my'[t] = next' + QLen' - 1
    BY <1>1, <1>2
  <2> QED BY <1>1, <2>1, Zenon DEF QueueFact
<1>5. QueueBar \in [1 .. QLen -> Thread] /\ QueueBar' \in [1 .. QLen + 1 -> Thread]
  BY <1>1, <1>2, Zenon DEF QueueFact
<1> QED BY <1>2, <1>3, <1>4, <1>5

\* Ticket next is released and was waited for.
LEMMA QueuePopped ==
    ASSUME IInv, IInv', head > next, head' = head, next' = next + 1,
           \A u \in Thread : Pending(u) => Pending(u)' /\ my'[u] = my[u]
    PROVE  /\ QueueBar # <<>> /\ QueueBar' = Tail(QueueBar)
           /\ Head(QueueBar) \in Thread /\ Pending(Head(QueueBar)) /\ my[Head(QueueBar)] = next
<1>1. QueueFact /\ QueueFact' /\ head \in Nat /\ next \in Nat
  BY QueueIs, QueueIsNext, Zenon DEF IInv, TypeOK
<1>2. QLen = head - next /\ QLen' = QLen - 1 /\ QLen \in Nat \ {0}
  BY <1>1 DEF QLen
<1>3. ASSUME NEW i \in 1 .. QLen' PROVE QueueBar'[i] = QueueBar[i + 1]
  <2>1. i + 1 \in 1 .. QLen /\ next' + i - 1 = next + (i + 1) - 1
    BY <1>1, <1>2
  <2> QED BY <1>1, <2>1, PlaceKept, Zenon
<1>4. QueueBar \in [1 .. QLen -> Thread] /\ QueueBar' \in [1 .. QLen - 1 -> Thread]
  BY <1>1, <1>2, Zenon DEF QueueFact
<1>5. QueueBar # <<>> /\ Head(QueueBar) = QueueBar[1]
  BY <1>2, <1>4
<1>6. QueueBar' = Tail(QueueBar)
  BY <1>2, <1>3, <1>4
<1>7. 1 \in 1 .. QLen /\ next + 1 - 1 = next
  BY <1>1, <1>2
<1>8. QueueBar[1] \in Thread /\ Pending(QueueBar[1]) /\ my[QueueBar[1]] = next
  BY <1>1, <1>7, Zenon DEF QueueFact
<1> QED BY <1>5, <1>6, <1>8, Zenon
-----------------------------------------------------------------------------
(***************************************************************************)
(* What a step changes of the owner and of the replies.                    *)
(***************************************************************************)

\* Nobody gets or gives up the lock.
LEMMA OwnerStays ==
    ASSUME IInv, IInv', head' < next' <=> head < next, \A t \in Thread : Owns(t) => Owns(t)'
    PROVE  OwnerBar' = OwnerBar
<1>1. CASE head < next
  BY <1>1, OwnerIs, OwnerIsNext, Zenon
<1>2. CASE ~(head < next)
  <2>1. head >= next
    BY <1>2 DEF IInv, TypeOK
  <2>2. PICK t \in Thread : Owns(t)
    BY <2>1, Zenon DEF IInv, OwnerInv, LockNotLost
  <2> QED BY <2>2, OwnerIs, OwnerIsNext, Zenon
<1> QED BY <1>1, <1>2, Zenon

\* Nobody is answered and nobody picks up an answer.
LEMMA RepliesStay ==
    ASSUME \A c \in Cpu : (Answered(c)' <=> Answered(c)) /\ (Answered(c) => items'[c].item = items[c].item)
    PROVE  ReplyBar' = ReplyBar
<1>1. ASSUME NEW c \in Cpu
      PROVE  (IF Answered(c)' THEN <<items'[c].item>> ELSE <<>>) = IF Answered(c) THEN <<items[c].item>> ELSE <<>>
  BY Zenon
<1> QED BY <1>1, Zenon DEF ReplyBar

\* A step of one worker that changes neither its answer nor what it has
LEMMA AnswersStay ==
    ASSUME NEW t, \A c \in Cpu : c # t => Untouched(c),
           t \in Cpu => (Answered(t)' <=> Answered(t)) /\ (Answered(t) => items'[t].item = items[t].item)
    PROVE  ReplyBar' = ReplyBar
<1>1. ASSUME NEW c \in Cpu
      PROVE  (Answered(c)' <=> Answered(c)) /\ (Answered(c) => items'[c].item = items[c].item)
  <2>1. CASE c = t
    BY <2>1, Zenon DEF Answered, Popped
  <2>2. CASE c # t
    BY <2>2, Zenon DEF Answered, Popped, Untouched
  <2> QED BY <2>1, <2>2, Zenon
<1> QED BY <1>1, RepliesStay, Zenon

\* The steps that the mapping does not show
LEMMA Unseen ==
    ASSUME IInv, IInv', NEW t \in Thread, UNCHANGED <<head, next>>,
           \A u \in Thread : u # t => pc'[u] = pc[u] /\ my'[u] = my[u],
           \A c \in Cpu : c # t => Untouched(c),
           Pending(t) /\ my[t] >= next => Pending(t)' /\ my'[t] = my[t],
           Owns(t) => Owns(t)',
           t \in Cpu => (Answered(t)' <=> Answered(t)) /\ (Answered(t) => items'[t].item = items[t].item),
           waiters' \cup sleepers' = waiters \cup sleepers
    PROVE  UNCHANGED D!avars
<1>1. QueueBar' = QueueBar
  <2>1. ASSUME NEW u \in Thread, Pending(u), my[u] >= next PROVE Pending(u)' /\ my'[u] = my[u]
    <3>1. CASE u = t
      BY <2>1, <3>1, Zenon DEF Pending
    <3>2. CASE u # t
      BY <2>1, <3>2, Zenon DEF Pending
    <3> QED BY <3>1, <3>2, Zenon
  <2> QED BY <2>1, QueueStays, Zenon
<1>2. OwnerBar' = OwnerBar
  <2>1. ASSUME NEW u \in Thread, Owns(u) PROVE Owns(u)'
    <3>1. CASE u = t
      BY <2>1, <3>1, Zenon DEF Owns, Pending, Popped
    <3>2. CASE u # t
      <4>1. u \in Cpu => (Popped(u)' <=> Popped(u))
        BY <3>2, Zenon DEF Popped, Untouched
      <4> QED BY <2>1, <3>2, <4>1, Zenon DEF Owns, Pending
    <3> QED BY <3>1, <3>2, Zenon
  <2>2. head' < next' <=> head < next
    BY Zenon
  <2> QED BY <2>1, <2>2, OwnerStays, Zenon
<1>3. ReplyBar' = ReplyBar
  BY AnswersStay, Zenon
<1> QED BY <1>1, <1>2, <1>3, Zenon DEF D!avars
-----------------------------------------------------------------------------
(***************************************************************************)
(* The steps of a thread inside dtlock_lock_or_delegate.                   *)
(***************************************************************************)

\* What a step of worker t leaves alone
LEMMA OthersStay ==
    ASSUME IInv, NEW t \in Thread, NEW v, pc' = [pc EXCEPT ![t] = v],
           \A u \in Thread : u # t => my'[u] = my[u],
           \A c \in Cpu : c # t => /\ items'[c] = items[c] /\ futex'[c] = futex[c]
                                   /\ prev'[c] = prev[c] /\ mode'[c] = mode[c],
           UNCHANGED <<waiters, sleepers>>
    PROVE  /\ \A u \in Thread : u # t => pc'[u] = pc[u] /\ my'[u] = my[u]
           /\ \A c \in Cpu : c # t => Untouched(c)
           /\ pc'[t] = v
<1>1. pc'[t] = v /\ \A u \in Thread : u # t => pc'[u] = pc[u]
  BY Zenon DEF IInv, TypeOK, PcOK
<1> QED BY <1>1, Zenon DEF Untouched, Thread

\* The call of dtlock_lock_or_delegate, before its ticket
LEMMA CallUnseen ==
    ASSUME IInv, IInv', NEW c \in Cpu, NEW m, LockOrDelegate(c, m) PROVE UNCHANGED D!avars
<1>1. /\ pc[c] = "out" /\ pc' = [pc EXCEPT ![c] = "ticket"] /\ c \in Thread
      /\ UNCHANGED <<head, next, my, items, futex, waiters, sleepers>>
      /\ \A d \in Cpu : d # c => prev'[d] = prev[d] /\ mode'[d] = mode[d]
  BY Zenon DEF LockOrDelegate, Goto, Thread, IInv, TypeOK
<1>2. /\ \A u \in Thread : u # c => pc'[u] = pc[u] /\ my'[u] = my[u]
      /\ \A d \in Cpu : d # c => Untouched(d)
      /\ pc'[c] = "ticket"
  BY <1>1, OthersStay, Zenon
<1>3. ~Pending(c) /\ ~Owns(c) /\ ~Answered(c) /\ ~Answered(c)'
  BY <1>1, <1>2, Zenon DEF Pending, Owns, Answered
<1> QED BY <1>1, <1>2, <1>3, Unseen, Zenon

\* A worker writes its CPU and its flags in its slot.
LEMMA AnnounceUnseen ==
    ASSUME IInv, IInv', NEW c \in Cpu, Announce(c) PROVE UNCHANGED D!avars
<1>1. /\ pc[c] = "announce" /\ pc' = [pc EXCEPT ![c] = "spin"] /\ c \in Thread
      /\ UNCHANGED <<head, next, my, items, futex, waiters, sleepers, prev, mode>>
  BY Zenon DEF Announce, Goto, Thread
<1>2. /\ \A u \in Thread : u # c => pc'[u] = pc[u] /\ my'[u] = my[u]
      /\ \A d \in Cpu : d # c => Untouched(d)
      /\ pc'[c] = "spin"
  BY <1>1, OthersStay, Zenon
<1>3. ~Popped(c)
  BY <1>1, Zenon DEF IInv, ParkInv, CpuInv
<1>4. Pending(c)' /\ (Owns(c) => Owns(c)') /\ ~Answered(c) /\ ~Answered(c)'
  BY <1>1, <1>2, <1>3, Zenon DEF Pending, Owns, Answered, Popped
<1> QED BY <1>1, <1>2, <1>4, Unseen, Zenon

\* A worker finds its ticket released: it was the owner before.
LEMMA AcquireUnseen ==
    ASSUME IInv, IInv', NEW c \in Cpu, Acquire(c) PROVE UNCHANGED D!avars
<1>1. /\ pc[c] = "spin" /\ pc' = [pc EXCEPT ![c] = "held"] /\ c \in Thread /\ Released(c) /\ ~Popped(c)
      /\ UNCHANGED <<head, next, my, futex, waiters, sleepers, prev, mode>>
      /\ \A d \in Cpu : d # c => items'[d] = items[d]
  BY Zenon DEF Acquire, Goto, Thread, Popped, IInv, TypeOK
<1>2. /\ \A u \in Thread : u # c => pc'[u] = pc[u] /\ my'[u] = my[u]
      /\ \A d \in Cpu : d # c => Untouched(d)
      /\ pc'[c] = "held"
  BY <1>1, OthersStay, Zenon
<1>3. ~(my[c] >= next)
  <2>1. my[c] \in Nat /\ next \in Nat /\ Slot(my[c]) \in Slots
    BY <1>1, SlotType, Zenon DEF IInv, TypeOK
  <2>2. waitqueue[Slot(my[c])].ticket < next /\ waitqueue[Slot(my[c])].ticket \in Nat
    BY <2>1 DEF IInv, TypeOK, TicketInv
  <2>3. waitqueue[Slot(my[c])].ticket >= my[c]
    BY <1>1, Zenon DEF Released
  <2> QED BY <2>1, <2>2, <2>3
<1>4. Owns(c)' /\ ~Answered(c) /\ ~Answered(c)'
  BY <1>1, <1>2, Zenon DEF Owns, Answered
<1> QED BY <1>1, <1>2, <1>3, <1>4, Unseen, Zenon

\* A worker finds that it was popped.
LEMMA DelegatedUnseen ==
    ASSUME IInv, IInv', NEW c \in Cpu, Delegated(c) PROVE UNCHANGED D!avars
<1>1. /\ pc[c] = "spin" /\ pc' = [pc EXCEPT ![c] = "signal"] /\ c \in Thread /\ Popped(c)
      /\ UNCHANGED <<head, next, my, items, futex, waiters, sleepers, prev, mode>>
  BY Zenon DEF Delegated, Goto, Thread, Popped
<1>2. /\ \A u \in Thread : u # c => pc'[u] = pc[u] /\ my'[u] = my[u]
      /\ \A d \in Cpu : d # c => Untouched(d)
      /\ pc'[c] = "signal"
  BY <1>1, OthersStay, Zenon
<1>3. ~(my[c] >= next)
  <2>1. my[c] \in Nat /\ next \in Nat /\ my[c] < next
    BY <1>1, Zenon DEF IInv, TypeOK, ParkInv, CpuInv
  <2> QED BY <2>1
<1>4. ~Owns(c)
  BY <1>1, Zenon DEF Owns
<1>5. Answered(c)' <=> Answered(c)
  BY <1>1, <1>2, Zenon DEF Answered
<1> QED BY <1>1, <1>2, <1>3, <1>4, <1>5, Unseen, Zenon

\* From the signal to the answer: a worker that is out of both masks was answered.
LEMMA ParkedUnseen ==
    ASSUME IInv, IInv', NEW c \in Cpu, Signalled(c) \/ FutexWait(c) \/ FutexSyscall(c)
    PROVE  UNCHANGED D!avars
<1>1. /\ pc[c] \in {"signal", "futex", "syscall"} /\ c \in Thread /\ CpuInv(c)
      /\ UNCHANGED <<head, next, my, items, waiters, sleepers, prev, mode>>
      /\ \A d \in Cpu : d # c => futex'[d] = futex[d]
  BY Zenon DEF Signalled, FutexWait, FutexSyscall, Goto, Thread, IInv, TypeOK, ParkInv
<1>2. PICK v \in {"futex", "recv", "syscall", "asleep"} : pc' = [pc EXCEPT ![c] = v]
  BY DEF Signalled, FutexWait, FutexSyscall, Goto
<1>3. /\ \A u \in Thread : u # c => pc'[u] = pc[u] /\ my'[u] = my[u]
      /\ \A d \in Cpu : d # c => Untouched(d)
      /\ pc'[c] = v
  BY <1>1, <1>2, OthersStay, Zenon
<1>4. ~Pending(c) /\ ~Owns(c)
  BY <1>1, Zenon DEF Pending, Owns
<1>5. Answered(c)' <=> Answered(c)
  <2>1. CASE Signalled(c)
    <3>1. pc[c] = "signal" /\ items[c].cnt # prev[c] /\ v = IF items[c].sleep THEN "futex" ELSE "recv"
      BY <1>1, <1>3, <2>1 DEF Signalled, Goto, IInv, TypeOK, PcOK
    <3>2. c \notin waiters /\ (~items[c].sleep => c \notin sleepers)
      BY <1>1, <3>1, Zenon DEF CpuInv, WaiterInv, SleeperInv
    <3>3. CASE items[c].sleep
      BY <1>1, <1>3, <3>1, <3>3, Zenon DEF Answered
    <3>4. CASE ~items[c].sleep
      BY <1>1, <1>3, <3>1, <3>2, <3>4, Zenon DEF Answered
    <3> QED BY <3>3, <3>4, Zenon
  <2>2. CASE FutexWait(c)
    <3>1. pc[c] = "futex" /\ v = IF futex[c] = 0 THEN "syscall" ELSE "recv"
      BY <1>1, <1>3, <2>2 DEF FutexWait, Goto, IInv, TypeOK, PcOK
    <3>2. c \notin waiters /\ (c \in sleepers => futex[c] = 0) /\ (c \notin sleepers => futex[c] # 0)
      BY <1>1, <3>1 DEF CpuInv, WaiterInv, SleeperInv, FreeInv
    <3>3. CASE futex[c] = 0
      BY <1>1, <1>3, <3>1, <3>2, <3>3, Zenon DEF Answered
    <3>4. CASE futex[c] # 0
      BY <1>1, <1>3, <3>1, <3>2, <3>4, Zenon DEF Answered
    <3> QED BY <3>3, <3>4, Zenon
  <2>3. CASE FutexSyscall(c)
    <3>1. pc[c] = "syscall" /\ v = IF futex[c] = 1 THEN "asleep" ELSE "recv"
      BY <1>1, <1>3, <2>3 DEF FutexSyscall, Goto, IInv, TypeOK, PcOK
    <3>2. c \notin waiters /\ (c \in sleepers => futex[c] = 1) /\ (c \notin sleepers => futex[c] # 1)
      BY <1>1, <3>1 DEF CpuInv, WaiterInv, SleeperInv, FreeInv
    <3>3. CASE futex[c] = 1
      BY <1>1, <1>3, <3>1, <3>2, <3>3, Zenon DEF Answered
    <3>4. CASE futex[c] # 1
      BY <1>1, <1>3, <3>1, <3>2, <3>4, Zenon DEF Answered
    <3> QED BY <3>3, <3>4, Zenon
  <2> QED BY <2>1, <2>2, <2>3, Zenon
<1> QED BY <1>1, <1>3, <1>4, <1>5, Unseen, Zenon
-----------------------------------------------------------------------------
(***************************************************************************)
(* The steps that the mapping shows.                                       *)
(***************************************************************************)

\* The threads of the two specifications
LEMMA ThreadsAre == D!Threads = Thread
BY Zenon DEF D!Threads, Thread

\* The reply of one worker
LEMMA ReplyType == \A c \in Cpu : ReplyBar[c] = IF Answered(c) THEN <<items[c].item>> ELSE <<>>
BY Zenon DEF ReplyBar

\* A thread that neither waits, owns nor is to be answered is idle.
LEMMA IdleIs ==
    ASSUME IInv, NEW t \in Thread, ~Pending(t), ~Owns(t), t \notin waiters \cup sleepers,
           t \in Cpu => ~Answered(t)
    PROVE  D!Idle(t)
<1>1. t # OwnerBar
  <2>1. CASE \E u \in Thread : Owns(u)
    BY <2>1, OwnerIs, Zenon
  <2>2. CASE ~\E u \in Thread : Owns(u)
    BY <2>2, NobodyAssumption, Zenon DEF OwnerBar
  <2> QED BY <2>1, <2>2, Zenon
<1>2. \A i \in DOMAIN QueueBar : QueueBar[i] # t
  BY QueueIs, Zenon DEF QueueFact
<1>3. t \in Cpu => ReplyBar[t] = <<>>
  BY ReplyType, Zenon
<1> QED BY <1>1, <1>2, <1>3, Zenon DEF D!Idle

\* A ticket is taken: for the lock if nobody has it, else at the end of the queue.
LEMMA RequestSeen ==
    ASSUME IInv, IInv', NEW t \in Thread, head' = head + 1, next' = next,
           UNCHANGED <<items, waiters, sleepers>>,
           \A u \in Thread : u # t => pc'[u] = pc[u] /\ my'[u] = my[u],
           ~Pending(t), ~Owns(t), t \notin waiters \cup sleepers,
           t \in Cpu => ~Answered(t) /\ ~Answered(t)',
           head < next => Owns(t)',
           head >= next => Pending(t)' /\ my'[t] = head
    PROVE  D!Request(t)
<1>1. D!Idle(t)
  BY IdleIs, Zenon
<1>2. ReplyBar' = ReplyBar
  <2>1. ASSUME NEW c \in Cpu
        PROVE  (Answered(c)' <=> Answered(c)) /\ (Answered(c) => items'[c].item = items[c].item)
    <3>1. CASE c = t
      BY <3>1, Zenon DEF Answered, Popped
    <3>2. CASE c # t
      BY <3>2, Zenon DEF Answered, Popped, Thread
    <3> QED BY <3>1, <3>2, Zenon
  <2> QED BY <2>1, RepliesStay, Zenon
<1>3. head \in Nat /\ next \in Nat /\ next <= head + 1
  BY Zenon DEF IInv, TypeOK, TicketInv
<1>4. CASE head < next
  <2>1. OwnerBar = Nobody /\ OwnerBar' = t
    BY <1>4, OwnerIs, OwnerIsNext, Zenon
  <2>2. QLen = 0 /\ QLen' = 0
    BY <1>3, <1>4 DEF QLen
  <2>3. QueueFact /\ QueueFact'
    BY QueueIs, QueueIsNext, Zenon
  <2>4. QueueBar = <<>>
    BY <2>2, <2>3, QueueEmpty, Zenon
  <2>5. QueueBar' = <<>>
    BY <2>2, <2>3 DEF QueueFact
  <2> QED BY <1>1, <1>2, <2>1, <2>4, <2>5, Zenon DEF D!Request
<1>5. CASE ~(head < next)
  <2>1. head >= next
    BY <1>3, <1>5
  <2>2. \A u \in Thread : Pending(u) => Pending(u)' /\ my'[u] = my[u]
    BY Zenon DEF Pending
  <2>3. QueueBar' = Append(QueueBar, t)
    BY <2>1, <2>2, QueueJoined, Zenon
  <2>4. PICK u \in Thread : Owns(u)
    BY <2>1, Zenon DEF IInv, OwnerInv, LockNotLost
  <2>5. u # t
    BY <2>4, Zenon
  <2>6. Owns(u)'
    <3>1. u \in Cpu => (Popped(u)' <=> Popped(u))
      BY <2>5, Zenon DEF Popped, Thread
    <3> QED BY <2>4, <2>5, <3>1, Zenon DEF Owns, Pending
  <2>7. OwnerBar = u /\ OwnerBar' = u
    BY <2>4, <2>6, OwnerIs, OwnerIsNext, Zenon
  <2>8. OwnerBar # Nobody
    BY <2>7, NobodyAssumption, Zenon
  <2> QED BY <1>1, <1>2, <2>3, <2>7, <2>8, Zenon DEF D!Request
<1> QED BY <1>4, <1>5, Zenon

\* The fetch_add of dtlock_lock_or_delegate
LEMMA TakeTicketSeen ==
    ASSUME IInv, IInv', NEW c \in Cpu, TakeTicket(c) PROVE D!Request(c)
<1>1. /\ c \in Thread /\ pc[c] = "ticket" /\ head' = head + 1 /\ pc' = [pc EXCEPT ![c] = "announce"]
      /\ my' = [my EXCEPT ![c] = head] /\ UNCHANGED <<next, items, waiters, sleepers>>
  BY Zenon DEF TakeTicket, Goto, Thread
<1>2. /\ pc'[c] = "announce" /\ my'[c] = head
      /\ \A u \in Thread : u # c => pc'[u] = pc[u] /\ my'[u] = my[u]
  BY <1>1, Zenon DEF IInv, TypeOK, PcOK
<1>3. CpuInv(c) /\ items[c].ticket < head /\ items[c].ticket \in Nat /\ head \in Nat
  <2>1. CpuInv(c) /\ items[c].ticket < head /\ head \in Nat
    BY Zenon DEF IInv, TypeOK, ParkInv, TicketInv
  <2>2. items[c].ticket \in Nat
    BY DEF IInv, TypeOK
  <2> QED BY <2>1, <2>2, Zenon
<1>4. c \notin waiters \cup sleepers
  BY <1>1, <1>3, Zenon DEF CpuInv, WaiterInv, SleeperInv
<1>5. items'[c].ticket # my'[c]
  <2>1. items[c].ticket # head
    BY <1>3
  <2> QED BY <1>1, <1>2, <2>1, Zenon
<1>6. Pending(c)' /\ ~Popped(c)' /\ ~Pending(c) /\ ~Owns(c) /\ ~Answered(c) /\ ~Answered(c)'
  BY <1>1, <1>2, <1>5, Zenon DEF Pending, Popped, Owns, Answered
<1>7. head < next => Owns(c)'
  BY <1>1, <1>2, <1>6, Zenon DEF Owns
<1> QED BY <1>1, <1>2, <1>4, <1>6, <1>7, RequestSeen, Zenon

\* The fetch_add of dtlock_lock
LEMMA LockTicketSeen ==
    ASSUME IInv, IInv', NEW l \in Lockers, LockTicket(l) PROVE D!Request(l)
<1>1. /\ l \in Thread /\ l \notin Cpu /\ pc[l] = "out" /\ head' = head + 1 /\ pc' = [pc EXCEPT ![l] = "lspin"]
      /\ my' = [my EXCEPT ![l] = head] /\ UNCHANGED <<next, items, waiters, sleepers>>
  BY ThreadsAssumption, Zenon DEF LockTicket, Goto, Thread
<1>2. /\ pc'[l] = "lspin" /\ my'[l] = head
      /\ \A u \in Thread : u # l => pc'[u] = pc[u] /\ my'[u] = my[u]
  BY <1>1, Zenon DEF IInv, TypeOK, PcOK
<1>3. l \notin waiters \cup sleepers
  BY <1>1, Zenon DEF IInv, TypeOK
<1>4. Pending(l)' /\ ~Pending(l) /\ ~Owns(l)
  BY <1>1, <1>2, Zenon DEF Pending, Owns
<1>5. head < next => Owns(l)'
  BY <1>1, <1>2, <1>4, Zenon DEF Owns
<1> QED BY <1>1, <1>2, <1>3, <1>4, <1>5, RequestSeen, Zenon

\* dtlock_try_lock gets the lock only when nobody has it.
LEMMA TryCasSeen ==
    ASSUME IInv, IInv', NEW t \in Cpu \cup Submitters, TryCas(t) PROVE D!Request(t) \/ UNCHANGED D!avars
<1>1. /\ t \in Thread /\ pc[t] = "cas" /\ UNCHANGED <<next, items, waiters, sleepers, my, futex, prev, mode>>
  BY Zenon DEF TryCas, Goto, Thread
<1>2. ~Pending(t) /\ ~Owns(t) /\ ~Answered(t)
  BY <1>1, Zenon DEF Pending, Owns, Answered
<1>3. CASE pc' = [pc EXCEPT ![t] = "held"] /\ head = my[t] /\ head' = head + 1
  <2>1. pc'[t] = "held" /\ \A u \in Thread : u # t => pc'[u] = pc[u] /\ my'[u] = my[u]
    BY <1>1, <1>3, Zenon DEF IInv, TypeOK, PcOK
  <2>2. t \notin waiters \cup sleepers
    <3>1. CASE t \in Cpu
      BY <1>1, <3>1, Zenon DEF IInv, ParkInv, CpuInv, WaiterInv, SleeperInv
    <3>2. CASE t \notin Cpu
      BY <3>2, Zenon DEF IInv, TypeOK
    <3> QED BY <3>1, <3>2, Zenon
  <2>3. ~(head >= next)
    <3>1. head < next /\ head \in Nat /\ next \in Nat
      BY <1>1, <1>3, Zenon DEF IInv, TryInv, TypeOK
    <3> QED BY <3>1
  <2>4. Owns(t)' /\ ~Answered(t)'
    BY <2>1, Zenon DEF Owns, Answered
  <2> QED BY <1>1, <1>2, <1>3, <2>1, <2>2, <2>3, <2>4, RequestSeen, Zenon
<1>4. CASE pc' = [pc EXCEPT ![t] = "out"] /\ UNCHANGED head
  <2>1. /\ \A u \in Thread : u # t => pc'[u] = pc[u] /\ my'[u] = my[u]
        /\ \A d \in Cpu : d # t => Untouched(d)
        /\ pc'[t] = "out"
    BY <1>1, <1>4, OthersStay, Zenon
  <2>2. ~Answered(t)'
    BY <2>1, Zenon DEF Answered
  <2> QED BY <1>1, <1>2, <1>4, <2>1, <2>2, Unseen, Zenon
<1> QED BY <1>3, <1>4, Zenon DEF TryCas, Goto

\* dtlock_try_lock before its compare-and-exchange
LEMMA TryUnseen ==
    ASSUME IInv, IInv', NEW t \in Cpu \cup Submitters, TryLoad(t) \/ TryCheck(t) PROVE UNCHANGED D!avars
<1>1. /\ t \in Thread /\ pc[t] \in {"out", "try"}
      /\ UNCHANGED <<head, next, items, waiters, sleepers, futex, prev, mode>>
      /\ \A u \in Thread : u # t => my'[u] = my[u]
  BY Zenon DEF TryLoad, TryCheck, Goto, Thread, IInv, TypeOK
<1>2. PICK v \in {"try", "cas", "out"} : pc' = [pc EXCEPT ![t] = v]
  BY DEF TryLoad, TryCheck, Goto
<1>3. /\ \A u \in Thread : u # t => pc'[u] = pc[u] /\ my'[u] = my[u]
      /\ \A d \in Cpu : d # t => Untouched(d)
      /\ pc'[t] = v
  BY <1>1, <1>2, OthersStay, Zenon
<1>4. ~Pending(t) /\ ~Owns(t) /\ ~Answered(t) /\ ~Answered(t)'
  BY <1>1, <1>3, Zenon DEF Pending, Owns, Answered
<1> QED BY <1>1, <1>3, <1>4, Unseen, Zenon

\* dtlock_lock finds its ticket released.
LEMMA LockAcquireUnseen ==
    ASSUME IInv, IInv', NEW l \in Lockers, LockAcquire(l) PROVE UNCHANGED D!avars
<1>1. /\ l \in Thread /\ l \notin Cpu /\ pc[l] = "lspin" /\ pc' = [pc EXCEPT ![l] = "held"]
      /\ waitqueue[Slot(my[l])].ticket = my[l]
      /\ UNCHANGED <<head, next, my, items, waiters, sleepers, futex, prev, mode>>
  BY ThreadsAssumption, Zenon DEF LockAcquire, Goto, Thread
<1>2. /\ \A u \in Thread : u # l => pc'[u] = pc[u] /\ my'[u] = my[u]
      /\ \A d \in Cpu : d # l => Untouched(d)
      /\ pc'[l] = "held"
  BY <1>1, OthersStay, Zenon
<1>3. ~(my[l] >= next)
  <2>1. my[l] \in Nat /\ next \in Nat /\ Slot(my[l]) \in Slots
    BY <1>1, SlotType, Zenon DEF IInv, TypeOK
  <2>2. my[l] < next
    BY <1>1, <2>1, Zenon DEF IInv, TicketInv
  <2> QED BY <2>1, <2>2
<1>4. Owns(l)'
  BY <1>2, Zenon DEF Owns
<1> QED BY <1>1, <1>2, <1>3, <1>4, Unseen, Zenon

\* The holder owns the lock, in the eyes of the mapping too.
LEMMA HolderOwns ==
    ASSUME IInv, NEW t \in Thread, pc[t] = "held"
    PROVE  Owns(t) /\ OwnerBar = t /\ OwnerBar # Nobody /\ head >= next
<1>1. Owns(t)
  BY Zenon DEF Owns
<1> QED BY <1>1, OwnerIs, NobodyAssumption, Zenon DEF IInv, OwnerInv

\* A waiter that is told to sleep has no answer yet.
LEMMA SleepUnseen ==
    ASSUME IInv, IInv', NEW t \in Thread, NEW c \in Cpu, SleepCpu(t, c) PROVE UNCHANGED D!avars
<1>1. /\ c \in Thread /\ c \in waiters /\ waiters' = waiters \ {c} /\ sleepers' = sleepers \cup {c}
      /\ UNCHANGED <<head, next, my, pc, futex, prev, mode>>
      /\ \A d \in Cpu : d # c => items'[d] = items[d]
      /\ items'[c].ticket = items[c].ticket
  BY DEF SleepCpu, Thread, IInv, TypeOK
<1>2. \A d \in Cpu : d # c => Untouched(d)
  BY <1>1, Zenon DEF Untouched
<1>3. pc[c] \in {"spin", "signal"}
  BY <1>1, Zenon DEF IInv, ParkInv, CpuInv, WaiterInv
<1>4. ~Answered(c) /\ ~Answered(c)'
  BY <1>1, <1>3, Zenon DEF Answered
<1>5. Owns(c) => Owns(c)'
  BY <1>1, Zenon DEF Owns, Pending, Popped
<1>6. waiters' \cup sleepers' = waiters \cup sleepers
  BY <1>1, Zenon
<1>7. Pending(c) => Pending(c)'
  BY <1>1, Zenon DEF Pending
<1> QED BY <1>1, <1>2, <1>4, <1>5, <1>6, <1>7, Unseen, Zenon

\* A worker picks up its answer.
LEMMA ReceiveSeen ==
    ASSUME IInv, IInv', NEW c \in Cpu, Receive(c) PROVE D!PickUp(c)
<1>1. /\ c \in Thread /\ pc[c] = "recv" /\ UNCHANGED <<head, next, my, items, waiters, sleepers, futex, mode>>
  BY Zenon DEF Receive, Goto, Thread
<1>2. PICK v \in {"ticket", "out"} : pc' = [pc EXCEPT ![c] = v]
  BY DEF Receive, Goto
<1>3. pc'[c] = v /\ \A u \in Thread : u # c => pc'[u] = pc[u]
  BY <1>1, <1>2, Zenon DEF IInv, TypeOK, PcOK
<1>4. QueueBar' = QueueBar
  <2>1. \A u \in Thread : Pending(u) => Pending(u)' /\ my'[u] = my[u]
    BY <1>1, <1>3, Zenon DEF Pending
  <2> QED BY <1>1, <2>1, QueueStays, Zenon
<1>5. OwnerBar' = OwnerBar
  <2>1. \A u \in Thread : Owns(u) => Owns(u)'
    BY <1>1, <1>3, Zenon DEF Owns, Pending, Popped
  <2> QED BY <1>1, <2>1, OwnerStays, Zenon
<1>6. ReplyBar[c] # <<>> /\ ReplyBar' = [ReplyBar EXCEPT ![c] = Tail(@)]
  <2>1. Answered(c) /\ ~Answered(c)'
    BY <1>1, <1>3, Zenon DEF Answered
  <2>2. ReplyBar[c] = <<items[c].item>>
    BY <2>1, ReplyType, Zenon
  <2>3. ReplyBar[c] # <<>> /\ Tail(ReplyBar[c]) = <<>>
    BY <2>2
  <2>4. ASSUME NEW d \in Cpu
        PROVE  (IF Answered(d)' THEN <<items'[d].item>> ELSE <<>>) = IF d = c THEN <<>> ELSE ReplyBar[d]
    <3>1. CASE d = c
      BY <2>1, <3>1, Zenon DEF Answered, Popped
    <3>2. CASE d # c
      <4>1. Answered(d)' <=> Answered(d)
        BY <1>1, <1>3, <3>2, Zenon DEF Answered, Popped, Thread
      <4> QED BY <1>1, <3>2, <4>1, ReplyType, Zenon
    <3> QED BY <3>1, <3>2, Zenon
  <2>5. ReplyBar' = [d \in Cpu |-> IF d = c THEN <<>> ELSE ReplyBar[d]]
    BY <2>4, Zenon DEF ReplyBar
  <2>6. ReplyBar = [d \in Cpu |-> ReplyBar[d]]
    BY Zenon DEF ReplyBar
  <2> QED BY <2>3, <2>5, <2>6
<1> QED BY <1>1, <1>4, <1>5, <1>6, Zenon DEF D!PickUp

\* A parked worker is answered: it had no answer before.
LEMMA ReplySeen ==
    ASSUME IInv, IInv', NEW t \in Thread, pc[t] = "held", pc'[t] = "held", NEW c \in Cpu, NEW item,
           UNCHANGED <<head, next, my>>, c \in waiters \cup sleepers,
           waiters' \cup sleepers' = (waiters \cup sleepers) \ {c},
           \A u \in Thread : Pending(u) => Pending(u)',
           \A d \in Cpu : d # c => Untouched(d),
           ~Answered(c), Answered(c)', items'[c].item = item
    PROVE  D!Reply(c, item)
<1>1. QueueBar' = QueueBar
  BY QueueStays, Zenon
<1>2. OwnerBar' = OwnerBar /\ OwnerBar # Nobody
  <2>1. Owns(t)'
    BY Zenon DEF Owns
  <2> QED BY <2>1, HolderOwns, OwnerIsNext, Zenon
<1>3. ReplyBar' = [ReplyBar EXCEPT ![c] = Append(@, item)]
  <2>1. ReplyBar[c] = <<>>
    BY ReplyType, Zenon
  <2>2. Append(ReplyBar[c], item) = <<item>>
    BY <2>1
  <2>3. ASSUME NEW d \in Cpu
        PROVE  (IF Answered(d)' THEN <<items'[d].item>> ELSE <<>>) = IF d = c THEN <<item>> ELSE ReplyBar[d]
    <3>1. CASE d = c
      <4>1. Answered(d)' /\ items'[d].item = item
        BY <3>1, Zenon DEF Answered, Popped
      <4> QED BY <3>1, <4>1, Zenon
    <3>2. CASE d # c
      <4>1. (Answered(d)' <=> Answered(d)) /\ items'[d] = items[d]
        BY <3>2, Zenon DEF Answered, Popped, Untouched
      <4> QED BY <3>2, <4>1, ReplyType, Zenon
    <3> QED BY <3>1, <3>2, Zenon
  <2>4. ReplyBar' = [d \in Cpu |-> IF d = c THEN <<item>> ELSE ReplyBar[d]]
    BY <2>3, Zenon DEF ReplyBar
  <2>5. ReplyBar = [d \in Cpu |-> ReplyBar[d]]
    BY Zenon DEF ReplyBar
  <2> QED BY <2>2, <2>4, <2>5
<1> QED BY <1>1, <1>2, <1>3, Zenon DEF D!Reply

\* dtlock_serve answers a waiter.
LEMMA ServeSeen ==
    ASSUME IInv, IInv', NEW t \in Thread, NEW c \in Cpu, NEW item \in Items, Serve(t, c, item)
    PROVE  D!Reply(c, item)
<1>1. /\ pc[t] = "held" /\ c \in waiters /\ waiters' = waiters \ {c}
      /\ UNCHANGED <<head, next, my, pc, futex, prev, mode, sleepers>>
      /\ \A d \in Cpu : d # c => items'[d] = items[d]
      /\ items'[c].ticket = items[c].ticket /\ items'[c].item = item
  BY DEF Serve, IInv, TypeOK
<1>2. \A d \in Cpu : d # c => Untouched(d)
  BY <1>1, Zenon DEF Untouched
<1>3. pc[c] \in {"spin", "signal"} /\ Popped(c) /\ c \notin sleepers
  BY <1>1, Zenon DEF IInv, ParkInv, CpuInv, WaiterInv
<1>4. ~Answered(c) /\ Answered(c)'
  BY <1>1, <1>3, Zenon DEF Answered, Popped
<1>5. waiters' \cup sleepers' = (waiters \cup sleepers) \ {c}
  BY <1>1, <1>3, Zenon
<1>6. \A u \in Thread : Pending(u) => Pending(u)'
  BY <1>1, Zenon DEF Pending
<1>7. pc'[t] = "held"
  BY <1>1, Zenon
<1> QED BY <1>1, <1>2, <1>4, <1>5, <1>6, <1>7, ReplySeen, Zenon

\* dtlock_serve wakes a sleeper with its answer.
LEMMA WakeSeen ==
    ASSUME IInv, IInv', NEW t \in Thread, NEW c \in Cpu, NEW item \in Items, Wake(t, c, item)
    PROVE  D!Reply(c, item)
<1>1. /\ pc[t] = "held" /\ c \in sleepers /\ sleepers' = sleepers \ {c} /\ c \in Thread
      /\ UNCHANGED <<head, next, my, prev, mode, waiters>>
      /\ \A d \in Cpu : d # c => items'[d] = items[d] /\ futex'[d] = futex[d]
      /\ items'[c].ticket = items[c].ticket /\ items'[c].item = item
  BY DEF Wake, Thread, IInv, TypeOK
<1>2. /\ pc[c] = "asleep" => pc'[c] = "recv"
      /\ pc[c] # "asleep" => pc'[c] = pc[c]
      /\ \A u \in Thread : u # c => pc'[u] = pc[u]
  BY <1>1 DEF Wake, IInv, TypeOK, PcOK
<1>3. \A d \in Cpu : d # c => Untouched(d)
  BY <1>1, <1>2, Zenon DEF Untouched, Thread
<1>4. pc[c] \in {"spin", "signal", "futex", "syscall", "asleep"} /\ Popped(c) /\ c \notin waiters
  BY <1>1, Zenon DEF IInv, ParkInv, CpuInv, SleeperInv
<1>5. ~Answered(c)
  BY <1>1, <1>4, Zenon DEF Answered
<1>6. Answered(c)'
  BY <1>1, <1>2, <1>4, Zenon DEF Answered, Popped
<1>7. waiters' \cup sleepers' = (waiters \cup sleepers) \ {c}
  BY <1>1, <1>4, Zenon
<1>8. \A u \in Thread : Pending(u) => Pending(u)'
  BY <1>2, Zenon DEF Pending
<1>9. pc'[t] = "held"
  BY <1>1, <1>2, <1>4, Zenon
<1> QED BY <1>1, <1>3, <1>5, <1>6, <1>7, <1>8, <1>9, ReplySeen, Zenon

\* The holder takes the first of the queue out of it, to a wait location of its own.
LEMMA PopfrontSeen ==
    ASSUME IInv, IInv', NEW t \in Thread, PopfrontWait(t) PROVE \E c \in Cpu : D!Park(c)
<1>1. PICK c \in Cpu : c = Front /\ Announced(c, next)
  BY FrontFact, Zenon DEF IInv, PopfrontWait
<1>2. /\ pc[t] = "held" /\ waiters' = waiters \cup {c} /\ next' = next + 1 /\ c \in Thread
      /\ UNCHANGED <<head, futex, sleepers, pc, my, prev, mode>>
      /\ pc[c] = "spin" /\ my[c] = next
  BY <1>1, Zenon DEF PopfrontWait, Announced, Thread
<1>3. /\ \A d \in Cpu : d # c => items'[d] = items[d]
      /\ items'[c].ticket = next
  BY <1>1 DEF PopfrontWait, IInv, TypeOK
<1>4. \A d \in Cpu : d # c => Untouched(d)
  BY <1>2, <1>3, Zenon DEF Untouched
<1>5. head \in Nat /\ next \in Nat /\ head > next /\ ~(next < next)
  <2>1. my[c] < head
    BY <1>2, Zenon DEF IInv, TicketInv, Pending
  <2>2. head \in Nat /\ next \in Nat
    BY Zenon DEF IInv, TypeOK
  <2> QED BY <1>2, <2>1, <2>2
<1>6. ~Popped(c) /\ c \notin waiters /\ c \notin sleepers
  <2>1. CpuInv(c)
    BY Zenon DEF IInv, ParkInv
  <2>2. ~Popped(c)
    BY <1>2, <1>5, <2>1, Zenon DEF CpuInv
  <2> QED BY <2>1, <2>2, Zenon DEF CpuInv, WaiterInv, SleeperInv
<1>7. \A u \in Thread : Pending(u) => Pending(u)' /\ my'[u] = my[u]
  BY <1>2, Zenon DEF Pending
<1>8. QueueBar # <<>> /\ QueueBar' = Tail(QueueBar) /\ Head(QueueBar) = c
  <2>1. /\ QueueBar # <<>> /\ QueueBar' = Tail(QueueBar)
        /\ Head(QueueBar) \in Thread /\ Pending(Head(QueueBar)) /\ my[Head(QueueBar)] = next
    BY <1>2, <1>5, <1>7, QueuePopped, Zenon
  <2>2. Pending(c)
    BY <1>2, Zenon DEF Pending
  <2> QED BY <1>2, <2>1, <2>2, Zenon DEF IInv, TicketInv
<1>9. OwnerBar' = OwnerBar /\ OwnerBar # Nobody
  <2>1. Owns(t)'
    BY <1>2, Zenon DEF Owns
  <2> QED BY <1>2, <2>1, HolderOwns, OwnerIsNext, Zenon
<1>10. ReplyBar' = ReplyBar
  <2>1. ~Answered(c) /\ ~Answered(c)'
    BY <1>2, <1>6, Zenon DEF Answered
  <2> QED BY <1>4, <2>1, AnswersStay, Zenon
<1>11. waiters' \cup sleepers' = (waiters \cup sleepers) \cup {c}
  BY <1>2, Zenon
<1> QED BY <1>8, <1>9, <1>10, <1>11, Zenon DEF D!Park

\* The lock goes to the first of the queue in the step that releases its ticket.
LEMMA UnlockSeen ==
    ASSUME IInv, IInv', NEW t \in Thread, Unlock(t) PROVE D!Release
<1>1. /\ pc[t] = "held" /\ pc' = [pc EXCEPT ![t] = "out"] /\ next' = next + 1
      /\ UNCHANGED <<head, items, futex, waiters, sleepers, my, prev, mode>>
  BY Zenon DEF Unlock, Goto
<1>2. /\ \A u \in Thread : u # t => pc'[u] = pc[u] /\ my'[u] = my[u]
      /\ \A d \in Cpu : d # t => Untouched(d)
      /\ pc'[t] = "out"
  BY <1>1, OthersStay, Zenon
<1>3. OwnerBar # Nobody /\ head >= next /\ head \in Nat /\ next \in Nat
  BY <1>1, HolderOwns, Zenon DEF IInv, TypeOK
<1>4. ReplyBar' = ReplyBar
  <2>1. ~Answered(t) /\ ~Answered(t)'
    BY <1>1, <1>2, Zenon DEF Answered
  <2> QED BY <1>2, <2>1, AnswersStay, Zenon
<1>5. CASE head = next
  <2>1. QLen = 0 /\ QLen' = 0 /\ head' < next'
    BY <1>1, <1>3, <1>5 DEF QLen
  <2>2. QueueFact /\ QueueFact'
    BY QueueIs, QueueIsNext, Zenon
  <2>3. QueueBar = <<>>
    BY <2>1, <2>2, QueueEmpty, Zenon
  <2>4. QueueBar' = <<>>
    BY <2>1, <2>2 DEF QueueFact
  <2>5. OwnerBar' = Nobody
    BY <2>1, OwnerIsNext, Zenon
  <2> QED BY <1>1, <1>3, <1>4, <2>3, <2>4, <2>5, Zenon DEF D!Release
<1>6. CASE head # next
  <2>1. head > next
    BY <1>3, <1>6
  <2>2. \A u \in Thread : Pending(u) => Pending(u)' /\ my'[u] = my[u]
    BY <1>1, <1>2, Zenon DEF Pending
  <2>3. /\ QueueBar # <<>> /\ QueueBar' = Tail(QueueBar)
        /\ Head(QueueBar) \in Thread /\ Pending(Head(QueueBar)) /\ my[Head(QueueBar)] = next
    BY <1>1, <2>1, <2>2, QueuePopped, Zenon
  <2>4. PICK u \in Thread : u = Head(QueueBar) /\ Pending(u) /\ my[u] = next
    BY <2>3, Zenon
  <2>5. my'[u] < next' /\ Pending(u)' /\ ~(next < next)
    <3>1. next < next + 1 /\ ~(next < next)
      BY <1>3
    <3> QED BY <1>1, <2>2, <2>4, <3>1, Zenon
  <2>6. u \in Cpu => ~Popped(u)
    BY <2>4, <2>5, Zenon DEF IInv, ParkInv, CpuInv, Pending, TypeOK, PcOK, WorkerPcs
  <2>7. Owns(u)'
    BY <1>1, <2>5, <2>6, Zenon DEF Owns, Popped
  <2>8. OwnerBar' = Head(QueueBar)
    BY <2>4, <2>7, OwnerIsNext, Zenon
  <2> QED BY <1>1, <1>3, <1>4, <2>3, <2>8, Zenon DEF D!Release
<1> QED BY <1>5, <1>6, Zenon
-----------------------------------------------------------------------------
(***************************************************************************)
(* The refinement.                                                         *)
(***************************************************************************)

\* The initial states
LEMMA InitSeen == LockInit => D!Init
<1> SUFFICES ASSUME LockInit PROVE D!Init
  OBVIOUS
<1>1. IInv
  BY InitInv, Zenon
<1>2. head < next /\ QLen = 0
  BY SizesAssumption DEF LockInit, QLen
<1>3. OwnerBar = Nobody
  BY <1>1, <1>2, OwnerIs, Zenon
<1>4. QueueBar = <<>>
  BY <1>1, <1>2, QueueIs, QueueEmpty, Zenon
<1>5. \A c \in Cpu : ~Answered(c)
  BY Zenon DEF LockInit, Answered, Thread
<1>6. ReplyBar = [c \in Cpu |-> <<>>]
  BY <1>5, Zenon DEF ReplyBar
<1>7. waiters \cup sleepers = {}
  BY Zenon DEF LockInit
<1> QED BY <1>3, <1>4, <1>6, <1>7, Zenon DEF D!Init

\* Every step of the lock is one of Delegation, or changes nothing there.
LEMMA NextSeen ==
    IInv /\ IInv' /\ [LockNext]_lockvars => [D!Next]_(D!avars)
<1> SUFFICES ASSUME IInv, IInv', [LockNext]_lockvars PROVE D!Next \/ UNCHANGED D!avars
  BY Zenon
<1>1. CASE UNCHANGED lockvars
  <2>1. UNCHANGED <<head, next, waitqueue, items, futex, waiters, sleepers, pc, my, prev, mode>>
    BY <1>1, Zenon DEF lockvars
  <2>2. QueueBar' = QueueBar
    BY <2>1, QueueStays, Zenon DEF Pending
  <2>3. OwnerBar' = OwnerBar
    BY <2>1, OwnerStays, Zenon DEF Owns, Pending, Popped
  <2>4. ReplyBar' = ReplyBar
    BY <2>1, RepliesStay, Zenon DEF Answered, Popped
  <2> QED BY <2>1, <2>2, <2>3, <2>4, Zenon DEF D!avars
<1>2. ASSUME NEW c \in Cpu, WorkerStep(c) PROVE D!Next \/ UNCHANGED D!avars
  <2>1. CASE TakeTicket(c)
    <3>1. D!Request(c) /\ c \in D!Threads
      BY <2>1, TakeTicketSeen, ThreadsAre, Zenon DEF Thread
    <3> QED BY <3>1, Zenon DEF D!Next
  <2>2. CASE Receive(c)
    <3>1. D!PickUp(c)
      BY <2>2, ReceiveSeen, Zenon
    <3> QED BY <3>1, Zenon DEF D!Next
  <2>3. CASE Announce(c) \/ Acquire(c) \/ Delegated(c)
    BY <2>3, AnnounceUnseen, AcquireUnseen, DelegatedUnseen, Zenon
  <2>4. CASE Signalled(c) \/ FutexWait(c) \/ FutexSyscall(c)
    BY <2>4, ParkedUnseen, Zenon
  <2> QED BY <1>2, <2>1, <2>2, <2>3, <2>4, Zenon DEF WorkerStep
<1>3. ASSUME NEW c \in Cpu, NEW m \in CallModes, LockOrDelegate(c, m) PROVE D!Next \/ UNCHANGED D!avars
  BY <1>3, CallUnseen, Zenon
<1>4. ASSUME NEW t \in Cpu \cup Submitters, TryLoad(t) \/ TryCheck(t) \/ TryCas(t)
      PROVE  D!Next \/ UNCHANGED D!avars
  <2>1. CASE TryCas(t)
    <3>1. D!Request(t) \/ UNCHANGED D!avars
      BY <2>1, TryCasSeen, Zenon
    <3>2. t \in D!Threads
      BY ThreadsAre, Zenon DEF Thread
    <3> QED BY <3>1, <3>2, Zenon DEF D!Next
  <2> QED BY <1>4, <2>1, TryUnseen, Zenon
<1>5. ASSUME NEW l \in Lockers, LockTicket(l) \/ LockAcquire(l) PROVE D!Next \/ UNCHANGED D!avars
  <2>1. CASE LockTicket(l)
    <3>1. D!Request(l) /\ l \in D!Threads
      BY <2>1, LockTicketSeen, ThreadsAre, Zenon DEF Thread
    <3> QED BY <3>1, Zenon DEF D!Next
  <2> QED BY <1>5, <2>1, LockAcquireUnseen, Zenon
<1>6. ASSUME NEW t \in Thread, HolderStep(t) PROVE D!Next \/ UNCHANGED D!avars
  <2>1. CASE PopfrontWait(t)
    <3>1. \E c \in Cpu : D!Park(c)
      BY <2>1, PopfrontSeen, Zenon
    <3> QED BY <3>1, Zenon DEF D!Next
  <2>2. ASSUME NEW c \in Cpu, NEW i \in Items, Serve(t, c, i) \/ Wake(t, c, i) PROVE D!Next
    <3>1. D!Reply(c, i)
      BY <2>2, ServeSeen, WakeSeen, Zenon
    <3> QED BY <3>1, Zenon DEF D!Next
  <2>3. ASSUME NEW c \in Cpu, SleepCpu(t, c) PROVE UNCHANGED D!avars
    BY <2>3, SleepUnseen, Zenon
  <2>4. CASE Unlock(t)
    BY <2>4, UnlockSeen, Zenon DEF D!Next
  <2> QED BY <1>6, <2>1, <2>2, <2>3, <2>4, Zenon DEF HolderStep
<1> QED BY <1>1, <1>2, <1>3, <1>4, <1>5, <1>6, Zenon DEF LockNext

\* For any number of CPUs, lockers and submitters: tickets, slots that are
\* reused, the two wait locations, the signal counter and the futex word of
\* dtlock.h behave as a first-come first-served delegation lock.  One owner at a
\* time, requests queued in the order of their fetch_add, every worker that is
\* popped stays parked until it gets exactly one answer, which it picks up.
THEOREM Refinement == LockSpec => ImplementsDelegation
BY InitSeen, NextSeen, Invariance, PTL DEF LockSpec, ImplementsDelegation, D!Spec
=============================================================================
