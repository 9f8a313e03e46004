------------------------ MODULE SharedMemory_proofs ------------------------
(***************************************************************************)
(* Proofs about SharedMemory, for any number of processes, slots, segments *)
(* and crashes, where no process crashes while it holds the lock of the    *)
(* file and none initialises nOS-V a second time: the steps that take and  *)
(* give back slots and logical pids, and the theorems.                     *)
(***************************************************************************)
EXTENDS SharedMemory_inv, FiniteSetTheorems, WellFoundedInduction, TLAPS

\* The slots are finite, and so are those that are taken or have a process.
LEMMA RegisteredFinite ==
    ASSUME TypeOK, NEW s \in Segments
    PROVE  /\ IsFiniteSet(Registered(s)) /\ Cardinality(Registered(s)) \in Nat
           /\ Cardinality(Registered(s)) <= MaxPids
           /\ IsFiniteSet(InSlots(s)) /\ Cardinality(InSlots(s)) \in Nat
<1>1. IsFiniteSet(Slots) /\ Cardinality(Slots) = MaxPids
  BY FS_Interval, SharedMemoryAssumption DEF Slots
<1>2. Registered(s) \in SUBSET Slots /\ InSlots(s) \in SUBSET Slots
  BY Zenon DEF Registered, InSlots
<1>3. IsFiniteSet(Registered(s)) /\ Cardinality(Registered(s)) <= MaxPids /\ IsFiniteSet(InSlots(s))
  BY <1>1, <1>2, FS_Subset, Zenon
<1> QED BY <1>3, FS_CardinalityType, Zenon

\* A set of slots that is not empty has a first one.
LEMMA MinInSet ==
    ASSUME NEW S \in SUBSET Nat, S # {} PROVE Min(S) \in S
<1> DEFINE R == {ss \in Nat \X Nat : ss[1] < ss[2]}
<1>1. IsWellFoundedOn(R, Nat)
  BY NatLessThanWellFounded, Zenon DEF OpToRel
<1>2. PICK n \in S : \A m \in S : <<m, n>> \notin R
  <2> HIDE DEF R
  <2> QED BY <1>1, WFMin, Zenon
<1>3. ASSUME NEW m \in S PROVE n <= m
  <2>1. <<m, n>> \in Nat \X Nat /\ <<m, n>> \notin R
    BY <1>2, Zenon
  <2>2. ~(m < n)
    BY <2>1, Zenon
  <2> QED BY <2>2
<1> QED BY <1>3, Zenon DEF Min

\* One more slot is taken than config->count says, until it is counted.
LEMMA CountAdded ==
    ASSUME IInv, NEW p \in Pids, Frame(p), Alone(p), fd[p] \in Segments, UNCHANGED <<fd, count>>,
           pc[p] \notin Ahead, pc'[p] \in Ahead,
           NEW i \in Slots, procs[fd[p]][i] = NULL,
           procs'[fd[p]] = [procs[fd[p]] EXCEPT ![i] = Self(p)]
    PROVE  CountInv'
<1>1. ASSUME NEW s \in Segments, s # fd[p]
      PROVE  Registered(s)' = Registered(s) /\ (IsAhead(s)' <=> IsAhead(s))
  BY <1>1 DEF Frame, Registered, IsAhead
<1>2. Registered(fd[p])' = Registered(fd[p]) \cup {i} /\ i \notin Registered(fd[p])
  <2>1. Self(p) # NULL /\ procs[fd[p]] \in [Slots -> Processes \cup {NULL}]
    BY SharedMemoryAssumption DEF IInv, TypeOK, Self, Processes
  <2> QED BY <2>1 DEF Registered
<1>3. IsAhead(fd[p])' /\ ~IsAhead(fd[p])
  BY Zenon DEF IsAhead, Alone, Ahead, Locking
<1>4. Cardinality(Registered(fd[p])') = count[fd[p]] + 1
  <2>1. IsFiniteSet(Registered(fd[p]))
    BY RegisteredFinite, Zenon DEF IInv
  <2>2. Cardinality(Registered(fd[p])) = count[fd[p]]
    BY <1>3, Zenon DEF IInv, CountInv
  <2>3. Cardinality(Registered(fd[p]) \cup {i}) = Cardinality(Registered(fd[p])) + 1
    BY <1>2, <2>1, FS_AddElement, Zenon
  <2> QED BY <1>2, <2>2, <2>3, Zenon
<1>5. ASSUME NEW s \in Segments
      PROVE  Cardinality(Registered(s)') = IF IsAhead(s)' THEN count'[s] + 1 ELSE count'[s]
  <2>1. CASE s = fd[p]
    BY <2>1, <1>3, <1>4, Zenon
  <2>2. CASE s # fd[p]
    BY <2>2, <1>1, Zenon DEF IInv, CountInv
  <2> QED BY <2>1, <2>2, Zenon
<1> QED BY <1>5, Zenon DEF CountInv

LEMMA ConfigFirstStep ==
    ASSUME IInv, NEW p \in Pids, ConfigFirst(p) PROVE IInv'
<1>s. fd[p] \in 1..segs /\ fd[p] \in Segments /\ pc[p] = "first" /\ segs \in Nat
  BY OpenSegment, Zenon DEF IInv, ConfigFirst
<1>b. sized[fd[p]] /\ name = fd[p] /\ Registered(fd[p]) = {}
  BY <1>s, Zenon DEF IInv, FreshInv, NameInv, Naming
<1>l. Alone(p)
  BY <1>s, LockMakesAlone, Zenon DEF Locking
<1>n. 1 \in Slots /\ procs[fd[p]] = [i \in Slots |-> NULL]
  <2>1. procs[fd[p]] \in [Slots -> Processes \cup {NULL}]
    BY <1>s, Zenon DEF IInv, TypeOK
  <2>2. \A i \in Slots : procs[fd[p]][i] = NULL
    BY <1>b, Zenon DEF Registered
  <2>3. 1 \in Slots
    BY SharedMemoryAssumption DEF Slots
  <2> QED BY <2>1, <2>2, <2>3, Zenon
<1>1. TypeOK'
  <2>1. Self(p) \in Processes
    BY Zenon DEF IInv, TypeOK, Self, Processes
  <2> QED BY <1>s, <1>n, <2>1, Zenon DEF IInv, TypeOK, ConfigFirst, Goto
<1>f. Frame(p)
  BY <1>s, Zenon DEF IInv, TypeOK, ConfigFirst, Goto, Frame
<1>d. /\ pc'[p] = "modules" /\ UNCHANGED <<fd, run, name, segs, sized, state, count, alloc, lock, broken>>
      /\ slot'[p] = 1 /\ procs'[fd[p]] = [procs[fd[p]] EXCEPT ![1] = Self(p)]
  BY <1>s, <1>n, Zenon DEF IInv, TypeOK, ConfigFirst, Goto
<1>a. /\ TypeOK' /\ Frame(p)
      /\ fd[p] \in 1..segs /\ fd[p] \in Segments /\ pc[p] = "first" /\ segs \in Nat
      /\ sized[fd[p]] /\ name = fd[p] /\ Registered(fd[p]) = {}
      /\ segs' >= segs
      /\ pc'[p] = "modules" /\ UNCHANGED <<fd, run, name, segs, sized, state, count, alloc, lock, broken>>
      /\ slot'[p] = 1 /\ procs'[fd[p]] = [procs[fd[p]] EXCEPT ![1] = Self(p)]
  BY <1>s, <1>b, <1>1, <1>f, <1>d
<1>5. EntryInv' /\ SlotInv' /\ \A s \in Segments : (HasLost(s) => HasLost(s)') /\ (HasGone(s) => HasGone(s)')
  BY <1>a, <1>n, EntryAdded DEF Member
<1>2. FdInv'
  BY <1>a, FdKept, Zenon
<1>3. LockInv'
  BY <1>a, LockKept, Zenon DEF Locking
<1>4. SlotInv'
  BY <1>5, Zenon
<1>6. NameInv'
  BY <1>a, <1>5, NameKept, Zenon DEF Naming, Member
<1>7. FreshInv'
  BY <1>a, <1>l, FreshKept, Zenon DEF Member
<1>8. StateInv'
  BY <1>a, StateKept, Zenon
<1>9. CountInv'
  BY <1>a, <1>n, <1>l, CountAdded DEF Ahead
<1>10. BrokenInv'
  BY <1>a, <1>5, BrokenKept, Zenon
<1>11. AllocInv'
  BY <1>a, AllocKept, Zenon
<1> QED BY <1>a, <1>2, <1>3, <1>4, <1>5, <1>6, <1>7, <1>8, <1>9, <1>10, <1>11, Zenon DEF IInv

LEMMA RegisterRestStep ==
    ASSUME IInv, NEW p \in Pids, RegisterRest(p) PROVE IInv'
<1>s. fd[p] \in 1..segs /\ fd[p] \in Segments /\ pc[p] = "rest" /\ segs \in Nat
  BY OpenSegment, Zenon DEF IInv, RegisterRest
<1>b. sized[fd[p]] /\ slot[p] = NULL /\ name = fd[p]
  BY <1>s, SharedMemoryAssumption, Zenon DEF IInv, SlotInv, FreshInv, NameInv, Naming
<1>l. Alone(p)
  BY <1>s, LockMakesAlone, Zenon DEF Locking
<1>m. PICK i \in Slots : /\ procs[fd[p]][i] = NULL /\ i = Min({j \in Slots : procs[fd[p]][j] = NULL})
                         /\ procs' = [procs EXCEPT ![fd[p]][i] = Self(p)]
                         /\ slot' = [slot EXCEPT ![p] = i]
  <2> DEFINE empty == {j \in Slots : procs[fd[p]][j] = NULL}
  <2>1. empty # {} /\ empty \subseteq Nat
    BY <1>s, <1>b DEF RegisterRest, Slots
  <2>2. Min(empty) \in empty
    BY <2>1, MinInSet, Zenon
  <2> HIDE DEF empty
  <2>3. procs' = [procs EXCEPT ![fd[p]][Min(empty)] = Self(p)] /\ slot' = [slot EXCEPT ![p] = Min(empty)]
    BY <2>1, Zenon DEF RegisterRest, empty
  <2> QED BY <2>2, <2>3, Zenon DEF empty
<1>1. TypeOK'
  <2>1. Self(p) \in Processes
    BY Zenon DEF IInv, TypeOK, Self, Processes
  <2> QED BY <1>s, <1>m, <2>1, Zenon DEF IInv, TypeOK, RegisterRest, Goto
<1>f. Frame(p)
  BY <1>s, <1>m, Zenon DEF IInv, TypeOK, RegisterRest, Goto, Frame
<1>d. /\ pc'[p] = "join" /\ UNCHANGED <<fd, run, name, segs, sized, state, count, alloc, lock, broken>>
      /\ slot'[p] = i /\ procs'[fd[p]] = [procs[fd[p]] EXCEPT ![i] = Self(p)]
  BY <1>s, <1>m, Zenon DEF IInv, TypeOK, RegisterRest, Goto
<1>a. /\ TypeOK' /\ Frame(p)
      /\ fd[p] \in 1..segs /\ fd[p] \in Segments /\ pc[p] = "rest" /\ segs \in Nat
      /\ sized[fd[p]] /\ slot[p] = NULL /\ name = fd[p]
      /\ segs' >= segs
      /\ pc'[p] = "join" /\ UNCHANGED <<fd, run, name, segs, sized, state, count, alloc, lock, broken>>
      /\ slot'[p] = i /\ procs'[fd[p]] = [procs[fd[p]] EXCEPT ![i] = Self(p)]
  BY <1>s, <1>b, <1>1, <1>f, <1>d
<1>5. EntryInv' /\ SlotInv' /\ \A s \in Segments : (HasLost(s) => HasLost(s)') /\ (HasGone(s) => HasGone(s)')
  BY <1>a, <1>m, EntryAdded, Zenon DEF Member
<1>2. FdInv'
  BY <1>a, FdKept, Zenon
<1>3. LockInv'
  BY <1>a, LockKept, Zenon DEF Locking
<1>4. SlotInv'
  BY <1>5, Zenon
<1>6. NameInv'
  BY <1>a, <1>5, NameKept, Zenon DEF Naming, Member
<1>7. FreshInv'
  BY <1>a, <1>l, FreshKept, Zenon DEF Member
<1>8. StateInv'
  <2>1. state[fd[p]] # "raw"
    BY <1>a, <1>l DEF IInv, StateInv, Alone, Locking
  <2>2. state[fd[p]] # "freed"
    BY <1>a, <1>l DEF IInv, StateInv, Alone, Locking
  <2>3. state[fd[p]] = "ready"
    BY <1>a, <2>1, <2>2, Zenon DEF IInv, TypeOK
  <2> QED BY <1>a, <2>3, StateKept, Zenon
<1>9. CountInv'
  BY <1>a, <1>m, <1>l, CountAdded, Zenon DEF Ahead
<1>10. BrokenInv'
  BY <1>a, <1>5, BrokenKept, Zenon
<1>11. AllocInv'
  BY <1>a, AllocKept, Zenon
<1> QED BY <1>a, <1>2, <1>3, <1>4, <1>5, <1>6, <1>7, <1>8, <1>9, <1>10, <1>11, Zenon DEF IInv

LEMMA CountedStep ==
    ASSUME IInv, NEW p \in Pids, Counted(p) PROVE IInv'
<1>s. fd[p] \in 1..segs /\ fd[p] \in Segments /\ pc[p] = "count" /\ segs \in Nat
  BY OpenSegment, Zenon DEF IInv, Counted
<1>b. sized[fd[p]] /\ name = fd[p] /\ state[fd[p]] = "ready"
  BY <1>s, Zenon DEF IInv, FreshInv, NameInv, StateInv, Naming, Member
<1>l. Alone(p)
  BY <1>s, LockMakesAlone, Zenon DEF Locking
<1>c. Cardinality(Registered(fd[p])) = count[fd[p]] + 1 /\ count[fd[p]] \in Nat
      /\ count[fd[p]] + 1 <= MaxPids
  <2>1. IsAhead(fd[p])
    BY <1>s, Zenon DEF IsAhead, Ahead
  <2>2. Cardinality(Registered(fd[p])) <= MaxPids
    BY RegisteredFinite, <1>s, Zenon DEF IInv
  <2> QED BY <2>1, <2>2, <1>s, SharedMemoryAssumption DEF IInv, CountInv, TypeOK
<1>1. TypeOK'
  <2>1. count[fd[p]] + 1 \in 0..MaxPids
    BY <1>c, SharedMemoryAssumption
  <2> QED BY <2>1, <1>s, Zenon DEF IInv, TypeOK, Counted, Goto
<1>f. Frame(p)
  BY <1>s, Zenon DEF IInv, TypeOK, Counted, Goto, Frame
<1>d. /\ pc'[p] = "attach" /\ count'[fd[p]] = count[fd[p]] + 1 /\ lock'[fd[p]] = NULL
      /\ UNCHANGED <<fd, slot, run, name, segs, sized, state, procs, alloc, broken>>
  BY <1>s, Zenon DEF IInv, TypeOK, Counted, Goto
<1>a. /\ TypeOK' /\ Frame(p)
      /\ fd[p] \in 1..segs /\ fd[p] \in Segments /\ pc[p] = "count" /\ segs \in Nat
      /\ sized[fd[p]] /\ name = fd[p] /\ state[fd[p]] = "ready"
      /\ segs' >= segs
      /\ pc'[p] = "attach" /\ count'[fd[p]] = count[fd[p]] + 1 /\ lock'[fd[p]] = NULL
      /\ UNCHANGED <<fd, slot, run, name, segs, sized, state, procs, alloc, broken>>
  BY <1>s, <1>b, <1>1, <1>f, <1>d
<1>5. EntryInv' /\ \A s \in Segments : (HasLost(s) => HasLost(s)') /\ (HasGone(s) => HasGone(s)')
  BY <1>a, EntriesKept, Zenon DEF Member, Runs
<1>2. FdInv'
  BY <1>a, FdKept, Zenon
<1>3. LockInv'
  BY <1>a, LockReleased, Zenon DEF Locking
<1>4. SlotInv'
  BY <1>a, SlotKept, Zenon DEF Member
<1>6. NameInv'
  BY <1>a, <1>5, NameKept, Zenon DEF Naming, Member
<1>7. FreshInv'
  BY <1>a, <1>l, FreshKept, Zenon DEF Member
<1>8. StateInv'
  <2>1. ASSUME NEW s \in Segments, sized'[s], state'[s] = "raw"
        PROVE  \E q \in Pids : pc'[q] \in {"first", "modules"} /\ fd'[q] = s
    <3>1. PICK q \in Pids : pc[q] \in {"first", "modules"} /\ fd[q] = s
      BY <1>a, <2>1, Zenon DEF IInv, StateInv
    <3> QED BY <1>a, <3>1, Zenon DEF Frame
  <2>2. ASSUME NEW q \in Pids, pc'[q] \in {"join", "count", "attach", "in", "leave"}
        PROVE  state'[fd'[q]] = "ready"
    BY <1>a, <2>2, Zenon DEF Frame, IInv, StateInv
  <2>3. ASSUME NEW s \in Segments, state'[s] = "freed"
        PROVE  /\ count'[s] = 0
               /\ s # name' \/ \E q \in Pids : pc'[q] \in {"clear", "unlink"} /\ fd'[q] = s
    <3>1. s # fd[p]
      BY <1>a, <2>3, Zenon
    <3>2. count'[s] = count[s] /\ count[s] = 0
      BY <1>a, <2>3, <3>1, Zenon DEF IInv, StateInv, Frame
    <3> QED BY <1>a, <3>1, <3>2, Zenon
  <2> QED BY <2>1, <2>2, <2>3, Zenon DEF StateInv
<1>9. CountInv'
  <2>1. ASSUME NEW s \in Segments, s # fd[p]
        PROVE  Registered(s)' = Registered(s) /\ count'[s] = count[s] /\ (IsAhead(s)' <=> IsAhead(s))
    BY <1>a, <2>1, Zenon DEF Frame, Registered, IsAhead
  <2>2. Registered(fd[p])' = Registered(fd[p])
    BY <1>a, Zenon DEF Registered
  <2>3. ~IsAhead(fd[p])'
    BY <1>a, <1>l DEF IsAhead, Alone, Ahead, Locking, Frame
  <2>4. ASSUME NEW s \in Segments
        PROVE  Cardinality(Registered(s)') = IF IsAhead(s)' THEN count'[s] + 1 ELSE count'[s]
    <3>1. CASE s = fd[p]
      BY <1>a, <3>1, <2>2, <2>3, <1>c
    <3>2. CASE s # fd[p]
      BY <3>2, <2>1, Zenon DEF IInv, CountInv
    <3> QED BY <3>1, <3>2, Zenon
  <2> QED BY <2>4, Zenon DEF CountInv
<1>10. BrokenInv'
  BY <1>a, <1>5, BrokenKept, Zenon
<1>11. AllocInv'
  BY <1>a, AllocKept, Zenon
<1> QED BY <1>a, <1>2, <1>3, <1>4, <1>5, <1>6, <1>7, <1>8, <1>9, <1>10, <1>11, Zenon DEF IInv

LEMMA PidRegisterTakes ==
    ASSUME IInv, NEW p \in Pids, PidRegister(p), alloc[fd[p]] < MaxPids PROVE IInv'
<1>s. fd[p] \in 1..segs /\ fd[p] \in Segments /\ pc[p] = "attach" /\ segs \in Nat
  BY OpenSegment, Zenon DEF IInv, PidRegister
<1>b. sized[fd[p]] /\ state[fd[p]] = "ready"
  BY <1>s, Zenon DEF IInv, FreshInv, StateInv, Member
<1>1. TypeOK'
  <2>1. alloc[fd[p]] + 1 \in 0..MaxPids
    BY <1>s, SharedMemoryAssumption DEF IInv, TypeOK
  <2> QED BY <1>s, <2>1, Zenon DEF IInv, TypeOK, PidRegister, Goto
<1>f. Frame(p)
  BY <1>s, Zenon DEF IInv, TypeOK, PidRegister, Goto, Frame
<1>d. /\ pc'[p] = "in" /\ alloc'[fd[p]] = alloc[fd[p]] + 1
      /\ UNCHANGED <<fd, slot, run, name, segs, sized, state, procs, count, lock, broken>>
  BY <1>s, Zenon DEF IInv, TypeOK, PidRegister, Goto
<1>a. /\ TypeOK' /\ Frame(p)
      /\ fd[p] \in 1..segs /\ fd[p] \in Segments /\ pc[p] = "attach" /\ segs \in Nat
      /\ sized[fd[p]] /\ state[fd[p]] = "ready"
      /\ segs' >= segs
      /\ pc'[p] = "in" /\ alloc'[fd[p]] = alloc[fd[p]] + 1
      /\ UNCHANGED <<fd, slot, run, name, segs, sized, state, procs, count, lock, broken>>
  BY <1>s, <1>b, <1>1, <1>f, <1>d
<1>5. EntryInv' /\ \A s \in Segments : (HasLost(s) => HasLost(s)') /\ (HasGone(s) => HasGone(s)')
  BY <1>a, EntriesKept, Zenon DEF Member, Runs
<1>2. FdInv'
  BY <1>a, FdKept, Zenon
<1>3. LockInv'
  BY <1>a, LockKept, Zenon DEF Locking
<1>4. SlotInv'
  BY <1>a, SlotKept, Zenon DEF Member
<1>6. NameInv'
  BY <1>a, <1>5, NameKept, Zenon DEF Naming, Member
<1>7. FreshInv'
  BY <1>a, FreshKept, Zenon DEF Member
<1>8. StateInv'
  BY <1>a, StateKept, Zenon
<1>9. CountInv'
  BY <1>a, CountKept, Zenon DEF Ahead
<1>10. BrokenInv'
  BY <1>a, <1>5, BrokenKept, Zenon
<1>11. AllocInv'
  <2>1. InSlots(fd[p])' = InSlots(fd[p]) \cup {slot[p]}
    BY <1>a, SlotTaken DEF InSlots, Frame, Member
  <2>2. Cardinality(InSlots(fd[p])') <= alloc'[fd[p]]
    <3>1. /\ Cardinality(InSlots(fd[p])) <= alloc[fd[p]] /\ alloc[fd[p]] \in Nat
          /\ IsFiniteSet(InSlots(fd[p])) /\ Cardinality(InSlots(fd[p])) \in Nat
      BY <1>a, RegisteredFinite, SharedMemoryAssumption DEF IInv, AllocInv, TypeOK
    <3>2. LET I == InSlots(fd[p]) \cup {slot[p]} IN Cardinality(I) <= alloc[fd[p]] + 1
      BY <3>1, FS_AddElement
    <3> QED BY <1>a, <2>1, <3>2, Zenon
  <2>3. ASSUME NEW s \in Segments, s # fd[p] PROVE InSlots(s)' = InSlots(s) /\ alloc'[s] = alloc[s]
    BY <1>a, <2>3 DEF InSlots, Frame
  <2>4. ASSUME NEW s \in Segments PROVE Cardinality(InSlots(s)') <= alloc'[s]
    <3>1. CASE s = fd[p]
      BY <1>a, <3>1, <2>2, Zenon DEF InSlots
    <3>2. CASE s # fd[p]
      BY <3>2, <2>3, Zenon DEF IInv, AllocInv
    <3> QED BY <3>1, <3>2, Zenon
  <2> QED BY <2>4, Zenon DEF AllocInv
<1> QED BY <1>a, <1>2, <1>3, <1>4, <1>5, <1>6, <1>7, <1>8, <1>9, <1>10, <1>11 DEF IInv

LEMMA PidShutdownStep ==
    ASSUME IInv, NEW p \in Pids, PidShutdown(p) PROVE IInv'
<1>s. fd[p] \in 1..segs /\ fd[p] \in Segments /\ pc[p] = "in" /\ segs \in Nat
  BY OpenSegment, Zenon DEF IInv, PidShutdown
<1>b. sized[fd[p]] /\ state[fd[p]] = "ready"
  BY <1>s, Zenon DEF IInv, FreshInv, StateInv, Member
<1>c. /\ slot[p] \in InSlots(fd[p]) /\ IsFiniteSet(InSlots(fd[p]))
      /\ Cardinality(InSlots(fd[p])) \in Nat /\ Cardinality(InSlots(fd[p])) # 0
      /\ Cardinality(InSlots(fd[p])) <= alloc[fd[p]] /\ alloc[fd[p]] \in 0..MaxPids
  <2>1. slot[p] \in InSlots(fd[p])
    BY <1>s, SlotTaken, Zenon DEF InSlots, Member
  <2>2. IsFiniteSet(InSlots(fd[p])) /\ Cardinality(InSlots(fd[p])) \in Nat
    BY <1>s, RegisteredFinite, Zenon DEF IInv
  <2>3. Cardinality(InSlots(fd[p])) # 0
    BY <2>1, <2>2, FS_EmptySet, Zenon
  <2> QED BY <1>s, <2>1, <2>2, <2>3, Zenon DEF IInv, AllocInv, TypeOK
<1>1. TypeOK'
  <2>1. alloc[fd[p]] - 1 \in 0..MaxPids
    BY <1>c, SharedMemoryAssumption
  <2> QED BY <1>s, <2>1, Zenon DEF IInv, TypeOK, PidShutdown, Goto
<1>f. Frame(p)
  BY <1>s, Zenon DEF IInv, TypeOK, PidShutdown, Goto, Frame
<1>d. /\ pc'[p] = "leave" /\ alloc'[fd[p]] = alloc[fd[p]] - 1
      /\ UNCHANGED <<fd, slot, run, name, segs, sized, state, procs, count, lock, broken>>
  BY <1>s, Zenon DEF IInv, TypeOK, PidShutdown, Goto
<1>a. /\ TypeOK' /\ Frame(p)
      /\ fd[p] \in 1..segs /\ fd[p] \in Segments /\ pc[p] = "in" /\ segs \in Nat
      /\ sized[fd[p]] /\ state[fd[p]] = "ready"
      /\ segs' >= segs
      /\ pc'[p] = "leave" /\ alloc'[fd[p]] = alloc[fd[p]] - 1
      /\ UNCHANGED <<fd, slot, run, name, segs, sized, state, procs, count, lock, broken>>
  BY <1>s, <1>b, <1>1, <1>f, <1>d
<1>5. EntryInv' /\ \A s \in Segments : (HasLost(s) => HasLost(s)') /\ (HasGone(s) => HasGone(s)')
  BY <1>a, EntriesKept, Zenon DEF Member, Runs
<1>2. FdInv'
  BY <1>a, FdKept, Zenon
<1>3. LockInv'
  BY <1>a, LockKept, Zenon DEF Locking
<1>4. SlotInv'
  BY <1>a, SlotKept, Zenon DEF Member
<1>6. NameInv'
  BY <1>a, <1>5, NameKept, Zenon DEF Naming, Member
<1>7. FreshInv'
  BY <1>a, FreshKept, Zenon DEF Member
<1>8. StateInv'
  BY <1>a, StateKept, Zenon
<1>9. CountInv'
  BY <1>a, CountKept, Zenon DEF Ahead
<1>10. BrokenInv'
  BY <1>a, <1>5, BrokenKept, Zenon
<1>11. AllocInv'
  <2>1. InSlots(fd[p])' = InSlots(fd[p]) \ {slot[p]}
    <3>1. ASSUME NEW q \in Pids, q # p, pc[q] = "in", fd[q] = fd[p] PROVE slot[q] # slot[p]
      BY <1>a, <3>1, OwnSlot, Zenon DEF Member
    <3> QED BY <1>a, <3>1 DEF InSlots, Frame
  <2>2. Cardinality(InSlots(fd[p])') <= alloc'[fd[p]]
    <3>1. Cardinality(InSlots(fd[p]) \ {slot[p]}) = Cardinality(InSlots(fd[p])) - 1
      BY <1>c, FS_RemoveElement, Zenon
    <3>2. Cardinality(InSlots(fd[p]) \ {slot[p]}) <= alloc[fd[p]] - 1
      BY <1>c, <3>1
    <3> QED BY <1>a, <2>1, <3>2, Zenon
  <2>3. ASSUME NEW s \in Segments, s # fd[p] PROVE InSlots(s)' = InSlots(s) /\ alloc'[s] = alloc[s]
    BY <1>a, <2>3 DEF InSlots, Frame
  <2>4. ASSUME NEW s \in Segments PROVE Cardinality(InSlots(s)') <= alloc'[s]
    <3>1. CASE s = fd[p]
      BY <1>a, <3>1, <2>2, Zenon DEF InSlots
    <3>2. CASE s # fd[p]
      BY <3>2, <2>3, Zenon DEF IInv, AllocInv
    <3> QED BY <3>1, <3>2, Zenon
  <2> QED BY <2>4, Zenon DEF AllocInv
<1> QED BY <1>a, <1>2, <1>3, <1>4, <1>5, <1>6, <1>7, <1>8, <1>9, <1>10, <1>11 DEF IInv

LEMMA LeaveStep ==
    ASSUME IInv, NEW p \in Pids, Leave(p) PROVE IInv'
<1>s. fd[p] \in 1..segs /\ fd[p] \in Segments /\ pc[p] = "leave" /\ segs \in Nat
  BY OpenSegment, Zenon DEF IInv, Leave
<1>b. sized[fd[p]] /\ state[fd[p]] = "ready"
  BY <1>s, Zenon DEF IInv, FreshInv, StateInv, Member
<1>l. Alone(p)
  BY LockMakesAlone, Zenon DEF Leave
<1>c. /\ Cardinality(Registered(fd[p])) = count[fd[p]] /\ count[fd[p]] \in 1..MaxPids
      /\ count[fd[p]] = 1 => Registered(fd[p]) = {slot[p]}
  <2>1. ~IsAhead(fd[p])
    BY <1>s, <1>l, Zenon DEF IsAhead, Alone, Ahead, Locking
  <2>2. slot[p] \in Registered(fd[p])
    BY <1>s, SlotTaken, Zenon DEF Member
  <2>3. Cardinality(Registered(fd[p])) = count[fd[p]] /\ count[fd[p]] \in 0..MaxPids
    BY <2>1, <1>s, Zenon DEF IInv, CountInv, TypeOK
  <2>4. IsFiniteSet(Registered(fd[p]))
    BY <1>s, RegisteredFinite, Zenon DEF IInv
  <2>5. count[fd[p]] # 0
    BY <2>2, <2>3, <2>4, FS_EmptySet, Zenon
  <2>6. ASSUME count[fd[p]] = 1 PROVE Registered(fd[p]) \ {slot[p]} = {}
    <3>1. IsFiniteSet(Registered(fd[p]) \ {slot[p]}) /\ Cardinality(Registered(fd[p]) \ {slot[p]}) = 0
      BY <2>2, <2>3, <2>4, <2>6, FS_RemoveElement
    <3> QED BY <3>1, FS_EmptySet, Zenon
  <2>7. count[fd[p]] = 1 => Registered(fd[p]) = {slot[p]}
    BY <2>2, <2>6, Zenon
  <2> QED BY <2>3, <2>5, <2>7, SharedMemoryAssumption
<1>1. TypeOK'
  <2>1. count[fd[p]] - 1 \in 0..MaxPids
    BY <1>c, SharedMemoryAssumption
  <2> QED BY <1>s, <2>1, Zenon DEF IInv, TypeOK, Leave, Goto
<1>f. Frame(p)
  BY <1>s, Zenon DEF IInv, TypeOK, Leave, Goto, Frame
<1>d. /\ pc'[p] = "clear" /\ lock[fd[p]] = NULL /\ lock'[fd[p]] = p /\ count'[fd[p]] = count[fd[p]] - 1
      /\ state'[fd[p]] = IF count[fd[p]] = 1 THEN "freed" ELSE "ready"
      /\ UNCHANGED <<fd, slot, run, name, segs, sized, procs, alloc, broken>>
  BY <1>s, <1>b, Zenon DEF IInv, TypeOK, Leave, Goto
<1>a. /\ TypeOK' /\ Frame(p)
      /\ fd[p] \in 1..segs /\ fd[p] \in Segments /\ pc[p] = "leave" /\ segs \in Nat
      /\ sized[fd[p]] /\ state[fd[p]] = "ready"
      /\ segs' >= segs
      /\ pc'[p] = "clear" /\ lock[fd[p]] = NULL /\ lock'[fd[p]] = p /\ count'[fd[p]] = count[fd[p]] - 1
      /\ state'[fd[p]] = IF count[fd[p]] = 1 THEN "freed" ELSE "ready"
      /\ UNCHANGED <<fd, slot, run, name, segs, sized, procs, alloc, broken>>
  BY <1>s, <1>b, <1>1, <1>f, <1>d
<1>5. EntryInv' /\ \A s \in Segments : (HasLost(s) => HasLost(s)') /\ (HasGone(s) => HasGone(s)')
  BY <1>a, EntriesKept, Zenon DEF Member, Runs
<1>2. FdInv'
  BY <1>a, FdKept, Zenon
<1>3. LockInv'
  BY <1>a, LockTaken, Zenon DEF Locking
<1>4. SlotInv'
  BY <1>a, SlotKept, Zenon DEF Member
<1>6. NameInv'
  BY <1>a, <1>5, NameKept, Zenon DEF Naming, Member
<1>7. FreshInv'
  BY <1>a, <1>l, FreshKept, Zenon DEF Member
<1>8. StateInv'
  <2>1. ASSUME NEW s \in Segments, sized'[s], state'[s] = "raw"
        PROVE  \E q \in Pids : pc'[q] \in {"first", "modules"} /\ fd'[q] = s
    <3>1. s # fd[p]
      BY <1>a, <2>1, Zenon
    <3>2. PICK q \in Pids : pc[q] \in {"first", "modules"} /\ fd[q] = s
      BY <1>a, <2>1, <3>1 DEF IInv, StateInv, Frame
    <3> QED BY <1>a, <3>1, <3>2, Zenon DEF Frame
  <2>2. ASSUME NEW q \in Pids, pc'[q] \in {"join", "count", "attach", "in", "leave"}
        PROVE  state'[fd'[q]] = "ready"
    <3>1. q # p /\ pc[q] = pc'[q] /\ fd'[q] = fd[q]
      BY <1>a, <2>2, Zenon DEF Frame
    <3>2. state[fd[q]] = "ready" /\ fd[q] \in Segments
      BY <3>1, <2>2, OpenSegment, Zenon DEF IInv, StateInv
    <3>3. CASE fd[q] # fd[p]
      BY <1>a, <3>1, <3>2, <3>3, Zenon DEF Frame
    <3>4. CASE fd[q] = fd[p]
      <4>1. pc[q] \in Member
        BY <3>1, <2>2, Zenon DEF Member
      <4>2. slot[q] \in Registered(fd[p]) /\ slot[q] # slot[p]
        BY <1>a, <4>1, <3>1, <3>4, SlotTaken, OwnSlot, Zenon DEF Member
      <4>3. count[fd[p]] # 1
        BY <4>2, <1>c
      <4> QED BY <1>a, <4>3, <3>1, <3>4, Zenon
    <3> QED BY <3>3, <3>4, Zenon
  <2>3. ASSUME NEW s \in Segments, state'[s] = "freed"
        PROVE  /\ count'[s] = 0
               /\ s # name' \/ \E q \in Pids : pc'[q] \in {"clear", "unlink"} /\ fd'[q] = s
    <3>1. CASE s = fd[p]
      BY <1>a, <2>3, <3>1
    <3>2. CASE s # fd[p]
      <4>1. /\ count[s] = 0 /\ count'[s] = count[s]
            /\ s # name \/ \E q \in Pids : pc[q] \in {"clear", "unlink"} /\ fd[q] = s
        BY <1>a, <2>3, <3>2 DEF IInv, StateInv, Frame
      <4> QED BY <1>a, <4>1, Zenon DEF Frame
    <3> QED BY <3>1, <3>2, Zenon
  <2> QED BY <2>1, <2>2, <2>3, Zenon DEF StateInv
<1>9. CountInv'
  <2>1. ASSUME NEW s \in Segments, s # fd[p]
        PROVE  Registered(s)' = Registered(s) /\ count'[s] = count[s] /\ (IsAhead(s)' <=> IsAhead(s))
    BY <1>a, <2>1, Zenon DEF Frame, Registered, IsAhead
  <2>2. Registered(fd[p])' = Registered(fd[p])
    BY <1>a, Zenon DEF Registered
  <2>3. IsAhead(fd[p])'
    BY <1>a, Zenon DEF IsAhead, Ahead
  <2>4. ASSUME NEW s \in Segments
        PROVE  Cardinality(Registered(s)') = IF IsAhead(s)' THEN count'[s] + 1 ELSE count'[s]
    <3>1. CASE s = fd[p]
      BY <1>a, <3>1, <2>2, <2>3, <1>c
    <3>2. CASE s # fd[p]
      BY <3>2, <2>1, Zenon DEF IInv, CountInv
    <3> QED BY <3>1, <3>2, Zenon
  <2> QED BY <2>4, Zenon DEF CountInv
<1>10. BrokenInv'
  BY <1>a, <1>5, BrokenKept, Zenon
<1>11. AllocInv'
  BY <1>a, AllocKept, Zenon
<1> QED BY <1>a, <1>2, <1>3, <1>4, <1>5, <1>6, <1>7, <1>8, <1>9, <1>10, <1>11 DEF IInv

LEMMA ClearSlotStep ==
    ASSUME IInv, NEW p \in Pids, ClearSlot(p) PROVE IInv'
<1>s. fd[p] \in 1..segs /\ fd[p] \in Segments /\ pc[p] = "clear" /\ segs \in Nat
  BY OpenSegment, Zenon DEF IInv, ClearSlot
<1>b. sized[fd[p]]
  BY <1>s, Zenon DEF IInv, FreshInv, Member
<1>l. Alone(p)
  BY <1>s, LockMakesAlone, Zenon DEF Locking
<1>o. slot[p] \in Registered(fd[p]) /\ slot[p] \in Slots /\ procs[fd[p]][slot[p]] = Self(p)
  BY <1>s, SlotTaken, Zenon DEF Member
<1>c. Cardinality(Registered(fd[p]) \ {slot[p]}) = count[fd[p]]
  <2>1. IsAhead(fd[p])
    BY <1>s, Zenon DEF IsAhead, Ahead
  <2>2. Cardinality(Registered(fd[p])) = count[fd[p]] + 1 /\ count[fd[p]] \in 0..MaxPids
    BY <2>1, <1>s, Zenon DEF IInv, CountInv, TypeOK
  <2>3. IsFiniteSet(Registered(fd[p]))
    BY <1>s, RegisteredFinite, Zenon DEF IInv
  <2>4. Cardinality(Registered(fd[p]) \ {slot[p]}) = Cardinality(Registered(fd[p])) - 1
    BY <1>o, <2>3, FS_RemoveElement, Zenon
  <2> QED BY <2>2, <2>4
<1>1. TypeOK'
  BY <1>s, <1>o, Zenon DEF IInv, TypeOK, ClearSlot, Goto
<1>f. Frame(p)
  BY <1>s, Zenon DEF IInv, TypeOK, ClearSlot, Goto, Frame
<1>d. /\ pc'[p] = "unlink" /\ procs'[fd[p]][slot[p]] = NULL
      /\ \A s \in Segments, i \in Slots : s # fd[p] \/ i # slot[p] => procs'[s][i] = procs[s][i]
      /\ UNCHANGED <<fd, slot, run, name, segs, sized, state, count, alloc, lock, broken>>
  BY <1>s, <1>o, Zenon DEF IInv, TypeOK, ClearSlot, Goto
<1>a. /\ TypeOK' /\ Frame(p)
      /\ fd[p] \in 1..segs /\ fd[p] \in Segments /\ pc[p] = "clear" /\ segs \in Nat
      /\ sized[fd[p]]
      /\ segs' >= segs
      /\ pc'[p] = "unlink" /\ procs'[fd[p]][slot[p]] = NULL
      /\ \A s \in Segments, i \in Slots : s # fd[p] \/ i # slot[p] => procs'[s][i] = procs[s][i]
      /\ UNCHANGED <<fd, slot, run, name, segs, sized, state, count, alloc, lock, broken>>
  BY <1>s, <1>b, <1>1, <1>f, <1>d
<1>5. EntryInv' /\ \A s \in Segments : (HasLost(s) => HasLost(s)') /\ (HasGone(s) => HasGone(s)')
  <2>1. Runs(p)
    BY <1>a, Zenon DEF Runs
  <2>2. ~Lost(procs[fd[p]][slot[p]])
    <3>1. PICK e \in Processes : e = procs[fd[p]][slot[p]] /\ e = <<p, run[p]>>
      BY <1>o, Zenon DEF IInv, TypeOK, Self, Processes
    <3>2. e[1] = p /\ e[2] = run[p] /\ run[p] \in Nat
      BY <3>1, SharedMemoryAssumption DEF IInv, TypeOK
    <3> QED BY <1>a, <3>1, <3>2 DEF Lost
  <2>3. ASSUME NEW s \in Segments PROVE (HasLost(s) => HasLost(s)') /\ (HasGone(s) => HasGone(s)')
    <3>1. \A i \in Slots : procs[s][i] # NULL /\ Lost(procs[s][i]) => procs'[s][i] = procs[s][i]
      BY <1>a, <2>2, Zenon
    <3> QED BY <1>a, <2>1, <2>3, <3>1, HasLostStays, Zenon DEF IInv
  <2>4. ASSUME NEW s \in Segments, NEW i \in Slots, procs'[s][i] # NULL
        PROVE  \/ Lost(procs[s][i])'
               \/ LET e == procs'[s][i] IN
                  e[2] = run'[e[1]] /\ pc'[e[1]] \in Member /\ fd'[e[1]] = s /\ slot'[e[1]] = i
    <3>1. s # fd[p] \/ i # slot[p]
      BY <1>a, <2>4, Zenon
    <3>2. PICK e \in Processes : e = procs[s][i] /\ procs'[s][i] = e /\ e # NULL
      BY <1>a, <2>4, <3>1, Entries DEF IInv
    <3>3. e[1] \in Pids
      BY <3>2, Zenon DEF Processes
    <3>4. Lost(e) \/ (e[2] = run[e[1]] /\ pc[e[1]] \in Member /\ fd[e[1]] = s /\ slot[e[1]] = i)
      BY <3>2 DEF IInv, EntryInv
    <3>5. CASE Lost(e)
      <4>1. Lost(e)'
        BY <1>a, <2>1, <3>5, LostStays, Zenon DEF IInv
      <4> QED BY <4>1, <3>2, Zenon DEF Lost
    <3>6. CASE e[2] = run[e[1]] /\ pc[e[1]] \in Member /\ fd[e[1]] = s /\ slot[e[1]] = i
      <4>1. e[1] # p
        BY <3>1, <3>6, Zenon
      <4> QED BY <1>a, <4>1, <3>2, <3>3, <3>6 DEF Frame
    <3> QED BY <3>4, <3>5, <3>6, Zenon
  <2> QED BY <2>3, <2>4, Zenon DEF EntryInv
<1>2. FdInv'
  BY <1>a, FdKept, Zenon
<1>3. LockInv'
  BY <1>a, LockKept, Zenon DEF Locking
<1>4. SlotInv'
  <2>1. ASSUME NEW q \in Pids, pc'[q] \in Member
        PROVE  slot'[q] \in Slots /\ procs'[fd'[q]][slot'[q]] = Self(q)'
    <3>1. q # p /\ pc[q] \in Member /\ slot'[q] = slot[q] /\ fd'[q] = fd[q]
      BY <1>a, <2>1, Zenon DEF Frame, Member
    <3>2. slot[q] \in Slots /\ procs[fd[q]][slot[q]] = Self(q) /\ fd[q] \in Segments
      BY <3>1, SlotTaken, OpenSegment, Zenon DEF IInv, Member
    <3>3. fd[q] # fd[p] \/ slot[q] # slot[p]
      BY <1>a, <3>1, OwnSlot, Zenon DEF Member
    <3> QED BY <1>a, <3>1, <3>2, <3>3, Zenon DEF Self
  <2> QED BY <1>a, <2>1, Zenon DEF IInv, SlotInv, Frame
<1>6. NameInv'
  BY <1>a, <1>5, NameKept, Zenon DEF Naming, Member
<1>7. FreshInv'
  BY <1>a, <1>l, FreshKept, Zenon DEF Member
<1>8. StateInv'
  BY <1>a, StateKept, Zenon
<1>9. CountInv'
  <2>1. ASSUME NEW s \in Segments, s # fd[p]
        PROVE  Registered(s)' = Registered(s) /\ count'[s] = count[s] /\ (IsAhead(s)' <=> IsAhead(s))
    BY <1>a, <2>1 DEF Frame, Registered, IsAhead
  <2>2. Registered(fd[p])' = Registered(fd[p]) \ {slot[p]}
    BY <1>a, <1>o, Zenon DEF Registered
  <2>3. ~IsAhead(fd[p])'
    BY <1>a, <1>l DEF IsAhead, Alone, Ahead, Locking, Frame
  <2>4. ASSUME NEW s \in Segments
        PROVE  Cardinality(Registered(s)') = IF IsAhead(s)' THEN count'[s] + 1 ELSE count'[s]
    <3>1. CASE s = fd[p]
      BY <1>a, <3>1, <2>2, <2>3, <1>c
    <3>2. CASE s # fd[p]
      BY <3>2, <2>1, Zenon DEF IInv, CountInv
    <3> QED BY <3>1, <3>2, Zenon
  <2> QED BY <2>4, Zenon DEF CountInv
<1>10. BrokenInv'
  BY <1>a, <1>5, BrokenKept, Zenon
<1>11. AllocInv'
  BY <1>a, AllocKept, Zenon
<1> QED BY <1>a, <1>2, <1>3, <1>4, <1>5, <1>6, <1>7, <1>8, <1>9, <1>10, <1>11 DEF IInv

\* The last process that leaves finds no slot taken, and its segment has the name.
LEMMA LastHasName ==
    ASSUME IInv, NEW p \in Pids, pc[p] = "unlink", count[fd[p]] = 0
    PROVE  Registered(fd[p]) = {} /\ name = fd[p]
<1>1. fd[p] \in 1..segs /\ fd[p] \in Segments
  BY OpenSegment, Zenon DEF IInv
<1>2. Alone(p)
  BY LockMakesAlone, Zenon DEF Locking
<1>3. ~IsAhead(fd[p])
  BY <1>2, Zenon DEF IsAhead, Alone, Ahead, Locking
<1>4. Registered(fd[p]) = {}
  BY <1>1, <1>3, RegisteredFinite, FS_EmptySet, Zenon DEF IInv, CountInv
<1>5. ~HasLost(fd[p])
  BY <1>4, Zenon DEF Registered, HasLost
<1> QED BY <1>1, <1>4, <1>5, Zenon DEF IInv, NameInv

LEMMA UnlinkLast ==
    ASSUME IInv, NEW p \in Pids, Unlink(p), count[fd[p]] = 0 PROVE IInv'
<1>s. fd[p] \in 1..segs /\ fd[p] \in Segments /\ pc[p] = "unlink" /\ segs \in Nat
  BY OpenSegment, Zenon DEF IInv, Unlink
<1>l. Alone(p)
  BY <1>s, LockMakesAlone, Zenon DEF Locking
<1>n. Registered(fd[p]) = {} /\ name = fd[p]
  BY <1>s, LastHasName, Zenon
<1>1. TypeOK'
  BY <1>s, Zenon DEF IInv, TypeOK, Unlink, Goto, Close
<1>f. Frame(p)
  BY <1>s, Zenon DEF IInv, TypeOK, Unlink, Goto, Frame, Close
<1>d. /\ pc'[p] = "idle" /\ fd'[p] = NULL /\ lock'[fd[p]] = NULL /\ name' = NULL
      /\ UNCHANGED <<slot, run, segs, sized, state, procs, count, alloc, broken>>
  BY <1>s, Zenon DEF IInv, TypeOK, Unlink, Goto, Close
<1>a. /\ TypeOK' /\ Frame(p)
      /\ fd[p] \in 1..segs /\ fd[p] \in Segments /\ pc[p] = "unlink" /\ segs \in Nat
      /\ segs' >= segs
      /\ pc'[p] = "idle" /\ fd'[p] = NULL /\ lock'[fd[p]] = NULL /\ name' = NULL
      /\ UNCHANGED <<slot, run, segs, sized, state, procs, count, alloc, broken>>
  BY <1>s, <1>1, <1>f, <1>d
<1>5. EntryInv' /\ \A s \in Segments : (HasLost(s) => HasLost(s)') /\ (HasGone(s) => HasGone(s)')
  BY <1>a, EntriesKept, Zenon DEF Member, Runs
<1>2. FdInv'
  BY <1>a, FdKept, Zenon
<1>3. LockInv'
  BY <1>a, LockReleased, Zenon DEF Locking
<1>4. SlotInv'
  BY <1>a, SlotKept, Zenon DEF Member
<1>6. NameInv'
  <2>1. ASSUME NEW q \in Pids, pc'[q] \in Naming PROVE FALSE
    <3>1. q # p /\ pc[q] \in Naming /\ fd[q] = fd[p]
      BY <1>a, <2>1, <1>n, Zenon DEF Frame, Naming, IInv, NameInv
    <3> QED BY <3>1, <1>l, Zenon DEF Alone, Naming, Locking
  <2>2. ASSUME NEW s \in 1..segs'
        PROVE  HasLost(s)' \/ \A q \in Pids : fd'[q] = s => pc'[q] \notin Member \cup {"unlink"}
    <3>1. s \in 1..segs /\ s \in Segments
      BY <1>a, <2>2, SharedMemoryAssumption DEF IInv, TypeOK, Segments
    <3>2. CASE s = name
      <4>1. ASSUME NEW q \in Pids, fd'[q] = s PROVE pc'[q] \notin Member \cup {"unlink"}
        <5>1. CASE q = p
          BY <1>a, <5>1, Zenon DEF Member
        <5>2. CASE q # p
          <6>1. pc'[q] = pc[q] /\ fd[q] = fd[p]
            BY <1>a, <4>1, <5>2, <3>2, <1>n, Zenon DEF Frame
          <6>2. pc[q] \notin Member
            BY <6>1, <1>n, SlotTaken, Zenon
          <6>3. pc[q] # "unlink"
            BY <6>1, <5>2, <1>l, Zenon DEF Alone, Locking
          <6> QED BY <6>1, <6>2, <6>3, Zenon
        <5> QED BY <5>1, <5>2, Zenon
      <4> QED BY <4>1, Zenon
    <3>3. CASE s # name
      <4>1. HasLost(s) \/ \A q \in Pids : fd[q] = s => pc[q] \notin Member \cup {"unlink"}
        BY <3>1, <3>3, Zenon DEF IInv, NameInv
      <4> QED BY <1>a, <4>1, <3>1, <1>5, Zenon DEF Frame, Member
    <3> QED BY <3>2, <3>3, Zenon
  <2>3. \A q \in Pids : pc'[q] # "stale"
    BY <2>1, Zenon DEF Naming
  <2> QED BY <1>a, <2>1, <2>2, <2>3, Zenon DEF NameInv
<1>7. FreshInv'
  BY <1>a, FreshKept, Zenon DEF Member
<1>8. StateInv'
  BY <1>a, StateKept, SharedMemoryAssumption, Zenon
<1>9. CountInv'
  BY <1>a, CountKept, Zenon DEF Ahead
<1>10. BrokenInv'
  BY <1>a, <1>5, BrokenKept, Zenon
<1>11. AllocInv'
  BY <1>a, AllocKept, Zenon
<1> QED BY <1>a, <1>2, <1>3, <1>4, <1>5, <1>6, <1>7, <1>8, <1>9, <1>10, <1>11 DEF IInv

LEMMA CrashStep ==
    ASSUME IInv, NEW p \in Pids, Crash(p), ~CrashLocked PROVE IInv'
<1>s. fd[p] \in 1..segs /\ fd[p] \in Segments /\ pc[p] \notin {"idle", "open", "zombie", "dead"} /\ segs \in Nat
  BY OpenSegment, Zenon DEF IInv, Crash
<1>l. pc[p] \notin Locking /\ lock' = lock
  <2>1. pc[p] \notin Locking
    BY Zenon DEF IInv, LockInv, Crash
  <2>2. \A s \in Segments : lock[s] # p
    BY <2>1, SharedMemoryAssumption DEF IInv, LockInv
  <2>3. lock' = [s \in Segments |-> IF lock[s] = p THEN NULL ELSE lock[s]] /\ lock \in [Segments -> Pids \cup {NULL}]
    BY Zenon DEF Crash, IInv, TypeOK
  <2> QED BY <2>1, <2>2, <2>3, Zenon
<1>1. TypeOK'
  <2>1. crashes + 1 \in 0..Crashes
    BY SharedMemoryAssumption DEF IInv, TypeOK, Crash
  <2> QED BY <1>s, <1>l, <2>1, Zenon DEF IInv, TypeOK, Crash, Goto
<1>f. Frame(p)
  BY <1>s, <1>l, Zenon DEF IInv, TypeOK, Crash, Goto, Frame
<1>d. /\ pc'[p] = "zombie" /\ fd'[p] = NULL /\ slot'[p] = NULL
      /\ UNCHANGED <<run, name, segs, sized, state, procs, count, alloc, lock, broken>>
  BY <1>s, <1>l, Zenon DEF IInv, TypeOK, Crash, Goto
<1>a. /\ TypeOK' /\ Frame(p)
      /\ fd[p] \in 1..segs /\ fd[p] \in Segments /\ pc[p] \notin {"idle", "open", "zombie", "dead"} /\ segs \in Nat
      /\ segs' >= segs
      /\ pc'[p] = "zombie" /\ fd'[p] = NULL /\ slot'[p] = NULL
      /\ UNCHANGED <<run, name, segs, sized, state, procs, count, alloc, lock, broken>>
  BY <1>s, <1>1, <1>f, <1>d
<1>5. EntryInv' /\ \A s \in Segments : (HasLost(s) => HasLost(s)') /\ (HasGone(s) => HasGone(s)')
  BY <1>a, EntriesKept, Zenon DEF Member, Runs
<1>2. FdInv'
  BY <1>a, FdKept, Zenon
<1>3. LockInv'
  BY <1>a, <1>l, LockKept, Zenon DEF Locking
<1>4. SlotInv'
  BY <1>a, SlotKept, Zenon DEF Member
<1>6. NameInv'
  BY <1>a, <1>5, NameKept, Zenon DEF Naming, Member
<1>7. FreshInv'
  BY <1>a, FreshKept, Zenon DEF Member
<1>8. StateInv'
  BY <1>a, <1>l, StateKept, Zenon DEF Locking
<1>9. CountInv'
  BY <1>a, <1>l, CountKept, Zenon DEF Ahead, Locking
<1>10. BrokenInv'
  BY <1>a, <1>5, BrokenKept, Zenon
<1>11. AllocInv'
  <2>1. ASSUME NEW s \in Segments PROVE Cardinality(InSlots(s)') <= alloc'[s]
    <3>1. InSlots(s)' \subseteq InSlots(s)
      BY <1>a DEF InSlots, Frame
    <3>2. IsFiniteSet(InSlots(s)) /\ Cardinality(InSlots(s)) \in Nat
      BY RegisteredFinite, Zenon DEF IInv
    <3>3. \A T \in SUBSET InSlots(s) : Cardinality(T) <= Cardinality(InSlots(s)) /\ Cardinality(T) \in Nat
      BY <3>2, FS_Subset, FS_CardinalityType, Zenon
    <3>4. Cardinality(InSlots(s)) <= alloc[s] /\ alloc[s] \in 0..MaxPids
      BY Zenon DEF IInv, AllocInv, TypeOK
    <3>5. \A T \in SUBSET InSlots(s) : Cardinality(T) <= alloc[s]
      BY <3>2, <3>3, <3>4
    <3> QED BY <1>a, <3>1, <3>5, Zenon
  <2> QED BY <2>1, Zenon DEF AllocInv
<1> QED BY <1>a, <1>2, <1>3, <1>4, <1>5, <1>6, <1>7, <1>8, <1>9, <1>10, <1>11 DEF IInv
-----------------------------------------------------------------------------
(***************************************************************************)
(* The theorems.                                                           *)
(***************************************************************************)
LEMMA InitIInv == Init => IInv
<1> SUFFICES ASSUME Init PROVE IInv
  BY Zenon
<1>1. TypeOK
  BY SharedMemoryAssumption DEF Init, TypeOK
<1>2. \A s \in Segments : Registered(s) = {} /\ InSlots(s) = {} /\ ~IsAhead(s)
  BY Zenon DEF Init, Registered, InSlots, IsAhead, Ahead
<1>3. FdInv /\ LockInv /\ SlotInv /\ EntryInv /\ BrokenInv
  BY Zenon DEF Init, FdInv, LockInv, SlotInv, EntryInv, BrokenInv, Locking, Member
<1>4. NameInv
  BY Zenon DEF Init, NameInv, Naming, Member
<1>5. FreshInv /\ StateInv
  BY <1>2, Zenon DEF Init, FreshInv, StateInv, Member
<1>6. CountInv /\ AllocInv
  <2>1. \A s \in Segments : Cardinality(Registered(s)) = 0 /\ Cardinality(InSlots(s)) = 0
    BY <1>2, FS_EmptySet, Zenon
  <2>2. \A s \in Segments : count[s] = 0 /\ alloc[s] = 0
    BY Zenon DEF Init
  <2>3. AllocInv
    BY <2>1, <2>2 DEF AllocInv
  <2> QED BY <1>2, <2>1, <2>2, <2>3, Zenon DEF CountInv
<1> QED BY <1>1, <1>3, <1>4, <1>5, <1>6, Zenon DEF IInv

LEMMA NextIInv ==
    ASSUME ~Reinit, ~CrashLocked, IInv, [Next]_vars PROVE IInv'
<1>1. CASE UNCHANGED vars
  <2>1. /\ UNCHANGED <<pc, fd, slot, run, inits, crashes, broken>>
        /\ UNCHANGED <<name, segs, sized, state, procs, count, alloc, lock>>
    BY <1>1, Zenon DEF vars, procvars, segvars
  <2>2. TypeOK' /\ FdInv' /\ LockInv' /\ SlotInv'
    BY <2>1, Zenon DEF IInv, TypeOK, FdInv, LockInv, SlotInv, Self
  <2>3. EntryInv' /\ NameInv' /\ BrokenInv'
    <3>1. EntryInv'
      <4>1. ASSUME NEW s \in Segments, NEW i \in Slots, procs'[s][i] # NULL
            PROVE  \/ Lost(procs[s][i])'
                   \/ LET e == procs'[s][i] IN
                      e[2] = run'[e[1]] /\ pc'[e[1]] \in Member /\ fd'[e[1]] = s /\ slot'[e[1]] = i
        BY <2>1, <4>1 DEF IInv, EntryInv, Lost
      <4> QED BY <4>1 DEF EntryInv
    <3>2. NameInv'
      BY <2>1, Zenon DEF IInv, NameInv, HasLost, Lost
    <3>3. BrokenInv'
      BY <2>1, Zenon DEF IInv, BrokenInv, HasGone, Gone
    <3> QED BY <3>1, <3>2, <3>3, Zenon
  <2>4. FreshInv' /\ StateInv'
    BY <2>1 DEF IInv, FreshInv, StateInv, Registered
  <2>5. CountInv' /\ AllocInv'
    BY <2>1, Zenon DEF IInv, CountInv, AllocInv, IsAhead, InSlots, Registered
  <2> QED BY <2>2, <2>3, <2>4, <2>5, Zenon DEF IInv
<1>2. ASSUME NEW p \in Pids, NosvInit(p) \/ Crash(p) \/ Reap(p) \/ Reuse(p) PROVE IInv'
  BY <1>2, NosvInitStep, CrashStep, ReapStep, ReuseStep, Zenon
<1>3. ASSUME NEW p \in Pids, Open(p) \/ Lock(p) \/ Stat(p) \/ Truncate(p) PROVE IInv'
  BY <1>3, OpenStep, LockStep, StatUnlinked, StatNamed, TruncateStep, Zenon
<1>4. ASSUME NEW p \in Pids, ConfigFirst(p) \/ InitFirst(p) \/ Check(p) \/ UnlinkStale(p) PROVE IInv'
  BY <1>4, ConfigFirstStep, InitFirstStep, CheckStep, UnlinkStaleStep, Zenon
<1>5. ASSUME NEW p \in Pids, RegisterRest(p) \/ AbortRest(p) \/ InitRest(p) \/ Counted(p) PROVE IInv'
  BY <1>5, RegisterRestStep, AbortRestStep, InitRestStep, CountedStep, Zenon
<1>6. ASSUME NEW p \in Pids, PidRegister(p) \/ PidShutdown(p) PROVE IInv'
  BY <1>6, PidRegisterTakes, PidRegisterAborts, PidShutdownStep, Zenon
<1>7. ASSUME NEW p \in Pids, Leave(p) \/ ClearSlot(p) \/ Unlink(p) PROVE IInv'
  BY <1>7, LeaveStep, ClearSlotStep, UnlinkLast, UnlinkOther, Zenon
<1> QED BY <1>1, <1>2, <1>3, <1>4, <1>5, <1>6, <1>7, Zenon DEF Next, SegmentCreate, SegmentUnregister

\* Behind the next three: which process a lock, a slot, the name and the count of
\* a segment belong to at every step of segment_create and segment_unregister.
THEOREM Invariance == ASSUME ~Reinit, ~CrashLocked PROVE Spec => []IInv
<1>1. IInv /\ [Next]_vars => IInv'
  BY NextIInv, Zenon
<1> QED BY <1>1, InitIInv, PTL DEF Spec

\* The segment is sound for any number of processes, slots, segments and crashes:
\* who joins finds it initialised, nobody who is in sees segment_unregister_last
\* free its modules, and config->count is the number of slots that are taken
\* whenever the file is unlocked.  (Where processes do not crash with the lock, and
\* do not initialise nOS-V twice.)
THEOREM SegmentSoundAlways == ASSUME ~Reinit, ~CrashLocked PROVE Spec => []SegmentSound
<1>1. ASSUME IInv PROVE SegmentSound
  <2>1. JoinsReady /\ StaysReady
    BY <1>1, Zenon DEF IInv, StateInv, JoinsReady, StaysReady
  <2>2. ASSUME NEW s \in Segments, lock[s] = NULL PROVE ~IsAhead(s)
    BY <1>1, <2>2, SharedMemoryAssumption DEF IInv, LockInv, IsAhead, Ahead, Locking
  <2>3. CountMatches
    BY <1>1, <2>2, Zenon DEF IInv, CountInv, CountMatches
  <2> QED BY <1>1, <2>1, <2>3, Zenon DEF IInv, SegmentSound
<1> QED BY <1>1, Invariance, PTL

\* check_processes_correct finds every process that ended without leaving and was
\* waited for: a process does not go on to join a segment in which there is one,
\* even if another process has the pid by now.  Of those nobody has waited for yet
\* it promises nothing.
THEOREM DetectsCrashAlways == ASSUME ~Reinit, ~CrashLocked PROVE Spec => DetectsCrash
<1>1. ASSUME IInv, [Next]_vars
      PROVE  [\A p \in Pids : pc[p] = "check" /\ pc'[p] = "rest" => fd[p] \notin broken]_vars
  <2> SUFFICES ASSUME Next, NEW p \in Pids, pc[p] = "check", pc'[p] = "rest", fd[p] \in broken PROVE FALSE
    BY <1>1, Zenon
  <2>1. HasGone(fd[p])
    BY <1>1, Zenon DEF IInv, BrokenInv
  <2>2. ~ProcessesCorrect(fd[p])
    <3>1. PICK i \in Slots : procs[fd[p]][i] # NULL /\ Gone(procs[fd[p]][i])
      BY <2>1, Zenon DEF HasGone
    <3>2. fd[p] \in Segments
      BY <1>1, OpenSegment, Zenon DEF IInv
    <3>3. PICK e \in Processes : e = procs[fd[p]][i]
      BY <3>1, <3>2, <1>1, Entries, Zenon DEF IInv
    <3>4. e[1] \in Pids /\ e[2] \in Nat /\ run[e[1]] \in Nat
      BY <3>3, <1>1, SharedMemoryAssumption DEF IInv, TypeOK, Processes
    <3>5. pc[e[1]] = "dead" \/ run[e[1]] # e[2]
      BY <3>1, <3>3, <3>4 DEF Gone
    <3> QED BY <3>1, <3>3, <3>5, Zenon DEF ProcessesCorrect
  <2>3. PICK q \in Pids :
            \/ NosvInit(q) \/ SegmentCreate(q) \/ PidRegister(q) \/ PidShutdown(q)
            \/ SegmentUnregister(q) \/ Crash(q) \/ Reap(q) \/ Reuse(q)
    BY Zenon DEF Next
  <2>4. pc \in [Pids -> {"idle", "open", "opened", "stat", "truncate", "first", "modules", "check",
                        "stale", "rest", "join", "count", "attach", "in", "leave", "clear",
                        "unlink", "zombie", "dead"}]
    BY <1>1, Zenon DEF IInv, TypeOK
  <2>5. q = p
    BY <2>3, <2>4, Zenon DEF NosvInit, SegmentCreate, Open, Lock, Stat, Truncate, ConfigFirst, InitFirst, Check,
       UnlinkStale, RegisterRest, AbortRest, InitRest, Counted, PidRegister, PidShutdown,
       SegmentUnregister, Leave, ClearSlot, Unlink, Crash, Reap, Reuse, Goto
  <2>6. Check(p)
    BY <2>3, <2>4, <2>5, Zenon DEF NosvInit, SegmentCreate, Open, Lock, Stat, Truncate, ConfigFirst, InitFirst,
       UnlinkStale, RegisterRest, AbortRest, InitRest, Counted, PidRegister, PidShutdown,
       SegmentUnregister, Leave, ClearSlot, Unlink, Crash, Reap, Reuse, Goto
  <2> QED BY <2>2, <2>4, <2>6, Zenon DEF Check, Goto
<1> QED BY <1>1, Invariance, PTL DEF Spec, DetectsCrash

\* shm_unlink takes a name, not a descriptor, yet it only ever removes the segment
\* that its caller has open and locked.
THEOREM UnlinksOwnAlways == ASSUME ~Reinit, ~CrashLocked PROVE Spec => UnlinksOwn
<1>1. ASSUME IInv, [Next]_vars
      PROVE  [name # NULL /\ name' # name => \E p \in Pids : fd[p] = name /\ lock[name] = p]_vars
  <2> SUFFICES ASSUME Next, name # NULL, name' # name
               PROVE  \E p \in Pids : fd[p] = name /\ lock[name] = p
    BY <1>1, Zenon
  <2>1. PICK p \in Pids : UnlinkStale(p) \/ (Unlink(p) /\ count[fd[p]] = 0)
    <3>1. ASSUME NEW p \in Pids, NosvInit(p) \/ Open(p) \/ Lock(p) \/ Stat(p) \/ Truncate(p) PROVE FALSE
      BY <3>1, Zenon DEF NosvInit, Open, Lock, Stat, Truncate, segvars
    <3>2. ASSUME NEW p \in Pids, \/ ConfigFirst(p) \/ InitFirst(p) \/ Check(p) \/ RegisterRest(p)
                               \/ AbortRest(p) \/ InitRest(p) \/ Counted(p)
          PROVE FALSE
      BY <3>2, Zenon DEF ConfigFirst, InitFirst, Check, RegisterRest, AbortRest, InitRest, Counted, segvars
    <3>3. ASSUME NEW p \in Pids, \/ PidRegister(p) \/ PidShutdown(p) \/ Leave(p) \/ ClearSlot(p)
                               \/ Crash(p) \/ Reap(p) \/ Reuse(p)
          PROVE FALSE
      BY <3>3, Zenon DEF PidRegister, PidShutdown, Leave, ClearSlot, Crash, Reap, Reuse, segvars
    <3>4. ASSUME NEW p \in Pids, Unlink(p) PROVE count[fd[p]] = 0
      BY <3>4, Zenon DEF Unlink
    <3> QED BY <3>1, <3>2, <3>3, <3>4, Zenon DEF Next, SegmentCreate, SegmentUnregister
  <2>2. pc[p] \in Locking
    BY <2>1, Zenon DEF UnlinkStale, Unlink, Locking
  <2>3. lock[fd[p]] = p
    BY <2>2, <1>1, Zenon DEF IInv, LockInv
  <2>4. fd[p] = name
    <3>1. CASE UnlinkStale(p)
      BY <3>1, <1>1, Zenon DEF UnlinkStale, IInv, NameInv, Naming
    <3>2. CASE Unlink(p) /\ count[fd[p]] = 0
      BY <3>2, <1>1, LastHasName, Zenon DEF Unlink
    <3> QED BY <2>1, <3>1, <3>2, Zenon
  <2> QED BY <2>3, <2>4, Zenon
<1> QED BY <1>1, Invariance, PTL DEF Spec, UnlinksOwn
=============================================================================
