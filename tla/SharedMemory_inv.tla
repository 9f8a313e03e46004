-------------------------- MODULE SharedMemory_inv --------------------------
(***************************************************************************)
(* The inductive invariant of SharedMemory, what a step has to do to       *)
(* preserve it, and the steps that need no counting.                       *)
(***************************************************************************)
EXTENDS SharedMemory, TLAPS
-----------------------------------------------------------------------------
(***************************************************************************)
(* The inductive invariant.                                                *)
(***************************************************************************)
\* The steps that are taken with the lock, those for which the segment has its
\* name, those of a registered process, and those of them where the slots are
\* ahead of config->count
Locking == {"stat", "truncate", "first", "modules", "check", "stale", "rest", "join", "count",
            "clear", "unlink"}
Naming == {"truncate", "first", "modules", "check", "stale", "rest", "join", "count"}
Member == {"modules", "join", "count", "attach", "in", "leave", "clear"}
Ahead == {"modules", "join", "count", "clear"}

\* The process of an entry of config->processes has ended; it was also waited for.
Lost(e) == e[2] < run[e[1]] \/ (e[2] = run[e[1]] /\ pc[e[1]] \in {"zombie", "dead"})
Gone(e) == e[2] < run[e[1]] \/ (e[2] = run[e[1]] /\ pc[e[1]] = "dead")
HasLost(s) == \E i \in Slots : procs[s][i] # NULL /\ Lost(procs[s][i])
HasGone(s) == \E i \in Slots : procs[s][i] # NULL /\ Gone(procs[s][i])

\* A process has the segment open from open to close, and the lock of its file
\* while it takes the steps that need it.
FdInv == \A p \in Pids : IF pc[p] \in {"idle", "open", "zombie", "dead"} THEN fd[p] = NULL ELSE fd[p] \in 1..segs

LockInv ==
    /\ \A p \in Pids : pc[p] \in Locking => lock[fd[p]] = p
    /\ \A s \in Segments : lock[s] # NULL => pc[lock[s]] \in Locking /\ fd[lock[s]] = s

\* A registered process has its slot, and every slot that is taken has its
\* process or one that has crashed.
SlotInv ==
    \A p \in Pids :
        /\ pc[p] \in Member => slot[p] \in Slots /\ procs[fd[p]][slot[p]] = Self(p)
        /\ pc[p] \in {"open", "opened", "stat", "truncate", "first", "check", "stale", "rest"}
              => slot[p] = NULL

EntryInv ==
    \A s \in Segments, i \in Slots : procs[s][i] # NULL =>
        LET e == procs[s][i] IN
        \/ Lost(e)
        \/ e[2] = run[e[1]] /\ pc[e[1]] \in Member /\ fd[e[1]] = s /\ slot[e[1]] = i

\* The segment that is being created or joined keeps its name; one that lost it
\* has an entry of a crashed process, or nobody is in it any more.
NameInv ==
    /\ name # NULL => name \in 1..segs
    /\ \A p \in Pids : pc[p] \in Naming => name = fd[p]
    /\ \A p \in Pids : pc[p] = "stale" => HasLost(fd[p])
    /\ \A s \in 1..segs : s # name =>
          HasLost(s) \/ \A p \in Pids : fd[p] = s => pc[p] \notin Member \cup {"unlink"}

\* How far the segment is initialised
FreshInv ==
    /\ \A s \in Segments : s > segs => ~sized[s]
    /\ \A s \in Segments : ~sized[s] => state[s] = "raw" /\ Registered(s) = {} /\ count[s] = 0
    /\ \A p \in Pids : pc[p] = "truncate" => ~sized[fd[p]]
    /\ \A p \in Pids : pc[p] = "first" =>
          state[fd[p]] = "raw" /\ Registered(fd[p]) = {} /\ count[fd[p]] = 0
    /\ \A p \in Pids : pc[p] \in Member \cup {"first", "check", "stale", "rest"} => sized[fd[p]]

StateInv ==
    /\ \A s \in Segments : sized[s] /\ state[s] = "raw" =>
          \E p \in Pids : pc[p] \in {"first", "modules"} /\ fd[p] = s
    /\ \A p \in Pids : pc[p] \in {"join", "count", "attach", "in", "leave"} => state[fd[p]] = "ready"
    /\ \A s \in Segments : state[s] = "freed" =>
          count[s] = 0 /\ (s # name \/ \E p \in Pids : pc[p] \in {"clear", "unlink"} /\ fd[p] = s)

\* config->count is the number of slots that are taken, or one behind.
IsAhead(s) == \E p \in Pids : pc[p] \in Ahead /\ fd[p] = s
CountInv ==
    \A s \in Segments : Cardinality(Registered(s)) = IF IsAhead(s) THEN count[s] + 1 ELSE count[s]

BrokenInv == \A s \in broken : HasGone(s)

\* There are at least as many logical pids as processes that have one.
InSlots(s) == {i \in Slots : \E p \in Pids : pc[p] = "in" /\ fd[p] = s /\ slot[p] = i}
AllocInv == \A s \in Segments : Cardinality(InSlots(s)) <= alloc[s]

IInv ==
    /\ TypeOK /\ FdInv /\ LockInv /\ SlotInv /\ EntryInv /\ NameInv
    /\ FreshInv /\ StateInv /\ CountInv /\ BrokenInv /\ AllocInv
-----------------------------------------------------------------------------
(***************************************************************************)
(* What the steps have in common.                                          *)
(***************************************************************************)
\* A step of p changes nothing of another process, and of no segment but its own.
Frame(p) ==
    /\ \A q \in Pids : q # p =>
          pc'[q] = pc[q] /\ fd'[q] = fd[q] /\ slot'[q] = slot[q] /\ run'[q] = run[q]
    /\ \A s \in Segments : s # fd[p] =>
          /\ sized'[s] = sized[s] /\ state'[s] = state[s] /\ procs'[s] = procs[s]
          /\ count'[s] = count[s] /\ alloc'[s] = alloc[s] /\ lock'[s] = lock[s]

\* The entries of config->processes are processes; the open segment exists.
LEMMA Entries ==
    ASSUME TypeOK, NEW s \in Segments, NEW i \in Slots, procs[s][i] # NULL
    PROVE  procs[s][i] \in Processes /\ procs[s][i][1] \in Pids /\ procs[s][i][2] \in 1..MaxRuns
BY DEF TypeOK, Processes

LEMMA OpenSegment ==
    ASSUME TypeOK, FdInv, NEW p \in Pids, pc[p] \notin {"idle", "open", "zombie", "dead"}
    PROVE  fd[p] \in 1..segs /\ fd[p] \in Segments /\ fd[p] # NULL /\ segs \in Nat
<1>1. fd[p] \in 1..segs /\ fd[p] \in Segments \cup {NULL} /\ segs \in Nat /\ segs <= MaxSegments
  BY DEF TypeOK, FdInv
<1>2. fd[p] \in Segments
  BY <1>1, SharedMemoryAssumption DEF Segments
<1> QED BY <1>1, <1>2, SharedMemoryAssumption, Zenon

\* Only one process is at a step that needs the lock of a segment.
LEMMA LockAlone ==
    ASSUME LockInv, NEW p \in Pids, NEW q \in Pids, pc[p] \in Locking, pc[q] \in Locking, fd[p] = fd[q]
    PROVE  p = q
BY DEF LockInv

\* A process that has ended does not run again, whatever the others do, whether it
\* is waited for and if its pid is used again; one that was waited for is gone.
Runs(p) ==
    \/ run'[p] = run[p] /\ pc[p] # "dead" /\ (pc[p] = "zombie" => pc'[p] = "dead")
    \/ run'[p] = run[p] + 1

LEMMA LostStays ==
    ASSUME TypeOK, NEW p \in Pids, Frame(p), Runs(p), NEW e \in Processes
    PROVE  (Lost(e) => Lost(e)') /\ (Gone(e) => Gone(e)')
<1>1. e[1] \in Pids /\ e[2] \in Nat
  BY SharedMemoryAssumption DEF Processes
<1>2. run[e[1]] \in Nat
  BY <1>1, SharedMemoryAssumption DEF TypeOK
<1>3. Lost(e) => Lost(e)'
  BY <1>1, <1>2 DEF Lost, Frame, Runs
<1>4. Gone(e) => Gone(e)'
  BY <1>1, <1>2 DEF Gone, Frame, Runs
<1> QED BY <1>3, <1>4

LEMMA HasLostStays ==
    ASSUME TypeOK, NEW p \in Pids, Frame(p), Runs(p), NEW s \in Segments,
           \A i \in Slots : procs[s][i] # NULL /\ Lost(procs[s][i]) => procs'[s][i] = procs[s][i]
    PROVE  (HasLost(s) => HasLost(s)') /\ (HasGone(s) => HasGone(s)')
<1>1. ASSUME HasLost(s) PROVE HasLost(s)'
  <2>1. PICK i \in Slots : procs[s][i] # NULL /\ Lost(procs[s][i])
    BY <1>1, Zenon DEF HasLost
  <2>2. PICK e \in Processes : e = procs[s][i] /\ e = procs'[s][i]
    BY <2>1, Entries, Zenon
  <2>3. Lost(e)'
    BY <2>1, <2>2, LostStays, Zenon
  <2> QED BY <2>1, <2>2, <2>3, Zenon DEF HasLost, Lost
<1>2. ASSUME HasGone(s) PROVE HasGone(s)'
  <2>1. PICK i \in Slots : procs[s][i] # NULL /\ Gone(procs[s][i])
    BY <1>2, Zenon DEF HasGone
  <2>2. PICK e \in Processes : e = procs[s][i] /\ e = procs'[s][i]
    BY <2>1, Entries, Zenon DEF Gone, Lost
  <2>3. Gone(e)'
    BY <2>1, <2>2, LostStays, Zenon
  <2> QED BY <2>1, <2>2, <2>3, Zenon DEF HasGone, Gone
<1> QED BY <1>1, <1>2, Zenon

\* A step that leaves config->processes alone, and its process registered if it
\* was, keeps what is known of the entries.
LEMMA EntriesKept ==
    ASSUME IInv, NEW p \in Pids, Frame(p), Runs(p), procs' = procs,
           pc[p] \in Member =>
              /\ run'[p] = run[p]
              /\ pc'[p] = "zombie" \/ (pc'[p] \in Member /\ fd'[p] = fd[p] /\ slot'[p] = slot[p])
    PROVE  EntryInv' /\ \A s \in Segments : (HasLost(s) => HasLost(s)') /\ (HasGone(s) => HasGone(s)')
<1>1. ASSUME NEW s \in Segments
      PROVE  (HasLost(s) => HasLost(s)') /\ (HasGone(s) => HasGone(s)')
  BY <1>1, HasLostStays, Zenon DEF IInv
<1>2. ASSUME NEW s \in Segments, NEW i \in Slots, procs'[s][i] # NULL
      PROVE  \/ Lost(procs[s][i])'
             \/ LET e == procs'[s][i] IN
                e[2] = run'[e[1]] /\ pc'[e[1]] \in Member /\ fd'[e[1]] = s /\ slot'[e[1]] = i
  <2>1. PICK e \in Processes : e = procs[s][i]
    BY <1>2, Entries, Zenon DEF IInv
  <2>2. e[1] \in Pids /\ e # NULL /\ procs'[s][i] = e
    BY <1>2, <2>1, Zenon DEF Processes
  <2>3. Lost(e) \/ (e[2] = run[e[1]] /\ pc[e[1]] \in Member /\ fd[e[1]] = s /\ slot[e[1]] = i)
    BY <2>1, <2>2 DEF IInv, EntryInv
  <2>4. CASE Lost(e)
    <3>1. Lost(e)'
      BY <2>4, LostStays, Zenon DEF IInv
    <3> QED BY <3>1, <2>2, Zenon DEF Lost
  <2>5. CASE e[2] = run[e[1]] /\ pc[e[1]] \in Member /\ fd[e[1]] = s /\ slot[e[1]] = i
    BY <2>5, <2>2 DEF Frame, Lost
  <2> QED BY <2>3, <2>4, <2>5, Zenon
<1> QED BY <1>1, <1>2, Zenon DEF EntryInv

\* For each other conjunct, what a step of p has to see to.
LEMMA FdKept ==
    ASSUME IInv, TypeOK', NEW p \in Pids, Frame(p), segs' >= segs,
           IF pc'[p] \in {"idle", "open", "zombie", "dead"} THEN fd'[p] = NULL ELSE fd'[p] \in 1..segs'
    PROVE  FdInv'
<1>1. segs \in Nat /\ segs' \in Nat
  BY SharedMemoryAssumption DEF IInv, TypeOK
<1> QED BY <1>1 DEF IInv, FdInv, Frame

\* The step takes the lock, releases it, or does neither.
LEMMA LockTaken ==
    ASSUME IInv, NEW p \in Pids, Frame(p), fd[p] \in Segments, fd'[p] = fd[p],
           lock[fd[p]] = NULL, lock'[fd[p]] = p, pc'[p] \in Locking
    PROVE  LockInv'
<1>1. ASSUME NEW q \in Pids, pc'[q] \in Locking PROVE lock'[fd'[q]] = q
  <2>1. CASE q = p
    BY <2>1, Zenon
  <2>2. CASE q # p
    <3>1. lock[fd[q]] = q /\ pc[q] \in Locking /\ fd'[q] = fd[q]
      BY <1>1, <2>2, Zenon DEF Frame, IInv, LockInv
    <3>2. fd[q] \in Segments
      BY <3>1, OpenSegment, Zenon DEF IInv, Locking
    <3>3. fd[q] # fd[p]
      BY <3>1, SharedMemoryAssumption, Zenon
    <3> QED BY <3>1, <3>2, <3>3, Zenon DEF Frame
  <2> QED BY <2>1, <2>2, Zenon
<1>2. ASSUME NEW s \in Segments, lock'[s] # NULL PROVE pc'[lock'[s]] \in Locking /\ fd'[lock'[s]] = s
  <2>1. CASE s = fd[p]
    BY <2>1, Zenon
  <2>2. CASE s # fd[p]
    <3>1. lock'[s] = lock[s] /\ pc[lock[s]] \in Locking /\ fd[lock[s]] = s /\ lock[s] \in Pids
      BY <1>2, <2>2 DEF Frame, IInv, LockInv, TypeOK
    <3> QED BY <3>1, <2>2 DEF Frame
  <2> QED BY <2>1, <2>2, Zenon
<1> QED BY <1>1, <1>2, Zenon DEF LockInv

LEMMA LockReleased ==
    ASSUME IInv, NEW p \in Pids, Frame(p), pc[p] \in Locking, lock'[fd[p]] = NULL, pc'[p] \notin Locking
    PROVE  LockInv'
<1>1. ASSUME NEW q \in Pids, pc'[q] \in Locking PROVE lock'[fd'[q]] = q
  <2>1. lock[fd[q]] = q /\ pc[q] \in Locking /\ fd'[q] = fd[q] /\ q # p
    BY <1>1, Zenon DEF Frame, IInv, LockInv
  <2>2. fd[q] \in Segments
    BY <2>1, OpenSegment, Zenon DEF IInv, Locking
  <2>3. fd[q] # fd[p]
    BY <2>1, LockAlone, Zenon DEF IInv
  <2> QED BY <2>1, <2>2, <2>3, Zenon DEF Frame
<1>2. ASSUME NEW s \in Segments, lock'[s] # NULL PROVE pc'[lock'[s]] \in Locking /\ fd'[lock'[s]] = s
  <2>1. lock'[s] = lock[s] /\ pc[lock[s]] \in Locking /\ fd[lock[s]] = s /\ lock[s] \in Pids /\ s # fd[p]
    BY <1>2 DEF Frame, IInv, LockInv, TypeOK
  <2> QED BY <2>1 DEF Frame
<1> QED BY <1>1, <1>2, Zenon DEF LockInv

LEMMA LockKept ==
    ASSUME IInv, NEW p \in Pids, Frame(p), lock' = lock, pc[p] \in Locking <=> pc'[p] \in Locking,
           pc[p] \in Locking => fd'[p] = fd[p]
    PROVE  LockInv'
<1>1. ASSUME NEW q \in Pids PROVE pc'[q] \in Locking <=> pc[q] \in Locking
  BY Zenon DEF Frame
<1>2. ASSUME NEW q \in Pids, pc[q] \in Locking PROVE fd'[q] = fd[q]
  BY <1>2, Zenon DEF Frame
<1>3. ASSUME NEW s \in Segments PROVE lock[s] \in Pids \cup {NULL}
  BY Zenon DEF IInv, TypeOK
<1> QED BY <1>1, <1>2, <1>3, Zenon DEF IInv, LockInv

\* No other process is at a step that needs the lock of the segment of p.
Alone(p) == \A q \in Pids : q # p /\ fd[q] = fd[p] => pc[q] \notin Locking

LEMMA LockMakesAlone ==
    ASSUME IInv, NEW p \in Pids, pc[p] \in Locking \/ lock[fd[p]] = NULL PROVE Alone(p)
BY LockAlone, SharedMemoryAssumption DEF IInv, LockInv, Alone

LEMMA SlotKept ==
    ASSUME IInv, NEW p \in Pids, Frame(p), procs' = procs,
           pc'[p] \in Member => pc[p] \in Member /\ fd'[p] = fd[p] /\ slot'[p] = slot[p] /\ run'[p] = run[p],
           pc'[p] \in {"open", "opened", "stat", "truncate", "first", "check", "stale", "rest"}
              => slot'[p] = NULL
    PROVE  SlotInv'
BY DEF IInv, SlotInv, Frame, Self

LEMMA NameKept ==
    ASSUME IInv, NEW p \in Pids, Frame(p), name' = name, segs' = segs,
           \A s \in Segments : HasLost(s) => HasLost(s)',
           pc'[p] \in Naming => fd'[p] = name,
           pc'[p] = "stale" => fd'[p] \in Segments /\ HasLost(fd[p])' /\ fd'[p] = fd[p],
           pc'[p] \in Member \cup {"unlink"} =>
              fd'[p] = fd[p] /\ (fd[p] = name \/ pc[p] \in Member \cup {"unlink"})
    PROVE  NameInv'
<1>1. \A q \in Pids : pc'[q] \in Naming => name' = fd'[q]
  BY Zenon DEF Frame, IInv, NameInv
<1>2. ASSUME NEW q \in Pids, pc'[q] = "stale" PROVE HasLost(fd[q])'
  <2>1. CASE q = p
    BY <1>2, <2>1, Zenon
  <2>2. CASE q # p
    <3>1. pc[q] = "stale" /\ fd'[q] = fd[q] /\ HasLost(fd[q])
      BY <1>2, <2>2, Zenon DEF Frame, IInv, NameInv
    <3>2. PICK s \in Segments : s = fd[q]
      BY <3>1, OpenSegment, Zenon DEF IInv
    <3>3. HasLost(s)'
      BY <3>1, <3>2, Zenon
    <3> QED BY <3>1, <3>2, <3>3, Zenon DEF HasLost
  <2> QED BY <2>1, <2>2, Zenon
<1>3. ASSUME NEW s \in 1..segs', s # name'
      PROVE  HasLost(s)' \/ \A q \in Pids : fd'[q] = s => pc'[q] \notin Member \cup {"unlink"}
  <2>1. s \in 1..segs /\ s # name /\ s \in Segments
    BY <1>3, SharedMemoryAssumption DEF IInv, TypeOK, Segments
  <2>2. HasLost(s) \/ \A q \in Pids : fd[q] = s => pc[q] \notin Member \cup {"unlink"}
    BY <2>1, Zenon DEF IInv, NameInv
  <2>3. CASE HasLost(s)
    BY <2>1, <2>3, Zenon
  <2>4. CASE \A q \in Pids : fd[q] = s => pc[q] \notin Member \cup {"unlink"}
    BY <2>1, <2>4 DEF Frame
  <2> QED BY <2>2, <2>3, <2>4, Zenon
<1> QED BY <1>1, <1>2, <1>3, Zenon DEF IInv, NameInv

LEMMA BrokenKept ==
    ASSUME IInv, \A s \in Segments : (HasLost(s) => HasLost(s)') /\ (HasGone(s) => HasGone(s)'),
           \A s \in broken' : s \in broken \/ HasGone(s)'
    PROVE  BrokenInv'
BY Zenon DEF IInv, TypeOK, BrokenInv

\* The step does not touch the segment, or it does under the lock.
LEMMA FreshKept ==
    ASSUME IInv, TypeOK', NEW p \in Pids, Frame(p), segs' >= segs,
           \/ UNCHANGED <<sized, state, procs, count>>
           \/ Alone(p) /\ fd[p] \in 1..segs /\ sized'[fd[p]],
           pc'[p] = "truncate" => fd'[p] = fd[p] /\ ~sized'[fd[p]],
           pc'[p] = "first" =>
              fd'[p] = fd[p] /\ state'[fd[p]] = "raw" /\ Registered(fd[p])' = {} /\ count'[fd[p]] = 0,
           pc'[p] \in Member \cup {"first", "check", "stale", "rest"} => fd'[p] = fd[p] /\ sized'[fd[p]]
    PROVE  FreshInv'
<1>1. segs \in Nat /\ segs' \in Nat /\ Segments \subseteq Nat
  BY SharedMemoryAssumption DEF IInv, TypeOK, Segments
<1>2. ASSUME NEW s \in Segments, s # fd[p] \/ UNCHANGED <<sized, state, procs, count>>
      PROVE  /\ sized'[s] = sized[s] /\ state'[s] = state[s] /\ count'[s] = count[s]
             /\ Registered(s)' = Registered(s)
  BY <1>2 DEF Frame, Registered
<1>3. ASSUME NEW s \in Segments
      PROVE  /\ s > segs' => ~sized'[s]
             /\ ~sized'[s] => state'[s] = "raw" /\ Registered(s)' = {} /\ count'[s] = 0
  <2>1. CASE s # fd[p] \/ UNCHANGED <<sized, state, procs, count>>
    BY <2>1, <1>1, <1>2 DEF IInv, FreshInv
  <2>2. CASE s = fd[p] /\ fd[p] \in 1..segs /\ sized'[fd[p]]
    BY <2>2, <1>1
  <2> QED BY <2>1, <2>2, Zenon
<1>4. ASSUME NEW q \in Pids, q # p
      PROVE  /\ pc'[q] = "truncate" => ~sized'[fd'[q]]
             /\ pc'[q] = "first" =>
                   state'[fd'[q]] = "raw" /\ Registered(fd[q])' = {} /\ count'[fd'[q]] = 0
             /\ pc'[q] \in Member \cup {"first", "check", "stale", "rest"} => sized'[fd'[q]]
  <2>1. pc'[q] = pc[q] /\ fd'[q] = fd[q]
    BY <1>4, Zenon DEF Frame
  <2>2. CASE pc[q] \in {"idle", "open", "zombie", "dead"}
    BY <2>1, <2>2, Zenon DEF Member
  <2>3. CASE pc[q] \notin {"idle", "open", "zombie", "dead"}
    <3>1. PICK s \in Segments : s = fd[q]
      BY <2>3, OpenSegment, Zenon DEF IInv
    <3>2. /\ pc[q] = "truncate" => ~sized[s]
          /\ pc[q] = "first" => state[s] = "raw" /\ Registered(s) = {} /\ count[s] = 0
          /\ pc[q] \in Member \cup {"first", "check", "stale", "rest"} => sized[s]
      BY <3>1, Zenon DEF IInv, FreshInv
    <3>3. Registered(fd[q])' = Registered(s)'
      BY <3>1, <2>1, Zenon DEF Registered
    <3>4. CASE s # fd[p] \/ UNCHANGED <<sized, state, procs, count>>
      BY <3>4, <3>1, <3>2, <3>3, <2>1, <1>2
    <3>5. CASE s = fd[p] /\ Alone(p) /\ sized'[fd[p]]
      <4>1. pc[q] \notin {"truncate", "first"}
        BY <3>5, <3>1, <1>4, Zenon DEF Alone, Locking
      <4> QED BY <4>1, <3>5, <3>1, <2>1, Zenon
    <3> QED BY <3>4, <3>5, Zenon
  <2> QED BY <2>2, <2>3, Zenon
<1>5. pc'[p] = "first" => Registered(fd[p])' = {}
  BY Zenon
<1> QED BY <1>3, <1>4, <1>5, Zenon DEF FreshInv

\* The pointers of config stay, and so does the process that is to set or free them.
LEMMA StateKept ==
    ASSUME IInv, NEW p \in Pids, Frame(p), UNCHANGED <<sized, state, count>>,
           \A s \in Segments : state[s] = "freed" /\ s # name => s # name',
           pc[p] \in {"clear", "unlink"} =>
              (pc'[p] \in {"clear", "unlink"} /\ fd'[p] = fd[p]) \/ (count[fd[p]] = 0 => name' # fd[p]),
           pc[p] \in {"first", "modules"} => pc'[p] \in {"first", "modules"} /\ fd'[p] = fd[p],
           pc'[p] \in {"join", "count", "attach", "in", "leave"} => fd'[p] = fd[p] /\ state[fd[p]] = "ready"
    PROVE  StateInv'
<1>1. ASSUME NEW s \in Segments, sized[s], state[s] = "raw"
      PROVE  \E q \in Pids : pc'[q] \in {"first", "modules"} /\ fd'[q] = s
  <2>1. PICK q \in Pids : pc[q] \in {"first", "modules"} /\ fd[q] = s
    BY <1>1, Zenon DEF IInv, StateInv
  <2> QED BY <2>1, Zenon DEF Frame
<1>2. ASSUME NEW q \in Pids, pc'[q] \in {"join", "count", "attach", "in", "leave"}
      PROVE  state[fd'[q]] = "ready"
  BY <1>2 DEF Frame, IInv, StateInv
<1>3. ASSUME NEW s \in Segments, state[s] = "freed"
      PROVE  count[s] = 0 /\ (s # name' \/ \E q \in Pids : pc'[q] \in {"clear", "unlink"} /\ fd'[q] = s)
  <2>1. count[s] = 0 /\ (s # name \/ \E q \in Pids : pc[q] \in {"clear", "unlink"} /\ fd[q] = s)
    BY <1>3, Zenon DEF IInv, StateInv
  <2>2. CASE s # name
    BY <1>3, <2>1, <2>2, Zenon
  <2>3. CASE \E q \in Pids : pc[q] \in {"clear", "unlink"} /\ fd[q] = s
    <3>1. PICK q \in Pids : pc[q] \in {"clear", "unlink"} /\ fd[q] = s
      BY <2>3, Zenon
    <3>2. CASE q = p
      BY <3>1, <3>2, <2>1, Zenon
    <3>3. CASE q # p
      BY <3>1, <3>3, <2>1, Zenon DEF Frame
    <3> QED BY <3>2, <3>3, Zenon
  <2> QED BY <2>1, <2>2, <2>3, Zenon
<1> QED BY <1>1, <1>2, <1>3, Zenon DEF StateInv

LEMMA CountKept ==
    ASSUME IInv, NEW p \in Pids, Frame(p), procs' = procs, count' = count,
           pc[p] \in Ahead <=> pc'[p] \in Ahead, pc[p] \in Ahead => fd'[p] = fd[p]
    PROVE  CountInv'
<1>1. ASSUME NEW s \in Segments PROVE IsAhead(s)' <=> IsAhead(s)
  BY Zenon DEF IsAhead, Frame
<1>2. ASSUME NEW s \in Segments PROVE Registered(s)' = Registered(s)
  BY Zenon DEF Registered
<1> QED BY <1>1, <1>2, Zenon DEF IInv, CountInv

LEMMA AllocKept ==
    ASSUME IInv, NEW p \in Pids, Frame(p), alloc' = alloc, pc[p] # "in", pc'[p] # "in"
    PROVE  AllocInv'
<1>1. ASSUME NEW s \in Segments PROVE InSlots(s)' = InSlots(s)
  BY DEF InSlots, Frame
<1> QED BY <1>1, Zenon DEF IInv, AllocInv

\* A process that takes a free slot of config->processes is registered there, and
\* the others stay as they were.
LEMMA EntryAdded ==
    ASSUME IInv, NEW p \in Pids, Frame(p), fd[p] \in Segments, UNCHANGED <<fd, run>>,
           pc[p] \notin Member \cup {"zombie", "dead"}, pc'[p] \in Member,
           NEW i \in Slots, slot'[p] = i, procs[fd[p]][i] = NULL,
           procs'[fd[p]] = [procs[fd[p]] EXCEPT ![i] = Self(p)]
    PROVE  EntryInv' /\ SlotInv' /\ \A s \in Segments : (HasLost(s) => HasLost(s)') /\ (HasGone(s) => HasGone(s)')
<1>1. /\ procs'[fd[p]][i] = Self(p)
      /\ \A s \in Segments, j \in Slots : s # fd[p] \/ j # i => procs'[s][j] = procs[s][j]
  BY DEF IInv, TypeOK, Frame
<1>2. Runs(p)
  BY Zenon DEF Runs
<1>3. ASSUME NEW s \in Segments
      PROVE  (HasLost(s) => HasLost(s)') /\ (HasGone(s) => HasGone(s)')
  BY <1>1, <1>2, <1>3, HasLostStays, Zenon DEF IInv
<1>4. ASSUME NEW s \in Segments, NEW j \in Slots, procs'[s][j] # NULL
      PROVE  \/ Lost(procs[s][j])'
             \/ LET e == procs'[s][j] IN
                e[2] = run'[e[1]] /\ pc'[e[1]] \in Member /\ fd'[e[1]] = s /\ slot'[e[1]] = j
  <2>1. CASE s = fd[p] /\ j = i
    <3>1. PICK e \in Processes : e = <<p, run[p]>> /\ procs'[s][j] = e
      BY <2>1, <1>1, Zenon DEF IInv, TypeOK, Self, Processes
    <3>2. e[1] = p /\ e[2] = run[p]
      BY <3>1
    <3> QED BY <2>1, <3>1, <3>2, Zenon
  <2>2. CASE s # fd[p] \/ j # i
    <3>1. PICK e \in Processes : e = procs[s][j] /\ procs'[s][j] = e /\ e # NULL
      BY <1>1, <1>4, <2>2, Entries DEF IInv
    <3>2. e[1] \in Pids
      BY <3>1, Zenon DEF Processes
    <3>3. Lost(e) \/ (e[2] = run[e[1]] /\ pc[e[1]] \in Member /\ fd[e[1]] = s /\ slot[e[1]] = j)
      BY <3>1 DEF IInv, EntryInv
    <3>4. CASE Lost(e)
      <4>1. Lost(e)'
        BY <1>2, <3>4, LostStays, Zenon DEF IInv
      <4> QED BY <4>1, <3>1, Zenon DEF Lost
    <3>5. CASE e[2] = run[e[1]] /\ pc[e[1]] \in Member /\ fd[e[1]] = s /\ slot[e[1]] = j
      BY <3>1, <3>2, <3>5 DEF Frame
    <3> QED BY <3>3, <3>4, <3>5, Zenon
  <2> QED BY <2>1, <2>2, Zenon
<1>5. ASSUME NEW q \in Pids, q # p, pc'[q] \in Member
      PROVE  slot'[q] \in Slots /\ procs'[fd'[q]][slot'[q]] = Self(q)'
  <2>1. pc[q] \in Member /\ slot'[q] = slot[q] /\ fd'[q] = fd[q]
    BY <1>5, Zenon DEF Frame
  <2>2. slot[q] \in Slots /\ procs[fd[q]][slot[q]] = Self(q) /\ Self(q) \in Processes
    BY <2>1, Zenon DEF IInv, SlotInv, TypeOK, Self, Processes
  <2>3. fd[q] \in Segments
    BY <2>1, OpenSegment, Zenon DEF IInv, Member
  <2>4. fd[q] # fd[p] \/ slot[q] # i
    BY <2>2, SharedMemoryAssumption, Zenon
  <2> QED BY <2>1, <2>2, <2>3, <2>4, <1>1 DEF Self
<1>6. SlotInv'
  <2>1. procs'[fd'[p]][slot'[p]] = Self(p)'
    BY <1>1, Zenon DEF Self
  <2> QED BY <1>1, <1>5, <2>1, Zenon DEF IInv, SlotInv, Frame, Member
<1> QED BY <1>3, <1>4, <1>6, Zenon DEF EntryInv

\* Two registered processes of a segment have different slots.
LEMMA OwnSlot ==
    ASSUME IInv, NEW p \in Pids, NEW q \in Pids, pc[p] \in Member, pc[q] \in Member,
           fd[p] = fd[q], slot[p] = slot[q]
    PROVE  p = q
BY DEF IInv, SlotInv, Self

\* The slot of a registered process is taken.
LEMMA SlotTaken ==
    ASSUME IInv, NEW p \in Pids, pc[p] \in Member
    PROVE  slot[p] \in Registered(fd[p]) /\ slot[p] \in Slots /\ procs[fd[p]][slot[p]] = Self(p)
<1>1. Self(p) # NULL
  BY SharedMemoryAssumption DEF IInv, TypeOK, Self, Processes
<1> QED BY <1>1, Zenon DEF IInv, SlotInv, Registered

\* A step that leaves the segment alone but for its lock, and does not take or
\* give back a slot or a logical pid.
LockUsed(p) ==
    \/ lock' = lock /\ (pc[p] \in Locking <=> pc'[p] \in Locking) /\ (pc[p] \in Locking => fd'[p] = fd[p])
    \/ fd[p] \in Segments /\ fd'[p] = fd[p] /\ lock[fd[p]] = NULL /\ lock'[fd[p]] = p /\ pc'[p] \in Locking
    \/ pc[p] \in Locking /\ lock'[fd[p]] = NULL /\ pc'[p] \notin Locking

Quiet(p) ==
    /\ Frame(p) /\ Runs(p) /\ LockUsed(p)
    /\ UNCHANGED <<name, segs, sized, state, procs, count, alloc>>
    /\ \A s \in broken' : s \in broken \/ HasGone(s)'
    /\ IF pc'[p] \in {"idle", "open", "zombie", "dead"} THEN fd'[p] = NULL ELSE fd'[p] = fd[p] /\ fd[p] \in 1..segs
    /\ pc[p] \in Member =>
          run'[p] = run[p] /\ (pc'[p] = "zombie" \/ (pc'[p] \in Member /\ slot'[p] = slot[p]))
    /\ pc'[p] \in Member => pc[p] \in Member /\ state[fd[p]] = "ready" /\ sized[fd[p]]
    /\ pc[p] \in Ahead <=> pc'[p] \in Ahead
    /\ pc'[p] \in {"open", "opened", "stat", "truncate", "check", "stale", "rest"} => slot'[p] = NULL
    /\ pc'[p] \in Naming => fd[p] = name
    /\ pc'[p] \in {"check", "stale", "rest"} => sized[fd[p]]
    /\ pc'[p] = "truncate" => ~sized[fd[p]]
    /\ pc'[p] = "stale" => HasLost(fd[p])
    /\ pc[p] \notin {"first", "modules", "in", "clear"}
    /\ pc'[p] \notin {"first", "modules", "in", "clear", "unlink"}
    /\ pc[p] = "unlink" => count[fd[p]] # 0

LEMMA QuietKeeps ==
    ASSUME IInv, TypeOK', NEW p \in Pids, Quiet(p) PROVE IInv'
<1>1. /\ Frame(p) /\ Runs(p) /\ LockUsed(p) /\ segs \in Nat /\ segs' >= segs
      /\ UNCHANGED <<name, segs, sized, state, procs, count, alloc>>
      /\ \A s \in broken' : s \in broken \/ HasGone(s)'
  BY SharedMemoryAssumption DEF Quiet, IInv, TypeOK
<1>2. pc'[p] \notin {"idle", "open", "zombie", "dead"} => fd'[p] = fd[p] /\ fd[p] \in Segments
  BY SharedMemoryAssumption DEF Quiet, Segments, IInv, TypeOK
<1>3. EntryInv' /\ \A s \in Segments : (HasLost(s) => HasLost(s)') /\ (HasGone(s) => HasGone(s)')
  BY <1>1, EntriesKept, Zenon DEF Quiet, Member
<1>4. FdInv'
  BY <1>1, FdKept, Zenon DEF Quiet
<1>5. LockInv'
  BY <1>1, LockKept, LockTaken, LockReleased, Zenon DEF LockUsed
<1>6. SlotInv'
  <2>1. pc'[p] \in Member => pc[p] \in Member /\ fd'[p] = fd[p] /\ slot'[p] = slot[p] /\ run'[p] = run[p]
    BY Zenon DEF Quiet, Member
  <2>2. pc'[p] \in {"open", "opened", "stat", "truncate", "first", "check", "stale", "rest"} => slot'[p] = NULL
    BY Zenon DEF Quiet
  <2> QED BY <1>1, <2>1, <2>2, SlotKept, Zenon
<1>7. NameInv'
  <2>1. pc'[p] = "stale" => HasLost(fd[p])' /\ fd'[p] \in Segments /\ fd'[p] = fd[p]
    <3> SUFFICES ASSUME pc'[p] = "stale" PROVE HasLost(fd[p])' /\ fd'[p] \in Segments /\ fd'[p] = fd[p]
      BY Zenon
    <3>1. PICK s \in Segments : s = fd[p] /\ fd'[p] = s /\ HasLost(s)
      BY <1>2, Zenon DEF Quiet
    <3>2. HasLost(s)'
      BY <3>1, <1>3, Zenon
    <3> QED BY <3>1, <3>2, Zenon DEF HasLost
  <2> QED BY <1>1, <1>2, <1>3, <2>1, NameKept, Zenon DEF Quiet, Naming, Member
<1>8. FreshInv'
  BY <1>1, <1>2, FreshKept, Zenon DEF Quiet, Member
<1>9. StateInv'
  BY <1>1, <1>2, StateKept, Zenon DEF Quiet, Member
<1>10. CountInv'
  BY <1>1, <1>2, CountKept, Zenon DEF Quiet, Ahead
<1>11. BrokenInv' /\ AllocInv'
  BY <1>1, <1>3, BrokenKept, AllocKept, Zenon DEF Quiet
<1> QED BY <1>3, <1>4, <1>5, <1>6, <1>7, <1>8, <1>9, <1>10, <1>11, Zenon DEF IInv
-----------------------------------------------------------------------------
(***************************************************************************)
(* The steps that leave the segment alone.                                 *)
(***************************************************************************)
LEMMA NosvInitStep ==
    ASSUME IInv, NEW p \in Pids, NosvInit(p), ~Reinit PROVE IInv'
<1>s. fd[p] = NULL /\ pc[p] = "idle" /\ slot[p] = NULL /\ segs \in Nat
  BY SharedMemoryAssumption DEF IInv, TypeOK, FdInv, NosvInit
<1>1. TypeOK'
  BY <1>s DEF IInv, TypeOK, NosvInit, Goto, segvars
<1>f. Frame(p)
  BY <1>s, Zenon DEF IInv, TypeOK, NosvInit, Goto, Frame, segvars
<1>a. /\ pc'[p] = "open" /\ UNCHANGED <<fd, slot, run, broken>>
      /\ UNCHANGED <<name, segs, sized, state, procs, count, alloc, lock>>
  BY <1>s, Zenon DEF IInv, TypeOK, NosvInit, Goto, segvars
<1>q. Quiet(p)
  BY <1>s, <1>f, <1>a, Zenon DEF Quiet, LockUsed, Runs, Locking, Naming, Member, Ahead
<1> QED BY <1>1, <1>q, QuietKeeps, Zenon

LEMMA LockStep ==
    ASSUME IInv, NEW p \in Pids, Lock(p) PROVE IInv'
<1>s. fd[p] \in 1..segs /\ fd[p] \in Segments /\ pc[p] = "opened" /\ segs \in Nat
  BY OpenSegment, Zenon DEF IInv, Lock
<1>b. slot[p] = NULL
  BY <1>s, SharedMemoryAssumption, Zenon DEF IInv, SlotInv
<1>1. TypeOK'
  BY <1>s, Zenon DEF IInv, TypeOK, Lock, Goto
<1>f. Frame(p)
  BY <1>s, Zenon DEF IInv, TypeOK, Lock, Goto, Frame
<1>a. /\ pc'[p] = "stat" /\ UNCHANGED <<fd, slot, run, broken>>
      /\ UNCHANGED <<name, segs, sized, state, procs, count, alloc>>
      /\ lock[fd[p]] = NULL /\ lock'[fd[p]] = p
  BY <1>s, Zenon DEF IInv, TypeOK, Lock, Goto
<1>q. Quiet(p)
  BY <1>s, <1>b, <1>f, <1>a, Zenon DEF Quiet, LockUsed, Runs, Locking, Naming, Member, Ahead
<1> QED BY <1>1, <1>q, QuietKeeps, Zenon

LEMMA StatUnlinked ==
    ASSUME IInv, NEW p \in Pids, Stat(p), name # fd[p] PROVE IInv'
<1>s. fd[p] \in 1..segs /\ fd[p] \in Segments /\ pc[p] = "stat" /\ segs \in Nat
  BY OpenSegment, Zenon DEF IInv, Stat
<1>b. slot[p] = NULL
  BY <1>s, SharedMemoryAssumption, Zenon DEF IInv, SlotInv
<1>1. TypeOK'
  BY <1>s, Zenon DEF IInv, TypeOK, Stat, Goto, Close
<1>f. Frame(p)
  BY <1>s, Zenon DEF IInv, TypeOK, Stat, Goto, Frame, Close
<1>a. /\ pc'[p] = "open" /\ fd'[p] = NULL /\ lock'[fd[p]] = NULL
      /\ UNCHANGED <<slot, run, name, segs, sized, state, procs, count, alloc, broken>>
  BY <1>s, Zenon DEF IInv, TypeOK, Stat, Goto, Close
<1>q. Quiet(p)
  BY <1>s, <1>b, <1>f, <1>a, Zenon DEF Quiet, LockUsed, Runs, Locking, Naming, Member, Ahead
<1> QED BY <1>1, <1>q, QuietKeeps, Zenon

LEMMA StatNamed ==
    ASSUME IInv, NEW p \in Pids, Stat(p), name = fd[p] PROVE IInv'
<1>s. fd[p] \in 1..segs /\ fd[p] \in Segments /\ pc[p] = "stat" /\ segs \in Nat
  BY OpenSegment, Zenon DEF IInv, Stat
<1>b. slot[p] = NULL
  BY <1>s, SharedMemoryAssumption, Zenon DEF IInv, SlotInv
<1>1. TypeOK'
  BY <1>s, Zenon DEF IInv, TypeOK, Stat, Goto
<1>f. Frame(p)
  BY <1>s, Zenon DEF IInv, TypeOK, Stat, Goto, Frame
<1>a. /\ pc'[p] = IF sized[fd[p]] THEN "check" ELSE "truncate"
      /\ UNCHANGED <<fd, slot, run, broken>> /\ UNCHANGED <<name, segs, sized, state, procs, count, alloc, lock>>
  BY <1>s, Zenon DEF IInv, TypeOK, Stat, Goto
<1>q. Quiet(p)
  BY <1>s, <1>b, <1>f, <1>a, Zenon DEF Quiet, LockUsed, Runs, Locking, Naming, Member, Ahead
<1> QED BY <1>1, <1>q, QuietKeeps, Zenon

LEMMA CheckStep ==
    ASSUME IInv, NEW p \in Pids, Check(p) PROVE IInv'
<1>s. fd[p] \in 1..segs /\ fd[p] \in Segments /\ pc[p] = "check" /\ segs \in Nat
  BY OpenSegment, Zenon DEF IInv, Check
<1>b. sized[fd[p]] /\ slot[p] = NULL /\ name = fd[p]
  BY <1>s, SharedMemoryAssumption, Zenon DEF IInv, SlotInv, FreshInv, NameInv, Naming
<1>1. TypeOK'
  BY <1>s, Zenon DEF IInv, TypeOK, Check, Goto, segvars
<1>f. Frame(p)
  BY <1>s, Zenon DEF IInv, TypeOK, Check, Goto, Frame, segvars
<1>a. /\ pc'[p] \in {"rest", "stale"} /\ UNCHANGED <<fd, slot, run, broken>>
      /\ UNCHANGED <<name, segs, sized, state, procs, count, alloc, lock>>
  BY <1>s, Zenon DEF IInv, TypeOK, Check, Goto, segvars
<1>h. pc'[p] = "stale" => HasLost(fd[p])
  <2> SUFFICES ASSUME pc'[p] = "stale" PROVE HasLost(fd[p])
    BY Zenon
  <2>1. ~ProcessesCorrect(fd[p])
    BY <1>s, Zenon DEF IInv, TypeOK, Check, Goto
  <2>2. PICK i \in Slots : /\ procs[fd[p]][i] # NULL
                           /\ \/ pc[procs[fd[p]][i][1]] = "dead"
                              \/ run[procs[fd[p]][i][1]] # procs[fd[p]][i][2]
    BY <2>1, Zenon DEF ProcessesCorrect
  <2>3. Lost(procs[fd[p]][i])
    BY <1>s, <2>2, Zenon DEF IInv, EntryInv, Member
  <2> QED BY <2>2, <2>3, Zenon DEF HasLost
<1>q. Quiet(p)
  BY <1>s, <1>b, <1>f, <1>a, <1>h, Zenon DEF Quiet, LockUsed, Runs, Locking, Naming, Member, Ahead
<1> QED BY <1>1, <1>q, QuietKeeps, Zenon

LEMMA InitRestStep ==
    ASSUME IInv, NEW p \in Pids, InitRest(p) PROVE IInv'
<1>s. fd[p] \in 1..segs /\ fd[p] \in Segments /\ pc[p] = "join" /\ segs \in Nat
  BY OpenSegment, Zenon DEF IInv, InitRest
<1>b. sized[fd[p]] /\ name = fd[p] /\ state[fd[p]] = "ready"
  BY <1>s, Zenon DEF IInv, FreshInv, NameInv, StateInv, Naming, Member
<1>1. TypeOK'
  BY <1>s, Zenon DEF IInv, TypeOK, InitRest, Goto, segvars
<1>f. Frame(p)
  BY <1>s, Zenon DEF IInv, TypeOK, InitRest, Goto, Frame, segvars
<1>a. /\ pc'[p] = "count" /\ UNCHANGED <<fd, slot, run, broken>>
      /\ UNCHANGED <<name, segs, sized, state, procs, count, alloc, lock>>
  BY <1>s, Zenon DEF IInv, TypeOK, InitRest, Goto, segvars
<1>q. Quiet(p)
  BY <1>s, <1>b, <1>f, <1>a, Zenon DEF Quiet, LockUsed, Runs, Locking, Naming, Member, Ahead
<1> QED BY <1>1, <1>q, QuietKeeps, Zenon

LEMMA AbortRestStep ==
    ASSUME IInv, NEW p \in Pids, AbortRest(p) PROVE IInv'
<1>s. fd[p] \in 1..segs /\ fd[p] \in Segments /\ pc[p] = "rest" /\ segs \in Nat
  BY OpenSegment, Zenon DEF IInv, AbortRest
<1>1. TypeOK'
  BY <1>s, Zenon DEF IInv, TypeOK, AbortRest, Goto, Close
<1>f. Frame(p)
  BY <1>s, Zenon DEF IInv, TypeOK, AbortRest, Goto, Frame, Close
<1>a. /\ pc'[p] = "zombie" /\ fd'[p] = NULL /\ lock'[fd[p]] = NULL
      /\ UNCHANGED <<slot, run, name, segs, sized, state, procs, count, alloc, broken>>
  BY <1>s, Zenon DEF IInv, TypeOK, AbortRest, Goto, Close
<1>q. Quiet(p)
  BY <1>s, <1>f, <1>a, Zenon DEF Quiet, LockUsed, Runs, Locking, Naming, Member, Ahead
<1> QED BY <1>1, <1>q, QuietKeeps, Zenon

LEMMA PidRegisterAborts ==
    ASSUME IInv, NEW p \in Pids, PidRegister(p), ~(alloc[fd[p]] < MaxPids) PROVE IInv'
<1>s. fd[p] \in 1..segs /\ fd[p] \in Segments /\ pc[p] = "attach" /\ segs \in Nat
  BY OpenSegment, Zenon DEF IInv, PidRegister
<1>1. TypeOK'
  BY <1>s DEF IInv, TypeOK, PidRegister, Goto
<1>f. Frame(p)
  BY <1>s, Zenon DEF IInv, TypeOK, PidRegister, Goto, Frame
<1>a. /\ pc'[p] = "zombie" /\ fd'[p] = NULL /\ slot'[p] = NULL
      /\ UNCHANGED <<run, name, segs, sized, state, procs, count, alloc, lock, broken>>
  BY <1>s, Zenon DEF IInv, TypeOK, PidRegister, Goto
<1>q. Quiet(p)
  BY <1>s, <1>f, <1>a, Zenon DEF Quiet, LockUsed, Runs, Locking, Naming, Member, Ahead
<1> QED BY <1>1, <1>q, QuietKeeps, Zenon

LEMMA UnlinkOther ==
    ASSUME IInv, NEW p \in Pids, Unlink(p), count[fd[p]] # 0 PROVE IInv'
<1>s. fd[p] \in 1..segs /\ fd[p] \in Segments /\ pc[p] = "unlink" /\ segs \in Nat
  BY OpenSegment, Zenon DEF IInv, Unlink
<1>1. TypeOK'
  BY <1>s, Zenon DEF IInv, TypeOK, Unlink, Goto, Close
<1>f. Frame(p)
  BY <1>s, Zenon DEF IInv, TypeOK, Unlink, Goto, Frame, Close
<1>a. /\ pc'[p] = "idle" /\ fd'[p] = NULL /\ lock'[fd[p]] = NULL
      /\ UNCHANGED <<slot, run, name, segs, sized, state, procs, count, alloc, broken>>
  BY <1>s, Zenon DEF IInv, TypeOK, Unlink, Goto, Close
<1>q. Quiet(p)
  BY <1>s, <1>f, <1>a, Zenon DEF Quiet, LockUsed, Runs, Locking, Naming, Member, Ahead
<1> QED BY <1>1, <1>q, QuietKeeps, Zenon

LEMMA ReapStep ==
    ASSUME IInv, NEW p \in Pids, Reap(p) PROVE IInv'
<1>s. fd[p] = NULL /\ pc[p] = "zombie" /\ segs \in Nat
  BY SharedMemoryAssumption DEF IInv, TypeOK, FdInv, Reap
<1>1. TypeOK'
  BY <1>s, Zenon DEF IInv, TypeOK, Reap, Goto, segvars
<1>f. Frame(p)
  BY <1>s, Zenon DEF IInv, TypeOK, Reap, Goto, Frame, segvars
<1>a. /\ pc'[p] = "dead" /\ UNCHANGED <<fd, slot, run>>
      /\ broken' = broken \cup {s \in Segments : \E i \in Slots : procs[s][i] = Self(p)}
      /\ UNCHANGED <<name, segs, sized, state, procs, count, alloc, lock>>
  BY <1>s, Zenon DEF IInv, TypeOK, Reap, Goto, segvars
<1>b. ASSUME NEW s \in Segments, NEW i \in Slots, procs[s][i] = Self(p) PROVE HasGone(s)'
  <2>1. <<p, run[p]>> \in Processes
    BY Zenon DEF IInv, TypeOK, Processes
  <2>2. procs'[s][i] = <<p, run[p]>>
    BY <1>a, <1>b, Zenon DEF Self
  <2>3. PICK e \in Processes : e = <<p, run[p]>> /\ procs'[s][i] = e /\ e # NULL
    BY <2>1, <2>2, SharedMemoryAssumption, Zenon
  <2>4. e[1] = p /\ e[2] = run[p]
    BY <2>3
  <2>5. Gone(e)'
    BY <1>a, <2>3, <2>4, Zenon DEF Gone
  <2> QED BY <2>3, <2>5, Zenon DEF HasGone, Gone
<1>c. \A s \in broken' : s \in broken \/ HasGone(s)'
  BY <1>a, <1>b, Zenon
<1>q. Quiet(p)
  BY <1>s, <1>f, <1>a, <1>c, Zenon DEF Quiet, LockUsed, Runs, Locking, Naming, Member, Ahead
<1> QED BY <1>1, <1>q, QuietKeeps, Zenon

LEMMA ReuseStep ==
    ASSUME IInv, NEW p \in Pids, Reuse(p) PROVE IInv'
<1>s. fd[p] = NULL /\ pc[p] \in {"idle", "dead"} /\ segs \in Nat /\ run[p] \in Nat
  BY SharedMemoryAssumption DEF IInv, TypeOK, FdInv, Reuse
<1>1. TypeOK'
  <2>1. run[p] + 1 \in 1..MaxRuns
    BY <1>s, SharedMemoryAssumption DEF IInv, TypeOK, Reuse
  <2> QED BY <1>s, <2>1, Zenon DEF IInv, TypeOK, Reuse, Goto, segvars
<1>f. Frame(p)
  BY <1>s, Zenon DEF IInv, TypeOK, Reuse, Goto, Frame, segvars
<1>a. /\ pc'[p] = "idle" /\ slot'[p] = NULL /\ run'[p] = run[p] + 1 /\ UNCHANGED <<fd, broken>>
      /\ UNCHANGED <<name, segs, sized, state, procs, count, alloc, lock>>
  BY <1>s, Zenon DEF IInv, TypeOK, Reuse, Goto, segvars
<1>q. Quiet(p)
  BY <1>s, <1>f, <1>a, Zenon DEF Quiet, LockUsed, Runs, Locking, Naming, Member, Ahead
<1> QED BY <1>1, <1>q, QuietKeeps, Zenon
-----------------------------------------------------------------------------
(***************************************************************************)
(* Those that initialise it or take its name away.                         *)
(***************************************************************************)
LEMMA OpenStep ==
    ASSUME IInv, NEW p \in Pids, Open(p) PROVE IInv'
<1>s. fd[p] = NULL /\ pc[p] = "open" /\ segs \in Nat /\ slot[p] = NULL
  BY SharedMemoryAssumption DEF IInv, TypeOK, FdInv, SlotInv, Open
<1>n. \/ name' = name /\ segs' = segs /\ name \in 1..segs
      \/ name = NULL /\ name' = segs + 1 /\ segs' = segs + 1 /\ segs + 1 \in Segments
  BY <1>s, SharedMemoryAssumption DEF IInv, TypeOK, NameInv, Open, Segments
<1>r. /\ segs \in Nat /\ segs <= MaxSegments /\ MaxSegments \in Nat
      /\ Segments = 1..MaxSegments /\ NULL \notin Segments
  BY SharedMemoryAssumption DEF IInv, TypeOK, Segments
<1>1. TypeOK'
  <2>1. name' \in Segments /\ segs' \in 0..MaxSegments
    BY <1>r, <1>n
  <2> QED BY <2>1, Zenon DEF IInv, TypeOK, Open, Goto
<1>f. Frame(p)
  BY <1>s, Zenon DEF IInv, TypeOK, Open, Goto, Frame
<1>d. /\ pc'[p] = "opened" /\ fd'[p] = name' /\ name' \in 1..segs' /\ segs' >= segs
      /\ UNCHANGED <<slot, run, sized, state, procs, count, alloc, lock, broken>>
  BY <1>s, <1>n DEF IInv, TypeOK, Open, Goto
<1>a. /\ TypeOK' /\ Frame(p)
      /\ fd[p] = NULL /\ pc[p] = "open" /\ segs \in Nat /\ slot[p] = NULL
      /\ segs' >= segs
      /\ pc'[p] = "opened" /\ fd'[p] = name' /\ name' \in 1..segs' /\ segs' >= segs
      /\ UNCHANGED <<slot, run, sized, state, procs, count, alloc, lock, broken>>
  BY <1>s, <1>1, <1>f, <1>d, Zenon
<1>5. EntryInv' /\ \A s \in Segments : (HasLost(s) => HasLost(s)') /\ (HasGone(s) => HasGone(s)')
  BY <1>a, EntriesKept, Zenon DEF Member, Runs
<1>2. FdInv'
  BY <1>a, FdKept, Zenon
<1>3. LockInv'
  BY <1>a, LockKept, Zenon DEF Locking
<1>4. SlotInv'
  BY <1>a, SlotKept, Zenon DEF Member
<1>6. NameInv'
  <2>1. ASSUME NEW q \in Pids, pc'[q] \in Naming PROVE name' = fd'[q] /\ name' = name
    <3>1. q # p /\ pc[q] \in Naming /\ fd'[q] = fd[q] /\ pc[q] = pc'[q]
      BY <1>a, <2>1, Zenon DEF Frame, Naming
    <3>2. name = fd[q]
      BY <3>1, Zenon DEF IInv, NameInv
    <3>3. fd[q] # NULL
      BY <3>1, OpenSegment, Zenon DEF IInv, Naming
    <3> QED BY <3>1, <3>2, <3>3, <1>n, Zenon
  <2>2. ASSUME NEW q \in Pids, pc'[q] = "stale" PROVE HasLost(fd[q])'
    <3>1. pc[q] = "stale" /\ fd'[q] = fd[q] /\ HasLost(fd[q])
      BY <1>a, <2>2, Zenon DEF Frame, IInv, NameInv
    <3>2. PICK s \in Segments : s = fd[q]
      BY <3>1, OpenSegment, Zenon DEF IInv
    <3>3. HasLost(s)'
      BY <3>1, <3>2, <1>5, Zenon
    <3> QED BY <3>1, <3>2, <3>3, Zenon DEF HasLost
  <2>3. ASSUME NEW s \in 1..segs', s # name'
        PROVE  HasLost(s)' \/ \A q \in Pids : fd'[q] = s => pc'[q] \notin Member \cup {"unlink"}
    <3>1. s \in 1..segs /\ s # name /\ s \in Segments
      BY <2>3, <1>r, <1>n
    <3>2. HasLost(s) \/ \A q \in Pids : fd[q] = s => pc[q] \notin Member \cup {"unlink"}
      BY <3>1, Zenon DEF IInv, NameInv
    <3> QED BY <1>a, <3>1, <3>2, <1>5, Zenon DEF Frame, Member
  <2> QED BY <1>a, <2>1, <2>2, <2>3, Zenon DEF NameInv
<1>7. FreshInv'
  BY <1>a, FreshKept, Zenon DEF Member
<1>8. StateInv'
  <2>1. ASSUME NEW s \in Segments, state[s] = "freed", s # name PROVE s # name'
    <3>1. sized[s]
      BY <2>1, Zenon DEF IInv, TypeOK, FreshInv
    <3>2. ~(s > segs)
      BY <3>1, Zenon DEF IInv, FreshInv
    <3> QED BY <1>a, <2>1, <3>2, <1>n
  <2> QED BY <1>a, <2>1, StateKept, Zenon
<1>9. CountInv'
  BY <1>a, CountKept, Zenon DEF Ahead
<1>10. BrokenInv'
  BY <1>a, <1>5, BrokenKept, Zenon
<1>11. AllocInv'
  BY <1>a, AllocKept, Zenon
<1> QED BY <1>a, <1>2, <1>3, <1>4, <1>5, <1>6, <1>7, <1>8, <1>9, <1>10, <1>11, Zenon DEF IInv

LEMMA TruncateStep ==
    ASSUME IInv, NEW p \in Pids, Truncate(p) PROVE IInv'
<1>s. fd[p] \in 1..segs /\ fd[p] \in Segments /\ pc[p] = "truncate" /\ segs \in Nat
  BY OpenSegment, Zenon DEF IInv, Truncate
<1>b. /\ ~sized[fd[p]] /\ slot[p] = NULL /\ name = fd[p]
      /\ state[fd[p]] = "raw" /\ Registered(fd[p]) = {} /\ count[fd[p]] = 0
  BY <1>s, SharedMemoryAssumption, Zenon DEF IInv, SlotInv, FreshInv, NameInv, Naming
<1>1. TypeOK'
  BY <1>s, Zenon DEF IInv, TypeOK, Truncate, Goto
<1>f. Frame(p)
  BY <1>s, Zenon DEF IInv, TypeOK, Truncate, Goto, Frame
<1>d. /\ pc'[p] = "first" /\ sized'[fd[p]] /\ UNCHANGED <<fd, slot, run, broken>>
      /\ UNCHANGED <<name, segs, state, procs, count, alloc, lock>>
  BY <1>s, Zenon DEF IInv, TypeOK, Truncate, Goto
<1>a. /\ TypeOK' /\ Frame(p)
      /\ fd[p] \in 1..segs /\ fd[p] \in Segments /\ pc[p] = "truncate" /\ segs \in Nat
      /\ ~sized[fd[p]] /\ slot[p] = NULL /\ name = fd[p]
      /\ state[fd[p]] = "raw" /\ Registered(fd[p]) = {} /\ count[fd[p]] = 0
      /\ segs' >= segs
      /\ pc'[p] = "first" /\ sized'[fd[p]] /\ UNCHANGED <<fd, slot, run, broken>>
      /\ UNCHANGED <<name, segs, state, procs, count, alloc, lock>>
  BY <1>s, <1>b, <1>1, <1>f, <1>d
<1>5. EntryInv' /\ \A s \in Segments : (HasLost(s) => HasLost(s)') /\ (HasGone(s) => HasGone(s)')
  BY <1>a, EntriesKept, Zenon DEF Member, Runs
<1>2. FdInv'
  BY <1>a, FdKept, Zenon
<1>3. LockInv'
  BY <1>a, LockKept, Zenon DEF Locking
<1>4. SlotInv'
  BY <1>a, SlotKept, Zenon DEF Member
<1>6. NameInv'
  BY <1>a, <1>5, NameKept, Zenon DEF Naming, Member
<1>7. FreshInv'
  <2>1. Alone(p)
    BY <1>a, LockMakesAlone, Zenon DEF Locking
  <2>2. Registered(fd[p])' = {}
    BY <1>a, Zenon DEF Registered
  <2> QED BY <1>a, <2>1, <2>2, FreshKept, Zenon DEF Member
<1>8. StateInv'
  <2>1. ASSUME NEW s \in Segments, sized'[s], state'[s] = "raw"
        PROVE  \E q \in Pids : pc'[q] \in {"first", "modules"} /\ fd'[q] = s
    <3>1. CASE s = fd[p]
      BY <1>a, <3>1, Zenon
    <3>2. CASE s # fd[p]
      <4>1. PICK q \in Pids : pc[q] \in {"first", "modules"} /\ fd[q] = s
        BY <1>a, <2>1, <3>2, Zenon DEF IInv, StateInv, Frame
      <4> QED BY <1>a, <4>1, <3>2, Zenon DEF Frame
    <3> QED BY <3>1, <3>2, Zenon
  <2>2. ASSUME NEW q \in Pids, pc'[q] \in {"join", "count", "attach", "in", "leave"}
        PROVE  state'[fd'[q]] = "ready"
    BY <1>a, <2>2, Zenon DEF Frame, IInv, StateInv
  <2>3. ASSUME NEW s \in Segments, state'[s] = "freed"
        PROVE  /\ count'[s] = 0
               /\ s # name' \/ \E q \in Pids : pc'[q] \in {"clear", "unlink"} /\ fd'[q] = s
    <3>1. count[s] = 0 /\ (s # name \/ \E q \in Pids : pc[q] \in {"clear", "unlink"} /\ fd[q] = s)
      BY <1>a, <2>3, Zenon DEF IInv, StateInv
    <3> QED BY <1>a, <3>1, Zenon DEF Frame
  <2> QED BY <2>1, <2>2, <2>3, Zenon DEF StateInv
<1>9. CountInv'
  BY <1>a, CountKept, Zenon DEF Ahead
<1>10. BrokenInv'
  BY <1>a, <1>5, BrokenKept, Zenon
<1>11. AllocInv'
  BY <1>a, AllocKept, Zenon
<1> QED BY <1>a, <1>2, <1>3, <1>4, <1>5, <1>6, <1>7, <1>8, <1>9, <1>10, <1>11, Zenon DEF IInv

LEMMA InitFirstStep ==
    ASSUME IInv, NEW p \in Pids, InitFirst(p) PROVE IInv'
<1>s. fd[p] \in 1..segs /\ fd[p] \in Segments /\ pc[p] = "modules" /\ segs \in Nat
  BY OpenSegment, Zenon DEF IInv, InitFirst
<1>b. sized[fd[p]] /\ name = fd[p]
  BY <1>s, Zenon DEF IInv, FreshInv, NameInv, Naming, Member
<1>1. TypeOK'
  BY <1>s, Zenon DEF IInv, TypeOK, InitFirst, Goto
<1>f. Frame(p)
  BY <1>s, Zenon DEF IInv, TypeOK, InitFirst, Goto, Frame
<1>d. /\ pc'[p] = "count" /\ state'[fd[p]] = "ready" /\ UNCHANGED <<fd, slot, run, broken>>
      /\ UNCHANGED <<name, segs, sized, procs, count, alloc, lock>>
  BY <1>s, Zenon DEF IInv, TypeOK, InitFirst, Goto
<1>a. /\ TypeOK' /\ Frame(p)
      /\ fd[p] \in 1..segs /\ fd[p] \in Segments /\ pc[p] = "modules" /\ segs \in Nat
      /\ sized[fd[p]] /\ name = fd[p]
      /\ segs' >= segs
      /\ pc'[p] = "count" /\ state'[fd[p]] = "ready" /\ UNCHANGED <<fd, slot, run, broken>>
      /\ UNCHANGED <<name, segs, sized, procs, count, alloc, lock>>
  BY <1>s, <1>b, <1>1, <1>f, <1>d
<1>5. EntryInv' /\ \A s \in Segments : (HasLost(s) => HasLost(s)') /\ (HasGone(s) => HasGone(s)')
  BY <1>a, EntriesKept, Zenon DEF Member, Runs
<1>2. FdInv'
  BY <1>a, FdKept, Zenon
<1>3. LockInv'
  BY <1>a, LockKept, Zenon DEF Locking
<1>4. SlotInv'
  BY <1>a, SlotKept, Zenon DEF Member
<1>6. NameInv'
  BY <1>a, <1>5, NameKept, Zenon DEF Naming, Member
<1>7. FreshInv'
  <2>1. Alone(p)
    BY <1>a, LockMakesAlone, Zenon DEF Locking
  <2> QED BY <1>a, <2>1, FreshKept, Zenon DEF Member
<1>8. StateInv'
  <2>1. ASSUME NEW s \in Segments, sized'[s], state'[s] = "raw"
        PROVE  \E q \in Pids : pc'[q] \in {"first", "modules"} /\ fd'[q] = s
    <3>1. s # fd[p]
      BY <1>a, <2>1, Zenon
    <3>2. PICK q \in Pids : pc[q] \in {"first", "modules"} /\ fd[q] = s
      BY <1>a, <2>1, <3>1 DEF IInv, StateInv, Frame
    <3> QED BY <1>a, <3>1, <3>2, Zenon DEF Frame
  <2>2. ASSUME NEW q \in Pids, pc'[q] \in {"join", "count", "attach", "in", "leave"}
        PROVE  state'[fd'[q]] = "ready"
    <3>1. CASE fd[q] = fd[p]
      BY <1>a, <3>1, Zenon
    <3>2. CASE fd[q] # fd[p]
      <4>1. pc[q] = pc'[q] /\ fd'[q] = fd[q]
        BY <1>a, <3>2, Zenon DEF Frame
      <4>2. fd[q] \in Segments
        BY <4>1, <2>2, OpenSegment, Zenon DEF IInv
      <4> QED BY <1>a, <4>1, <4>2, <3>2, <2>2 DEF Frame, IInv, StateInv
    <3> QED BY <3>1, <3>2, Zenon
  <2>3. ASSUME NEW s \in Segments, state'[s] = "freed"
        PROVE  /\ count'[s] = 0
               /\ s # name' \/ \E q \in Pids : pc'[q] \in {"clear", "unlink"} /\ fd'[q] = s
    <3>1. s # fd[p]
      BY <1>a, <2>3, Zenon
    <3>2. count[s] = 0 /\ (s # name \/ \E q \in Pids : pc[q] \in {"clear", "unlink"} /\ fd[q] = s)
      BY <1>a, <2>3, <3>1 DEF IInv, StateInv, Frame
    <3> QED BY <1>a, <3>1, <3>2, Zenon
  <2> QED BY <2>1, <2>2, <2>3, Zenon DEF StateInv
<1>9. CountInv'
  BY <1>a, CountKept, Zenon DEF Ahead
<1>10. BrokenInv'
  BY <1>a, <1>5, BrokenKept, Zenon
<1>11. AllocInv'
  BY <1>a, AllocKept, Zenon
<1> QED BY <1>a, <1>2, <1>3, <1>4, <1>5, <1>6, <1>7, <1>8, <1>9, <1>10, <1>11, Zenon DEF IInv

LEMMA UnlinkStaleStep ==
    ASSUME IInv, NEW p \in Pids, UnlinkStale(p) PROVE IInv'
<1>s. fd[p] \in 1..segs /\ fd[p] \in Segments /\ pc[p] = "stale" /\ segs \in Nat
  BY OpenSegment, Zenon DEF IInv, UnlinkStale
<1>b. slot[p] = NULL /\ name = fd[p] /\ HasLost(fd[p])
  BY <1>s, SharedMemoryAssumption, Zenon DEF IInv, SlotInv, NameInv, Naming
<1>1. TypeOK'
  BY <1>s, Zenon DEF IInv, TypeOK, UnlinkStale, Goto, Close
<1>f. Frame(p)
  BY <1>s, Zenon DEF IInv, TypeOK, UnlinkStale, Goto, Frame, Close
<1>d. /\ pc'[p] = "open" /\ fd'[p] = NULL /\ lock'[fd[p]] = NULL /\ name' = NULL
      /\ UNCHANGED <<slot, run, segs, sized, state, procs, count, alloc, broken>>
  BY <1>s, Zenon DEF IInv, TypeOK, UnlinkStale, Goto, Close
<1>a. /\ TypeOK' /\ Frame(p)
      /\ fd[p] \in 1..segs /\ fd[p] \in Segments /\ pc[p] = "stale" /\ segs \in Nat
      /\ slot[p] = NULL /\ name = fd[p] /\ HasLost(fd[p])
      /\ segs' >= segs
      /\ pc'[p] = "open" /\ fd'[p] = NULL /\ lock'[fd[p]] = NULL /\ name' = NULL
      /\ UNCHANGED <<slot, run, segs, sized, state, procs, count, alloc, broken>>
  BY <1>s, <1>b, <1>1, <1>f, <1>d
<1>5. EntryInv' /\ \A s \in Segments : (HasLost(s) => HasLost(s)') /\ (HasGone(s) => HasGone(s)')
  BY <1>a, EntriesKept, Zenon DEF Member, Runs
<1>2. FdInv'
  BY <1>a, FdKept, Zenon
<1>3. LockInv'
  BY <1>a, LockReleased, Zenon DEF Locking
<1>4. SlotInv'
  BY <1>a, SlotKept, Zenon DEF Member
<1>6. NameInv'
  <2>1. ASSUME NEW q \in Pids, pc'[q] \in Naming PROVE FALSE
    <3>1. q # p /\ pc[q] \in Naming /\ fd[q] = fd[p]
      BY <1>a, <2>1, Zenon DEF Frame, Naming, IInv, NameInv
    <3> QED BY <1>a, <3>1, LockAlone, Zenon DEF IInv, Naming, Locking
  <2>2. ASSUME NEW s \in 1..segs'
        PROVE  HasLost(s)' \/ \A q \in Pids : fd'[q] = s => pc'[q] \notin Member \cup {"unlink"}
    <3>1. s \in 1..segs /\ s \in Segments
      BY <1>a, <2>2, SharedMemoryAssumption DEF IInv, TypeOK, Segments
    <3>2. CASE s = name
      BY <1>a, <3>1, <3>2, <1>5, Zenon
    <3>3. CASE s # name
      <4>1. HasLost(s) \/ \A q \in Pids : fd[q] = s => pc[q] \notin Member \cup {"unlink"}
        BY <3>1, <3>3, Zenon DEF IInv, NameInv
      <4> QED BY <1>a, <4>1, <3>1, <1>5, Zenon DEF Frame, Member
    <3> QED BY <3>2, <3>3, Zenon
  <2>3. \A q \in Pids : pc'[q] # "stale"
    BY <2>1, Zenon DEF Naming
  <2> QED BY <1>a, <2>1, <2>2, <2>3, Zenon DEF NameInv
<1>7. FreshInv'
  BY <1>a, FreshKept, Zenon DEF Member
<1>8. StateInv'
  BY <1>a, StateKept, SharedMemoryAssumption, Zenon
<1>9. CountInv'
  BY <1>a, CountKept, Zenon DEF Ahead
<1>10. BrokenInv'
  BY <1>a, <1>5, BrokenKept, Zenon
<1>11. AllocInv'
  BY <1>a, AllocKept, Zenon
<1> QED BY <1>a, <1>2, <1>3, <1>4, <1>5, <1>6, <1>7, <1>8, <1>9, <1>10, <1>11, Zenon DEF IInv
=============================================================================
