--------------------------- MODULE InQueue_proofs ---------------------------
(***************************************************************************)
(* The submission queue implements TaskQueue, for any number of CPUs and   *)
(* of CPUs per ring, any size of the rings and any size of the batches.    *)
(***************************************************************************)
EXTENDS InQueue, TLAPS

\* The slots of a ring
Ring == 0..(Slots - 1)

\* How far slot b is after slot a.
Gap(a, b) == (b - a + Slots) % Slots

\* The tasks of a ring with head h, tail t and entries e.
RingSeq(h, t, e) == [i \in 1..Gap(t, h) |-> e[(t + i - 1) % Slots]]

\* Its entries after the k oldest ones were vacated.
Vacated(e, t, k) == [i \in DOMAIN e |-> IF Gap(t, i) < k THEN NULL ELSE e[i]]
-----------------------------------------------------------------------------
(***************************************************************************)
(* Arithmetic of the ring.                                                 *)
(***************************************************************************)

\* The remainder of what is less than two turns.
LEMMA Wrap ==
  \A a \in 0..(2 * Slots - 1) : a % Slots = IF a < Slots THEN a ELSE a - Slots
<1> TAKE a \in 0..(2 * Slots - 1)
<1> DEFINE k == a \div Slots
           r == a % Slots
<1>1. k \in Nat /\ a = Slots * k + r /\ r \in 0..(Slots - 1)
  BY RingAssumption
<1> HIDE DEF k, r
<1>2. k < 2
  <2>1. SUFFICES ASSUME k >= 2 PROVE FALSE
    BY <1>1
  <2>2. Slots * k >= Slots * 2
    BY <2>1, <1>1, RingAssumption
  <2> QED BY <2>2, <1>1, RingAssumption
<1>3. CASE k = 0
  <2>1. a = r
    BY <1>1, <1>3, RingAssumption
  <2> QED BY <2>1, <1>1, RingAssumption DEF r
<1>4. CASE k = 1
  <2>1. a = Slots + r
    BY <1>1, <1>4, RingAssumption
  <2> QED BY <2>1, <1>1, RingAssumption DEF r
<1> QED BY <1>1, <1>2, <1>3, <1>4

\* The distance between two slots.
LEMMA GapValue ==
  ASSUME NEW a \in Ring, NEW b \in Ring
  PROVE  /\ Gap(a, b) = IF a <= b THEN b - a ELSE b - a + Slots
         /\ Gap(a, b) \in Ring
<1>1. b - a + Slots \in 0..(2 * Slots - 1)
  BY RingAssumption DEF Ring
<1> QED BY <1>1, Wrap, RingAssumption DEF Gap, Ring

\* The slot that is k after slot a.
LEMMA StepValue ==
  ASSUME NEW a \in Ring, NEW k \in 0..Slots
  PROVE  /\ (a + k) % Slots = IF a + k < Slots THEN a + k ELSE a + k - Slots
         /\ (a + k) % Slots \in Ring
<1>1. a + k \in 0..(2 * Slots - 1)
  BY RingAssumption DEF Ring
<1> QED BY <1>1, Wrap, RingAssumption DEF Ring

\* Moving b by k moves the distance by k, as long as it does not pass a.
LEMMA GapStep ==
  ASSUME NEW a \in Ring, NEW b \in Ring, NEW k \in 0..Slots, Gap(a, b) + k < Slots
  PROVE  Gap(a, (b + k) % Slots) = Gap(a, b) + k
<1> DEFINE c == (b + k) % Slots
<1>1. /\ c \in Ring
      /\ c = IF b + k < Slots THEN b + k ELSE b + k - Slots
  BY StepValue
<1>2. Gap(a, b) = IF a <= b THEN b - a ELSE b - a + Slots
  BY GapValue
<1>3. Gap(a, c) = IF a <= c THEN c - a ELSE c - a + Slots
  BY <1>1, GapValue
<1> HIDE DEF c
<1>4. Gap(a, c) = Gap(a, b) + k
  BY <1>1, <1>2, <1>3, RingAssumption DEF Ring
<1> QED BY <1>4 DEF c

\* Moving a by k towards b shortens the distance by k.
LEMMA GapTake ==
  ASSUME NEW a \in Ring, NEW b \in Ring, NEW k \in 0..Slots, k <= Gap(a, b)
  PROVE  Gap((a + k) % Slots, b) = Gap(a, b) - k
<1> DEFINE c == (a + k) % Slots
<1>1. /\ c \in Ring
      /\ c = IF a + k < Slots THEN a + k ELSE a + k - Slots
  BY StepValue
<1>2. Gap(a, b) = IF a <= b THEN b - a ELSE b - a + Slots
  BY GapValue
<1>3. Gap(c, b) = IF c <= b THEN b - c ELSE b - c + Slots
  BY <1>1, GapValue
<1> HIDE DEF c
<1>4. Gap(c, b) = Gap(a, b) - k
  BY <1>1, <1>2, <1>3, RingAssumption DEF Ring
<1> QED BY <1>4 DEF c

\* The slot that is k after a is at distance k.
LEMMA GapOf ==
  ASSUME NEW a \in Ring, NEW k \in Ring
  PROVE  (a + k) % Slots \in Ring /\ Gap(a, (a + k) % Slots) = k
<1> DEFINE c == (a + k) % Slots
<1>1. k \in 0..Slots
  BY RingAssumption DEF Ring
<1>2. /\ c \in Ring
      /\ c = IF a + k < Slots THEN a + k ELSE a + k - Slots
  BY <1>1, StepValue
<1>3. Gap(a, c) = IF a <= c THEN c - a ELSE c - a + Slots
  BY <1>2, GapValue
<1> HIDE DEF c
<1>4. Gap(a, c) = k
  BY <1>2, <1>3, RingAssumption DEF Ring
<1> QED BY <1>2, <1>4 DEF c

\* A slot is determined by its distance.
LEMMA GapInjective ==
  ASSUME NEW a \in Ring, NEW b \in Ring, NEW c \in Ring, Gap(a, b) = Gap(a, c)
  PROVE  b = c
<1>1. /\ Gap(a, b) = IF a <= b THEN b - a ELSE b - a + Slots
      /\ Gap(a, c) = IF a <= c THEN c - a ELSE c - a + Slots
  BY GapValue
<1>2. (IF a <= b THEN b - a ELSE b - a + Slots) = (IF a <= c THEN c - a ELSE c - a + Slots)
  BY <1>1, Zenon
<1> QED BY <1>2, RingAssumption DEF Ring

\* b is where its distance says.
LEMMA GapEnd ==
  ASSUME NEW a \in Ring, NEW b \in Ring
  PROVE  (a + Gap(a, b)) % Slots = b
<1> DEFINE n == Gap(a, b)
<1>1. /\ n \in 0..Slots
      /\ n = IF a <= b THEN b - a ELSE b - a + Slots
  BY GapValue, RingAssumption DEF Ring
<1> HIDE DEF n
<1>2. (a + n) % Slots = IF a + n < Slots THEN a + n ELSE a + n - Slots
  BY <1>1, StepValue
<1>3. (a + n) % Slots = b
  BY <1>1, <1>2, RingAssumption DEF Ring
<1> QED BY <1>3 DEF n

\* k steps and then j steps are k + j steps.
LEMMA StepStep ==
  ASSUME NEW a \in Ring, NEW k \in Nat, NEW j \in Nat, k + j < Slots
  PROVE  (((a + k) % Slots) + j) % Slots = (a + (k + j)) % Slots
<1>1. k \in 0..Slots /\ j \in 0..Slots /\ k + j \in 0..Slots
  BY RingAssumption
<1>2. (a + k) % Slots \in Ring
  BY <1>1, StepValue
<1>3. /\ (a + k) % Slots = IF a + k < Slots THEN a + k ELSE a + k - Slots
      /\ (a + (k + j)) % Slots = IF a + (k + j) < Slots THEN a + (k + j) ELSE a + (k + j) - Slots
  BY <1>1, StepValue
<1>4. (((a + k) % Slots) + j) % Slots
        = IF ((a + k) % Slots) + j < Slots THEN ((a + k) % Slots) + j
          ELSE ((a + k) % Slots) + j - Slots
  BY <1>1, <1>2, StepValue
<1> QED BY <1>2, <1>3, <1>4, RingAssumption DEF Ring
-----------------------------------------------------------------------------
(***************************************************************************)
(* The tasks of a ring.                                                    *)
(***************************************************************************)

\* What a ring holds is a sequence as long as head is after tail.
LEMMA RingType ==
  ASSUME NEW h \in Ring, NEW t \in Ring, NEW S, NEW e \in [Ring -> S]
  PROVE  /\ RingSeq(h, t, e) \in Seq(S)
         /\ Len(RingSeq(h, t, e)) = Gap(t, h)
         /\ Gap(t, h) \in Ring
<1>1. Gap(t, h) \in Ring
  BY GapValue
<1>2. Gap(t, h) \in Nat
  BY <1>1 DEF Ring
<1>3. ASSUME NEW i \in 1..Gap(t, h)
      PROVE  /\ (t + i - 1) % Slots \in Ring
             /\ (t + i - 1) % Slots = (t + (i - 1)) % Slots
  <2>1. i - 1 \in 0..Slots /\ t + i - 1 = t + (i - 1)
    BY <1>1, RingAssumption DEF Ring
  <2> QED BY <2>1, StepValue
<1>4. \A i \in 1..Gap(t, h) : e[(t + i - 1) % Slots] \in S
  BY <1>3
<1> QED BY <1>1, <1>2, <1>3, <1>4 DEF RingSeq

\* Its tasks are in the slots that follow tail.
LEMMA RingAt ==
  ASSUME NEW h \in Ring, NEW t \in Ring, NEW e, NEW i \in 1..Gap(t, h)
  PROVE  RingSeq(h, t, e)[i] = e[(t + (i - 1)) % Slots]
<1>1. t + i - 1 = t + (i - 1)
  BY GapValue, RingAssumption DEF Ring
<1> QED BY <1>1 DEF RingSeq

\* spsc_push stores the entry at head, which no task of the ring occupies.
LEMMA RingStore ==
  ASSUME NEW h \in Ring, NEW t \in Ring, NEW S, NEW e \in [Ring -> S], NEW v \in S
  PROVE  RingSeq(h, t, [e EXCEPT ![h] = v]) = RingSeq(h, t, e)
<1> DEFINE f == [e EXCEPT ![h] = v]
<1>1. Gap(t, h) \in Ring /\ f \in [Ring -> S]
  BY GapValue
<1>2. ASSUME NEW i \in 1..Gap(t, h)
      PROVE  f[(t + i - 1) % Slots] = e[(t + i - 1) % Slots]
  <2>1. i - 1 \in Ring /\ t + i - 1 = t + (i - 1) /\ i - 1 # Gap(t, h)
    BY <1>1, RingAssumption DEF Ring
  <2>2. (t + i - 1) % Slots \in Ring /\ (t + i - 1) % Slots # h
    BY <2>1, GapOf
  <2> QED BY <2>2
<1> QED BY <1>2 DEF RingSeq

\* spsc_push then moves head over the entry: it is the newest task.
LEMMA RingPut ==
  ASSUME NEW h \in Ring, NEW t \in Ring, NEW S, NEW e \in [Ring -> S],
         Gap(t, h) <= Slots - 2
  PROVE  /\ (h + 1) % Slots \in Ring
         /\ Gap(t, (h + 1) % Slots) = Gap(t, h) + 1
         /\ RingSeq((h + 1) % Slots, t, e) = Append(RingSeq(h, t, e), e[h])
<1> DEFINE g == (h + 1) % Slots
           n == Gap(t, h)
<1>0. n \in Ring
  BY GapValue
<1>1. n \in Ring /\ n \in Nat /\ 1 \in 0..Slots /\ n + 1 < Slots
  BY <1>0, RingAssumption DEF Ring
<1>2. g \in Ring
  BY <1>1, StepValue
<1>3. Gap(t, g) = n + 1
  BY <1>1, GapStep
<1>4. (t + (n + 1) - 1) % Slots = h
  <2>1. t + (n + 1) - 1 = t + n
    BY <1>1 DEF Ring
  <2> QED BY <2>1, GapEnd
<1>5. /\ RingSeq(g, t, e) \in Seq(S) /\ Len(RingSeq(g, t, e)) = n + 1
      /\ RingSeq(h, t, e) \in Seq(S) /\ Len(RingSeq(h, t, e)) = n
  BY <1>2, <1>3, RingType
<1>6. \A i \in 1..n : RingSeq(g, t, e)[i] = RingSeq(h, t, e)[i]
  BY <1>1, <1>3 DEF RingSeq
<1>7. RingSeq(g, t, e)[n + 1] = e[h]
  BY <1>1, <1>3, <1>4 DEF RingSeq
<1>8. e[h] \in S
  OBVIOUS
<1> HIDE DEF g, n
<1>9. RingSeq(g, t, e) = Append(RingSeq(h, t, e), e[h])
  BY <1>1, <1>5, <1>6, <1>7, <1>8
<1> QED BY <1>2, <1>3, <1>9 DEF g, n

\* spsc_pop_batch moves tail over k entries: the k oldest tasks leave.
LEMMA RingTake ==
  ASSUME NEW h \in Ring, NEW t \in Ring, NEW S, NULL \in S, NEW e \in [Ring -> S],
         NEW k \in Nat, k <= Gap(t, h)
  PROVE  /\ (t + k) % Slots \in Ring
         /\ Gap((t + k) % Slots, h) = Gap(t, h) - k
         /\ Vacated(e, t, k) \in [Ring -> S]
         /\ RingSeq(h, (t + k) % Slots, Vacated(e, t, k))
              = SubSeq(RingSeq(h, t, e), k + 1, Gap(t, h))
<1> DEFINE u == (t + k) % Slots
           n == Gap(t, h)
           f == Vacated(e, t, k)
<1>0. n \in Ring
  BY GapValue
<1>1. n \in Ring /\ n \in Nat /\ k \in 0..Slots /\ n < Slots
  BY <1>0, RingAssumption DEF Ring
<1>2. u \in Ring
  BY <1>1, StepValue
<1>3. Gap(u, h) = n - k
  BY <1>1, GapTake
<1>4. f \in [Ring -> S]
  BY DEF Vacated
<1>5. /\ RingSeq(h, u, f) \in Seq(S) /\ Len(RingSeq(h, u, f)) = n - k
      /\ RingSeq(h, t, e) \in Seq(S) /\ Len(RingSeq(h, t, e)) = n
  BY <1>2, <1>3, <1>4, RingType, Zenon
<1>6. ASSUME NEW i \in 1..(n - k)
      PROVE  RingSeq(h, u, f)[i] = RingSeq(h, t, e)[i + k]
  <2>1. /\ i \in 1..Gap(u, h) /\ i + k \in 1..n
        /\ k + (i - 1) \in Ring /\ i - 1 \in Nat /\ k + (i - 1) < Slots
        /\ k + (i - 1) >= k /\ (i + k) - 1 = k + (i - 1)
    BY <1>1, <1>3, RingAssumption DEF Ring
  <2>2. RingSeq(h, u, f)[i] = f[(u + (i - 1)) % Slots]
    BY <2>1, <1>2, RingAt
  <2>3. RingSeq(h, t, e)[i + k] = e[(t + ((i + k) - 1)) % Slots]
    BY <2>1, <1>2, RingAt
  <2>4. (u + (i - 1)) % Slots = (t + (k + (i - 1))) % Slots
    BY <2>1, StepStep
  <2>5. /\ (t + (k + (i - 1))) % Slots \in Ring
        /\ Gap(t, (t + (k + (i - 1))) % Slots) = k + (i - 1)
    BY <2>1, GapOf
  <2>6. f[(t + (k + (i - 1))) % Slots] = e[(t + (k + (i - 1))) % Slots]
    BY <2>1, <2>5 DEF Vacated
  <2> QED BY <2>1, <2>2, <2>3, <2>4, <2>6
<1> HIDE DEF u, n, f
<1>7. RingSeq(h, u, f) = SubSeq(RingSeq(h, t, e), k + 1, n)
  BY <1>1, <1>5, <1>6
<1> QED BY <1>2, <1>3, <1>4, <1>7 DEF u, n, f
-----------------------------------------------------------------------------
(***************************************************************************)
(* The inductive invariant.                                                *)
(***************************************************************************)
Entry == Tasks \cup {NULL}

TypeOK ==
  /\ head \in [Queues -> Ring] /\ tail \in [Queues -> Ring]
  /\ entries \in [Queues -> [Ring -> Entry]]
  /\ qspin \in [Queues -> Producers \cup {NULL}]
  /\ pc \in [Producers -> {"idle", "lock", "check", "publish"}]
  /\ val \in [Producers -> Entry] /\ seen \in [Producers -> Ring]
  /\ cpc \in {"idle", "copy", "give"}
  /\ current \in Queues /\ start \in Queues /\ limit \in Ring
  /\ batch \in Seq(Entry) /\ put \in Nat

Writing(p) == pc[p] \in {"check", "publish"}

\* A producer between the read of tail and the store of head holds the lock of
\* its ring, and has a task as long as it is not idle.
LockInv ==
  \A p \in Producers :
    /\ Writing(p) => qspin[RingOf(p)] = p
    /\ pc[p] # "idle" => val[p] \in Tasks

\* The tail that it read may be old, but then the ring only has more room than
\* it seemed to have; once it found room there is room for its task, which is
\* in the entry at head.
RoomInv ==
  \A p \in Producers :
    LET q == RingOf(p) IN
    /\ Writing(p) => Gap(tail[q], head[q]) <= Gap(seen[p], head[q])
    /\ pc[p] = "publish" =>
         Gap(seen[p], head[q]) <= Slots - 2 /\ entries[q][head[q]] = val[p]

\* What the consumer copied is what the oldest entries of the ring still hold,
\* and not beyond the head that it read, which head may have left behind.
CopyInv ==
  /\ put <= Len(batch) /\ Len(batch) <= Cnt
  /\ cpc # "copy" => put = 0
  /\ cpc = "copy" =>
       /\ put <= Gap(tail[current], limit)
       /\ Gap(tail[current], limit) <= Gap(tail[current], head[current])
  /\ \A i \in 1..put :
       batch[Len(batch) - put + i] = entries[current][(tail[current] + (i - 1)) % Slots]

IInv == TypeOK /\ LockInv /\ RoomInv /\ CopyInv
-----------------------------------------------------------------------------
\* Every producer has a ring.
LEMMA RingOfType ==
  /\ nqueues \in Nat
  /\ \A p \in Producers : RingOf(p) \in Queues
<1> DEFINE n == Cardinality(Cpus)
           C == CpusPerQueue
<1>1. n \in Nat /\ Cpus = 0..(n - 1)
  BY CpusAssumption
<1>2. C \in Nat /\ C >= 1
  BY RingAssumption
<1> HIDE DEF n, C
<1>3. /\ (n + C - 1) \div C \in Nat
      /\ n + C - 1 = C * ((n + C - 1) \div C) + ((n + C - 1) % C)
      /\ (n + C - 1) % C \in 0..(C - 1)
  BY <1>1, <1>2
<1>4. nqueues = (n + C - 1) \div C
  BY DEF nqueues, n, C
<1>5. nqueues \in Nat /\ n <= C * nqueues
  BY <1>1, <1>2, <1>3, <1>4
<1>6. ASSUME NEW p \in 0..(n - 1)
      PROVE  p \div C \in 0..nqueues
  <2> DEFINE d == p \div C
  <2>1. d \in Nat /\ p = C * d + (p % C) /\ p % C \in 0..(C - 1)
    BY <1>1, <1>2
  <2> HIDE DEF d
  <2>2. d <= nqueues
    <3>1. SUFFICES ASSUME d > nqueues PROVE FALSE
      BY <2>1, <1>5
    <3>2. C * nqueues <= C * d
      BY <3>1, <2>1, <1>5, <1>2
    <3>3. p < n /\ C * d <= p /\ p \in Nat /\ C * d \in Nat /\ C * nqueues \in Nat
      BY <2>1, <1>1, <1>2, <1>5
    <3> QED BY <3>2, <3>3, <1>5, <1>1
  <2> QED BY <2>1, <2>2, <1>5 DEF d
<1>7. ASSUME NEW p \in Producers
      PROVE  RingOf(p) \in Queues
  <2>1. CASE p = -1
    BY <2>1, <1>5 DEF RingOf, Queues
  <2>2. CASE p \in 0..(n - 1)
    <3>1. ~(p < 0) /\ p \div C = p \div CpusPerQueue
      BY <2>2, <1>1 DEF C
    <3> QED BY <2>2, <1>6, <3>1 DEF RingOf, Queues
  <2> QED BY <2>1, <2>2, <1>1 DEF Producers
<1> QED BY <1>5, <1>7

\* The lock of a ring has one holder.
LEMMA OneWriter ==
  ASSUME TypeOK, LockInv, NEW p \in Producers, NEW r \in Producers,
         Writing(p), Writing(r), RingOf(p) = RingOf(r)
  PROVE  p = r
  BY DEF LockInv

\* The invariant holds when the queue was allocated.
LEMMA InitInv == Init => IInv
<1> SUFFICES ASSUME Init PROVE IInv
  OBVIOUS
<1>1. 0 \in Ring /\ 0 \in Queues
  BY RingAssumption, RingOfType DEF Ring, Queues
<1>2. TypeOK
  BY <1>1 DEF Init, TypeOK, Entry, Ring
<1>3. \A p \in Producers : pc[p] = "idle"
  BY DEF Init
<1>4. LockInv /\ RoomInv
  BY <1>3 DEF LockInv, RoomInv, Writing
<1>5. CopyInv
  BY CntAssumption DEF Init, CopyInv
<1> QED BY <1>2, <1>4, <1>5 DEF IInv
-----------------------------------------------------------------------------
(***************************************************************************)
(* The steps of the producers.                                             *)
(***************************************************************************)

\* mpsc_push is called: nothing that is shared changes.
LEMMA PushKept ==
  ASSUME IInv, NEW p \in Producers, NEW t \in Tasks, Push(p, t)
  PROVE  IInv'
<1>1. TypeOK'
  BY DEF IInv, TypeOK, Push, Goto, Entry, ringvars, consvars
<1>2. LockInv'
  BY DEF IInv, TypeOK, LockInv, Push, Goto, Writing, ringvars, consvars
<1>3. RoomInv'
  BY DEF IInv, TypeOK, RoomInv, Push, Goto, Writing, ringvars, consvars
<1>4. CopyInv'
  BY DEF IInv, CopyInv, Push, ringvars, consvars
<1> QED BY <1>1, <1>2, <1>3, <1>4 DEF IInv

\* The lock is taken, and tail is up to date at that moment.
LEMMA LoadTailKept ==
  ASSUME IInv, NEW p \in Producers, LoadTail(p)
  PROVE  IInv'
<1> DEFINE q == RingOf(p)
<1>1. q \in Queues /\ \A r \in Producers : RingOf(r) \in Queues
  BY RingOfType
<1> HIDE DEF q
<1>a. /\ pc[p] = "lock" /\ qspin[q] = NULL
      /\ qspin' = [qspin EXCEPT ![q] = p]
      /\ seen' = [seen EXCEPT ![p] = tail[q]]
      /\ pc' = [pc EXCEPT ![p] = "check"]
      /\ UNCHANGED <<head, tail, entries, val, consvars>>
  BY DEF LoadTail, Goto, q
<1>2. TypeOK'
  BY <1>1, <1>a DEF IInv, TypeOK, consvars
<1>3. LockInv'
  <2> SUFFICES ASSUME NEW r \in Producers
               PROVE  /\ Writing(r)' => qspin'[RingOf(r)] = r
                      /\ pc'[r] # "idle" => val'[r] \in Tasks
    BY DEF LockInv
  <2>1. CASE r = p
    BY <2>1, <1>1, <1>a DEF IInv, TypeOK, LockInv, Writing, q
  <2>2. CASE r # p
    <3>1. pc'[r] = pc[r] /\ val'[r] = val[r]
      BY <2>2, <1>a DEF IInv, TypeOK
    <3>2. ASSUME Writing(r) PROVE qspin'[RingOf(r)] = r
      <4>1. qspin[RingOf(r)] = r /\ r # NULL
        BY <3>2, NobodyAssumption DEF IInv, LockInv
      <4> QED BY <4>1, <1>1, <1>a DEF IInv, TypeOK
    <3> QED BY <3>1, <3>2 DEF IInv, LockInv, Writing
  <2> QED BY <2>1, <2>2
<1>4. RoomInv'
  <2> SUFFICES ASSUME NEW r \in Producers
               PROVE  /\ Writing(r)' => Gap(tail'[RingOf(r)], head'[RingOf(r)])
                                          <= Gap(seen'[r], head'[RingOf(r)])
                      /\ pc'[r] = "publish" =>
                           /\ Gap(seen'[r], head'[RingOf(r)]) <= Slots - 2
                           /\ entries'[RingOf(r)][head'[RingOf(r)]] = val'[r]
    BY DEF RoomInv
  <2>1. CASE r = p
    <3>1. pc'[r] = "check" /\ seen'[r] = tail[q] /\ q = RingOf(r)
      BY <2>1, <1>a DEF IInv, TypeOK, q
    <3>2. Gap(tail[q], head[q]) \in Nat
      <4>1. tail[q] \in Ring /\ head[q] \in Ring
        BY <1>1, Zenon DEF IInv, TypeOK
      <4> QED BY <4>1, GapValue DEF Ring
    <3>3. Gap(tail'[q], head'[q]) <= Gap(seen'[r], head'[q])
      BY <3>1, <3>2, <1>a
    <3> QED BY <3>1, <3>3
  <2>2. CASE r # p
    <3>1. pc'[r] = pc[r] /\ val'[r] = val[r] /\ seen'[r] = seen[r]
      BY <2>2, <1>a DEF IInv, TypeOK
    <3> QED BY <3>1, <1>a DEF IInv, RoomInv, Writing
  <2> QED BY <2>1, <2>2
<1>5. CopyInv'
  BY <1>a DEF IInv, CopyInv, consvars
<1> QED BY <1>2, <1>3, <1>4, <1>5 DEF IInv

\* The ring looked full: the lock is released.
LEMMA PushFullKept ==
  ASSUME IInv, NEW p \in Producers, PushFull(p)
  PROVE  IInv'
<1> DEFINE q == RingOf(p)
<1>1. q \in Queues /\ \A r \in Producers : RingOf(r) \in Queues
  BY RingOfType
<1> HIDE DEF q
<1>a. /\ pc[p] = "check"
      /\ qspin' = [qspin EXCEPT ![q] = NULL]
      /\ seen' = [seen EXCEPT ![p] = 0]
      /\ pc' = [pc EXCEPT ![p] = "lock"]
      /\ UNCHANGED <<head, tail, entries, val, consvars>>
  BY DEF PushFull, Goto, q
<1>0. 0 \in Ring
  BY RingAssumption DEF Ring
<1>2. TypeOK'
  BY <1>0, <1>1, <1>a DEF IInv, TypeOK, consvars
<1>b. \A r \in Producers \ {p} :
        /\ pc'[r] = pc[r] /\ seen'[r] = seen[r]
        /\ Writing(r) => RingOf(r) # q
  <2> SUFFICES ASSUME NEW r \in Producers \ {p}
               PROVE  /\ pc'[r] = pc[r] /\ seen'[r] = seen[r]
                      /\ Writing(r) => RingOf(r) # q
    OBVIOUS
  <2>1. pc'[r] = pc[r] /\ seen'[r] = seen[r]
    BY <1>a DEF IInv, TypeOK
  <2>2. Writing(r) => RingOf(r) # q
    BY <1>a, OneWriter DEF IInv, Writing, q
  <2> QED BY <2>1, <2>2
<1>c. pc'[p] = "lock"
  BY <1>a DEF IInv, TypeOK
<1>3. LockInv'
  <2> SUFFICES ASSUME NEW r \in Producers
               PROVE  /\ Writing(r)' => qspin'[RingOf(r)] = r
                      /\ pc'[r] # "idle" => val'[r] \in Tasks
    BY DEF LockInv
  <2>1. CASE r = p
    BY <2>1, <1>a, <1>c DEF IInv, LockInv, Writing
  <2>2. CASE r # p
    <3>1. Writing(r) => qspin'[RingOf(r)] = qspin[RingOf(r)]
      BY <2>2, <1>1, <1>a, <1>b DEF IInv, TypeOK
    <3> QED BY <2>2, <3>1, <1>a, <1>b DEF IInv, LockInv, Writing
  <2> QED BY <2>1, <2>2
<1>4. RoomInv'
  BY <1>a, <1>b, <1>c DEF IInv, RoomInv, Writing
<1>5. CopyInv'
  BY <1>a DEF IInv, CopyInv, consvars
<1> QED BY <1>2, <1>3, <1>4, <1>5 DEF IInv

\* What the consumer copied is not at head.
LEMMA CopiedBelowHead ==
  ASSUME IInv, cpc = "copy", NEW i \in 1..put
  PROVE  /\ (tail[current] + (i - 1)) % Slots \in Ring
         /\ (tail[current] + (i - 1)) % Slots # head[current]
<1>1. tail[current] \in Ring /\ head[current] \in Ring /\ limit \in Ring /\ put \in Nat
  BY DEF IInv, TypeOK
<1>2. Gap(tail[current], limit) \in Ring /\ Gap(tail[current], head[current]) \in Ring
  BY <1>1, GapValue
<1>3. /\ put <= Gap(tail[current], limit)
      /\ Gap(tail[current], limit) <= Gap(tail[current], head[current])
  BY Zenon DEF IInv, CopyInv
<1>4. i - 1 \in Ring /\ i - 1 # Gap(tail[current], head[current])
  BY <1>1, <1>2, <1>3, RingAssumption DEF Ring
<1> QED BY <1>1, <1>4, GapOf

\* The entry is stored in a ring that has room: no task is overwritten, and
\* nothing that the consumer copied.
LEMMA StoreEntryKept ==
  ASSUME IInv, NEW p \in Producers, StoreEntry(p)
  PROVE  IInv'
<1> DEFINE q == RingOf(p)
<1>1. q \in Queues /\ \A r \in Producers : RingOf(r) \in Queues
  BY RingOfType
<1> HIDE DEF q
<1>a. /\ pc[p] = "check" /\ (head[q] + 1) % Slots # seen[p]
      /\ entries' = [entries EXCEPT ![q][head[q]] = val[p]]
      /\ pc' = [pc EXCEPT ![p] = "publish"]
      /\ UNCHANGED <<head, tail, qspin, val, seen, consvars>>
  BY DEF StoreEntry, Goto, q
<1>t. /\ head[q] \in Ring /\ tail[q] \in Ring /\ seen[p] \in Ring
      /\ val[p] \in Entry /\ entries[q] \in [Ring -> Entry]
  BY <1>1 DEF IInv, TypeOK
<1>2. TypeOK'
  BY <1>1, <1>a, <1>t DEF IInv, TypeOK, consvars
<1>b. \A r \in Producers \ {p} :
        /\ pc'[r] = pc[r]
        /\ Writing(r) => RingOf(r) # q
  <2> SUFFICES ASSUME NEW r \in Producers \ {p}
               PROVE  /\ pc'[r] = pc[r]
                      /\ Writing(r) => RingOf(r) # q
    OBVIOUS
  <2>1. pc'[r] = pc[r]
    BY <1>a DEF IInv, TypeOK
  <2>2. Writing(r) => RingOf(r) # q
    BY <1>a, OneWriter DEF IInv, Writing, q
  <2> QED BY <2>1, <2>2
<1>c. pc'[p] = "publish"
  BY <1>a DEF IInv, TypeOK
<1>d. /\ entries'[q] = [entries[q] EXCEPT ![head[q]] = val[p]]
      /\ \A r \in Queues \ {q} : entries'[r] = entries[r]
  BY <1>1, <1>a DEF IInv, TypeOK
<1>3. LockInv'
  BY <1>a, <1>b, <1>c DEF IInv, LockInv, Writing
<1>4. RoomInv'
  <2> SUFFICES ASSUME NEW r \in Producers
               PROVE  /\ Writing(r)' => Gap(tail'[RingOf(r)], head'[RingOf(r)])
                                          <= Gap(seen'[r], head'[RingOf(r)])
                      /\ pc'[r] = "publish" =>
                           /\ Gap(seen'[r], head'[RingOf(r)]) <= Slots - 2
                           /\ entries'[RingOf(r)][head'[RingOf(r)]] = val'[r]
    BY DEF RoomInv
  <2>1. CASE r = p
    <3>1. Gap(tail[q], head[q]) <= Gap(seen[p], head[q])
      BY <1>a DEF IInv, RoomInv, Writing, q
    <3>2. Gap(seen[p], head[q]) <= Slots - 2
      <4>1. 1 \in 0..Slots
        BY RingAssumption
      <4>2. (head[q] + 1) % Slots
              = IF head[q] + 1 < Slots THEN head[q] + 1 ELSE head[q] + 1 - Slots
        BY <4>1, <1>t, StepValue
      <4>3. Gap(seen[p], head[q])
              = IF seen[p] <= head[q] THEN head[q] - seen[p] ELSE head[q] - seen[p] + Slots
        BY <1>t, GapValue
      <4>4. (IF head[q] + 1 < Slots THEN head[q] + 1 ELSE head[q] + 1 - Slots) # seen[p]
        BY <4>2, <1>a
      <4> QED BY <4>3, <4>4, <1>t, RingAssumption DEF Ring
    <3>3. entries'[q][head[q]] = val[p]
      BY <1>d, <1>t
    <3> QED BY <2>1, <3>1, <3>2, <3>3, <1>a DEF q
  <2>2. CASE r # p
    <3>1. Writing(r) => entries'[RingOf(r)] = entries[RingOf(r)]
      BY <2>2, <1>1, <1>b, <1>d
    <3> QED BY <2>2, <3>1, <1>a, <1>b DEF IInv, RoomInv, Writing
  <2> QED BY <2>1, <2>2
<1>5. CopyInv'
  <2>1. ASSUME NEW i \in 1..put
        PROVE  entries'[current][(tail[current] + (i - 1)) % Slots]
                 = entries[current][(tail[current] + (i - 1)) % Slots]
    <3>1. cpc = "copy"
      BY DEF IInv, CopyInv
    <3>2. CASE current = q
      BY <3>1, <3>2, <1>d, <1>t, CopiedBelowHead
    <3>3. CASE current # q
      BY <3>3, <1>d DEF IInv, TypeOK
    <3> QED BY <3>2, <3>3
  <2> QED BY <2>1, <1>a DEF IInv, CopyInv, consvars
<1> QED BY <1>2, <1>3, <1>4, <1>5 DEF IInv

\* What a producer knows when it publishes its task.
LEMMA RoomToPublish ==
  ASSUME IInv, NEW p \in Producers, pc[p] = "publish"
  PROVE  /\ RingOf(p) \in Queues
         /\ head[RingOf(p)] \in Ring /\ tail[RingOf(p)] \in Ring
         /\ entries[RingOf(p)] \in [Ring -> Entry]
         /\ entries[RingOf(p)][head[RingOf(p)]] = val[p]
         /\ val[p] \in Tasks
         /\ Gap(tail[RingOf(p)], head[RingOf(p)]) <= Slots - 2
<1>1. RingOf(p) \in Queues
  BY RingOfType
<1>2. /\ head[RingOf(p)] \in Ring /\ tail[RingOf(p)] \in Ring /\ seen[p] \in Ring
      /\ entries[RingOf(p)] \in [Ring -> Entry]
  BY <1>1 DEF IInv, TypeOK
<1>3. /\ entries[RingOf(p)][head[RingOf(p)]] = val[p]
      /\ val[p] \in Tasks
      /\ Gap(tail[RingOf(p)], head[RingOf(p)]) <= Gap(seen[p], head[RingOf(p)])
      /\ Gap(seen[p], head[RingOf(p)]) <= Slots - 2
  BY DEF IInv, LockInv, RoomInv, Writing
<1>4. /\ Gap(tail[RingOf(p)], head[RingOf(p)]) \in Ring
      /\ Gap(seen[p], head[RingOf(p)]) \in Ring
  BY <1>2, GapValue
<1>5. Gap(tail[RingOf(p)], head[RingOf(p)]) <= Slots - 2
  BY <1>3, <1>4, RingAssumption DEF Ring
<1> QED BY <1>1, <1>2, <1>3, <1>5

\* The task is published, and the lock released.
LEMMA StoreHeadKept ==
  ASSUME IInv, NEW p \in Producers, StoreHead(p)
  PROVE  IInv'
<1> DEFINE q == RingOf(p)
<1>1. q \in Queues /\ \A r \in Producers : RingOf(r) \in Queues
  BY RingOfType
<1> HIDE DEF q
<1>a. /\ pc[p] = "publish"
      /\ head' = [head EXCEPT ![q] = (head[q] + 1) % Slots]
      /\ qspin' = [qspin EXCEPT ![q] = NULL]
      /\ val' = [val EXCEPT ![p] = NULL]
      /\ seen' = [seen EXCEPT ![p] = 0]
      /\ pc' = [pc EXCEPT ![p] = "idle"]
      /\ UNCHANGED <<tail, entries, consvars>>
  BY DEF StoreHead, Goto, q
<1>0. 0 \in Ring
  BY RingAssumption DEF Ring
<1>t. /\ head[q] \in Ring /\ tail[q] \in Ring /\ entries[q] \in [Ring -> Entry]
      /\ Gap(tail[q], head[q]) <= Slots - 2
  BY <1>a, RoomToPublish DEF q
<1>n. /\ (head[q] + 1) % Slots \in Ring
      /\ Gap(tail[q], (head[q] + 1) % Slots) = Gap(tail[q], head[q]) + 1
  BY <1>t, RingPut, Zenon
<1>2. TypeOK'
  BY <1>0, <1>1, <1>a, <1>n DEF IInv, TypeOK, consvars, Entry
<1>b. \A r \in Producers \ {p} :
        /\ pc'[r] = pc[r] /\ val'[r] = val[r] /\ seen'[r] = seen[r]
        /\ Writing(r) => RingOf(r) # q
  <2> SUFFICES ASSUME NEW r \in Producers \ {p}
               PROVE  /\ pc'[r] = pc[r] /\ val'[r] = val[r] /\ seen'[r] = seen[r]
                      /\ Writing(r) => RingOf(r) # q
    OBVIOUS
  <2>1. pc'[r] = pc[r] /\ val'[r] = val[r] /\ seen'[r] = seen[r]
    BY <1>a DEF IInv, TypeOK
  <2>2. Writing(r) => RingOf(r) # q
    BY <1>a, OneWriter DEF IInv, Writing, q
  <2> QED BY <2>1, <2>2
<1>c. pc'[p] = "idle"
  BY <1>a DEF IInv, TypeOK
<1>d. \A r \in Queues \ {q} : head'[r] = head[r] /\ qspin'[r] = qspin[r]
  BY <1>1, <1>a DEF IInv, TypeOK
<1>e. head'[q] = (head[q] + 1) % Slots
  BY <1>1, <1>a DEF IInv, TypeOK
<1>3. LockInv'
  BY <1>1, <1>a, <1>b, <1>c, <1>d DEF IInv, LockInv, Writing
<1>4. RoomInv'
  <2> SUFFICES ASSUME NEW r \in Producers
               PROVE  /\ Writing(r)' => Gap(tail'[RingOf(r)], head'[RingOf(r)])
                                          <= Gap(seen'[r], head'[RingOf(r)])
                      /\ pc'[r] = "publish" =>
                           /\ Gap(seen'[r], head'[RingOf(r)]) <= Slots - 2
                           /\ entries'[RingOf(r)][head'[RingOf(r)]] = val'[r]
    BY DEF RoomInv
  <2>1. CASE r = p
    BY <2>1, <1>c DEF Writing
  <2>2. CASE r # p
    <3>1. Writing(r) => head'[RingOf(r)] = head[RingOf(r)]
      BY <2>2, <1>1, <1>b, <1>d
    <3> QED BY <2>2, <3>1, <1>a, <1>b DEF IInv, RoomInv, Writing
  <2> QED BY <2>1, <2>2
<1>5. CopyInv'
  <2>1. ASSUME cpc = "copy"
        PROVE  Gap(tail[current], limit) <= Gap(tail[current], head'[current])
    <3>1. CASE current = q
      <4>1. Gap(tail[q], limit) \in Ring /\ Gap(tail[q], head[q]) \in Ring
        BY <1>t, GapValue DEF IInv, TypeOK
      <4> QED BY <2>1, <3>1, <4>1, <1>e, <1>n, RingAssumption DEF IInv, CopyInv, Ring
    <3>2. CASE current # q
      BY <2>1, <3>2, <1>d DEF IInv, TypeOK, CopyInv
    <3> QED BY <3>1, <3>2, Zenon
  <2> QED BY <2>1, <1>a DEF IInv, CopyInv, consvars
<1> QED BY <1>2, <1>3, <1>4, <1>5 DEF IInv
-----------------------------------------------------------------------------
(***************************************************************************)
(* The steps of the consumer.                                              *)
(***************************************************************************)

\* The consumer leaves the producers alone as long as it moves no tail.
LEMMA ProducersKept ==
  ASSUME LockInv, RoomInv, UNCHANGED <<ringvars, prodvars>>
  PROVE  LockInv' /\ RoomInv'
  BY DEF LockInv, RoomInv, Writing, ringvars, prodvars

\* A batch begins with the head that is read.
LEMMA PopBatchKept ==
  ASSUME IInv, PopBatch
  PROVE  IInv'
<1>a. /\ cpc = "idle" /\ start' = current /\ limit' = head[current] /\ put' = 0 /\ cpc' = "copy"
      /\ UNCHANGED <<ringvars, prodvars, current, batch>>
  BY DEF PopBatch, LoadHead
<1>1. head[current] \in Ring /\ tail[current] \in Ring
  BY DEF IInv, TypeOK
<1>2. Gap(tail[current], head[current]) \in Ring
  BY <1>1, GapValue
<1>3. TypeOK'
  BY <1>1, <1>a DEF IInv, TypeOK, ringvars, prodvars
<1>4. LockInv' /\ RoomInv'
  BY <1>a, ProducersKept DEF IInv
<1>5. CopyInv'
  <2>1. Len(batch) \in Nat
    BY DEF IInv, TypeOK
  <2> QED BY <2>1, <1>a, <1>2, RingAssumption DEF IInv, CopyInv, ringvars, Ring
<1> QED BY <1>3, <1>4, <1>5 DEF IInv

\* An entry below the head that was read is copied.
LEMMA CopyEntryKept ==
  ASSUME IInv, CopyEntry
  PROVE  IInv'
<1> DEFINE at == (tail[current] + put) % Slots
           x == entries[current][at]
<1>a. /\ cpc = "copy" /\ at # limit /\ Len(batch) < Cnt
      /\ batch' = Append(batch, x) /\ put' = put + 1
      /\ UNCHANGED <<ringvars, prodvars, cpc, current, start, limit>>
  BY DEF CopyEntry
<1>1. /\ head[current] \in Ring /\ tail[current] \in Ring /\ limit \in Ring
      /\ put \in Nat /\ batch \in Seq(Entry) /\ entries[current] \in [Ring -> Entry]
  BY DEF IInv, TypeOK
<1>2. Gap(tail[current], limit) \in Ring /\ Gap(tail[current], head[current]) \in Ring
  BY <1>1, GapValue
<1>3. put <= Gap(tail[current], limit) /\ put \in Ring
  BY <1>a, <1>1, <1>2, RingAssumption DEF IInv, CopyInv, Ring
<1>4. at \in Ring /\ Gap(tail[current], at) = put
  BY <1>1, <1>3, GapOf, Zenon
<1>5. put # Gap(tail[current], limit)
  BY <1>1, <1>4, <1>a, GapInjective
<1>6. x \in Entry
  BY <1>1, <1>4
<1> HIDE DEF x, at
<1>7. /\ batch' \in Seq(Entry) /\ Len(batch') = Len(batch) + 1 /\ Len(batch) \in Nat
      /\ \A i \in 1..Len(batch) : batch'[i] = batch[i]
      /\ batch'[Len(batch) + 1] = x
  BY <1>a, <1>6, <1>1
<1>8. TypeOK'
  BY <1>a, <1>7, <1>1 DEF IInv, TypeOK, ringvars, prodvars
<1>9. LockInv' /\ RoomInv'
  BY <1>a, ProducersKept DEF IInv
<1>10. CopyInv'
  <2>0. put <= Len(batch) /\ Len(batch') = Len(batch) + 1 /\ Len(batch) \in Nat /\ put \in Nat
    BY <1>1, <1>7 DEF IInv, CopyInv
  <2>1. put + 1 <= Len(batch') /\ Len(batch') <= Cnt
    BY <1>7, <1>a, <1>1, CntAssumption DEF IInv, CopyInv
  <2>2. put + 1 <= Gap(tail[current], limit)
    BY <1>1, <1>2, <1>3, <1>5 DEF Ring
  <2>3. ASSUME NEW i \in 1..(put + 1)
        PROVE  batch'[Len(batch') - (put + 1) + i]
                 = entries[current][(tail[current] + (i - 1)) % Slots]
    <3>1. CASE i = put + 1
      <4>1. Len(batch') - (put + 1) + i = Len(batch) + 1 /\ i - 1 = put
        BY <3>1, <2>0
      <4> QED BY <4>1, <1>7 DEF x, at
    <3>2. CASE i # put + 1
      <4>1. /\ Len(batch') - (put + 1) + i = Len(batch) - put + i /\ i \in 1..put
            /\ Len(batch) - put + i \in 1..Len(batch)
        BY <3>2, <2>0
      <4> QED BY <4>1, <1>7 DEF IInv, CopyInv
    <3> QED BY <3>1, <3>2
  <2>4. /\ put' = put + 1 /\ current' = current /\ limit' = limit /\ cpc' = "copy"
        /\ head' = head /\ tail' = tail /\ entries' = entries
    BY <1>a DEF ringvars
  <2> QED BY <2>1, <2>2, <2>3, <2>4, <1>a DEF IInv, CopyInv
<1> QED BY <1>8, <1>9, <1>10 DEF IInv

\* What the consumer knows when it moves tail.
LEMMA PopEndKnows ==
  ASSUME IInv, PopEnd
  PROVE  /\ cpc = "copy" /\ current \in Queues /\ put \in Nat
         /\ head[current] \in Ring /\ tail[current] \in Ring
         /\ entries[current] \in [Ring -> Entry]
         /\ Gap(tail[current], head[current]) \in Ring
         /\ put <= Gap(tail[current], head[current])
         /\ tail' = [tail EXCEPT ![current] = (tail[current] + put) % Slots]
         /\ entries' = [entries EXCEPT ![current] = Vacated(entries[current], tail[current], put)]
         /\ current' \in Queues /\ put' = 0
         /\ \/ cpc' = "copy" /\ limit' = head[current']
            \/ cpc' = "give" /\ limit' = 0
         /\ UNCHANGED <<head, qspin, prodvars, start, batch>>
<1>1. /\ cpc = "copy" /\ current \in Queues /\ put \in Nat
      /\ head[current] \in Ring /\ tail[current] \in Ring /\ limit \in Ring
      /\ entries[current] \in [Ring -> Entry] /\ current \in Nat
  BY RingOfType DEF IInv, TypeOK, PopEnd, Queues
<1>2. Gap(tail[current], limit) \in Ring /\ Gap(tail[current], head[current]) \in Ring
  BY <1>1, GapValue
<1>3. put <= Gap(tail[current], head[current])
  BY <1>1, <1>2, RingAssumption DEF IInv, CopyInv, Ring
<1>4. entries' = [entries EXCEPT ![current] = Vacated(entries[current], tail[current], put)]
  BY DEF PopEnd, Vacate, Vacated, Gap
<1>5. (current + 1) % (nqueues + 1) \in Queues
  BY <1>1, RingOfType DEF Queues
<1>6. /\ current' \in Queues /\ put' = 0
      /\ \/ cpc' = "copy" /\ limit' = head[current']
         \/ cpc' = "give" /\ limit' = 0
  BY <1>5 DEF PopEnd, NextRing, LoadHead
<1>7. /\ tail' = [tail EXCEPT ![current] = (tail[current] + put) % Slots]
      /\ UNCHANGED <<head, qspin, prodvars, start, batch>>
  BY DEF PopEnd
<1> QED BY <1>1, <1>2, <1>3, <1>4, <1>6, <1>7, Zenon

\* tail is moved over what was copied: the ring only has more room.
LEMMA PopEndKept ==
  ASSUME IInv, PopEnd
  PROVE  IInv'
<1> DEFINE c == current
<1>a. /\ cpc = "copy" /\ c \in Queues /\ put \in Nat
      /\ head[c] \in Ring /\ tail[c] \in Ring
      /\ entries[c] \in [Ring -> Entry]
      /\ Gap(tail[c], head[c]) \in Ring
      /\ put <= Gap(tail[c], head[c])
      /\ tail' = [tail EXCEPT ![c] = (tail[c] + put) % Slots]
      /\ entries' = [entries EXCEPT ![c] = Vacated(entries[c], tail[c], put)]
      /\ current' \in Queues /\ put' = 0
      /\ \/ cpc' = "copy" /\ limit' = head[current']
         \/ cpc' = "give" /\ limit' = 0
      /\ UNCHANGED <<head, qspin, prodvars, start, batch>>
  BY PopEndKnows
<1>e. NULL \in Entry
  BY DEF Entry
<1>1. /\ (tail[c] + put) % Slots \in Ring
      /\ Gap((tail[c] + put) % Slots, head[c]) = Gap(tail[c], head[c]) - put
      /\ Vacated(entries[c], tail[c], put) \in [Ring -> Entry]
  BY <1>a, <1>e, RingTake
<1> HIDE DEF c
<1>0. 0 \in Ring
  BY RingAssumption DEF Ring
<1>b. /\ head \in [Queues -> Ring] /\ tail \in [Queues -> Ring]
      /\ entries \in [Queues -> [Ring -> Entry]]
      /\ \A r \in Producers : RingOf(r) \in Queues /\ seen[r] \in Ring
  BY RingOfType DEF IInv, TypeOK
<1>2. TypeOK'
  <2>1. tail' \in [Queues -> Ring] /\ entries' \in [Queues -> [Ring -> Entry]]
    BY <1>a, <1>b, <1>1
  <2>2. limit' \in Ring /\ cpc' \in {"idle", "copy", "give"}
    BY <1>a, <1>b, <1>0
  <2> QED BY <2>1, <2>2, <1>a DEF IInv, TypeOK, prodvars
<1>3. LockInv'
  BY <1>a DEF IInv, LockInv, Writing, prodvars
<1>4. RoomInv'
  <2> SUFFICES ASSUME NEW r \in Producers
               PROVE  /\ Writing(r)' => Gap(tail'[RingOf(r)], head'[RingOf(r)])
                                          <= Gap(seen'[r], head'[RingOf(r)])
                      /\ pc'[r] = "publish" =>
                           /\ Gap(seen'[r], head'[RingOf(r)]) <= Slots - 2
                           /\ entries'[RingOf(r)][head'[RingOf(r)]] = val'[r]
    BY DEF RoomInv
  <2>0. /\ head' = head /\ pc' = pc /\ val' = val /\ seen' = seen
    BY <1>a DEF prodvars
  <2>1. CASE RingOf(r) = c
    <3>1. tail'[c] = (tail[c] + put) % Slots
      BY <1>a, <1>b
    <3>2. Gap(seen[r], head[c]) \in Ring
      BY <1>a, <1>b, GapValue
    <3>3. Gap(tail[c], head[c]) <= Gap(seen[r], head[c])
            => Gap(tail'[c], head[c]) <= Gap(seen[r], head[c])
      BY <3>1, <3>2, <1>1, <1>a DEF Ring
    <3>4. Gap(tail[c], head[c]) < put \/ entries'[c][head[c]] = entries[c][head[c]]
      BY <1>a, <1>b DEF Vacated
    <3>5. entries'[c][head[c]] = entries[c][head[c]]
      BY <3>4, <1>a DEF Ring
    <3> QED BY <2>0, <2>1, <3>3, <3>5 DEF IInv, RoomInv, Writing
  <2>2. CASE RingOf(r) # c
    <3>1. tail'[RingOf(r)] = tail[RingOf(r)] /\ entries'[RingOf(r)] = entries[RingOf(r)]
      BY <2>2, <1>a, <1>b
    <3> QED BY <2>0, <3>1 DEF IInv, RoomInv, Writing
  <2> QED BY <2>1, <2>2
<1>5. CopyInv'
  <2>1. tail'[current'] \in Ring /\ head[current'] \in Ring
    BY <1>2, <1>a, <1>b DEF TypeOK
  <2>2. Gap(tail'[current'], head[current']) \in Ring
    BY <2>1, GapValue
  <2>3. Len(batch) \in Nat
    BY DEF IInv, TypeOK
  <2>4. 0 <= Len(batch') /\ Len(batch') <= Cnt
    BY <2>3, <1>a DEF IInv, CopyInv
  <2>5. cpc' = "copy" =>
          /\ 0 <= Gap(tail'[current'], limit')
          /\ Gap(tail'[current'], limit') <= Gap(tail'[current'], head'[current'])
    BY <2>2, <1>a, RingAssumption DEF Ring
  <2>6. \A i \in 1..0 : FALSE
    OBVIOUS
  <2> QED BY <2>4, <2>5, <2>6, <1>a DEF CopyInv
<1> QED BY <1>2, <1>3, <1>4, <1>5 DEF IInv

\* The batch is handed on after its copies were taken.
LEMMA GiveKept ==
  ASSUME IInv, Give
  PROVE  IInv'
<1>a. /\ cpc = "give" /\ batch' = <<>> /\ cpc' = "idle"
      /\ UNCHANGED <<ringvars, prodvars, current, start, limit, put>>
  BY DEF Give
<1>1. put = 0
  BY <1>a DEF IInv, CopyInv
<1>2. TypeOK'
  BY <1>a DEF IInv, TypeOK, ringvars, prodvars
<1>3. LockInv' /\ RoomInv'
  BY <1>a, ProducersKept DEF IInv
<1>4. CopyInv'
  BY <1>1, <1>a, CntAssumption DEF CopyInv
<1> QED BY <1>2, <1>3, <1>4 DEF IInv

\* Every step keeps the invariant.
LEMMA NextInv ==
  ASSUME IInv, [Next]_vars
  PROVE  IInv'
<1>1. ASSUME NEW p \in Producers, NEW t \in Tasks, Push(p, t) PROVE IInv'
  BY <1>1, PushKept
<1>2. ASSUME NEW p \in Producers, Produce(p) PROVE IInv'
  BY <1>2, LoadTailKept, StoreEntryKept, PushFullKept, StoreHeadKept DEF Produce
<1>3. ASSUME Consume PROVE IInv'
  BY <1>3, PopBatchKept, CopyEntryKept, PopEndKept, GiveKept, Zenon DEF Consume
<1>4. ASSUME UNCHANGED vars PROVE IInv'
  BY <1>4 DEF vars, ringvars, prodvars, consvars, IInv, TypeOK, LockInv, RoomInv, CopyInv, Writing
<1> QED BY <1>1, <1>2, <1>3, <1>4 DEF Next

\* The rings, their locks and the copies of the consumer agree: a producer that
\* found room still has it when it publishes, and what the consumer copied is
\* not overwritten before it moves tail.
THEOREM Invariance == Spec => []IInv
  BY InitInv, NextInv, PTL DEF Spec
-----------------------------------------------------------------------------
(***************************************************************************)
(* The rings implement queues.                                             *)
(***************************************************************************)
BarQueue == [q \in Queues |-> Content(q)]
BarBatch == SubSeq(batch, 1, Len(batch) - put)

\* What a ring holds, before and after a step.
LEMMA ContentIs ==
  ASSUME NEW q
  PROVE  /\ Content(q) = RingSeq(head[q], tail[q], entries[q])
         /\ Content(q)' = RingSeq(head'[q], tail'[q], entries'[q])
  BY DEF Content, RingSeq, Gap

\* A step of the mapped state: it is one of TaskQueue, or changes nothing.
Mapped == [Abstract!Next]_<<BarQueue, BarBatch>>

\* A step that changes no ring and no batch is a stutter.
LEMMA Stutter ==
  ASSUME \A q \in Queues : Content(q)' = Content(q), BarBatch' = BarBatch
  PROVE  Mapped
<1>1. BarQueue' = BarQueue
  BY DEF BarQueue
<1> QED BY <1>1 DEF Mapped

\* spsc_push stores an entry that nobody sees yet.
LEMMA StoreEntryMaps ==
  ASSUME IInv, NEW p \in Producers, StoreEntry(p)
  PROVE  Mapped
<1> DEFINE q == RingOf(p)
<1>1. q \in Queues
  BY RingOfType
<1> HIDE DEF q
<1>a. /\ entries' = [entries EXCEPT ![q][head[q]] = val[p]]
      /\ UNCHANGED <<head, tail, batch, put>>
  BY DEF StoreEntry, consvars, q
<1>2. /\ head[q] \in Ring /\ tail[q] \in Ring /\ val[p] \in Entry
      /\ entries[q] \in [Ring -> Entry]
  BY <1>1 DEF IInv, TypeOK
<1>3. /\ entries'[q] = [entries[q] EXCEPT ![head[q]] = val[p]]
      /\ \A r \in Queues \ {q} : entries'[r] = entries[r]
  BY <1>1, <1>a, SMTT(20) DEF IInv, TypeOK
<1>4. RingSeq(head[q], tail[q], entries'[q]) = RingSeq(head[q], tail[q], entries[q])
  BY <1>2, <1>3, RingStore
<1>5. \A r \in Queues : Content(r)' = Content(r)
  <2> SUFFICES ASSUME NEW r \in Queues PROVE Content(r)' = Content(r)
    OBVIOUS
  <2>1. CASE r = q
    BY <2>1, <1>4, <1>a, ContentIs
  <2>2. CASE r # q
    BY <2>2, <1>3, <1>a, ContentIs
  <2> QED BY <2>1, <2>2
<1>6. BarBatch' = BarBatch
  BY <1>a DEF BarBatch
<1> QED BY <1>5, <1>6, Stutter

\* The store of head adds the task to the queue of the ring, which has room.
LEMMA StoreHeadMaps ==
  ASSUME IInv, NEW p \in Producers, StoreHead(p)
  PROVE  Mapped
<1> DEFINE q == RingOf(p)
<1>a. /\ pc[p] = "publish"
      /\ head' = [head EXCEPT ![q] = (head[q] + 1) % Slots]
      /\ UNCHANGED <<tail, entries, batch, put>>
  BY DEF StoreHead, consvars
<1>1. /\ q \in Queues /\ head[q] \in Ring /\ tail[q] \in Ring
      /\ entries[q] \in [Ring -> Entry] /\ entries[q][head[q]] = val[p]
      /\ val[p] \in Tasks /\ Gap(tail[q], head[q]) <= Slots - 2
  BY <1>a, RoomToPublish
<1> HIDE DEF q
<1>2. head'[q] = (head[q] + 1) % Slots /\ \A r \in Queues \ {q} : head'[r] = head[r]
  BY <1>1, <1>a DEF IInv, TypeOK
<1>3. RingSeq(head'[q], tail[q], entries[q])
        = Append(RingSeq(head[q], tail[q], entries[q]), val[p])
  <2>1. RingSeq((head[q] + 1) % Slots, tail[q], entries[q])
          = Append(RingSeq(head[q], tail[q], entries[q]), entries[q][head[q]])
    BY <1>1, RingPut, ZenonT(30)
  <2> QED BY <2>1, <1>1, <1>2, Zenon
<1>4. Content(q)' = Append(Content(q), val[p])
  BY <1>3, <1>a, ContentIs, Zenon
<1>5. \A r \in Queues \ {q} : Content(r)' = Content(r)
  BY <1>2, <1>a, ContentIs
<1>6. Len(Content(q)) < Slots - 1
  <2>1. Len(RingSeq(head[q], tail[q], entries[q])) = Gap(tail[q], head[q])
    BY <1>1, RingType, Zenon
  <2>2. Gap(tail[q], head[q]) \in Ring
    BY <1>1, GapValue
  <2>3. Gap(tail[q], head[q]) < Slots - 1
    BY <2>2, <1>1, RingAssumption DEF Ring
  <2> QED BY <2>1, <2>3, ContentIs
<1>7. BarQueue' = [BarQueue EXCEPT ![q] = Append(BarQueue[q], val[p])]
  BY <1>1, <1>4, <1>5, Zenon DEF BarQueue
<1>8. BarBatch' = BarBatch
  BY <1>a DEF BarBatch
<1>9. Len(BarQueue[q]) < Slots - 1
  BY <1>6, <1>1 DEF BarQueue
<1>10. Abstract!Put(q, val[p])
  BY <1>7, <1>8, <1>9, Zenon DEF Abstract!Put, BarQueue, BarBatch
<1> QED BY <1>10, <1>1 DEF Mapped, Abstract!Next

\* The copies of a ring are not taken as long as its tail is where it was.
LEMMA CopyEntryMaps ==
  ASSUME IInv, CopyEntry
  PROVE  Mapped
<1>1. batch' \in Seq(Entry) /\ put' \in Nat
  BY CopyEntryKept DEF IInv, TypeOK
<1>2. batch \in Seq(Entry) /\ put \in Nat /\ put <= Len(batch)
  BY DEF IInv, TypeOK, CopyInv
<1>3. PICK x : batch' = Append(batch, x) /\ put' = put + 1
  BY DEF CopyEntry
<1>4. x \in Entry
  <2>1. Len(batch') = Len(batch) + 1 /\ batch'[Len(batch) + 1] = x
    BY <1>2, <1>3
  <2> QED BY <2>1, <1>1, <1>2
<1>5. BarBatch' = BarBatch
  <2> DEFINE m == Len(batch) - put
  <2>1. m \in 0..Len(batch) /\ Len(batch') - put' = m
    BY <1>2, <1>3, <1>4
  <2> HIDE DEF m
  <2>2. SubSeq(Append(batch, x), 1, m) = SubSeq(batch, 1, m)
    BY <2>1, <1>2, <1>4
  <2> QED BY <2>1, <2>2, <1>3 DEF BarBatch, m
<1>6. \A q \in Queues : Content(q)' = Content(q)
  BY DEF CopyEntry, ringvars, Content
<1> QED BY <1>5, <1>6, Stutter

\* A sequence that begins as a and goes on as b is their concatenation.
LEMMA SplitSeq ==
  ASSUME NEW S, NEW s \in Seq(S), NEW a \in Seq(S), NEW b \in Seq(S),
         Len(s) = Len(a) + Len(b),
         \A i \in 1..Len(a) : a[i] = s[i],
         \A i \in 1..Len(b) : b[i] = s[Len(a) + i]
  PROVE  s = a \o b
<1>1. a \o b \in Seq(S) /\ Len(a \o b) = Len(a) + Len(b)
  OBVIOUS
<1>2. ASSUME NEW i \in 1..(Len(a) + Len(b)) PROVE s[i] = (a \o b)[i]
  <2>1. CASE i <= Len(a)
    BY <2>1
  <2>2. CASE i > Len(a)
    <3>1. i - Len(a) \in 1..Len(b) /\ Len(a) + (i - Len(a)) = i
      BY <2>2
    <3>2. (a \o b)[i] = b[i - Len(a)]
      BY <2>2
    <3> QED BY <3>1, <3>2
  <2> QED BY <2>1, <2>2
<1> QED BY <1>1, <1>2

\* When tail is moved, what was copied from the ring is taken from its queue.
LEMMA PopEndMaps ==
  ASSUME IInv, PopEnd
  PROVE  Mapped
<1>c. PICK c \in Queues : c = current
  BY DEF IInv, TypeOK
<1> DEFINE n == Gap(tail[c], head[c])
<1>a. /\ cpc = "copy" /\ c \in Queues /\ put \in Nat
      /\ head[c] \in Ring /\ tail[c] \in Ring
      /\ entries[c] \in [Ring -> Entry]
      /\ n \in Ring /\ put <= n
      /\ tail' = [tail EXCEPT ![c] = (tail[c] + put) % Slots]
      /\ entries' = [entries EXCEPT ![c] = Vacated(entries[c], tail[c], put)]
      /\ put' = 0 /\ head' = head /\ batch' = batch
  BY <1>c, PopEndKnows
<1>e. NULL \in Entry
  BY Zenon DEF Entry
<1>1. RingSeq(head[c], (tail[c] + put) % Slots, Vacated(entries[c], tail[c], put))
        = SubSeq(RingSeq(head[c], tail[c], entries[c]), put + 1, n)
  BY <1>a, <1>e, RingTake
<1>2. /\ RingSeq(head[c], tail[c], entries[c]) \in Seq(Entry)
      /\ Len(RingSeq(head[c], tail[c], entries[c])) = n
  BY <1>a, RingType
<1>i. \A i \in 1..n : RingSeq(head[c], tail[c], entries[c])[i]
                        = entries[c][(tail[c] + (i - 1)) % Slots]
  BY <1>a, RingAt
<1> HIDE DEF n
<1>3. Content(c) \in Seq(Entry) /\ Len(Content(c)) = n
  BY <1>2, ContentIs, Zenon
<1>b. n \in Nat /\ batch \in Seq(Entry) /\ put <= Len(batch) /\ Len(batch) <= Cnt
  BY <1>a DEF Ring, IInv, TypeOK, CopyInv
<1>4. /\ tail'[c] = (tail[c] + put) % Slots
      /\ entries'[c] = Vacated(entries[c], tail[c], put)
      /\ \A r \in Queues \ {c} : tail'[r] = tail[r] /\ entries'[r] = entries[r]
  BY <1>a DEF IInv, TypeOK
<1>5. Content(c)' = SubSeq(Content(c), put + 1, Len(Content(c)))
  <2>1. Content(c)' = RingSeq(head[c], (tail[c] + put) % Slots, Vacated(entries[c], tail[c], put))
    BY <1>4, <1>a, ContentIs, Zenon
  <2>2. Content(c) = RingSeq(head[c], tail[c], entries[c])
    BY ContentIs, Zenon
  <2> QED BY <2>1, <2>2, <1>1, <1>3, Zenon
<1>6. \A r \in Queues \ {c} : Content(r)' = Content(r)
  BY <1>4, <1>a, ContentIs
<1>7. BarQueue' = [BarQueue EXCEPT ![c] = SubSeq(BarQueue[c], put + 1, Len(BarQueue[c]))]
  <2> DEFINE d == SubSeq(BarQueue[c], put + 1, Len(BarQueue[c]))
  <2>1. Content(c)' = d
    BY <1>a, <1>5, Zenon DEF BarQueue
  <2> HIDE DEF d
  <2>2. BarQueue' = [BarQueue EXCEPT ![c] = d]
    BY <1>a, <2>1, <1>6, Zenon DEF BarQueue
  <2> QED BY <2>2 DEF d
<1>8. BarBatch' = batch
  <2>1. BarBatch' = SubSeq(batch, 1, Len(batch))
    BY <1>a, <1>b DEF BarBatch
  <2> QED BY <2>1, <1>b
<1>9. BarBatch \in Seq(Entry) /\ Len(BarBatch) = Len(batch) - put
  BY <1>a, <1>b DEF BarBatch
<1>10. batch = BarBatch \o SubSeq(Content(c), 1, put)
  <2> DEFINE s == SubSeq(Content(c), 1, put)
             m == Len(batch) - put
  <2>1. s \in Seq(Entry) /\ Len(s) = put /\ m \in Nat
    BY <1>3, <1>a, <1>b
  <2>2. \A i \in 1..m : BarBatch[i] = batch[i]
    BY <1>a, <1>b DEF BarBatch
  <2>3. \A i \in 1..put : s[i] = batch[m + i]
    <3> SUFFICES ASSUME NEW i \in 1..put PROVE s[i] = batch[m + i]
      BY Zenon
    <3>1. i \in 1..n
      BY <1>a, <1>b
    <3>2. s[i] = Content(c)[i]
      BY <1>3, <1>a, <1>b, <3>1, SMTT(20)
    <3>3. Content(c)[i] = entries[c][(tail[c] + (i - 1)) % Slots]
      BY <3>1, <1>i, ContentIs, SMTT(20)
    <3>4. batch[m + i] = entries[c][(tail[c] + (i - 1)) % Slots]
      BY <1>c DEF IInv, CopyInv
    <3> QED BY <3>2, <3>3, <3>4, Zenon
  <2>4. Len(batch) = m + put
    BY <1>a, <1>b
  <2>5. Len(BarBatch) = m
    BY <1>9
  <2> HIDE DEF s, m
  <2>6. batch = BarBatch \o s
    BY <2>1, <2>2, <2>3, <2>4, <2>5, <1>9, <1>b, SplitSeq, Zenon
  <2> QED BY <2>6 DEF s
<1>11. CASE put = 0
  <2>1. Content(c)' = Content(c)
    BY <1>11, <1>5, <1>3
  <2>2. BarBatch = batch
    BY <1>11, <1>b DEF BarBatch
  <2>3. \A q \in Queues : Content(q)' = Content(q)
    BY <2>1, <1>6
  <2> QED BY <2>2, <2>3, <1>8, Stutter, Zenon
<1>12. CASE put # 0
  <2>1. put \in 1..Cnt
    BY <1>12, <1>a, <1>b, CntAssumption
  <2>2. put <= Len(BarQueue[c]) /\ Len(BarBatch) + put <= Cnt
    BY <1>3, <1>9, <1>a, <1>b, CntAssumption DEF BarQueue
  <2>3. BarBatch' = BarBatch \o SubSeq(BarQueue[c], 1, put)
    BY <1>8, <1>10, <1>a DEF BarQueue
  <2>4. Abstract!Take(c, put)
    BY <2>2, <2>3, <1>7, Zenon DEF Abstract!Take, BarQueue, BarBatch
  <2> QED BY <2>1, <2>4, <1>a DEF Mapped, Abstract!Next
<1> QED BY <1>11, <1>12

\* The batch is handed on, when there is one.
LEMMA GiveMaps ==
  ASSUME IInv, Give
  PROVE  Mapped
<1>1. put = 0 /\ put' = 0 /\ batch' = <<>>
  BY DEF Give, IInv, CopyInv
<1>2. batch \in Seq(Entry)
  BY DEF IInv, TypeOK
<1>3. BarBatch = batch /\ BarBatch' = <<>>
  BY <1>1, <1>2 DEF BarBatch
<1>4. \A q \in Queues : Content(q)' = Content(q)
  BY DEF Give, ringvars, Content
<1>5. CASE batch = <<>>
  BY <1>3, <1>4, <1>5, Stutter
<1>6. CASE batch # <<>>
  <2>1. BarQueue' = BarQueue
    BY <1>4 DEF BarQueue
  <2>2. Abstract!HandOn
    BY <2>1, <1>3, <1>6, Zenon DEF Abstract!HandOn, BarQueue, BarBatch
  <2> QED BY <2>2 DEF Mapped, Abstract!Next
<1> QED BY <1>5, <1>6, Zenon

\* The other steps change neither a ring nor the batch.
LEMMA OtherMaps ==
  ASSUME IInv, UNCHANGED <<head, tail, entries, batch>>, put' = put
  PROVE  Mapped
  BY Stutter DEF Content, BarBatch

\* Every step is one of TaskQueue, or changes nothing there.
LEMMA NextMaps ==
  ASSUME IInv, [Next]_vars
  PROVE  Mapped
<1>1. ASSUME NEW p \in Producers, NEW t \in Tasks, Push(p, t) PROVE Mapped
  BY <1>1, OtherMaps DEF Push, ringvars, consvars
<1>2. ASSUME NEW p \in Producers, Produce(p) PROVE Mapped
  <2>1. CASE LoadTail(p)
    BY <2>1, OtherMaps DEF LoadTail, consvars
  <2>2. CASE PushFull(p)
    BY <2>2, OtherMaps DEF PushFull, consvars
  <2> QED BY <1>2, <2>1, <2>2, StoreEntryMaps, StoreHeadMaps, Zenon DEF Produce
<1>3. ASSUME PopBatch PROVE Mapped
  <2>1. put = 0 /\ put' = 0
    BY <1>3 DEF PopBatch, LoadHead, IInv, CopyInv
  <2> QED BY <1>3, <2>1, OtherMaps DEF PopBatch, ringvars
<1>4. ASSUME Consume PROVE Mapped
  BY <1>3, <1>4, CopyEntryMaps, PopEndMaps, GiveMaps DEF Consume
<1>5. ASSUME UNCHANGED vars PROVE Mapped
  BY <1>5, OtherMaps DEF vars, ringvars, consvars
<1> QED BY <1>1, <1>2, <1>4, <1>5 DEF Next

\* The rings are empty at first.
LEMMA InitMaps == Init => Abstract!Init
<1> SUFFICES ASSUME Init PROVE Abstract!Init
  OBVIOUS
<1>1. 0 \in Ring
  BY RingAssumption DEF Ring
<1>2. Gap(0, 0) = 0
  BY <1>1, GapValue
<1>3. ASSUME NEW q \in Queues PROVE Content(q) = <<>>
  <2>1. head[q] = 0 /\ tail[q] = 0
    BY DEF Init
  <2>2. Content(q) = [i \in 1..0 |-> entries[q][(0 + i - 1) % Slots]]
    BY <2>1, <1>2 DEF Content, Gap
  <2> QED BY <2>2
<1>4. SubSeq(batch, 1, Len(batch) - put) = <<>>
  BY DEF Init
<1> QED BY <1>3, <1>4 DEF Abstract!Init

\* The submission queue implements TaskQueue: whatever the order in which
\* producers read tail, store the entry and store head, and the consumer reads
\* head, copies entries and stores tail (spsc_push and spsc_pop_batch under
\* mpsc_push and mpsc_pop_batch), no task is lost, overwritten, taken twice or
\* taken out of order, no ring holds more than Slots - 1 tasks and no batch more
\* than Cnt.
THEOREM Refinement == Spec => AbstractSpec
<1>1. IInv /\ [Next]_vars => [Abstract!Next]_<<BarQueue, BarBatch>>
  BY NextMaps DEF Mapped
<1> QED BY <1>1, InitMaps, Invariance, PTL DEF Spec, AbstractSpec, Abstract!Spec, BarQueue, BarBatch
=============================================================================
