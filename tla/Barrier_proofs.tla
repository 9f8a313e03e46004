--------------------------- MODULE Barrier_proofs ---------------------------
(***************************************************************************)
(* The promise of the barrier for every team, width and number of rounds.  *)
(***************************************************************************)
EXTENDS Barrier, TLAPS

Inside == {"locked", "unlock to pause", "unlock to submit"}
Last == {"unlock to submit", "submit"}
Pausing == {"unlock to pause", "pause"}
Places == Inside \cup Last \cup Pausing \cup {"out"}

BarTypeOK ==
    /\ towait \in Nat /\ holder \in Team \cup {NoHolder} /\ call \in [Team -> Places]
    /\ round \in Nat /\ my \in [Team -> Nat]

\* The group of the barrier and its copies: who is in them, and how many.
SizeInv ==
    /\ waiting \in Seq(Team) /\ group \in [Team -> Seq(Team)]
    /\ towait = Width - Len(waiting) /\ towait > 0
    /\ \A i, j \in DOMAIN waiting : i # j => waiting[i] # waiting[j]
    /\ \A l \in Team : IF call[l] \in Last THEN Len(group[l]) = Width - 1 ELSE group[l] = << >>

\* The spinlock: one task is inside, and it was early enough to count down.
LockInv ==
    \A t \in Team : /\ call[t] \in Inside <=> holder = t
                    /\ call[t] = "locked" => round <= Rounds

\* The last round in which a task arrived is over, or it is the one before the
\* round that waits for tasks.
Over(t) == my[t] < round
JustOver(t) == my[t] = round - 1
Bounded(t) == my[t] <= Rounds

\* The tasks in the barrier are those of the round that is not over.
WaitingInv ==
    \A t \in Members(waiting) : t \in Team /\ call[t] \in Pausing /\ my[t] = round

\* The tasks in a group have paused, in a round that is over, and are in no
\* other.
GroupInv ==
    \A l \in Team : \A t \in Members(group[l]) :
        /\ t \in Team /\ call[t] = "pause" /\ Over(t) /\ t \notin submitted \cup woken
        /\ \A m \in Team : t \in Members(group[m]) => m = l

\* Every paused task is somewhere, and only tasks of a round that is over are
\* submitted, woken or outside.
TaskInv ==
    /\ \A t \in submitted \cup woken : t \in Team /\ call[t] = "pause" /\ Over(t)
    /\ submitted \cap woken = {}
    /\ \A t \in Team :
        /\ Bounded(t) /\ (call[t] \notin Pausing => Over(t))
        /\ call[t] \in Pausing =>
              t \in submitted \cup woken \cup Members(waiting) \/ \E l \in Team : t \in Members(group[l])

\* While the last task has the lock, the others of its round are in its group.
LastInv ==
    \A l \in Team : call[l] = "unlock to submit" =>
        JustOver(l) /\ \A t \in Team \ {l} : JustOver(t) => t \in Members(group[l])

\* A barrier that was freed is not needed any more.
FreedInv == memory = "freed" => holder = NoHolder /\ Rounds < round

IInv == BarTypeOK /\ SizeInv /\ LockInv /\ WaitingInv /\ GroupInv /\ TaskInv /\ LastInv /\ FreedInv
-----------------------------------------------------------------------------
\* What the group of the barrier is after another task joined it.
LEMMA AppendFacts ==
  ASSUME NEW s \in Seq(Team), NEW t \in Team
  PROVE  /\ Append(s, t) \in Seq(Team) /\ Len(Append(s, t)) = Len(s) + 1
         /\ DOMAIN Append(s, t) = 1 .. Len(s) + 1 /\ DOMAIN s = 1 .. Len(s) /\ Len(s) \in Nat
         /\ \A i \in 1 .. Len(s) : Append(s, t)[i] = s[i]
         /\ Append(s, t)[Len(s) + 1] = t
         /\ Members(Append(s, t)) = Members(s) \cup {t}
<1>1. /\ Append(s, t) \in Seq(Team) /\ Len(Append(s, t)) = Len(s) + 1
      /\ DOMAIN Append(s, t) = 1 .. Len(s) + 1 /\ DOMAIN s = 1 .. Len(s) /\ Len(s) \in Nat
      /\ \A i \in 1 .. Len(s) : Append(s, t)[i] = s[i]
      /\ Append(s, t)[Len(s) + 1] = t
  OBVIOUS
<1>2. Members(Append(s, t)) = Members(s) \cup {t}
  BY <1>1 DEF Members
<1> QED BY <1>1, <1>2

\* Nobody is in an empty group.
LEMMA EmptyFacts == << >> \in Seq(Team) /\ Len(<< >>) = 0 /\ DOMAIN << >> = {} /\ Members(<< >>) = {}
  BY DEF Members

\* Who is in a group is at one of its places.
LEMMA MemberFacts ==
  ASSUME NEW s \in Seq(Team)
  PROVE  Members(s) \subseteq Team /\ \A i \in DOMAIN s : s[i] \in Members(s)
  BY DEF Members

\* Where a task can be.
LEMMA PlaceFacts ==
  /\ "locked" \in Inside \cap Places /\ "locked" \notin Last \cup Pausing
  /\ "unlock to pause" \in Inside \cap Pausing \cap Places /\ "unlock to pause" \notin Last
  /\ "unlock to submit" \in Inside \cap Last \cap Places /\ "unlock to submit" \notin Pausing
  /\ "pause" \in Pausing \cap Places /\ "pause" \notin Inside \cup Last
  /\ "submit" \in Last \cap Places /\ "submit" \notin Inside \cup Pausing
  /\ "out" \in Places /\ "out" \notin Inside \cup Last \cup Pausing
  BY DEF Inside, Last, Pausing, Places

\* The numbers.
LEMMA NumberFacts ==
  ASSUME BarTypeOK
  PROVE  /\ Width \in Nat /\ Width > 0 /\ Rounds \in Nat /\ Rounds > 0
         /\ round \in Nat /\ towait \in Nat /\ my \in [Team -> Nat]
  BY BarrierAssumption DEF BarTypeOK

\* A barrier that nosv_barrier_init made is empty.
LEMMA InitInv == BarInit => IInv
<1> SUFFICES ASSUME BarInit PROVE IInv
  OBVIOUS
<1>1. BarTypeOK
  BY BarrierAssumption, PlaceFacts DEF BarInit, BarTypeOK
<1>2. SizeInv
  <2>1. waiting \in Seq(Team) /\ group \in [Team -> Seq(Team)] /\ Len(waiting) = 0 /\ DOMAIN waiting = {}
    BY EmptyFacts DEF BarInit
  <2>2. towait = Width - Len(waiting) /\ towait > 0
    BY <2>1, BarrierAssumption DEF BarInit
  <2>3. \A l \in Team : call[l] \notin Last /\ group[l] = << >>
    BY PlaceFacts DEF BarInit
  <2> QED BY <2>1, <2>2, <2>3 DEF SizeInv
<1>3. LockInv
  BY BarrierAssumption, PlaceFacts DEF BarInit, LockInv
<1>4. Members(waiting) = {} /\ \A l \in Team : Members(group[l]) = {}
  BY EmptyFacts DEF BarInit
<1>5. WaitingInv /\ GroupInv
  BY <1>4 DEF WaitingInv, GroupInv
<1>6. TaskInv
  <2>1. submitted = {} /\ woken = {} /\ \A t \in Team : call[t] \notin Pausing
    BY PlaceFacts DEF BarInit
  <2>2. \A t \in Team : Bounded(t) /\ Over(t)
    <3>1. round = 1 /\ \A t \in Team : my[t] = 0
      BY DEF BarInit
    <3>2. 0 <= Rounds /\ 0 < 1
      BY BarrierAssumption
    <3> QED BY <3>1, <3>2 DEF Bounded, Over
  <2> QED BY <2>1, <2>2 DEF TaskInv
<1>7. LastInv /\ FreedInv
  BY DEF BarInit, LastInv, FreedInv
<1> QED BY <1>1, <1>2, <1>3, <1>5, <1>6, <1>7 DEF IInv
-----------------------------------------------------------------------------
\* A task gets the lock: it is outside, and nobody is in the barrier.
LEMMA WaitLockInv == ASSUME IInv, NEW t \in Team, WaitLock(t) PROVE IInv'
<1>i. BarTypeOK /\ SizeInv /\ LockInv /\ WaitingInv /\ GroupInv /\ TaskInv /\ LastInv /\ FreedInv
  BY DEF IInv
<1>s. /\ UNCHANGED << waiting, towait, memory, group, submitted, woken, round, my >>
      /\ call[t] = "out" /\ holder = NoHolder /\ holder' = t
      /\ call' = [call EXCEPT ![t] = "locked"]
  BY DEF WaitLock
<1>c. \A u \in Team : call'[u] = IF u = t THEN "locked" ELSE call[u]
  BY <1>i, <1>s DEF BarTypeOK
<1>o. \A u \in Team : /\ Over(u)' <=> Over(u)
                      /\ JustOver(u)' <=> JustOver(u)
                      /\ Bounded(u)' <=> Bounded(u)
  BY <1>s DEF Over, JustOver, Bounded
<1>r. round <= Rounds
  BY DEF WaitLock
<1>1. BarTypeOK'
  BY <1>i, <1>s, PlaceFacts DEF BarTypeOK
<1>2. SizeInv'
  BY <1>i, <1>s, <1>c, PlaceFacts DEF SizeInv
<1>3. LockInv'
  BY <1>i, <1>s, <1>c, <1>r, PlaceFacts, BarrierAssumption DEF LockInv
<1>4. WaitingInv'
  BY <1>i, <1>s, <1>c, PlaceFacts DEF WaitingInv
<1>5. GroupInv'
  BY <1>i, <1>s, <1>c, <1>o DEF GroupInv
<1>6. TaskInv'
  <2>1. call[t] \notin Pausing /\ call'[t] \notin Pausing
    BY <1>s, <1>c, PlaceFacts
  <2> QED BY <1>i, <1>s, <1>c, <1>o, <2>1 DEF TaskInv
<1>7. LastInv'
  <2>1. \A l \in Team : Members(group[l])' = Members(group[l])
    BY <1>s
  <2>2. \A l \in Team : call'[l] = "unlock to submit" => call[l] = "unlock to submit"
    BY <1>c
  <2> QED BY <1>i, <1>o, <2>1, <2>2 DEF LastInv
<1>8. FreedInv'
  <2>1. ~(Rounds < round)
    BY <1>i, <1>r, NumberFacts
  <2> QED BY <1>i, <1>s, <2>1 DEF FreedInv
<1> QED BY <1>1, <1>2, <1>3, <1>4, <1>5, <1>6, <1>7, <1>8 DEF IInv

\* A task that holds the lock and has not counted down is in no group.
LEMMA LockedFacts ==
  ASSUME IInv, NEW t \in Team, call[t] = "locked"
  PROVE  /\ t \notin Members(waiting) /\ t \notin submitted /\ t \notin woken
         /\ \A l \in Team : t \notin Members(group[l])
         /\ Over(t) /\ round <= Rounds /\ holder = t /\ memory # "freed"
         /\ \A u \in Team \ {t} : call[u] \notin Inside
<1>i. BarTypeOK /\ LockInv /\ WaitingInv /\ GroupInv /\ TaskInv /\ FreedInv
  BY DEF IInv
<1>p. call[t] \notin Pausing /\ call[t] # "pause" /\ call[t] \in Inside
  BY PlaceFacts
<1>1. t \notin Members(waiting)
  BY <1>i, <1>p DEF WaitingInv
<1>2. t \notin submitted /\ t \notin woken
  BY <1>i, <1>p DEF TaskInv
<1>3. \A l \in Team : t \notin Members(group[l])
  BY <1>i, <1>p DEF GroupInv
<1>4. Over(t)
  BY <1>i, <1>p DEF TaskInv
<1>5. round <= Rounds /\ holder = t
  BY <1>i, <1>p DEF LockInv
<1>6. \A u \in Team \ {t} : call[u] \notin Inside
  BY <1>i, <1>5 DEF LockInv
<1>7. memory # "freed"
  <2>1. ~(Rounds < round)
    BY <1>i, <1>5, NumberFacts
  <2> QED BY <1>i, <2>1 DEF FreedInv
<1> QED BY <1>1, <1>2, <1>3, <1>4, <1>5, <1>6, <1>7

\* A task joins the group of the round that is not over.
LEMMA AddWaitingInv == ASSUME IInv, NEW t \in Team, AddWaiting(t) PROVE IInv'
<1>i. BarTypeOK /\ SizeInv /\ LockInv /\ WaitingInv /\ GroupInv /\ TaskInv /\ LastInv /\ FreedInv
  BY DEF IInv
<1>s. /\ UNCHANGED << holder, memory, group, submitted, woken, round >>
      /\ call[t] = "locked" /\ towait - 1 # 0 /\ towait' = towait - 1
      /\ my' = [my EXCEPT ![t] = round] /\ call' = [call EXCEPT ![t] = "unlock to pause"]
  BY DEF AddWaiting
<1>w. waiting \in Seq(Team) /\ waiting' = Append(waiting, t)
  BY <1>i DEF AddWaiting, SizeInv
<1>a. /\ waiting' \in Seq(Team) /\ Len(waiting') = Len(waiting) + 1 /\ Len(waiting) \in Nat
      /\ DOMAIN waiting' = 1 .. Len(waiting) + 1 /\ DOMAIN waiting = 1 .. Len(waiting)
      /\ \A i \in 1 .. Len(waiting) : waiting'[i] = waiting[i]
      /\ waiting'[Len(waiting) + 1] = t
  BY <1>w, AppendFacts
<1>m. Members(waiting)' = Members(waiting) \cup {t}
  BY <1>w, AppendFacts
<1>b. /\ t \notin Members(waiting) /\ t \notin submitted /\ t \notin woken
      /\ \A l \in Team : t \notin Members(group[l])
      /\ Over(t) /\ round <= Rounds /\ holder = t /\ memory # "freed"
      /\ \A u \in Team \ {t} : call[u] \notin Inside
  BY <1>s, LockedFacts
<1>c. \A u \in Team : call'[u] = IF u = t THEN "unlock to pause" ELSE call[u]
  BY <1>i, <1>s DEF BarTypeOK
<1>d. \A u \in Team : my'[u] = IF u = t THEN round ELSE my[u]
  BY <1>i, <1>s DEF BarTypeOK
<1>o. \A u \in Team \ {t} : (Over(u)' <=> Over(u)) /\ (Bounded(u)' <=> Bounded(u))
  BY <1>s, <1>d DEF Over, Bounded
<1>1. BarTypeOK'
  <2>1. towait - 1 \in Nat
    <3>1. towait > 0 /\ towait \in Nat
      BY <1>i DEF BarTypeOK, SizeInv
    <3> QED BY <3>1
  <2> QED BY <1>i, <2>1, <1>s, PlaceFacts DEF BarTypeOK
<1>2. SizeInv'
  <2>1. \A i \in DOMAIN waiting : waiting[i] # t
    BY <1>b, <1>w, MemberFacts
  <2>2. \A i, j \in DOMAIN waiting : i # j => waiting[i] # waiting[j]
    BY <1>i DEF SizeInv
  <2>3. \A i, j \in DOMAIN waiting' : i # j => waiting'[i] # waiting'[j]
    BY <1>a, <2>1, <2>2
  <2>4. towait' = Width - Len(waiting') /\ towait' > 0
    <3>1. towait = Width - Len(waiting) /\ towait > 0
      BY <1>i DEF SizeInv
    <3>2. Width \in Nat /\ towait \in Nat
      BY <1>i, NumberFacts
    <3>3. Len(waiting') = Len(waiting) + 1 /\ Len(waiting) \in Nat /\ towait' = towait - 1 /\ towait - 1 # 0
      BY <1>a, <1>s
    <3> QED BY <3>1, <3>2, <3>3
  <2>5. group' \in [Team -> Seq(Team)]
    BY <1>i, <1>s DEF SizeInv
  <2>6. \A l \in Team : IF call'[l] \in Last THEN Len(group'[l]) = Width - 1 ELSE group'[l] = << >>
    <3>1. \A l \in Team : call'[l] \in Last <=> call[l] \in Last
      BY <1>c, <1>s, PlaceFacts
    <3> QED BY <1>i, <1>s, <3>1 DEF SizeInv
  <2> QED BY <1>a, <2>3, <2>4, <2>5, <2>6 DEF SizeInv
<1>3. LockInv'
  BY <1>i, <1>s, <1>c, PlaceFacts DEF LockInv
<1>4. WaitingInv'
  BY <1>i, <1>s, <1>c, <1>d, <1>m, PlaceFacts DEF WaitingInv
<1>5. GroupInv'
  BY <1>i, <1>s, <1>b, <1>c, <1>o DEF GroupInv
<1>6. TaskInv'
  <2>1. call[t] \notin Pausing /\ call'[t] \in Pausing
    BY <1>s, <1>c, PlaceFacts
  <2>2. \A u \in submitted' \cup woken' : u \in Team /\ call'[u] = "pause" /\ Over(u)'
    BY <1>i, <1>s, <1>b, <1>c, <1>o DEF TaskInv
  <2>3. \A u \in Team : Bounded(u)' /\ (call'[u] \notin Pausing => Over(u)')
    <3>1. Bounded(t)'
      BY <1>b, <1>d DEF Bounded
    <3> QED BY <1>i, <1>c, <1>o, <2>1, <3>1 DEF TaskInv
  <2>4. \A u \in Team : call'[u] \in Pausing =>
           u \in (submitted \cup woken \cup Members(waiting))' \/ \E l \in Team : u \in Members(group[l])'
    BY <1>i, <1>s, <1>c, <1>m, <2>1 DEF TaskInv
  <2>5. submitted' \cap woken' = {}
    BY <1>i, <1>s DEF TaskInv
  <2> QED BY <2>2, <2>3, <2>4, <2>5 DEF TaskInv
<1>7. LastInv'
  BY <1>b, <1>c, PlaceFacts DEF LastInv
<1>8. FreedInv'
  BY <1>s, <1>b DEF FreedInv
<1> QED BY <1>1, <1>2, <1>3, <1>4, <1>5, <1>6, <1>7, <1>8 DEF IInv

\* The last task takes the group of a round, which is over now.
LEMMA TakeWaitingInv == ASSUME IInv, NEW t \in Team, TakeWaiting(t) PROVE IInv'
<1>i. BarTypeOK /\ SizeInv /\ LockInv /\ WaitingInv /\ GroupInv /\ TaskInv /\ LastInv /\ FreedInv
  BY DEF IInv
<1>s. /\ UNCHANGED << holder, memory, submitted, woken >>
      /\ call[t] = "locked" /\ towait - 1 = 0 /\ towait' = Width /\ round' = round + 1
      /\ my' = [my EXCEPT ![t] = round] /\ call' = [call EXCEPT ![t] = "unlock to submit"]
  BY DEF TakeWaiting
<1>w. waiting' = << >> /\ group' = [group EXCEPT ![t] = waiting]
  BY DEF TakeWaiting
<1>n. /\ Width \in Nat /\ Width > 0 /\ round \in Nat /\ towait \in Nat
      /\ towait - 1 = 0 /\ towait' = Width /\ round' = round + 1
  BY <1>i, NumberFacts DEF TakeWaiting
<1>k. \A u \in Team : my[u] \in Nat
  BY <1>i, NumberFacts
<1>b. /\ t \notin Members(waiting) /\ t \notin submitted /\ t \notin woken
      /\ \A l \in Team : t \notin Members(group[l])
      /\ Over(t) /\ round <= Rounds /\ holder = t /\ memory # "freed"
      /\ \A u \in Team \ {t} : call[u] \notin Inside
  BY <1>s, LockedFacts
<1>c. \A u \in Team : call'[u] = IF u = t THEN "unlock to submit" ELSE call[u]
  BY <1>i, <1>s DEF BarTypeOK
<1>d. \A u \in Team : my'[u] = IF u = t THEN round ELSE my[u]
  BY <1>i, <1>s DEF BarTypeOK
<1>g. \A u \in Team : group'[u] = IF u = t THEN waiting ELSE group[u]
  BY <1>i, <1>w DEF SizeInv
<1>e. Members(group[t]) = {} /\ Members(waiting)' = {}
  <2>1. group[t] = << >>
    BY <1>i, <1>s, PlaceFacts DEF SizeInv
  <2> QED BY <2>1, <1>w, EmptyFacts
<1>m. \A u \in Team : Members(group[u])' = IF u = t THEN Members(waiting) ELSE Members(group[u])
  BY <1>g
\* Who was in the barrier, or before that round, is in a round that is over.
<1>o. \A u \in Team : my[u] = round \/ Over(u) => Over(u)'
  <2> TAKE u \in Team
  <2>1. CASE u = t
    <3>1. my'[u] = round
      BY <1>d, <2>1
    <3>2. round < round'
      BY <1>n
    <3> QED BY <3>1, <3>2 DEF Over
  <2>2. CASE u # t
    <3>1. my'[u] = my[u] /\ my[u] \in Nat
      BY <1>d, <1>k, <2>2
    <3>2. my[u] = round \/ my[u] < round => my[u] < round'
      BY <1>n, <3>1
    <3> QED BY <3>1, <3>2 DEF Over
  <2> QED BY <2>1, <2>2
<1>p. \A u \in Members(waiting) : u \in Team /\ call[u] = "pause" /\ u # t /\ my[u] = round
  <2> TAKE u \in Members(waiting)
  <2>1. u \in Team /\ call[u] \in Pausing /\ my[u] = round /\ u # t
    BY <1>i, <1>b DEF WaitingInv
  <2>2. call[u] \notin Inside
    BY <1>b, <2>1
  <2> QED BY <2>1, <2>2 DEF Pausing, Inside
\* Who is in the barrier has not been submitted, nor is it in another group.
<1>q. \A u \in Members(waiting) : ~Over(u)
  <2>1. ~(round < round)
    BY <1>n
  <2> QED BY <1>p, <2>1 DEF Over
<1>1. BarTypeOK'
  <2>1. towait' \in Nat /\ round' \in Nat
    BY <1>n
  <2>2. holder' \in Team \cup {NoHolder} /\ call' \in [Team -> Places]
    BY <1>i, <1>s, PlaceFacts DEF BarTypeOK
  <2>3. my' \in [Team -> Nat]
    BY <1>i, <1>s DEF BarTypeOK
  <2> QED BY <2>1, <2>2, <2>3 DEF BarTypeOK
<1>2. SizeInv'
  <2>1. Len(waiting) = Width - 1
    <3>1. towait = Width - Len(waiting) /\ Len(waiting) \in Nat
      BY <1>i DEF SizeInv
    <3>2. towait = 1
      BY <1>n
    <3> QED BY <1>n, <3>1, <3>2
  <2>2. waiting' \in Seq(Team) /\ Len(waiting') = 0 /\ DOMAIN waiting' = {}
    BY <1>w, EmptyFacts
  <2>3. group' \in [Team -> Seq(Team)]
    BY <1>i, <1>w DEF SizeInv
  <2>4. towait' = Width - Len(waiting') /\ towait' > 0
    BY <1>n, <2>2
  <2>5. \A l \in Team : IF call'[l] \in Last THEN Len(group'[l]) = Width - 1 ELSE group'[l] = << >>
    <3>1. \A l \in Team \ {t} : call'[l] = call[l] /\ group'[l] = group[l]
      BY <1>c, <1>g
    <3>2. call'[t] \in Last /\ group'[t] = waiting
      BY <1>c, <1>g, PlaceFacts
    <3> QED BY <1>i, <2>1, <3>1, <3>2 DEF SizeInv
  <2> QED BY <2>2, <2>3, <2>4, <2>5 DEF SizeInv
<1>3. LockInv'
  BY <1>i, <1>s, <1>c, <1>b, PlaceFacts DEF LockInv
<1>4. WaitingInv'
  BY <1>e DEF WaitingInv
<1>5. GroupInv'
  <2>1. \A l \in Team : \A u \in Members(group[l])' :
           u \in Team /\ u # t /\ call[u] = "pause" /\ (my[u] = round \/ Over(u)) /\ u \notin submitted \cup woken
    BY <1>i, <1>b, <1>m, <1>p, <1>q DEF GroupInv, TaskInv
  <2>2. \A l \in Team : \A u \in Members(group[l])' : \A m \in Team : u \in Members(group[m])' => m = l
    BY <1>i, <1>e, <1>m, <1>q DEF GroupInv
  <2> QED BY <1>s, <1>c, <1>o, <2>1, <2>2 DEF GroupInv
<1>6. TaskInv'
  <2>1. call[t] \notin Pausing /\ call'[t] \notin Pausing /\ Over(t)
    BY <1>b, <1>s, <1>c, PlaceFacts
  <2>2. \A u \in submitted' \cup woken' : u \in Team /\ call'[u] = "pause" /\ Over(u)'
    BY <1>i, <1>s, <1>b, <1>c, <1>o DEF TaskInv
  <2>3. \A u \in Team : Bounded(u)'
    <3>1. Bounded(t)'
      BY <1>b, <1>d DEF Bounded
    <3>2. \A u \in Team \ {t} : Bounded(u)' <=> Bounded(u)
      BY <1>d DEF Bounded
    <3> QED BY <1>i, <3>1, <3>2 DEF TaskInv
  <2>4. \A u \in Team : call'[u] \notin Pausing => Over(u)'
    BY <1>i, <1>c, <1>o, <2>1 DEF TaskInv
  <2>5. \A u \in Team : call'[u] \in Pausing =>
           u \in (submitted \cup woken \cup Members(waiting))' \/ \E l \in Team : u \in Members(group[l])'
    BY <1>i, <1>s, <1>c, <1>e, <1>m, <2>1 DEF TaskInv
  <2>6. submitted' \cap woken' = {}
    BY <1>i, <1>s DEF TaskInv
  <2> QED BY <2>2, <2>3, <2>4, <2>5, <2>6 DEF TaskInv
<1>7. LastInv'
  <2>1. \A l \in Team : call'[l] = "unlock to submit" => l = t
    BY <1>b, <1>c, PlaceFacts
  <2>r. round' - 1 = round
    BY <1>n
  <2>2. \A u \in Team : JustOver(u)' => u = t \/ my[u] = round
    BY <1>d, <2>r DEF JustOver
  <2>3. JustOver(t)'
    BY <1>d, <2>r DEF JustOver
  <2>4. \A u \in Team : my[u] = round => u \in Members(waiting)
    <3> SUFFICES ASSUME NEW u \in Team, my[u] = round PROVE u \in Members(waiting)
      OBVIOUS
    <3>1. ~Over(u)
      BY <1>n DEF Over
    <3> QED BY <1>i, <3>1 DEF TaskInv, GroupInv
  <2> QED BY <1>m, <2>1, <2>2, <2>3, <2>4 DEF LastInv
<1>8. FreedInv'
  BY <1>s, <1>b DEF FreedInv
<1> QED BY <1>1, <1>2, <1>3, <1>4, <1>5, <1>6, <1>7, <1>8 DEF IInv

\* The lock is released; the task pauses, or will submit its group.
LEMMA WaitUnlockInv == ASSUME IInv, NEW t \in Team, WaitUnlock(t) PROVE IInv'
<1>i. BarTypeOK /\ SizeInv /\ LockInv /\ WaitingInv /\ GroupInv /\ TaskInv /\ LastInv /\ FreedInv
  BY DEF IInv
<1>s. /\ UNCHANGED << waiting, towait, memory, group, submitted, woken, round, my >>
      /\ call[t] \in {"unlock to pause", "unlock to submit"} /\ holder' = NoHolder
      /\ call' = [call EXCEPT ![t] = IF @ = "unlock to pause" THEN "pause" ELSE "submit"]
  BY DEF WaitUnlock
<1>c. /\ \A u \in Team \ {t} : call'[u] = call[u]
      /\ \/ call[t] = "unlock to pause" /\ call'[t] = "pause"
         \/ call[t] = "unlock to submit" /\ call'[t] = "submit"
  BY <1>i, <1>s DEF BarTypeOK
<1>o. \A u \in Team : /\ Over(u)' <=> Over(u)
                      /\ JustOver(u)' <=> JustOver(u)
                      /\ Bounded(u)' <=> Bounded(u)
  BY <1>s DEF Over, JustOver, Bounded
<1>p. \A u \in Team : /\ call'[u] \in Pausing <=> call[u] \in Pausing
                      /\ call'[u] \in Last <=> call[u] \in Last
                      /\ call[u] = "pause" => call'[u] = "pause"
  BY <1>c, PlaceFacts
<1>q. \A u \in Team : call'[u] \notin Inside
  <2>1. holder = t /\ call'[t] \notin Inside
    BY <1>i, <1>c, PlaceFacts DEF LockInv
  <2> QED BY <1>i, <1>c, <2>1 DEF LockInv
<1>1. BarTypeOK'
  <2>1. call' \in [Team -> Places]
    BY <1>i, <1>s, PlaceFacts DEF BarTypeOK
  <2> QED BY <1>i, <1>s, <2>1 DEF BarTypeOK
<1>2. SizeInv'
  BY <1>i, <1>s, <1>p DEF SizeInv
<1>3. LockInv'
  BY <1>q, <1>s, BarrierAssumption, PlaceFacts DEF LockInv
<1>4. WaitingInv'
  BY <1>i, <1>s, <1>p DEF WaitingInv
<1>5. GroupInv'
  BY <1>i, <1>s, <1>p, <1>o DEF GroupInv
<1>6. TaskInv'
  BY <1>i, <1>s, <1>p, <1>o DEF TaskInv
<1>7. LastInv'
  BY <1>q, PlaceFacts DEF LastInv
<1>8. FreedInv'
  BY <1>i, <1>s DEF FreedInv
<1> QED BY <1>1, <1>2, <1>3, <1>4, <1>5, <1>6, <1>7, <1>8 DEF IInv

\* The tasks of the group become ready, and the last task is outside.
LEMMA SubmitGroupInv == ASSUME IInv, NEW t \in Team, SubmitGroup(t) PROVE IInv'
<1>i. BarTypeOK /\ SizeInv /\ LockInv /\ WaitingInv /\ GroupInv /\ TaskInv /\ LastInv /\ FreedInv
  BY DEF IInv
<1>s. /\ UNCHANGED << waiting, towait, holder, memory, woken, round, my >>
      /\ call[t] = "submit" /\ submitted' = submitted \cup Members(group[t])
      /\ call' = [call EXCEPT ![t] = "out"]
  BY DEF SubmitGroup
<1>w. group' = [group EXCEPT ![t] = << >>]
  BY DEF SubmitGroup
<1>c. \A u \in Team : call'[u] = IF u = t THEN "out" ELSE call[u]
  BY <1>i, <1>s DEF BarTypeOK
<1>g. \A u \in Team : group'[u] = IF u = t THEN << >> ELSE group[u]
  BY <1>i, <1>w DEF SizeInv
<1>m. \A u \in Team : Members(group[u])' = IF u = t THEN {} ELSE Members(group[u])
  BY <1>g, EmptyFacts
<1>o. \A u \in Team : /\ Over(u)' <=> Over(u)
                      /\ JustOver(u)' <=> JustOver(u)
                      /\ Bounded(u)' <=> Bounded(u)
  BY <1>s DEF Over, JustOver, Bounded
<1>p. \A u \in Team : /\ call'[u] \in Pausing <=> call[u] \in Pausing
                      /\ call'[u] \in Inside <=> call[u] \in Inside
                      /\ call[u] = "pause" => call'[u] = "pause"
                      /\ call'[u] \in {"locked", "unlock to submit"} => call'[u] = call[u]
  BY <1>s, <1>c, PlaceFacts
<1>1. BarTypeOK'
  <2>1. call' \in [Team -> Places]
    BY <1>i, <1>s, PlaceFacts DEF BarTypeOK
  <2> QED BY <1>i, <1>s, <2>1 DEF BarTypeOK
<1>2. SizeInv'
  <2>1. group' \in [Team -> Seq(Team)]
    BY <1>i, <1>w, EmptyFacts DEF SizeInv
  <2>2. \A l \in Team : IF call'[l] \in Last THEN Len(group'[l]) = Width - 1 ELSE group'[l] = << >>
    <3>1. \A l \in Team \ {t} : call'[l] = call[l] /\ group'[l] = group[l]
      BY <1>c, <1>g
    <3>2. call'[t] \notin Last /\ group'[t] = << >>
      BY <1>c, <1>g, PlaceFacts
    <3> QED BY <1>i, <3>1, <3>2 DEF SizeInv
  <2> QED BY <1>i, <1>s, <2>1, <2>2 DEF SizeInv
<1>3. LockInv'
  BY <1>i, <1>s, <1>p DEF LockInv
<1>4. WaitingInv'
  BY <1>i, <1>s, <1>p DEF WaitingInv
<1>5. GroupInv'
  BY <1>i, <1>s, <1>m, <1>p, <1>o DEF GroupInv
<1>6. TaskInv'
  <2>1. \A u \in submitted' \cup woken' : u \in Team /\ call'[u] = "pause" /\ Over(u)'
    BY <1>i, <1>s, <1>p, <1>o DEF TaskInv, GroupInv
  <2>2. submitted' \cap woken' = {}
    BY <1>i, <1>s DEF TaskInv, GroupInv
  <2>3. \A u \in Team : Bounded(u)' /\ (call'[u] \notin Pausing => Over(u)')
    BY <1>i, <1>p, <1>o DEF TaskInv
  <2>4. \A u \in Team : call'[u] \in Pausing =>
           u \in (submitted \cup woken \cup Members(waiting))' \/ \E l \in Team : u \in Members(group[l])'
    BY <1>i, <1>s, <1>p, <1>m DEF TaskInv
  <2> QED BY <2>1, <2>2, <2>3, <2>4 DEF TaskInv
<1>7. LastInv'
  <2>1. \A l \in Team : call'[l] = "unlock to submit" => l # t /\ call[l] = "unlock to submit"
    BY <1>c
  <2> QED BY <1>i, <1>m, <1>o, <2>1 DEF LastInv
<1>8. FreedInv'
  BY <1>i, <1>s DEF FreedInv
<1> QED BY <1>1, <1>2, <1>3, <1>4, <1>5, <1>6, <1>7, <1>8 DEF IInv

\* A submitted task is woken; what it is in does not change.
LEMMA ObtainInv == ASSUME IInv, NEW t \in Team, Obtain(t) PROVE IInv'
<1>i. BarTypeOK /\ SizeInv /\ LockInv /\ WaitingInv /\ GroupInv /\ TaskInv /\ LastInv /\ FreedInv
  BY DEF IInv
<1>s. /\ UNCHANGED << waiting, towait, holder, memory, call, group, round, my >>
      /\ t \in submitted /\ submitted' = submitted \ {t} /\ woken' = woken \cup {t}
  BY DEF Obtain
<1>o. \A u \in Team : /\ Over(u)' <=> Over(u)
                      /\ JustOver(u)' <=> JustOver(u)
                      /\ Bounded(u)' <=> Bounded(u)
  BY <1>s DEF Over, JustOver, Bounded
<1>1. BarTypeOK'
  BY <1>i, <1>s DEF BarTypeOK
<1>2. SizeInv'
  BY <1>i, <1>s DEF SizeInv
<1>3. LockInv'
  BY <1>i, <1>s DEF LockInv
<1>4. WaitingInv'
  BY <1>i, <1>s DEF WaitingInv
<1>5. GroupInv'
  BY <1>i, <1>s, <1>o DEF GroupInv
<1>6. TaskInv'
  BY <1>i, <1>s, <1>o DEF TaskInv
<1>7. LastInv'
  <2>1. \A l \in Team : Members(group[l])' = Members(group[l]) /\ call'[l] = call[l]
    BY <1>s
  <2> QED BY <1>i, <1>o, <2>1 DEF LastInv
<1>8. FreedInv'
  BY <1>i, <1>s DEF FreedInv
<1> QED BY <1>1, <1>2, <1>3, <1>4, <1>5, <1>6, <1>7, <1>8 DEF IInv

\* Who is in the barrier is in no round that is over.
LEMMA WaitingFacts == ASSUME IInv PROVE \A u \in Members(waiting) : ~Over(u)
<1>1. BarTypeOK /\ WaitingInv
  BY DEF IInv
<1>2. ~(round < round)
  BY <1>1, NumberFacts
<1> QED BY <1>1, <1>2 DEF WaitingInv, Over

\* A woken task is outside; it was known nowhere else.
LEMMA UnpauseInv == ASSUME IInv, NEW t \in Team, Unpause(t) PROVE IInv'
<1>i. BarTypeOK /\ SizeInv /\ LockInv /\ WaitingInv /\ GroupInv /\ TaskInv /\ LastInv /\ FreedInv
  BY DEF IInv
<1>s. /\ UNCHANGED << waiting, towait, holder, memory, group, submitted, round, my >>
      /\ call[t] = "pause" /\ t \in woken /\ woken' = woken \ {t}
      /\ call' = [call EXCEPT ![t] = "out"]
  BY DEF Unpause
<1>c. \A u \in Team : call'[u] = IF u = t THEN "out" ELSE call[u]
  BY <1>i, <1>s DEF BarTypeOK
<1>o. \A u \in Team : /\ Over(u)' <=> Over(u)
                      /\ JustOver(u)' <=> JustOver(u)
                      /\ Bounded(u)' <=> Bounded(u)
  BY <1>s DEF Over, JustOver, Bounded
<1>m. Members(waiting)' = Members(waiting) /\ \A l \in Team : Members(group[l])' = Members(group[l])
  BY <1>s
<1>n. /\ t \notin submitted /\ Over(t) /\ t \notin Members(waiting)
      /\ \A l \in Team : t \notin Members(group[l])
  BY <1>i, <1>s, WaitingFacts DEF TaskInv, GroupInv
<1>p. \A u \in Team : /\ call'[u] \in Inside <=> call[u] \in Inside
                      /\ call'[u] \in Last <=> call[u] \in Last
                      /\ call'[u] \in {"locked", "unlock to submit"} => call'[u] = call[u]
                      /\ u # t => call'[u] = call[u]
  BY <1>s, <1>c, PlaceFacts
<1>1. BarTypeOK'
  <2>1. call' \in [Team -> Places]
    BY <1>i, <1>s, PlaceFacts DEF BarTypeOK
  <2> QED BY <1>i, <1>s, <2>1 DEF BarTypeOK
<1>2. SizeInv'
  BY <1>i, <1>s, <1>p DEF SizeInv
<1>3. LockInv'
  BY <1>i, <1>s, <1>p DEF LockInv
<1>4. WaitingInv'
  BY <1>i, <1>s, <1>m, <1>n, <1>p DEF WaitingInv
<1>5. GroupInv'
  <2>1. \A l \in Team : \A u \in Members(group[l])' :
           /\ u \in Team /\ call'[u] = "pause" /\ Over(u)'
           /\ \A m \in Team : u \in Members(group[m])' => m = l
    <3>1. \A l \in Team : \A u \in Members(group[l]) :
             /\ u \in Team /\ u # t /\ call[u] = "pause" /\ Over(u)
             /\ \A m \in Team : u \in Members(group[m]) => m = l
      BY <1>i, <1>n DEF GroupInv
    <3>2. \A u \in Team : u # t => call'[u] = call[u]
      BY <1>p
    <3> QED BY <1>m, <1>o, <3>1, <3>2
  <2>2. \A l \in Team : \A u \in Members(group[l])' : u \notin submitted' \cup woken'
    BY <1>i, <1>m, <1>s DEF GroupInv
  <2> QED BY <2>1, <2>2 DEF GroupInv
<1>6. TaskInv'
  <2>1. call'[t] \notin Pausing
    BY <1>c, PlaceFacts
  <2> QED BY <1>i, <1>s, <1>m, <1>n, <1>p, <1>o, <2>1 DEF TaskInv
<1>7. LastInv'
  BY <1>i, <1>m, <1>o, <1>p DEF LastInv
<1>8. FreedInv'
  BY <1>i, <1>s DEF FreedInv
<1> QED BY <1>1, <1>2, <1>3, <1>4, <1>5, <1>6, <1>7, <1>8 DEF IInv

\* The barrier is freed: the round of the task was the last one, and nobody
\* is, or will be, in the barrier.
LEMMA DestroyInv == ASSUME IInv, NEW t \in Team, BarrierDestroy(t) PROVE IInv'
<1>i. BarTypeOK /\ SizeInv /\ LockInv /\ WaitingInv /\ GroupInv /\ TaskInv /\ LastInv /\ FreedInv
  BY DEF IInv
<1>s. /\ UNCHANGED << waiting, towait, holder, call, group, submitted, woken, round, my >>
      /\ call[t] = "out" /\ my[t] = Rounds
  BY DEF BarrierDestroy
<1>o. \A u \in Team : /\ Over(u)' <=> Over(u)
                      /\ JustOver(u)' <=> JustOver(u)
                      /\ Bounded(u)' <=> Bounded(u)
  BY <1>s DEF Over, JustOver, Bounded
<1>n. Rounds \in Nat /\ round \in Nat /\ \A u \in Team : my[u] \in Nat
  BY <1>i, NumberFacts
<1>r. Rounds < round
  <2>1. Over(t)
    BY <1>i, <1>s, PlaceFacts DEF TaskInv
  <2> QED BY <1>s, <2>1 DEF Over
<1>h. holder = NoHolder
  <2> SUFFICES ASSUME NEW u \in Team, call[u] \in Inside PROVE FALSE
    BY <1>i DEF LockInv, BarTypeOK
  <2>b. Bounded(u) /\ my[u] \in Nat
    BY <1>i, <1>n DEF TaskInv
  <2>1. CASE call[u] = "locked"
    <3>1. round <= Rounds
      BY <1>i, <2>1 DEF LockInv
    <3> QED BY <1>n, <1>r, <3>1
  <2>2. CASE call[u] = "unlock to pause"
    <3>1. u \in Members(waiting)
      <4>1. call[u] \in Pausing /\ call[u] # "pause"
        BY <2>2, PlaceFacts
      <4>2. u \notin submitted \cup woken
        BY <1>i, <4>1 DEF TaskInv
      <4>3. \A l \in Team : u \notin Members(group[l])
        BY <1>i, <4>1 DEF GroupInv
      <4> QED BY <1>i, <4>1, <4>2, <4>3 DEF TaskInv
    <3>2. my[u] = round
      BY <1>i, <3>1 DEF WaitingInv
    <3>3. my[u] <= Rounds
      BY <2>b DEF Bounded
    <3> QED BY <1>n, <1>r, <3>2, <3>3
  <2>3. CASE call[u] = "unlock to submit"
    <3>1. my[u] = round - 1
      BY <1>i, <2>3 DEF LastInv, JustOver
    <3>2. my[u] <= Rounds
      BY <2>b DEF Bounded
    <3>3. my[t] = round - 1
      BY <1>n, <1>r, <1>s, <2>b, <3>1, <3>2
    <3>4. t \in Members(group[u])
      BY <1>i, <1>s, <2>3, <3>3 DEF LastInv, JustOver
    <3> QED BY <1>i, <1>s, <3>4 DEF GroupInv
  <2> QED BY <2>1, <2>2, <2>3 DEF Inside
<1>1. BarTypeOK'
  BY <1>i, <1>s DEF BarTypeOK
<1>2. SizeInv'
  BY <1>i, <1>s DEF SizeInv
<1>3. LockInv'
  BY <1>i, <1>s DEF LockInv
<1>4. WaitingInv'
  BY <1>i, <1>s DEF WaitingInv
<1>5. GroupInv'
  BY <1>i, <1>s, <1>o DEF GroupInv
<1>6. TaskInv'
  BY <1>i, <1>s, <1>o DEF TaskInv
<1>7. LastInv'
  <2>1. \A l \in Team : Members(group[l])' = Members(group[l]) /\ call'[l] = call[l]
    BY <1>s
  <2> QED BY <1>i, <1>o, <2>1 DEF LastInv
<1>8. FreedInv'
  BY <1>h, <1>r, <1>s DEF FreedInv
<1> QED BY <1>1, <1>2, <1>3, <1>4, <1>5, <1>6, <1>7, <1>8 DEF IInv

\* Steps of other parts of the program leave the barrier alone.
LEMMA StutterInv == ASSUME IInv, UNCHANGED barvars PROVE IInv'
<1>i. BarTypeOK /\ SizeInv /\ LockInv /\ WaitingInv /\ GroupInv /\ TaskInv /\ LastInv /\ FreedInv
  BY DEF IInv
<1>s. UNCHANGED << waiting, towait, holder, memory, call, group, submitted, woken, round, my >>
  BY DEF barvars
<1>o. \A u \in Team : /\ Over(u)' <=> Over(u)
                      /\ JustOver(u)' <=> JustOver(u)
                      /\ Bounded(u)' <=> Bounded(u)
  BY <1>s DEF Over, JustOver, Bounded
<1>1. BarTypeOK' /\ SizeInv' /\ LockInv' /\ FreedInv'
  BY <1>i, <1>s DEF BarTypeOK, SizeInv, LockInv, FreedInv
<1>2. WaitingInv' /\ GroupInv' /\ TaskInv'
  BY <1>i, <1>s, <1>o DEF WaitingInv, GroupInv, TaskInv
<1>3. LastInv'
  <2>1. \A l \in Team : Members(group[l])' = Members(group[l]) /\ call'[l] = call[l]
    BY <1>s
  <2> QED BY <1>i, <1>o, <2>1 DEF LastInv
<1> QED BY <1>1, <1>2, <1>3 DEF IInv
-----------------------------------------------------------------------------
\* The inductive invariant of nosv_barrier_wait holds in every state.
THEOREM BarrierInvariance == BarSpec => []IInv
<1>1. BarInit => IInv
  BY InitInv
<1>2. IInv /\ [BarNext]_barvars => IInv'
  BY WaitLockInv, AddWaitingInv, TakeWaitingInv, WaitUnlockInv, SubmitGroupInv, ObtainInv,
     UnpauseInv, DestroyInv, StutterInv DEF BarNext
<1> QED BY <1>1, <1>2, PTL DEF BarSpec

\* The invariant contains what the barrier promises.
LEMMA InvImplies == ASSUME IInv PROVE BarrierHolds
<1>i. BarTypeOK /\ SizeInv /\ LockInv /\ WaitingInv /\ GroupInv /\ TaskInv /\ FreedInv
  BY DEF IInv
<1>1. \A t \in Team : call[t] = "out" => my[t] < round
  <2>1. \A t \in Team : call[t] = "out" => Over(t)
    BY <1>i, PlaceFacts DEF TaskInv
  <2> QED BY <2>1 DEF Over
<1>2. \A t \in Team : Asleep(t) <=> call[t] \in Pausing /\ t \notin woken
  BY DEF Asleep, Pausing
<1>3. \A t \in Team : t \in Members(waiting) => call[t] \in Pausing /\ t \notin woken \cup submitted
  BY <1>i, WaitingFacts DEF WaitingInv, TaskInv
<1>4. \A t \in Team : t \in submitted => call[t] \in Pausing /\ t \notin woken
  BY <1>i, PlaceFacts DEF TaskInv
<1>5. \A t, l \in Team : t \in Members(group[l]) =>
         /\ call[t] \in Pausing /\ t \notin woken \cup submitted \cup Members(waiting)
         /\ \A m \in Team \ {l} : t \notin Members(group[m])
  <2>1. \A t, l \in Team : t \in Members(group[l]) =>
           /\ call[t] = "pause" /\ Over(t) /\ t \notin woken \cup submitted
           /\ \A m \in Team \ {l} : t \notin Members(group[m])
    BY <1>i DEF GroupInv
  <2>2. \A t \in Members(waiting) : ~Over(t)
    BY WaitingFacts
  <2> QED BY <2>1, <2>2, PlaceFacts
<1>6. \A t \in Team : Asleep(t) =>
         t \in Members(waiting) \/ t \in submitted \/ \E l \in Team : t \in Members(group[l])
  BY <1>i, <1>2 DEF TaskInv
<1>7. KnownOnce
  BY <1>2, <1>3, <1>4, <1>5, <1>6 DEF KnownOnce
<1>8. FullRounds
  BY <1>i DEF SizeInv, FullRounds, Last
<1> QED BY <1>i, <1>1, <1>7, <1>8 DEF BarrierHolds, FreedInv

\* nosv_barrier_wait keeps its promise for every team, count and number of
\* rounds: no call returns before its round is complete, every paused task is
\* known in exactly one place, every round has as many tasks as count says, and
\* nobody is in a barrier that a task freed after its last round.
THEOREM BarrierKept == BarSpec => []BarrierHolds
<1>1. IInv => BarrierHolds
  BY InvImplies
<1> QED BY <1>1, BarrierInvariance, PTL
=============================================================================
