---------------------------- MODULE Slab_proofs ----------------------------
(***************************************************************************)
(* Proofs about Slab, for any number of CPUs, external threads, pages and  *)
(* chunks: no object is handed out twice or lost, whatever the threads do  *)
(* to the lists between reading a count and exchanging it.                 *)
(***************************************************************************)
EXTENDS Slab, FiniteSetTheorems, TLAPS
-----------------------------------------------------------------------------
(***************************************************************************)
(* The inductive invariant.                                                *)
(***************************************************************************)
\* What a thread knows at each of its steps
LocalAt(t) ==
    /\ pc[t] \in {"look", "lock", "cas"} <=> obj[t] # NULL
    /\ obj[t] # NULL => page[t] = PageOf[obj[t]]
    /\ pc[t] \in {"idle", "refill", "balloc"} => page[t] = NULL
    /\ pc[t] \in {"take", "fresh", "list", "bfree"} => page[t] \in Pages
    /\ pc[t] \in {"lock", "list"} => Speculates(t)
LocalInv == \A t \in Threads : LocalAt(t)

\* The steps that are taken with bucket->lock
Locking(t) == pc[t] \in {"take", "list"} \/ (pc[t] = "cas" /\ Speculates(t))
LockInv == \A t \in Threads : Locking(t) => lock = t

\* A thread that refills a cache found it empty, and nobody else uses it.
RefillAt(t) ==
    pc[t] \in {"refill", "take", "fresh", "balloc"} =>
        cached[Cache(t)] = {} /\ (t \notin Cpus => slowLock = t)
RefillInv == \A t \in Threads : RefillAt(t)

\* An object is out of the free list of its page if the program, a cache or a
\* thread that frees it has it, and it is with one of them.
Out(o) == o \in held \/ (\E c \in Caches : o \in cached[c]) \/ (\E t \in Threads : obj[t] = o)
Once(o) ==
    /\ o \in held => (\A c \in Caches : o \notin cached[c]) /\ (\A t \in Threads : obj[t] # o)
    /\ \A c \in Caches : o \in cached[c] =>
          (\A t \in Threads : obj[t] # o) /\ \A d \in Caches : o \in cached[d] => d = c
    /\ \A t, u \in Threads : obj[t] = o /\ obj[u] = o => t = u
Home(o) == IF PageOf[o] \in backbone THEN ~Out(o) ELSE Out(o) <=> o \notin freelist[PageOf[o]]
HomeInv == \A o \in Objects : Once(o) /\ Home(o)

CountInv ==
    \A p \in Pages :
        /\ freelist[p] \subseteq Chunks(p)
        /\ p \notin backbone => inuse[p] + Cardinality(freelist[p]) = PerPage

\* A page that a thread moves between the lists, and the lists it is in
Moves(t, p) == page[t] = p /\ pc[t] \in {"take", "fresh", "list", "bfree"}
Some == 1..(PerPage - 1)
MoverAt(t) ==
    LET p == page[t] IN
    /\ pc[t] \in {"take", "fresh", "bfree"} => p \notin partial \cup free \cup backbone
    /\ pc[t] = "take" => inuse[p] \in Some
    /\ pc[t] \in {"fresh", "bfree"} => inuse[p] = 0
    /\ pc[t] = "list" /\ sawUse[t] = 1 => inuse[p] = 0 /\ p \in partial
    /\ pc[t] = "list" /\ sawUse[t] # 1 => inuse[p] \in Some /\ p \notin partial \cup free \cup backbone
MoverInv ==
    /\ \A t \in Threads : MoverAt(t)
    /\ \A t, u \in Threads, p \in Pages : Moves(t, p) /\ Moves(u, p) => t = u

Emptied(p) == \E t \in Threads : page[t] = p /\ pc[t] = "list" /\ sawUse[t] = 1
PageAt(p) ==
    /\ p \in partial => p \notin free \cup backbone /\ (inuse[p] \in Some \/ Emptied(p))
    /\ p \in free => p \notin backbone /\ inuse[p] = 0
    /\ p \notin partial \cup free \cup backbone => inuse[p] = PerPage \/ Moving(p)
PageInv == \A p \in Pages : PageAt(p)

IInv == TypeOK /\ LocalInv /\ LockInv /\ RefillInv /\ HomeInv /\ CountInv /\ MoverInv /\ PageInv
-----------------------------------------------------------------------------
(***************************************************************************)
(* What the invariant says of a page.                                      *)
(***************************************************************************)
LEMMA CacheType == ASSUME NEW t \in Threads PROVE Cache(t) \in Caches
BY Zenon DEF Cache, Caches

\* Threads of different caches do not refill the same one.
LEMMA OneRefills ==
    ASSUME IInv, NEW t \in Threads, NEW u \in Threads, Cache(t) = Cache(u),
           pc[t] \in {"refill", "take", "fresh", "balloc"}, pc[u] \in {"refill", "take", "fresh", "balloc"}
    PROVE  t = u
<1>1. CASE t \in Cpus \/ u \in Cpus
  BY <1>1, NameAssumption, Zenon DEF Cache
<1>2. CASE t \notin Cpus /\ u \notin Cpus
  <2>1. RefillAt(t) /\ RefillAt(u)
    BY Zenon DEF IInv, RefillInv
  <2> QED BY <1>2, <2>1 DEF RefillAt
<1> QED BY <1>1, <1>2, Zenon

LEMMA ChunksFinite ==
    ASSUME NEW p \in Pages PROVE IsFiniteSet(Chunks(p)) /\ Cardinality(Chunks(p)) = PerPage
<1>1. Chunks(p) \subseteq Objects
  BY Zenon DEF Chunks
<1> QED BY <1>1, PageAssumption, FS_Subset, Zenon

LEMMA FreeFinite ==
    ASSUME IInv, NEW p \in Pages
    PROVE  /\ freelist[p] \subseteq Chunks(p) /\ IsFiniteSet(freelist[p])
           /\ Cardinality(freelist[p]) \in Nat /\ Cardinality(freelist[p]) <= PerPage
<1>1. freelist[p] \subseteq Chunks(p)
  BY Zenon DEF IInv, CountInv
<1>2. IsFiniteSet(freelist[p]) /\ Cardinality(freelist[p]) <= PerPage
  <2>1. IsFiniteSet(Chunks(p)) /\ Cardinality(Chunks(p)) = PerPage /\ freelist[p] \in SUBSET Chunks(p)
    BY <1>1, ChunksFinite, Zenon
  <2> QED BY <2>1, FS_Subset
<1> QED BY <1>1, <1>2, FS_CardinalityType, Zenon

\* A page whose chunks are all free has them all in its free list.
LEMMA AllFree ==
    ASSUME IInv, NEW p \in Pages, p \notin backbone, inuse[p] = 0
    PROVE  freelist[p] = Chunks(p) /\ \A o \in Chunks(p) : ~Out(o)
<1>1. Cardinality(freelist[p]) = PerPage
  <2>1. inuse[p] + Cardinality(freelist[p]) = PerPage
    BY Zenon DEF IInv, CountInv
  <2> QED BY <2>1, FreeFinite, PageAssumption
<1>2. freelist[p] = Chunks(p)
  BY <1>1, FreeFinite, ChunksFinite, FS_Subset, Zenon
<1>3. ASSUME NEW o \in Chunks(p) PROVE ~Out(o)
  <2>1. o \in Objects /\ PageOf[o] = p
    BY Zenon DEF Chunks
  <2> QED BY <1>2, <2>1, Zenon DEF IInv, HomeInv, Home
<1> QED BY <1>2, <1>3, Zenon

\* A page with a chunk in use counts it, and one with a free chunk does not
\* count them all.
LEMMA SomeUsed ==
    ASSUME IInv, NEW o \in Objects, Out(o)
    PROVE  LET p == PageOf[o] IN
           p \in Pages /\ p \notin backbone /\ inuse[p] \in 1..PerPage /\ o \notin freelist[p]
<1>1. PICK p \in Pages : p = PageOf[o]
  BY PageAssumption, Zenon
<1>2. p \notin backbone /\ o \notin freelist[p] /\ o \in Chunks(p)
  BY <1>1, Zenon DEF IInv, HomeInv, Home, Chunks
<1>3. inuse[p] \in 0..PerPage
  BY Zenon DEF IInv, TypeOK
<1>4. inuse[p] # 0
  BY <1>2, AllFree, Zenon
<1> QED BY <1>1, <1>2, <1>3, <1>4, PageAssumption

LEMMA SomeFree ==
    ASSUME IInv, NEW p \in Pages, p \notin backbone, inuse[p] # PerPage
    PROVE  freelist[p] # {}
<1>1. inuse[p] + Cardinality(freelist[p]) = PerPage /\ inuse[p] \in 0..PerPage
  BY Zenon DEF IInv, CountInv, TypeOK
<1>2. Cardinality({}) = 0
  BY FS_EmptySet, Zenon
<1> QED BY <1>1, <1>2, PageAssumption
-----------------------------------------------------------------------------
(***************************************************************************)
(* What a step of t keeps.                                                 *)
(***************************************************************************)
Moving4 == {"take", "fresh", "list", "bfree"}
Frame(t) ==
    \A u \in Threads : u # t =>
        pc'[u] = pc[u] /\ obj'[u] = obj[u] /\ page'[u] = page[u] /\ sawUse'[u] = sawUse[u]

LEMMA LocalKept ==
    ASSUME IInv, NEW t \in Threads, Frame(t), LocalAt(t)' PROVE LocalInv'
<1>1. ASSUME NEW u \in Threads, u # t PROVE LocalAt(u)'
  BY <1>1, Zenon DEF IInv, LocalInv, LocalAt, Frame, Speculates
<1> QED BY <1>1, Zenon DEF LocalInv

LEMMA LockKept ==
    ASSUME IInv, NEW t \in Threads, Frame(t),
           \/ lock' = lock /\ (Locking(t)' => lock = t)
           \/ lock = NULL /\ lock' = t
           \/ lock = t /\ lock' = NULL /\ ~Locking(t)'
    PROVE  LockInv'
<1>1. ASSUME NEW u \in Threads, u # t, Locking(u)' PROVE lock = u
  BY <1>1, Zenon DEF IInv, LockInv, Locking, Frame, Speculates
<1>2. ASSUME NEW u \in Threads, Locking(u)' PROVE lock' = u
  <2>1. CASE u = t
    BY <1>2, <2>1 DEF Locking, Speculates
  <2>2. CASE u # t
    BY <1>1, <1>2, <2>2, NameAssumption, Zenon
  <2> QED BY <2>1, <2>2, Zenon
<1> QED BY <1>2, Zenon DEF LockInv

LEMMA RefillKept ==
    ASSUME IInv, NEW t \in Threads, Frame(t), RefillAt(t)',
           \A c \in Caches : c # Cache(t) => cached'[c] = cached[c],
           t \in Cpus => slowLock' = slowLock,
           t \notin Cpus => slowLock \in {NULL, t} \/ UNCHANGED <<cached, slowLock>>
    PROVE  RefillInv'
<1>1. ASSUME NEW u \in Threads, u # t, pc'[u] \in {"refill", "take", "fresh", "balloc"}
      PROVE  cached'[Cache(u)] = {} /\ (u \notin Cpus => slowLock' = u)
  <2>1. cached[Cache(u)] = {} /\ (u \notin Cpus => slowLock = u)
    BY <1>1, Zenon DEF IInv, RefillInv, RefillAt, Frame
  <2>2. Cache(u) \in Caches
    BY CacheType, Zenon
  <2>3. CASE u \in Cpus \/ t \in Cpus
    <3>1. Cache(u) # Cache(t)
      BY <2>3, <1>1, NameAssumption, Zenon DEF Cache
    <3>2. u \notin Cpus => slowLock' = slowLock
      BY <2>3, Zenon
    <3> QED BY <2>1, <2>2, <3>1, <3>2, Zenon
  <2>4. CASE u \notin Cpus /\ t \notin Cpus
    <3>1. UNCHANGED <<cached, slowLock>>
      BY <2>1, <2>4, <1>1, NameAssumption, Zenon
    <3> QED BY <2>1, <3>1, Zenon
  <2> QED BY <2>3, <2>4, Zenon
<1>2. ASSUME NEW u \in Threads, u # t PROVE RefillAt(u)'
  BY <1>1, <1>2, Zenon DEF RefillAt, Cache
<1> QED BY <1>2, Zenon DEF RefillInv

LEMMA HomeKept ==
    ASSUME IInv, NEW t \in Threads, Frame(t), obj'[t] = obj[t],
           UNCHANGED <<held, cached, freelist, backbone>>
    PROVE  HomeInv'
<1>1. \A u \in Threads : obj'[u] = obj[u]
  BY Zenon DEF Frame
<1>2. ASSUME NEW o \in Objects PROVE (Out(o)' <=> Out(o)) /\ (Once(o) => Once(o)')
  <2>1. Out(o)' <=> Out(o)
    BY <1>1, Zenon DEF Out
  <2>2. Once(o) => Once(o)'
    BY <1>1, Zenon DEF Once
  <2> QED BY <2>1, <2>2, Zenon
<1> QED BY <1>2, Zenon DEF IInv, HomeInv, Home

\* The steps that neither move pages nor change what is in them
LEMMA PagesKept ==
    ASSUME IInv, NEW t \in Threads, Frame(t), UNCHANGED <<freelist, inuse, partial, free, backbone>>,
           \/ pc[t] = "take" /\ pc'[t] = "take" /\ page'[t] = page[t]
           \/ pc[t] \notin Moving4 /\ pc'[t] \notin Moving4
    PROVE  CountInv' /\ MoverInv' /\ PageInv'
<1>1. CountInv'
  BY Zenon DEF IInv, CountInv
<1>2. ASSUME NEW u \in Threads PROVE MoverAt(u)'
  <2>1. CASE u = t
    BY <2>1, Zenon DEF IInv, MoverInv, MoverAt, Moving4
  <2>2. CASE u # t
    BY <2>2, Zenon DEF IInv, MoverInv, MoverAt, Frame
  <2> QED BY <2>1, <2>2, Zenon
<1>3. ASSUME NEW u \in Threads, NEW p \in Pages
      PROVE  (Moves(u, p)' <=> Moves(u, p))
             /\ (page'[u] = p /\ pc'[u] = "list" /\ sawUse'[u] = 1
                   <=> page[u] = p /\ pc[u] = "list" /\ sawUse[u] = 1)
  <2>1. CASE u = t
    BY <2>1, Zenon DEF Moves, Moving4
  <2>2. CASE u # t
    BY <2>2, Zenon DEF Moves, Frame
  <2> QED BY <2>1, <2>2, Zenon
<1>4. MoverInv'
  BY <1>2, <1>3, Zenon DEF IInv, MoverInv
<1>5. ASSUME NEW p \in Pages PROVE PageAt(p)'
  <2>1. (Moving(p)' <=> Moving(p)) /\ (Emptied(p)' <=> Emptied(p))
    BY <1>3, Zenon DEF Moving, Emptied, Moves
  <2> QED BY <2>1, Zenon DEF IInv, PageInv, PageAt
<1> QED BY <1>1, <1>4, <1>5, Zenon DEF PageInv
-----------------------------------------------------------------------------
(***************************************************************************)
(* The steps that move no page.                                            *)
(***************************************************************************)
LEMMA AllocCachedStep == ASSUME IInv, NEW t \in Threads, AllocCached(t) PROVE IInv'
<1>c. Cache(t) \in Caches
  BY CacheType, Zenon
<1>1. PICK o \in cached[Cache(t)] : held' = held \cup {o} /\ cached' = [cached EXCEPT ![Cache(t)] = @ \ {o}]
  BY Zenon DEF AllocCached
<1>2. /\ o \in Objects /\ cached \in [Caches -> SUBSET Objects] /\ pc[t] = "idle"
      /\ (Cache(t) = Slow => slowLock = NULL)
      /\ UNCHANGED <<pc, obj, page, sawUse, sawHead, lock, slowLock, slab, partial, free, backbone>>
      /\ UNCHANGED <<freelist, first, inuse>>
  BY <1>c, <1>1, Zenon DEF IInv, TypeOK, AllocCached, pagevars, locals
<1>3. /\ cached'[Cache(t)] = cached[Cache(t)] \ {o}
      /\ \A c \in Caches : c # Cache(t) => cached'[c] = cached[c]
  BY <1>c, <1>1, <1>2, Zenon
<1>4. TypeOK'
  BY <1>1, <1>2, <1>3 DEF IInv, TypeOK
<1>5. Frame(t)
  BY <1>2, Zenon DEF Frame
<1>6. LocalInv'
  BY <1>2, Zenon DEF IInv, LocalInv, LocalAt, Speculates
<1>7. LockInv'
  BY <1>2, Zenon DEF IInv, LockInv, Locking, Speculates
<1>8. RefillInv'
  <2>1. RefillAt(t)'
    BY <1>2, Zenon DEF RefillAt
  <2>2. t \notin Cpus => slowLock \in {NULL, t}
    BY <1>2, Zenon DEF Cache
  <2> QED BY <1>2, <1>3, <1>5, <2>1, <2>2, RefillKept, Zenon
<1>9. HomeInv'
  <2>1. ASSUME NEW q \in Objects PROVE Once(q)' /\ (Out(q)' <=> Out(q))
    <3>1. Once(q) /\ Once(o)
      BY <1>2, Zenon DEF IInv, HomeInv
    <3>2. CASE q = o
      <4>1. \A c \in Caches : o \notin cached'[c]
        BY <1>c, <1>1, <1>3, <3>1, Zenon DEF Once
      <4>2. \A u \in Threads : obj[u] # o
        BY <1>c, <1>1, <3>1, Zenon DEF Once
      <4> QED BY <1>1, <1>2, <1>c, <3>2, <4>1, <4>2, Zenon DEF Once, Out
    <3>3. CASE q # o
      <4>1. (q \in held' <=> q \in held) /\ \A c \in Caches : q \in cached'[c] <=> q \in cached[c]
        BY <1>1, <1>3, <3>3, Zenon
      <4> QED BY <1>2, <3>1, <4>1, Zenon DEF Once, Out
    <3> QED BY <3>2, <3>3, Zenon
  <2> QED BY <1>2, <2>1, Zenon DEF IInv, HomeInv, Home
<1>10. CountInv' /\ MoverInv' /\ PageInv'
  BY <1>2, <1>5, PagesKept, Zenon DEF Moving4
<1> QED BY <1>4, <1>6, <1>7, <1>8, <1>9, <1>10, Zenon DEF IInv

LEMMA FreeLocalStep ==
    ASSUME IInv, NEW t \in Threads, NEW o \in Objects, FreeLocal(t, o) PROVE IInv'
<1>1. /\ t \in Cpus /\ t \in Caches /\ Cache(t) = t /\ o \in held /\ pc[t] = "idle"
      /\ held' = held \ {o} /\ cached' = [cached EXCEPT ![t] = @ \cup {o}]
      /\ cached \in [Caches -> SUBSET Objects]
      /\ UNCHANGED <<pc, obj, page, sawUse, sawHead, lock, slowLock, slab, partial, free, backbone>>
      /\ UNCHANGED <<freelist, first, inuse>>
  BY Zenon DEF IInv, TypeOK, FreeLocal, IsInPage, Cache, Caches, pagevars, locals
<1>3. /\ cached'[t] = cached[t] \cup {o}
      /\ \A c \in Caches : c # t => cached'[c] = cached[c]
  BY <1>1, Zenon
<1>4. TypeOK'
  BY <1>1, <1>3 DEF IInv, TypeOK
<1>5. Frame(t)
  BY <1>1, Zenon DEF Frame
<1>6. LocalInv'
  BY <1>1, Zenon DEF IInv, LocalInv, LocalAt, Speculates
<1>7. LockInv'
  BY <1>1, Zenon DEF IInv, LockInv, Locking, Speculates
<1>8. RefillInv'
  <2>1. RefillAt(t)'
    BY <1>1, Zenon DEF RefillAt
  <2> QED BY <1>1, <1>3, <1>5, <2>1, RefillKept, Zenon
<1>9. HomeInv'
  <2>1. ASSUME NEW q \in Objects PROVE Once(q)' /\ (Out(q)' <=> Out(q))
    <3>1. Once(q) /\ Once(o)
      BY Zenon DEF IInv, HomeInv
    <3>2. CASE q = o
      <4>1. o \notin held' /\ \A c \in Caches : o \in cached'[c] <=> c = t
        BY <1>1, <1>3, <3>1, Zenon DEF Once
      <4>2. \A u \in Threads : obj[u] # o
        BY <1>1, <3>1, Zenon DEF Once
      <4> QED BY <1>1, <3>2, <4>1, <4>2, Zenon DEF Once, Out
    <3>3. CASE q # o
      <4>1. (q \in held' <=> q \in held) /\ \A c \in Caches : q \in cached'[c] <=> q \in cached[c]
        BY <1>1, <1>3, <3>3, Zenon
      <4> QED BY <1>1, <3>1, <4>1, Zenon DEF Once, Out
    <3> QED BY <3>2, <3>3, Zenon
  <2> QED BY <1>1, <2>1, Zenon DEF IInv, HomeInv, Home
<1>10. CountInv' /\ MoverInv' /\ PageInv'
  BY <1>1, <1>5, PagesKept, Zenon DEF Moving4
<1> QED BY <1>4, <1>6, <1>7, <1>8, <1>9, <1>10, Zenon DEF IInv

LEMMA FreeRemoteStep ==
    ASSUME IInv, NEW t \in Threads, NEW o \in Objects, FreeRemote(t, o) PROVE IInv'
<1>1. /\ o \in held /\ pc[t] = "idle" /\ held' = held \ {o} /\ pc'[t] = "look"
      /\ obj'[t] = o /\ page'[t] = PageOf[o] /\ PageOf[o] \in Pages
      /\ UNCHANGED <<sawUse, sawHead, slab, cached, lock, slowLock, partial, free, backbone>>
      /\ UNCHANGED <<freelist, first, inuse>>
  BY PageAssumption, Zenon DEF IInv, TypeOK, FreeRemote, Goto, pagevars, bucketvars
<1>2. Frame(t)
  BY Zenon DEF IInv, TypeOK, FreeRemote, Goto, Frame
<1>3. TypeOK'
  BY <1>1 DEF IInv, TypeOK, FreeRemote, Goto
<1>4. obj[t] = NULL /\ o # NULL
  BY <1>1, NameAssumption, Zenon DEF IInv, LocalInv, LocalAt
<1>5. LocalInv'
  <2>1. LocalAt(t)'
    BY <1>1, <1>4, Zenon DEF LocalAt
  <2> QED BY <1>2, <2>1, LocalKept, Zenon
<1>6. LockInv'
  BY <1>1, <1>2, LockKept, Zenon DEF Locking
<1>7. RefillInv'
  <2>1. RefillAt(t)'
    BY <1>1, Zenon DEF RefillAt
  <2> QED BY <1>1, <1>2, <2>1, RefillKept, Zenon
<1>8. HomeInv'
  <2>1. ASSUME NEW q \in Objects PROVE Once(q)' /\ (Out(q)' <=> Out(q))
    <3>1. Once(q) /\ Once(o)
      BY Zenon DEF IInv, HomeInv
    <3>2. CASE q = o
      <4>1. o \notin held' /\ \A c \in Caches : o \notin cached'[c]
        BY <1>1, <3>1, Zenon DEF Once
      <4>2. \A u \in Threads : obj'[u] = o <=> u = t
        BY <1>1, <1>2, <3>1, Zenon DEF Once, Frame
      <4> QED BY <1>1, <3>2, <4>1, <4>2, Zenon DEF Once, Out
    <3>3. CASE q # o
      <4>1. (q \in held' <=> q \in held) /\ \A u \in Threads : obj'[u] = q <=> obj[u] = q
        BY <1>1, <1>2, <1>4, <3>3, NameAssumption, Zenon DEF Frame
      <4> QED BY <1>1, <3>1, <4>1, Zenon DEF Once, Out
    <3> QED BY <3>2, <3>3, Zenon
  <2> QED BY <1>1, <2>1, Zenon DEF IInv, HomeInv, Home
<1>9. CountInv' /\ MoverInv' /\ PageInv'
  BY <1>1, <1>2, PagesKept, Zenon DEF Moving4
<1> QED BY <1>3, <1>5, <1>6, <1>7, <1>8, <1>9, Zenon DEF IInv

\* The steps that change only the locks and what the thread saw
LEMMA StillStep ==
    ASSUME IInv, TypeOK', NEW t \in Threads, Frame(t), LocalAt(t)', RefillAt(t)', obj'[t] = obj[t],
           UNCHANGED <<held, cached, freelist, inuse, partial, free, backbone>>,
           \/ pc[t] = "take" /\ pc'[t] = "take" /\ page'[t] = page[t]
           \/ pc[t] \notin Moving4 /\ pc'[t] \notin Moving4,
           \/ lock' = lock /\ (Locking(t)' => lock = t)
           \/ lock = NULL /\ lock' = t
           \/ lock = t /\ lock' = NULL /\ ~Locking(t)',
           slowLock' = slowLock \/ (t \notin Cpus /\ slowLock = NULL)
    PROVE  IInv'
<1>1. LocalInv' /\ LockInv' /\ HomeInv'
  BY LocalKept, LockKept, HomeKept, Zenon
<1>2. RefillInv'
  BY RefillKept, Zenon
<1>3. CountInv' /\ MoverInv' /\ PageInv'
  BY PagesKept, Zenon
<1> QED BY <1>1, <1>2, <1>3, Zenon DEF IInv

LEMMA AllocEmptyStep == ASSUME IInv, NEW t \in Threads, AllocEmpty(t) PROVE IInv'
<1>1. /\ pc[t] = "idle" /\ pc'[t] = "refill" /\ cached[Cache(t)] = {}
      /\ slowLock' = IF Cache(t) = Slow THEN t ELSE slowLock
      /\ (Cache(t) = Slow => slowLock = NULL)
      /\ UNCHANGED <<obj, page, sawUse, sawHead, slab, cached, lock, partial, free, backbone>>
      /\ UNCHANGED <<freelist, first, inuse, held>>
  BY Zenon DEF IInv, TypeOK, AllocEmpty, Goto, pagevars, locals
<1>2. Frame(t)
  BY Zenon DEF IInv, TypeOK, AllocEmpty, Goto, Frame, locals
<1>3. t \in Cpus => Cache(t) # Slow
  BY NameAssumption, Zenon DEF Cache
<1>4. t \notin Cpus => Cache(t) = Slow /\ t \in Externals
  BY Zenon DEF Cache, Threads
<1>5. TypeOK'
  BY <1>1, <1>3, <1>4 DEF IInv, TypeOK, AllocEmpty, Goto
<1>6. LocalAt(t)' /\ ~Locking(t)'
  BY <1>1, Zenon DEF IInv, LocalInv, LocalAt, Locking
<1>7. RefillAt(t)'
  BY <1>1, <1>3, <1>4, Zenon DEF RefillAt, Cache
<1>8. slowLock' = slowLock \/ (t \notin Cpus /\ slowLock = NULL)
  BY <1>1, <1>3, Zenon
<1> QED BY <1>1, <1>2, <1>5, <1>6, <1>7, <1>8, StillStep, Zenon DEF Moving4

LEMMA RefillNoneStep == ASSUME IInv, NEW t \in Threads, RefillNone(t) PROVE IInv'
<1>1. /\ pc[t] = "refill" /\ pc'[t] = "balloc"
      /\ UNCHANGED <<obj, page, sawUse, sawHead, slab, cached, lock, slowLock, partial, free, backbone>>
      /\ UNCHANGED <<freelist, first, inuse, held>>
  BY Zenon DEF IInv, TypeOK, RefillNone, Goto, pagevars, bucketvars, locals
<1>2. Frame(t)
  BY Zenon DEF IInv, TypeOK, RefillNone, Goto, Frame, locals
<1>3. TypeOK'
  BY <1>1 DEF IInv, TypeOK, RefillNone, Goto
<1>4. LocalAt(t)' /\ ~Locking(t)' /\ RefillAt(t)'
  BY <1>1, Zenon DEF IInv, LocalInv, LocalAt, Locking, RefillInv, RefillAt, Cache
<1> QED BY <1>1, <1>2, <1>3, <1>4, StillStep, Zenon DEF Moving4

LEMMA TakeRetryStep == ASSUME IInv, NEW t \in Threads, TakeRetry(t) PROVE IInv'
<1>1. /\ pc[t] = "take" /\ page[t] \in Pages
      /\ sawUse' = [sawUse EXCEPT ![t] = inuse[page[t]]] /\ sawHead' = [sawHead EXCEPT ![t] = first[page[t]]]
      /\ UNCHANGED <<pc, obj, page, slab, cached, lock, slowLock, partial, free, backbone>>
      /\ UNCHANGED <<freelist, first, inuse, held>>
  BY Zenon DEF IInv, LocalInv, LocalAt, TakeRetry, See, pagevars, bucketvars
<1>2. Frame(t)
  BY <1>1, Zenon DEF IInv, TypeOK, Frame
<1>3. TypeOK'
  BY <1>1 DEF IInv, TypeOK
<1>4. LocalAt(t)' /\ lock = t /\ RefillAt(t)'
  BY <1>1, Zenon DEF IInv, LocalInv, LocalAt, LockInv, Locking, RefillInv, RefillAt, Cache
<1> QED BY <1>1, <1>2, <1>3, <1>4, StillStep, Zenon DEF Moving4

LEMMA LookStep == ASSUME IInv, NEW t \in Threads, Look(t) PROVE IInv'
<1>1. /\ pc[t] = "look" /\ obj[t] # NULL /\ obj[t] \in Objects /\ page[t] = PageOf[obj[t]] /\ page[t] \in Pages
      /\ sawUse' = [sawUse EXCEPT ![t] = inuse[page[t]]] /\ sawHead' = [sawHead EXCEPT ![t] = first[page[t]]]
      /\ pc'[t] = (IF sawUse'[t] \in {1, PerPage} THEN "lock" ELSE "cas")
      /\ UNCHANGED <<obj, page, slab, cached, lock, slowLock, partial, free, backbone>>
      /\ UNCHANGED <<freelist, first, inuse, held>>
  <2>1. pc[t] = "look" /\ pc' = [pc EXCEPT ![t] = IF sawUse'[t] \in {1, PerPage} THEN "lock" ELSE "cas"]
    BY Zenon DEF Look, Goto
  <2>2. obj[t] # NULL /\ obj[t] \in Objects /\ page[t] = PageOf[obj[t]] /\ page[t] \in Pages
    <3>1. obj[t] # NULL /\ page[t] = PageOf[obj[t]]
      BY <2>1, Zenon DEF IInv, LocalInv, LocalAt
    <3>2. obj[t] \in Objects
      BY <3>1, Zenon DEF IInv, TypeOK
    <3> QED BY <3>1, <3>2, PageAssumption, Zenon
  <2>3. pc'[t] = (IF sawUse'[t] \in {1, PerPage} THEN "lock" ELSE "cas")
    BY <2>1, Zenon DEF IInv, TypeOK
  <2> QED BY <2>1, <2>2, <2>3, Zenon DEF Look, See, pagevars, bucketvars
<1>2. Frame(t)
  BY <1>1, Zenon DEF IInv, TypeOK, Look, Goto, Frame
<1>3. TypeOK'
  BY <1>1 DEF IInv, TypeOK, Look, Goto
<1>4. LocalAt(t)' /\ ~Locking(t)' /\ RefillAt(t)'
  <2>1. CASE sawUse'[t] \in {1, PerPage}
    BY <1>1, <2>1, Zenon DEF LocalAt, Locking, RefillAt, Speculates
  <2>2. CASE sawUse'[t] \notin {1, PerPage}
    BY <1>1, <2>2, Zenon DEF LocalAt, Locking, RefillAt, Speculates
  <2> QED BY <2>1, <2>2, Zenon
<1>5. pc[t] \notin Moving4 /\ pc'[t] \notin Moving4
  BY <1>1, Zenon DEF Moving4
<1> QED BY <1>1, <1>2, <1>3, <1>4, <1>5, StillStep, Zenon

LEMMA LockBucketStep == ASSUME IInv, NEW t \in Threads, LockBucket(t) PROVE IInv'
<1>1. /\ pc[t] = "lock" /\ pc'[t] = "cas" /\ lock = NULL /\ lock' = t
      /\ UNCHANGED <<obj, page, sawUse, sawHead, slab, cached, slowLock, partial, free, backbone>>
      /\ UNCHANGED <<freelist, first, inuse, held>>
  BY Zenon DEF IInv, TypeOK, LockBucket, Goto, pagevars, locals
<1>2. Frame(t)
  BY Zenon DEF IInv, TypeOK, LockBucket, Goto, Frame, locals
<1>3. TypeOK'
  BY <1>1 DEF IInv, TypeOK, LockBucket, Goto
<1>4. LocalAt(t)' /\ RefillAt(t)'
  BY <1>1, Zenon DEF IInv, LocalInv, LocalAt, RefillAt
<1> QED BY <1>1, <1>2, <1>3, <1>4, StillStep, Zenon DEF Moving4

LEMMA CasFailsStep == ASSUME IInv, NEW t \in Threads, CasFails(t) PROVE IInv'
<1>1. /\ pc[t] = "cas" /\ pc'[t] = "look" /\ lock' = (IF Speculates(t) THEN NULL ELSE lock)
      /\ UNCHANGED <<obj, page, sawUse, sawHead, slab, cached, slowLock, partial, free, backbone>>
      /\ UNCHANGED <<freelist, first, inuse, held>>
  BY Zenon DEF IInv, TypeOK, CasFails, Goto, pagevars, locals
<1>2. Frame(t)
  BY Zenon DEF IInv, TypeOK, CasFails, Goto, Frame, locals
<1>3. TypeOK'
  BY <1>1 DEF IInv, TypeOK, CasFails, Goto
<1>4. LocalAt(t)' /\ RefillAt(t)' /\ ~Locking(t)'
  BY <1>1, Zenon DEF IInv, LocalInv, LocalAt, RefillAt, Locking
<1>5. Speculates(t) => lock = t
  BY <1>1, Zenon DEF IInv, LockInv, Locking
<1>6. lock' = lock \/ (lock = t /\ lock' = NULL)
  BY <1>1, <1>5, Zenon
<1> QED BY <1>1, <1>2, <1>3, <1>4, <1>6, StillStep, Zenon DEF Moving4
-----------------------------------------------------------------------------
(***************************************************************************)
(* The steps that move a page.                                             *)
(***************************************************************************)
\* A thread that moves a page is the only one to do so, and no page but that one
\* changes.
Sole(t, p) == \A u \in Threads : u # t => ~Moves(u, p)
OnlyPage(t, p) ==
    /\ \A q \in Pages : Moves(t, q) \/ Moves(t, q)' => q = p
    /\ \A q \in Pages : q # p =>
          /\ inuse'[q] = inuse[q] /\ (q \in partial' <=> q \in partial)
          /\ (q \in free' <=> q \in free) /\ (q \in backbone' <=> q \in backbone)

LEMMA PageMoved ==
    ASSUME IInv, NEW t \in Threads, NEW p \in Pages, Frame(t), Sole(t, p), OnlyPage(t, p),
           MoverAt(t)', PageAt(p)'
    PROVE  MoverInv' /\ PageInv'
<1>1. ASSUME NEW u \in Threads, u # t, NEW q \in Pages
      PROVE  Moves(u, q)' <=> Moves(u, q)
  BY <1>1, Zenon DEF Moves, Frame
<1>2. ASSUME NEW u \in Threads PROVE MoverAt(u)'
  <2>1. CASE u = t
    BY <2>1, Zenon DEF MoverAt
  <2>2. CASE u # t /\ pc[u] \in Moving4
    <3>1. PICK q \in Pages : q = page[u] /\ page'[u] = q /\ pc'[u] = pc[u] /\ sawUse'[u] = sawUse[u]
      BY <2>2, Zenon DEF IInv, LocalInv, LocalAt, Moving4, Frame
    <3>2. Moves(u, q)
      BY <2>2, <3>1, Zenon DEF Moves, Moving4
    <3>3. q # p
      BY <2>2, <3>2, Zenon DEF Sole
    <3>4. MoverAt(u)
      BY Zenon DEF IInv, MoverInv
    <3> QED BY <3>1, <3>3, <3>4, Zenon DEF MoverAt, OnlyPage
  <2>3. CASE u # t /\ pc[u] \notin Moving4
    BY <2>3, Zenon DEF MoverAt, Frame, Moving4
  <2> QED BY <2>1, <2>2, <2>3, Zenon
<1>3. ASSUME NEW u \in Threads, NEW v \in Threads, NEW q \in Pages, Moves(u, q)', Moves(v, q)' PROVE u = v
  <2>1. CASE u # t /\ v # t
    BY <2>1, <1>1, <1>3, Zenon DEF IInv, MoverInv
  <2>2. CASE u = t /\ v # t
    <3>1. Moves(t, q)' /\ Moves(v, q)
      BY <1>1, <1>3, <2>2, Zenon DEF Moves
    <3> QED BY <3>1, <2>2, Zenon DEF OnlyPage, Sole
  <2>3. CASE u # t /\ v = t
    <3>1. Moves(t, q)' /\ Moves(u, q)
      BY <1>1, <1>3, <2>3, Zenon DEF Moves
    <3> QED BY <3>1, <2>3, Zenon DEF OnlyPage, Sole
  <2> QED BY <2>1, <2>2, <2>3, Zenon
<1>4. ASSUME NEW q \in Pages PROVE PageAt(q)'
  <2>1. CASE q = p
    BY <2>1, Zenon DEF PageAt, Emptied, Moving
  <2>2. CASE q # p
    <3>1. ASSUME NEW u \in Threads, Moves(u, q) PROVE Moves(u, q)' /\ u # t
      BY <1>1, <2>2, <3>1, Zenon DEF OnlyPage
    <3>2. Moving(q) => Moving(q)'
      BY <3>1, Zenon DEF Moving, Moves
    <3>3. Emptied(q) => Emptied(q)'
      <4>1. ASSUME NEW u \in Threads, page[u] = q, pc[u] = "list", sawUse[u] = 1 PROVE Emptied(q)'
        <5>1. u # t
          BY <3>1, <4>1, Zenon DEF Moves
        <5> QED BY <4>1, <5>1, Zenon DEF Emptied, Frame
      <4> QED BY <4>1, Zenon DEF Emptied
    <3>4. PageAt(q)
      BY Zenon DEF IInv, PageInv
    <3> QED BY <2>2, <3>2, <3>3, <3>4, Zenon DEF PageAt, OnlyPage
  <2> QED BY <2>1, <2>2, Zenon
<1> QED BY <1>2, <1>3, <1>4, Zenon DEF MoverInv, PageInv

\* Nobody moves a page that is in the free list or in the backbone, nor one of
\* the partial list while nobody has the lock.
LEMMA NobodyMoves ==
    ASSUME IInv, NEW p \in Pages, p \in free \cup backbone \/ (p \in partial /\ lock = NULL)
    PROVE  \A u \in Threads : ~Moves(u, p)
<1> SUFFICES ASSUME NEW u \in Threads, Moves(u, p) PROVE FALSE
  OBVIOUS
<1>1. MoverAt(u) /\ PageAt(p) /\ page[u] = p /\ pc[u] \in Moving4
  BY Zenon DEF IInv, MoverInv, PageInv, Moves, Moving4
<1>2. pc[u] = "list"
  BY <1>1, Zenon DEF MoverAt, Moving4
<1>3. lock = u
  BY <1>2, Zenon DEF IInv, LockInv, Locking
<1>4. lock # NULL
  BY <1>3, NameAssumption, Zenon
<1>5. p \in partial
  BY <1>1, <1>2, <1>4, Zenon DEF MoverAt
<1> QED BY <1>1, <1>4, <1>5, Zenon DEF PageAt

LEMMA RefillPartialStep ==
    ASSUME IInv, NEW t \in Threads, NEW p \in Pages, RefillPartial(t, p) PROVE IInv'
<1>1. /\ pc[t] = "refill" /\ pc'[t] = "take" /\ lock = NULL /\ p \in partial /\ lock' = t
      /\ partial' = partial \ {p} /\ page'[t] = p
      /\ UNCHANGED <<obj, slab, cached, slowLock, free, backbone, freelist, first, inuse, held>>
  BY Zenon DEF IInv, TypeOK, RefillPartial, Goto, pagevars
<1>2. Frame(t)
  BY Zenon DEF IInv, TypeOK, RefillPartial, Goto, See, Frame
<1>3. TypeOK'
  BY <1>1 DEF IInv, TypeOK, RefillPartial, Goto, See
<1>4. LocalAt(t)' /\ RefillAt(t)'
  BY <1>1, Zenon DEF IInv, LocalInv, LocalAt, RefillInv, RefillAt, Cache
<1>5. LocalInv' /\ LockInv' /\ RefillInv' /\ HomeInv'
  BY <1>1, <1>2, <1>4, LocalKept, LockKept, RefillKept, HomeKept, Zenon
<1>6. CountInv'
  BY <1>1, Zenon DEF IInv, CountInv
<1>7. MoverInv' /\ PageInv'
  <2>1. \A u \in Threads : ~Moves(u, p)
    BY <1>1, NobodyMoves, Zenon
  <2>2. inuse[p] \in Some /\ p \notin free \cup backbone
    <3>1. PageAt(p) /\ ~Emptied(p)
      BY <2>1, Zenon DEF IInv, PageInv, Moves, Emptied
    <3> QED BY <1>1, <3>1, Zenon DEF PageAt
  <2>3. MoverAt(t)'
    BY <1>1, <2>2, Zenon DEF MoverAt
  <2>4. PageAt(p)'
    BY <1>1, <2>2, Zenon DEF PageAt, Moving
  <2>5. OnlyPage(t, p)
    BY <1>1, Zenon DEF OnlyPage, Moves
  <2> QED BY <1>2, <2>1, <2>3, <2>4, <2>5, PageMoved, Zenon DEF Sole
<1> QED BY <1>3, <1>5, <1>6, <1>7, Zenon DEF IInv

LEMMA RefillFreeStep ==
    ASSUME IInv, NEW t \in Threads, NEW p \in Pages, RefillFree(t, p) PROVE IInv'
<1>1. /\ pc[t] = "refill" /\ pc'[t] = "fresh" /\ p \in free /\ free' = free \ {p} /\ page'[t] = p
      /\ UNCHANGED <<obj, sawUse, sawHead, slab, cached, lock, slowLock, partial, backbone>>
      /\ UNCHANGED <<freelist, first, inuse, held>>
  BY Zenon DEF IInv, TypeOK, RefillFree, Goto, pagevars
<1>2. Frame(t)
  BY Zenon DEF IInv, TypeOK, RefillFree, Goto, Frame
<1>3. TypeOK'
  BY <1>1 DEF IInv, TypeOK, RefillFree, Goto
<1>4. LocalAt(t)' /\ RefillAt(t)' /\ ~Locking(t)'
  BY <1>1, Zenon DEF IInv, LocalInv, LocalAt, RefillInv, RefillAt, Cache, Locking
<1>5. LocalInv' /\ LockInv' /\ RefillInv' /\ HomeInv'
  BY <1>1, <1>2, <1>4, LocalKept, LockKept, RefillKept, HomeKept, Zenon
<1>6. CountInv'
  BY <1>1, Zenon DEF IInv, CountInv
<1>7. MoverInv' /\ PageInv'
  <2>1. \A u \in Threads : ~Moves(u, p)
    BY <1>1, NobodyMoves, Zenon
  <2>2. inuse[p] = 0 /\ p \notin partial \cup backbone
    BY <1>1, Zenon DEF IInv, PageInv, PageAt
  <2>3. MoverAt(t)'
    BY <1>1, <2>2, Zenon DEF MoverAt
  <2>4. PageAt(p)'
    BY <1>1, <2>2, Zenon DEF PageAt, Moving
  <2>5. OnlyPage(t, p)
    BY <1>1, Zenon DEF OnlyPage, Moves
  <2> QED BY <1>2, <2>1, <2>3, <2>4, <2>5, PageMoved, Zenon DEF Sole
<1> QED BY <1>3, <1>5, <1>6, <1>7, Zenon DEF IInv

LEMMA BallocStep ==
    ASSUME IInv, NEW t \in Threads, NEW p \in Pages, Balloc(t, p) PROVE IInv'
<1>1. /\ pc[t] = "balloc" /\ pc'[t] = "fresh" /\ p \in backbone /\ backbone' = backbone \ {p} /\ page'[t] = p
      /\ freelist' = [freelist EXCEPT ![p] = Chunks(p)] /\ inuse' = [inuse EXCEPT ![p] = 0]
      /\ UNCHANGED <<obj, sawUse, sawHead, slab, cached, lock, slowLock, partial, free, held>>
  BY Zenon DEF IInv, TypeOK, Balloc, Goto, bucketvars
<1>2. Frame(t)
  BY Zenon DEF IInv, TypeOK, Balloc, Goto, Frame
<1>a. /\ freelist'[p] = Chunks(p) /\ inuse'[p] = 0
      /\ \A q \in Pages : q # p => freelist'[q] = freelist[q] /\ inuse'[q] = inuse[q]
  BY <1>1, Zenon DEF IInv, TypeOK
<1>3. TypeOK'
  <2>1. Chunks(p) \subseteq Objects /\ 0 \in 0..PerPage
    BY PageAssumption DEF Chunks
  <2>2. first' \in [Pages -> Objects \cup {NULL}]
    BY <2>1, Zenon DEF IInv, TypeOK, Balloc
  <2>3. freelist' \in [Pages -> SUBSET Objects] /\ inuse' \in [Pages -> 0..PerPage]
    BY <1>1, <2>1 DEF IInv, TypeOK
  <2> QED BY <1>1, <2>2, <2>3 DEF IInv, TypeOK, Balloc, Goto
<1>4. LocalAt(t)' /\ RefillAt(t)' /\ ~Locking(t)'
  BY <1>1, Zenon DEF IInv, LocalInv, LocalAt, RefillInv, RefillAt, Cache, Locking
<1>5. LocalInv' /\ LockInv' /\ RefillInv'
  BY <1>1, <1>2, <1>4, LocalKept, LockKept, RefillKept, Zenon
<1>6. HomeInv'
  <2>1. ASSUME NEW q \in Objects PROVE Once(q)' /\ Home(q)'
    <3>1. Once(q) /\ Home(q) /\ PageOf[q] \in Pages
      BY PageAssumption, Zenon DEF IInv, HomeInv
    <3>2. (Out(q)' <=> Out(q)) /\ Once(q)'
      BY <1>1, <3>1, Zenon DEF Out, Once
    <3>3. CASE PageOf[q] = p
      <4>1. ~Out(q) /\ q \in Chunks(p) /\ PageOf[q] \notin backbone' /\ freelist'[PageOf[q]] = Chunks(p)
        BY <1>1, <1>a, <3>1, <3>3, Zenon DEF Home, Chunks
      <4> QED BY <3>2, <4>1, Zenon DEF Home
    <3>4. CASE PageOf[q] # p
      BY <1>1, <1>a, <3>1, <3>2, <3>4, Zenon DEF Home
    <3> QED BY <3>2, <3>3, <3>4, Zenon
  <2> QED BY <2>1, Zenon DEF HomeInv
<1>7. CountInv'
  <2>1. Cardinality(Chunks(p)) = PerPage /\ 0 + PerPage = PerPage
    BY PageAssumption
  <2>2. ASSUME NEW q \in Pages
        PROVE  freelist'[q] \subseteq Chunks(q)
               /\ (q \notin backbone' => inuse'[q] + Cardinality(freelist'[q]) = PerPage)
    BY <1>1, <1>a, <2>1, Zenon DEF IInv, CountInv
  <2> QED BY <2>2, Zenon DEF CountInv
<1>8. MoverInv' /\ PageInv'
  <2>1. \A u \in Threads : ~Moves(u, p)
    BY <1>1, NobodyMoves, Zenon
  <2>2. p \notin partial \cup free
    BY <1>1, Zenon DEF IInv, PageInv, PageAt
  <2>3. MoverAt(t)'
    BY <1>1, <1>a, <2>2, Zenon DEF MoverAt
  <2>4. PageAt(p)'
    BY <1>1, <2>2, Zenon DEF PageAt, Moving
  <2>5. OnlyPage(t, p)
    BY <1>1, <1>a, Zenon DEF OnlyPage, Moves
  <2> QED BY <1>2, <2>1, <2>3, <2>4, <2>5, PageMoved, Zenon DEF Sole
<1> QED BY <1>3, <1>5, <1>6, <1>7, <1>8, Zenon DEF IInv

\* cpubucket_setpage with the free list of the page that the thread took
LEMMA SetPageStep ==
    ASSUME IInv, NEW t \in Threads, NEW p \in Pages, p = page[t], pc[t] \in {"take", "fresh"},
           SetPage(t, p, freelist[p]),
           freelist' = [freelist EXCEPT ![p] = {}], first' = [first EXCEPT ![p] = NULL],
           inuse' = [inuse EXCEPT ![p] = PerPage],
           UNCHANGED <<partial, free, backbone>>,
           lock' = IF pc[t] = "take" THEN NULL ELSE lock
    PROVE  IInv'
<1>c. Cache(t) \in Caches
  BY CacheType, Zenon
<1>1. PICK o \in freelist[p] :
        held' = held \cup {o} /\ cached' = [cached EXCEPT ![Cache(t)] = freelist[p] \ {o}]
  BY Zenon DEF SetPage
<1>2. /\ o \in Objects /\ freelist[p] \subseteq Objects /\ freelist[p] \subseteq Chunks(p)
      /\ pc'[t] = "idle" /\ obj[t] = NULL /\ obj'[t] = NULL /\ page'[t] = NULL
      /\ cached[Cache(t)] = {} /\ (t \notin Cpus => slowLock = t) /\ p \notin partial \cup free \cup backbone
      /\ slowLock' = IF Cache(t) = Slow THEN NULL ELSE slowLock
  <2>1. freelist[p] \subseteq Objects /\ freelist[p] \subseteq Chunks(p) /\ o \in Objects
    BY <1>1, Zenon DEF IInv, TypeOK, CountInv
  <2>2. LocalAt(t) /\ RefillAt(t) /\ MoverAt(t)
    BY Zenon DEF IInv, LocalInv, RefillInv, MoverInv
  <2>3. pc'[t] = "idle" /\ obj'[t] = NULL /\ page'[t] = NULL
    BY Zenon DEF IInv, TypeOK, SetPage, Goto, Clear
  <2>4. obj[t] = NULL
    BY <2>2, Zenon DEF LocalAt
  <2>5. cached[Cache(t)] = {} /\ (t \notin Cpus => slowLock = t) /\ p \notin partial \cup free \cup backbone
    BY <2>2, Zenon DEF RefillAt, MoverAt
  <2> QED BY <2>1, <2>3, <2>4, <2>5, Zenon DEF SetPage
<1>3. /\ cached'[Cache(t)] = freelist[p] \ {o}
      /\ \A c \in Caches : c # Cache(t) => cached'[c] = cached[c]
  BY <1>c, <1>1, Zenon DEF IInv, TypeOK
<1>a. /\ freelist'[p] = {} /\ inuse'[p] = PerPage
      /\ \A q \in Pages : q # p => freelist'[q] = freelist[q] /\ inuse'[q] = inuse[q]
  BY Zenon DEF IInv, TypeOK
<1>f. Frame(t)
  BY Zenon DEF IInv, TypeOK, SetPage, Goto, Clear, Frame
<1>4. TypeOK'
  <2>1. freelist' \in [Pages -> SUBSET Objects] /\ first' \in [Pages -> Objects \cup {NULL}]
    BY DEF IInv, TypeOK
  <2>2. inuse' \in [Pages -> 0..PerPage]
    BY PageAssumption DEF IInv, TypeOK
  <2>3. cached' \in [Caches -> SUBSET Objects] /\ held' \subseteq Objects
    BY <1>1, <1>2 DEF IInv, TypeOK
  <2>4. slab' \in [Caches -> Pages \cup {NULL}]
    BY DEF IInv, TypeOK, SetPage
  <2>5. slowLock' \in Externals \cup {NULL} /\ lock' \in Threads \cup {NULL}
    BY <1>2, Zenon DEF IInv, TypeOK
  <2>6. sawUse' \in [Threads -> 0..PerPage] /\ sawHead' \in [Threads -> Objects \cup {NULL}]
    BY PageAssumption DEF IInv, TypeOK, SetPage, Clear
  <2>7. /\ pc' \in [Threads -> {"idle", "refill", "take", "fresh", "balloc",
                                "look", "lock", "cas", "list", "bfree"}]
        /\ obj' \in [Threads -> Objects \cup {NULL}] /\ page' \in [Threads -> Pages \cup {NULL}]
    BY DEF IInv, TypeOK, SetPage, Clear, Goto
  <2> QED BY <2>1, <2>2, <2>3, <2>4, <2>5, <2>6, <2>7, Zenon DEF IInv, TypeOK
<1>5. LocalInv'
  <2>1. LocalAt(t)'
    BY <1>2, Zenon DEF LocalAt
  <2> QED BY <1>f, <2>1, LocalKept, Zenon
<1>6. LockInv'
  <2>1. ~Locking(t)' /\ (pc[t] = "take" => lock = t)
    BY <1>2, Zenon DEF IInv, LockInv, Locking
  <2> QED BY <1>f, <2>1, LockKept, Zenon
<1>7. RefillInv'
  <2>1. RefillAt(t)'
    BY <1>2, Zenon DEF RefillAt
  <2>2. t \in Cpus => Cache(t) # Slow
    BY NameAssumption, Zenon DEF Cache
  <2> QED BY <1>2, <1>3, <1>f, <2>1, <2>2, RefillKept, Zenon
<1>8. HomeInv'
  <2>o. \A u \in Threads : obj'[u] = obj[u]
    BY <1>2, <1>f, Zenon DEF Frame
  <2>1. ASSUME NEW q \in Objects PROVE Once(q)' /\ Home(q)'
    <3>1. Once(q) /\ Home(q) /\ PageOf[q] \in Pages
      BY PageAssumption, Zenon DEF IInv, HomeInv
    <3>2. CASE q \in freelist[p]
      <4>1. PageOf[q] = p
        BY <1>2, <3>2, Zenon DEF Chunks
      <4>2. ~Out(q)
        BY <1>2, <3>1, <3>2, <4>1, Zenon DEF Home
      <4>3. \A c \in Caches : q \in cached'[c] <=> c = Cache(t) /\ q # o
        BY <1>3, <3>2, <4>2, Zenon DEF Out
      <4>4. (q \in held' <=> q = o) /\ \A u \in Threads : obj'[u] # q
        BY <1>1, <2>o, <4>2, Zenon DEF Out
      <4>5. Once(q)' /\ Out(q)'
        BY <1>c, <4>3, <4>4, Zenon DEF Once, Out
      <4> QED BY <1>2, <1>a, <4>1, <4>5, Zenon DEF Home
    <3>3. CASE q \notin freelist[p]
      <4>1. \A c \in Caches : q \in cached'[c] <=> q \in cached[c]
        BY <1>2, <1>3, <3>3, Zenon
      <4>2. q \in held' <=> q \in held
        BY <1>1, <3>3, Zenon
      <4>3. Once(q)' /\ (Out(q)' <=> Out(q))
        BY <2>o, <3>1, <4>1, <4>2, Zenon DEF Once, Out
      <4>4. PageOf[q] = p => Out(q) /\ q \notin freelist'[p]
        BY <1>2, <1>a, <3>1, <3>3, Zenon DEF Home
      <4>5. CASE PageOf[q] = p
        BY <1>2, <4>3, <4>4, <4>5, Zenon DEF Home
      <4>6. CASE PageOf[q] # p
        BY <1>a, <3>1, <4>3, <4>6, Zenon DEF Home
      <4> QED BY <4>3, <4>5, <4>6, Zenon
    <3> QED BY <3>2, <3>3, Zenon
  <2> QED BY <2>1, Zenon DEF HomeInv
<1>9. CountInv'
  <2>1. Cardinality({}) = 0 /\ PerPage + 0 = PerPage
    BY FS_EmptySet, PageAssumption
  <2>2. ASSUME NEW q \in Pages
        PROVE  freelist'[q] \subseteq Chunks(q)
               /\ (q \notin backbone' => inuse'[q] + Cardinality(freelist'[q]) = PerPage)
    BY <1>a, <2>1, Zenon DEF IInv, CountInv
  <2> QED BY <2>2, Zenon DEF CountInv
<1>10. MoverInv' /\ PageInv'
  <2>1. Moves(t, p)
    BY Zenon DEF Moves
  <2>2. Sole(t, p)
    BY <2>1, Zenon DEF IInv, MoverInv, Sole
  <2>3. MoverAt(t)'
    BY <1>2, Zenon DEF MoverAt
  <2>4. PageAt(p)'
    BY <1>2, <1>a, Zenon DEF PageAt
  <2>5. OnlyPage(t, p)
    BY <1>2, <1>a, Zenon DEF OnlyPage, Moves
  <2> QED BY <1>f, <2>2, <2>3, <2>4, <2>5, PageMoved, Zenon
<1> QED BY <1>4, <1>5, <1>6, <1>7, <1>8, <1>9, <1>10, Zenon DEF IInv

LEMMA TakeStep == ASSUME IInv, NEW t \in Threads, TakePartial(t) \/ TakeFresh(t) PROVE IInv'
<1>1. pc[t] \in {"take", "fresh"}
  BY Zenon DEF TakePartial, TakeFresh
<1>2. PICK p \in Pages : p = page[t]
  BY <1>1, Zenon DEF IInv, LocalInv, LocalAt
<1>3. /\ SetPage(t, p, freelist[p])
      /\ freelist' = [freelist EXCEPT ![p] = {}] /\ first' = [first EXCEPT ![p] = NULL]
      /\ inuse' = [inuse EXCEPT ![p] = PerPage]
      /\ UNCHANGED <<partial, free, backbone>>
  BY <1>2, Zenon DEF TakePartial, TakeFresh
<1>4. lock' = IF pc[t] = "take" THEN NULL ELSE lock
  BY Zenon DEF TakePartial, TakeFresh
<1> QED BY <1>1, <1>2, <1>3, <1>4, SetPageStep, Zenon
-----------------------------------------------------------------------------
(***************************************************************************)
(* The steps of bucket_free that put an object back and move its page.     *)
(***************************************************************************)
\* With the lock, a thread that is about to exchange the count is alone with
\* the page of its object.
LEMMA LockedAlone ==
    ASSUME IInv, NEW t \in Threads, NEW p \in Pages, pc[t] = "cas", lock = t, inuse[p] # 0
    PROVE  \A u \in Threads : ~Moves(u, p)
<1> SUFFICES ASSUME NEW u \in Threads, Moves(u, p) PROVE FALSE
  OBVIOUS
<1>1. MoverAt(u) /\ page[u] = p /\ pc[u] \in Moving4 /\ u # t
  BY Zenon DEF IInv, MoverInv, Moves, Moving4
<1>2. pc[u] \in {"take", "list"}
  BY <1>1, Zenon DEF MoverAt, Moving4
<1>3. lock = u
  BY <1>2, Zenon DEF IInv, LockInv, Locking
<1> QED BY <1>1, <1>3, Zenon

LEMMA CasStep == ASSUME IInv, NEW t \in Threads, Cas(t) PROVE IInv'
<1>1. /\ pc[t] = "cas" /\ obj[t] # NULL /\ obj[t] \in Objects /\ page[t] = PageOf[obj[t]]
      /\ UNCHANGED <<slab, cached, lock, slowLock, partial, free, backbone, held>>
  <2>1. pc[t] = "cas"
    BY Zenon DEF Cas
  <2>2. obj[t] # NULL /\ page[t] = PageOf[obj[t]]
    BY <2>1, Zenon DEF IInv, LocalInv, LocalAt
  <2>3. obj[t] \in Objects
    BY <2>2, Zenon DEF IInv, TypeOK
  <2> QED BY <2>1, <2>2, <2>3, Zenon DEF Cas, bucketvars
<1>2. PICK o \in Objects : o = obj[t]
  BY <1>1, Zenon
<1>3. Out(o)
  BY <1>2, Zenon DEF Out
<1>4. PICK p \in Pages : p = page[t] /\ p = PageOf[o] /\ p \notin backbone /\ inuse[p] \in 1..PerPage
                          /\ o \notin freelist[p] /\ o \in Chunks(p)
  BY <1>1, <1>2, <1>3, SomeUsed, Zenon DEF Chunks
<1>5. /\ sawUse[t] = inuse[p]
      /\ freelist' = [freelist EXCEPT ![p] = @ \cup {o}] /\ first' = [first EXCEPT ![p] = o]
      /\ inuse' = [inuse EXCEPT ![p] = inuse[p] - 1] /\ obj' = [obj EXCEPT ![t] = NULL]
      /\ pc' = [pc EXCEPT ![t] = IF Speculates(t) THEN "list" ELSE "idle"]
      /\ Speculates(t) => UNCHANGED <<page, sawUse, sawHead>>
      /\ ~Speculates(t) => /\ page' = [page EXCEPT ![t] = NULL] /\ sawUse' = [sawUse EXCEPT ![t] = 0]
                           /\ sawHead' = [sawHead EXCEPT ![t] = NULL]
  BY <1>2, <1>4, Zenon DEF Cas, Unchanged, Goto
<1>6. /\ freelist'[p] = freelist[p] \cup {o} /\ inuse'[p] = inuse[p] - 1
      /\ \A q \in Pages : q # p => freelist'[q] = freelist[q] /\ inuse'[q] = inuse[q]
  BY <1>5, Zenon DEF IInv, TypeOK
<1>f. Frame(t)
  BY <1>5, Zenon DEF IInv, TypeOK, Frame
<1>7. /\ obj'[t] = NULL
      /\ Speculates(t) => pc'[t] = "list" /\ page'[t] = p /\ sawUse'[t] = sawUse[t] /\ Speculates(t)'
      /\ ~Speculates(t) => pc'[t] = "idle" /\ page'[t] = NULL
  BY <1>4, <1>5, Zenon DEF IInv, TypeOK, Speculates
<1>8. TypeOK'
  <2>1. freelist' \in [Pages -> SUBSET Objects] /\ first' \in [Pages -> Objects \cup {NULL}]
    BY <1>5 DEF IInv, TypeOK
  <2>2. inuse' \in [Pages -> 0..PerPage]
    <3>1. inuse[p] - 1 \in 0..PerPage
      BY <1>4, PageAssumption
    <3> QED BY <3>1, <1>5 DEF IInv, TypeOK
  <2>3. obj' \in [Threads -> Objects \cup {NULL}]
    BY <1>5 DEF IInv, TypeOK
  <2>4. pc' \in [Threads -> {"idle", "refill", "take", "fresh", "balloc",
                             "look", "lock", "cas", "list", "bfree"}]
    <3>1. (IF Speculates(t) THEN "list" ELSE "idle")
            \in {"idle", "refill", "take", "fresh", "balloc", "look", "lock", "cas", "list", "bfree"}
      OBVIOUS
    <3> QED BY <1>5, <3>1 DEF IInv, TypeOK
  <2>5. /\ page' \in [Threads -> Pages \cup {NULL}] /\ sawHead' \in [Threads -> Objects \cup {NULL}]
        /\ sawUse' \in [Threads -> 0..PerPage]
    <3>1. CASE Speculates(t)
      BY <1>5, <3>1, Zenon DEF IInv, TypeOK
    <3>2. CASE ~Speculates(t)
      <4>1. 0 \in 0..PerPage
        BY PageAssumption
      <4> QED BY <1>5, <3>2, <4>1 DEF IInv, TypeOK
    <3> QED BY <3>1, <3>2, Zenon
  <2> QED BY <1>1, <2>1, <2>2, <2>3, <2>4, <2>5, Zenon DEF IInv, TypeOK
<1>9. LocalAt(t)' /\ RefillAt(t)' /\ (Locking(t)' => lock = t)
  <2>1. CASE Speculates(t)
    <3>1. lock = t
      BY <1>1, <2>1, Zenon DEF IInv, LockInv, Locking
    <3> QED BY <1>7, <2>1, <3>1, Zenon DEF LocalAt, RefillAt
  <2>2. CASE ~Speculates(t)
    BY <1>7, <2>2, Zenon DEF LocalAt, RefillAt, Locking
  <2> QED BY <2>1, <2>2, Zenon
<1>10. LocalInv' /\ LockInv' /\ RefillInv'
  BY <1>1, <1>9, <1>f, LocalKept, LockKept, RefillKept, Zenon
<1>11. HomeInv'
  <2>1. ASSUME NEW q \in Objects PROVE Once(q)' /\ Home(q)'
    <3>1. Once(q) /\ Home(q) /\ PageOf[q] \in Pages /\ q # NULL
      BY PageAssumption, NameAssumption, Zenon DEF IInv, HomeInv
    <3>2. CASE q = o
      <4>1. /\ o \notin held /\ (\A c \in Caches : o \notin cached[c])
            /\ \A u \in Threads : obj[u] = o => u = t
        BY <1>2, <3>1, <3>2, Zenon DEF Once
      <4>2. \A u \in Threads : obj'[u] # o
        BY <1>7, <1>f, <3>1, <3>2, <4>1, Zenon DEF Frame
      <4>3. Once(o)' /\ ~Out(o)'
        BY <1>1, <4>1, <4>2, Zenon DEF Once, Out
      <4>4. Home(o)'
        BY <1>1, <1>4, <1>6, <4>3, Zenon DEF Home
      <4> QED BY <3>2, <4>3, <4>4, Zenon
    <3>3. CASE q # o
      <4>1. \A u \in Threads : obj'[u] = q <=> obj[u] = q
        BY <1>2, <1>7, <1>f, <3>1, <3>3, Zenon DEF Frame
      <4>2. Once(q)' /\ (Out(q)' <=> Out(q))
        BY <1>1, <3>1, <4>1, Zenon DEF Once, Out
      <4>3. q \in freelist'[PageOf[q]] <=> q \in freelist[PageOf[q]]
        BY <1>6, <3>1, <3>3, Zenon
      <4> QED BY <1>1, <3>1, <4>2, <4>3, Zenon DEF Home
    <3> QED BY <3>2, <3>3, Zenon
  <2> QED BY <2>1, Zenon DEF HomeInv
<1>12. CountInv'
  <2>1. Cardinality(freelist[p] \cup {o}) = Cardinality(freelist[p]) + 1
    BY <1>4, FreeFinite, FS_AddElement, Zenon
  <2>2. inuse'[p] + Cardinality(freelist'[p]) = PerPage
    <3>1. inuse[p] + Cardinality(freelist[p]) = PerPage
      BY <1>4, Zenon DEF IInv, CountInv
    <3>2. Cardinality(freelist[p]) \in Nat /\ Cardinality(freelist'[p]) = Cardinality(freelist[p]) + 1
      BY <1>6, <2>1, FreeFinite, Zenon
    <3> QED BY <1>4, <1>6, <3>1, <3>2, PageAssumption
  <2>3. ASSUME NEW q \in Pages
        PROVE  freelist'[q] \subseteq Chunks(q)
               /\ (q \notin backbone' => inuse'[q] + Cardinality(freelist'[q]) = PerPage)
    BY <1>1, <1>4, <1>6, <2>2, Zenon DEF IInv, CountInv
  <2> QED BY <2>3, Zenon DEF CountInv
<1>13. MoverInv' /\ PageInv'
  <2>1. MoverAt(t) /\ PageAt(p)
    BY Zenon DEF IInv, MoverInv, PageInv
  <2>2. CASE Speculates(t)
    <3>1. lock = t /\ inuse[p] \in {1, PerPage} /\ inuse[p] # 0
      <4>1. lock = t
        BY <1>1, <2>2, Zenon DEF IInv, LockInv, Locking
      <4>2. inuse[p] \in {1, PerPage}
        BY <1>5, <2>2, Zenon DEF Speculates
      <4>3. inuse[p] # 0
        BY <1>4
      <4> QED BY <4>1, <4>2, <4>3, Zenon
    <3>2. \A u \in Threads : ~Moves(u, p)
      BY <1>1, <3>1, LockedAlone, Zenon
    <3>3. ~Moving(p) /\ ~Emptied(p) /\ p \notin free
      BY <2>1, <3>1, <3>2, Zenon DEF Moving, Emptied, Moves, PageAt
    <3>4. MoverAt(t)' /\ PageAt(p)'
      <4>1. CASE inuse[p] = 1
        <5>1. inuse'[p] = 0 /\ PerPage # 1
          BY <1>6, <4>1, PageAssumption
        <5>2. p \in partial
          BY <1>4, <2>1, <3>3, <4>1, <5>1, Zenon DEF PageAt
        <5>3. MoverAt(t)' /\ Emptied(p)'
          BY <1>1, <1>5, <1>7, <2>2, <4>1, <5>1, <5>2, Zenon DEF MoverAt, Emptied
        <5> QED BY <1>1, <1>4, <3>3, <5>2, <5>3, Zenon DEF PageAt
      <4>2. CASE inuse[p] = PerPage
        <5>1. inuse'[p] \in Some /\ PerPage \notin Some /\ PerPage # 1
          BY <1>6, <4>2, PageAssumption DEF Some
        <5>2. p \notin partial \cup free \cup backbone
          BY <1>4, <2>1, <3>3, <4>2, <5>1, Zenon DEF PageAt
        <5>3. MoverAt(t)' /\ Moving(p)'
          BY <1>1, <1>5, <1>7, <2>2, <4>2, <5>1, <5>2, Zenon DEF MoverAt, Moving
        <5> QED BY <1>1, <5>2, <5>3, Zenon DEF PageAt
      <4> QED BY <3>1, <4>1, <4>2, Zenon
    <3>5. OnlyPage(t, p)
      BY <1>1, <1>6, <1>7, <2>2, Zenon DEF OnlyPage, Moves
    <3> QED BY <1>f, <3>2, <3>4, <3>5, PageMoved, Zenon DEF Sole
  <2>3. CASE ~Speculates(t)
    <3>1. inuse[p] \in Some /\ inuse'[p] \in Some /\ inuse[p] # 0 /\ inuse[p] # PerPage
      <4>1. inuse[p] # 1 /\ inuse[p] # PerPage
        BY <1>5, <2>3, Zenon DEF Speculates
      <4> QED BY <1>4, <1>6, <4>1, PageAssumption DEF Some
    <3>2. ASSUME NEW u \in Threads PROVE MoverAt(u)'
      <4>1. CASE u = t
        BY <1>7, <2>3, <4>1, Zenon DEF MoverAt
      <4>2. CASE u # t /\ pc[u] \in Moving4
        <5>1. PICK q \in Pages : q = page[u] /\ page'[u] = q /\ pc'[u] = pc[u] /\ sawUse'[u] = sawUse[u]
          BY <4>2, <1>f, Zenon DEF IInv, LocalInv, LocalAt, Moving4, Frame
        <5>2. MoverAt(u)
          BY Zenon DEF IInv, MoverInv
        <5>3. CASE q = p
          BY <1>1, <3>1, <5>1, <5>2, <5>3, Zenon DEF MoverAt
        <5>4. CASE q # p
          BY <1>1, <1>6, <5>1, <5>2, <5>4, Zenon DEF MoverAt
        <5> QED BY <5>3, <5>4, Zenon
      <4>3. CASE u # t /\ pc[u] \notin Moving4
        BY <4>3, <1>f, Zenon DEF MoverAt, Frame, Moving4
      <4> QED BY <4>1, <4>2, <4>3, Zenon
    <3>3. ASSUME NEW u \in Threads, NEW q \in Pages PROVE Moves(u, q)' <=> Moves(u, q)
      <4>1. CASE u = t
        BY <1>1, <1>7, <2>3, <4>1, Zenon DEF Moves
      <4>2. CASE u # t
        BY <1>f, <4>2, Zenon DEF Moves, Frame
      <4> QED BY <4>1, <4>2, Zenon
    <3>4. MoverInv'
      BY <3>2, <3>3, Zenon DEF IInv, MoverInv
    <3>5. ASSUME NEW q \in Pages PROVE PageAt(q)'
      <4>1. Moving(q) => Moving(q)'
        BY <3>3, Zenon DEF Moving, Moves
      <4>2. Emptied(q) => Emptied(q)'
        <5>1. ASSUME NEW u \in Threads, page[u] = q, pc[u] = "list", sawUse[u] = 1 PROVE Emptied(q)'
          <6>1. u # t
            BY <1>1, <5>1, Zenon
          <6> QED BY <1>f, <5>1, <6>1, Zenon DEF Emptied, Frame
        <5> QED BY <5>1, Zenon DEF Emptied
      <4>3. PageAt(q)
        BY Zenon DEF IInv, PageInv
      <4>4. CASE q = p
        <5>1. p \in free => FALSE
          BY <2>1, <3>1, Zenon DEF PageAt
        <5>2. p \notin partial \cup free \cup backbone => Moving(p)'
          BY <2>1, <3>1, <4>1, <4>4, Zenon DEF PageAt, Moving
        <5>3. PageAt(p)'
          BY <1>1, <1>4, <3>1, <5>1, <5>2, Zenon DEF PageAt
        <5> QED BY <4>4, <5>3, Zenon DEF PageAt, Emptied, Moving
      <4>5. CASE q # p
        BY <1>1, <1>6, <4>1, <4>2, <4>3, <4>5, Zenon DEF PageAt
      <4> QED BY <4>4, <4>5, Zenon
    <3> QED BY <3>4, <3>5, Zenon DEF PageInv
  <2> QED BY <2>2, <2>3, Zenon
<1> QED BY <1>8, <1>10, <1>11, <1>12, <1>13, Zenon DEF IInv

LEMMA MovePageStep == ASSUME IInv, NEW t \in Threads, MovePage(t) PROVE IInv'
<1>1. /\ pc[t] = "list" /\ lock = t /\ lock' = NULL /\ obj[t] = NULL /\ page[t] \in Pages /\ MoverAt(t)
      /\ UNCHANGED <<slab, cached, slowLock, backbone, held, freelist, first, inuse>>
  BY Zenon DEF IInv, LocalInv, LocalAt, LockInv, Locking, MoverInv, MovePage, pagevars
<1>2. PICK p \in Pages : p = page[t]
  BY <1>1, Zenon
<1>3. PICK keep \in BOOLEAN :
        /\ keep => sawUse[t] = 1
        /\ partial' = IF sawUse[t] = 1 THEN partial \ {p} ELSE partial \cup {p}
        /\ free' = IF keep THEN free \cup {p} ELSE free
        /\ IF sawUse[t] = 1 /\ ~keep
           THEN Goto(t, "bfree") /\ UNCHANGED locals
           ELSE Goto(t, "idle") /\ Clear(t)
  <2> DEFINE k == sawUse[t] = 1 /\ Cardinality(free) < MaxFree
  <2>1. k \in BOOLEAN
    OBVIOUS
  <2> QED BY <1>2, <2>1, Zenon DEF MovePage
<1>4. /\ sawUse[t] = 1 /\ ~keep => pc'[t] = "bfree" /\ obj'[t] = NULL /\ page'[t] = p
      /\ ~(sawUse[t] = 1 /\ ~keep) => pc'[t] = "idle" /\ obj'[t] = NULL /\ page'[t] = NULL
  <2>1. CASE sawUse[t] = 1 /\ ~keep
    BY <1>1, <1>2, <1>3, <2>1, Zenon DEF IInv, TypeOK, Goto, locals
  <2>2. CASE ~(sawUse[t] = 1 /\ ~keep)
    BY <1>3, <2>2, Zenon DEF IInv, TypeOK, Goto, Clear
  <2> QED BY <2>1, <2>2, Zenon
<1>f. Frame(t)
  BY <1>3, Zenon DEF IInv, TypeOK, Goto, Clear, locals, Frame
<1>5. TypeOK'
  <2>1. partial' \subseteq Pages /\ free' \subseteq Pages
    BY <1>3, Zenon DEF IInv, TypeOK
  <2>2. /\ pc' \in [Threads -> {"idle", "refill", "take", "fresh", "balloc",
                                "look", "lock", "cas", "list", "bfree"}]
        /\ obj' \in [Threads -> Objects \cup {NULL}] /\ page' \in [Threads -> Pages \cup {NULL}]
    <3>1. CASE sawUse[t] = 1 /\ ~keep
      BY <1>3, <3>1 DEF IInv, TypeOK, Goto, locals
    <3>2. CASE ~(sawUse[t] = 1 /\ ~keep)
      BY <1>3, <3>2 DEF IInv, TypeOK, Goto, Clear
    <3> QED BY <3>1, <3>2, Zenon
  <2>3. sawUse' \in [Threads -> 0..PerPage] /\ sawHead' \in [Threads -> Objects \cup {NULL}]
    <3>1. CASE sawUse[t] = 1 /\ ~keep
      BY <1>3, <3>1, Zenon DEF IInv, TypeOK, locals
    <3>2. CASE ~(sawUse[t] = 1 /\ ~keep)
      BY <1>3, <3>2, PageAssumption DEF IInv, TypeOK, Clear
    <3> QED BY <3>1, <3>2, Zenon
  <2> QED BY <1>1, <2>1, <2>2, <2>3, Zenon DEF IInv, TypeOK
<1>6. pc'[t] \in {"idle", "bfree"} /\ obj'[t] = NULL
  BY <1>4, Zenon
<1>7. LocalAt(t)' /\ RefillAt(t)' /\ ~Locking(t)'
  BY <1>2, <1>4, <1>6, Zenon DEF LocalAt, RefillAt, Locking
<1>8. LocalInv' /\ LockInv' /\ RefillInv' /\ HomeInv'
  BY <1>1, <1>6, <1>7, <1>f, LocalKept, LockKept, RefillKept, HomeKept, Zenon
<1>9. CountInv'
  BY <1>1, Zenon DEF IInv, CountInv
<1>10. MoverInv' /\ PageInv'
  <2>1. PageAt(p) /\ p \notin backbone /\ p \notin free
    BY <1>1, <1>2, Zenon DEF IInv, PageInv, PageAt, MoverAt
  <2>2. Sole(t, p)
    BY <1>1, <1>2, Zenon DEF IInv, MoverInv, Moves, Sole
  <2>3. OnlyPage(t, p)
    <3>1. \A q \in Pages : Moves(t, q) \/ Moves(t, q)' => q = p
      BY <1>2, <1>4, Zenon DEF Moves
    <3>2. \A q \in Pages : q # p => (q \in partial' <=> q \in partial) /\ (q \in free' <=> q \in free)
      BY <1>3, Zenon
    <3> QED BY <1>1, <3>1, <3>2, Zenon DEF OnlyPage
  <2>4. MoverAt(t)' /\ PageAt(p)'
    <3>1. CASE sawUse[t] = 1 /\ ~keep
      <4>1. inuse[p] = 0 /\ p \notin partial' /\ p \notin free' /\ pc'[t] = "bfree" /\ page'[t] = p
        BY <1>1, <1>2, <1>3, <1>4, <2>1, <3>1, Zenon DEF MoverAt
      <4> QED BY <1>1, <2>1, <4>1, Zenon DEF MoverAt, PageAt, Moving
    <3>2. CASE sawUse[t] = 1 /\ keep
      <4>1. inuse[p] = 0 /\ p \notin partial' /\ p \in free' /\ pc'[t] = "idle"
        BY <1>1, <1>2, <1>3, <1>4, <3>2, Zenon DEF MoverAt
      <4> QED BY <1>1, <2>1, <4>1, Zenon DEF MoverAt, PageAt
    <3>3. CASE sawUse[t] # 1
      <4>1. inuse[p] \in Some /\ p \in partial' /\ p \notin free' /\ pc'[t] = "idle"
        BY <1>1, <1>2, <1>3, <1>4, <2>1, <3>3, Zenon DEF MoverAt
      <4> QED BY <1>1, <2>1, <4>1, Zenon DEF MoverAt, PageAt
    <3> QED BY <3>1, <3>2, <3>3, Zenon
  <2> QED BY <1>f, <2>2, <2>3, <2>4, PageMoved, Zenon
<1> QED BY <1>5, <1>8, <1>9, <1>10, Zenon DEF IInv

LEMMA BfreeStep == ASSUME IInv, NEW t \in Threads, Bfree(t) PROVE IInv'
<1>1. /\ pc[t] = "bfree" /\ obj[t] = NULL /\ page[t] \in Pages /\ MoverAt(t)
      /\ pc'[t] = "idle" /\ obj'[t] = NULL /\ page'[t] = NULL
      /\ UNCHANGED <<slab, cached, lock, slowLock, partial, free, held, freelist, first, inuse>>
  BY Zenon DEF IInv, TypeOK, LocalInv, LocalAt, MoverInv, Bfree, Goto, Clear, pagevars, bucketvars
<1>2. PICK p \in Pages : p = page[t]
  BY <1>1, Zenon
<1>3. /\ p \notin partial \cup free \cup backbone /\ inuse[p] = 0 /\ backbone' = backbone \cup {p}
  BY <1>1, <1>2, Zenon DEF MoverAt, Bfree
<1>f. Frame(t)
  BY Zenon DEF IInv, TypeOK, Bfree, Goto, Clear, Frame
<1>4. TypeOK'
  <2>1. sawUse' \in [Threads -> 0..PerPage] /\ sawHead' \in [Threads -> Objects \cup {NULL}]
    BY PageAssumption DEF IInv, TypeOK, Bfree, Clear
  <2>2. /\ pc' \in [Threads -> {"idle", "refill", "take", "fresh", "balloc",
                                "look", "lock", "cas", "list", "bfree"}]
        /\ obj' \in [Threads -> Objects \cup {NULL}] /\ page' \in [Threads -> Pages \cup {NULL}]
    BY DEF IInv, TypeOK, Bfree, Goto, Clear
  <2> QED BY <1>1, <1>3, <2>1, <2>2, Zenon DEF IInv, TypeOK
<1>5. LocalAt(t)' /\ RefillAt(t)' /\ ~Locking(t)'
  BY <1>1, Zenon DEF LocalAt, RefillAt, Locking
<1>6. LocalInv' /\ LockInv' /\ RefillInv'
  BY <1>1, <1>5, <1>f, LocalKept, LockKept, RefillKept, Zenon
<1>7. HomeInv'
  <2>1. ASSUME NEW q \in Objects PROVE Once(q)' /\ Home(q)'
    <3>1. Once(q) /\ Home(q)
      BY Zenon DEF IInv, HomeInv
    <3>2. \A u \in Threads : obj'[u] = obj[u]
      BY <1>1, <1>f, Zenon DEF Frame
    <3>3. Once(q)' /\ (Out(q)' <=> Out(q))
      BY <1>1, <3>1, <3>2, Zenon DEF Once, Out
    <3>4. PageOf[q] = p => ~Out(q)
      BY <1>3, AllFree, Zenon DEF Chunks
    <3>5. CASE PageOf[q] = p
      BY <1>3, <3>3, <3>4, <3>5, Zenon DEF Home
    <3>6. CASE PageOf[q] # p
      BY <1>1, <1>3, <3>1, <3>3, <3>6, Zenon DEF Home
    <3> QED BY <3>3, <3>5, <3>6, Zenon
  <2> QED BY <2>1, Zenon DEF HomeInv
<1>8. CountInv'
  BY <1>1, <1>3, Zenon DEF IInv, CountInv
<1>9. MoverInv' /\ PageInv'
  <2>1. Sole(t, p)
    BY <1>1, <1>2, Zenon DEF IInv, MoverInv, Moves, Sole
  <2>2. OnlyPage(t, p)
    BY <1>1, <1>2, <1>3, Zenon DEF OnlyPage, Moves
  <2>3. MoverAt(t)' /\ PageAt(p)'
    BY <1>1, <1>3, Zenon DEF MoverAt, PageAt
  <2> QED BY <1>f, <2>1, <2>2, <2>3, PageMoved, Zenon
<1> QED BY <1>4, <1>6, <1>7, <1>8, <1>9, Zenon DEF IInv
-----------------------------------------------------------------------------
(***************************************************************************)
(* The invariant holds in every state.                                     *)
(***************************************************************************)
LEMMA InitIInv == Init => IInv
<1> SUFFICES ASSUME Init PROVE IInv
  OBVIOUS
<1>1. TypeOK
  BY PageAssumption DEF Init, TypeOK
<1>2. /\ \A t \in Threads : pc[t] = "idle" /\ obj[t] = NULL /\ page[t] = NULL
      /\ \A c \in Caches : cached[c] = {}
      /\ \A p \in Pages : freelist[p] = {}
      /\ held = {} /\ partial = {} /\ free = {} /\ backbone = Pages
  BY Zenon DEF Init
<1>3. LocalInv /\ LockInv /\ RefillInv
  BY <1>2, Zenon DEF LocalInv, LocalAt, LockInv, Locking, RefillInv, RefillAt
<1>4. HomeInv
  <2>1. ASSUME NEW o \in Objects PROVE Once(o) /\ Home(o)
    <3>1. o # NULL /\ PageOf[o] \in backbone
      BY <1>2, NameAssumption, PageAssumption, Zenon
    <3>2. ~Out(o)
      BY <1>2, <3>1, Zenon DEF Out
    <3> QED BY <3>1, <3>2, Zenon DEF Once, Home, Out
  <2> QED BY <2>1, Zenon DEF HomeInv
<1>5. CountInv /\ PageInv
  BY <1>2, Zenon DEF CountInv, PageInv, PageAt
<1>6. MoverInv
  BY <1>2, Zenon DEF MoverInv, MoverAt, Moves
<1> QED BY <1>1, <1>3, <1>4, <1>5, <1>6, Zenon DEF IInv

LEMMA NextIInv == IInv /\ [Next]_vars => IInv'
<1> SUFFICES ASSUME IInv, [Next]_vars PROVE IInv'
  OBVIOUS
<1>1. CASE UNCHANGED vars
  <2>1. UNCHANGED <<freelist, first, inuse, slab, cached, partial, free, lock, slowLock>>
        /\ UNCHANGED <<backbone, held, pc, obj, page, sawUse, sawHead>>
    BY <1>1, Zenon DEF vars, pagevars, bucketvars, locals
  <2>2. TypeOK'
    BY <2>1, Zenon DEF IInv, TypeOK
  <2>3. LocalInv' /\ LockInv' /\ RefillInv'
    BY <2>1, Zenon DEF IInv, LocalInv, LocalAt, LockInv, Locking, Speculates, RefillInv, RefillAt, Cache
  <2>4. HomeInv'
    BY <2>1, Zenon DEF IInv, HomeInv, Once, Home, Out
  <2>5. CountInv' /\ MoverInv'
    BY <2>1, Zenon DEF IInv, CountInv, MoverInv, MoverAt, Moves
  <2>6. PageInv'
    <3>1. ASSUME NEW p \in Pages PROVE PageAt(p)'
      <4>1. (Emptied(p)' <=> Emptied(p)) /\ (Moving(p)' <=> Moving(p)) /\ PageAt(p)
        BY <2>1, Zenon DEF IInv, PageInv, Emptied, Moving
      <4> QED BY <2>1, <4>1, Zenon DEF PageAt
    <3> QED BY <3>1, Zenon DEF PageInv
  <2> QED BY <2>2, <2>3, <2>4, <2>5, <2>6, Zenon DEF IInv
<1>2. ASSUME NEW t \in Threads, AllocCached(t) \/ AllocEmpty(t) PROVE IInv'
  BY <1>2, AllocCachedStep, AllocEmptyStep, Zenon
<1>3. ASSUME NEW t \in Threads, Alloc(t) PROVE IInv'
  <2>1. ASSUME NEW p \in Pages, RefillPartial(t, p) \/ RefillFree(t, p) \/ Balloc(t, p) PROVE IInv'
    BY <2>1, RefillPartialStep, RefillFreeStep, BallocStep, Zenon
  <2>2. CASE RefillNone(t) \/ TakePartial(t) \/ TakeRetry(t) \/ TakeFresh(t)
    BY <2>2, RefillNoneStep, TakeStep, TakeRetryStep, Zenon
  <2> QED BY <1>3, <2>1, <2>2, Zenon DEF Alloc
<1>4. ASSUME NEW t \in Threads, NEW o \in Objects, FreeLocal(t, o) \/ FreeRemote(t, o) PROVE IInv'
  BY <1>4, FreeLocalStep, FreeRemoteStep, Zenon
<1>5. ASSUME NEW t \in Threads, Release(t) PROVE IInv'
  BY <1>5, LookStep, LockBucketStep, CasStep, CasFailsStep, MovePageStep, BfreeStep, Zenon DEF Release
<1> QED BY <1>1, <1>2, <1>3, <1>4, <1>5, Zenon DEF Next

\* What each thread knows of its object, its page and the locks is true in
\* every state of the size class.
THEOREM Invariance == Spec => []IInv
BY InitIInv, NextIInv, PTL DEF Spec
-----------------------------------------------------------------------------
(***************************************************************************)
(* What the invariant says of the size class.                              *)
(***************************************************************************)
LEMMA OneHomeHolds == IInv => OneHome
<1> SUFFICES ASSUME IInv, NEW p \in Pages \ backbone, NEW o \in Chunks(p)
             PROVE  Cardinality({c \in Caches : o \in cached[c]}) + Cardinality({t \in Threads : obj[t] = o})
                      + (IF o \in held THEN 1 ELSE 0) + (IF o \in freelist[p] THEN 1 ELSE 0) = 1
  BY Zenon DEF OneHome
<1> DEFINE C == {c \in Caches : o \in cached[c]}
           T == {t \in Threads : obj[t] = o}
<1>1. o \in Objects /\ PageOf[o] = p /\ p \notin backbone
  BY Zenon DEF Chunks
<1>2. Once(o) /\ (Out(o) <=> o \notin freelist[p])
  BY <1>1, Zenon DEF IInv, HomeInv, Home
<1>3. Cardinality({}) = 0 /\ \A x : Cardinality({x}) = 1
  BY FS_EmptySet, FS_Singleton, Zenon
<1>4. CASE o \in held
  <2>1. C = {} /\ T = {} /\ o \notin freelist[p]
    BY <1>2, <1>4, Zenon DEF Once, Out
  <2>2. Cardinality(C) = 0 /\ Cardinality(T) = 0
    BY <1>3, <2>1, Zenon
  <2> HIDE DEF C, T
  <2>3. Cardinality(C) + Cardinality(T) + (IF o \in held THEN 1 ELSE 0) + (IF o \in freelist[p] THEN 1 ELSE 0) = 1
    BY <1>4, <2>1, <2>2
  <2> QED BY <2>3, Zenon DEF C, T
<1>5. CASE \E c \in Caches : o \in cached[c]
  <2>1. PICK c \in Caches : o \in cached[c]
    BY <1>5, Zenon
  <2>2. C = {c} /\ T = {} /\ o \notin held /\ o \notin freelist[p]
    BY <1>2, <2>1, Zenon DEF Once, Out
  <2>3. Cardinality(C) = 1 /\ Cardinality(T) = 0
    BY <1>3, <2>2, Zenon
  <2> HIDE DEF C, T
  <2>4. Cardinality(C) + Cardinality(T) + (IF o \in held THEN 1 ELSE 0) + (IF o \in freelist[p] THEN 1 ELSE 0) = 1
    BY <2>2, <2>3
  <2> QED BY <2>4, Zenon DEF C, T
<1>6. CASE \E t \in Threads : obj[t] = o
  <2>1. PICK t \in Threads : obj[t] = o
    BY <1>6, Zenon
  <2>2. C = {} /\ T = {t} /\ o \notin held /\ o \notin freelist[p]
    BY <1>2, <2>1, Zenon DEF Once, Out
  <2>3. Cardinality(C) = 0 /\ Cardinality(T) = 1
    BY <1>3, <2>2, Zenon
  <2> HIDE DEF C, T
  <2>4. Cardinality(C) + Cardinality(T) + (IF o \in held THEN 1 ELSE 0) + (IF o \in freelist[p] THEN 1 ELSE 0) = 1
    BY <2>2, <2>3
  <2> QED BY <2>4, Zenon DEF C, T
<1>7. CASE ~Out(o)
  <2>1. C = {} /\ T = {} /\ o \notin held /\ o \in freelist[p]
    BY <1>2, <1>7, Zenon DEF Out
  <2>2. Cardinality(C) = 0 /\ Cardinality(T) = 0
    BY <1>3, <2>1, Zenon
  <2> HIDE DEF C, T
  <2>3. Cardinality(C) + Cardinality(T) + (IF o \in held THEN 1 ELSE 0) + (IF o \in freelist[p] THEN 1 ELSE 0) = 1
    BY <2>1, <2>2
  <2> QED BY <2>3, Zenon DEF C, T
<1> QED BY <1>4, <1>5, <1>6, <1>7, Zenon DEF Out

\* The objects of a page that threads are freeing are as many as the threads.
FreedOf(p) == {o \in Chunks(p) : \E t \in Threads : obj[t] = o}

LEMMA FreeingCount ==
    ASSUME IInv, NEW p \in Pages
    PROVE  Cardinality(FreedOf(p)) = Cardinality(Freeing(p))
<1> DEFINE f == [o \in FreedOf(p) |-> CHOOSE t \in Threads : obj[t] = o]
<1>1. IsFiniteSet(FreedOf(p))
  <2>1. FreedOf(p) \in SUBSET Chunks(p) /\ IsFiniteSet(Chunks(p))
    BY ChunksFinite, Zenon DEF FreedOf
  <2> QED BY <2>1, FS_Subset, Zenon
<1>2. ASSUME NEW o \in FreedOf(p) PROVE f[o] \in Freeing(p) /\ obj[f[o]] = o
  <2>1. o \in Objects /\ PageOf[o] = p /\ o # NULL /\ \E t \in Threads : obj[t] = o
    BY NameAssumption, Zenon DEF FreedOf, Chunks
  <2>2. f[o] \in Threads /\ obj[f[o]] = o
    BY <2>1, Zenon
  <2>3. page[f[o]] = p
    BY <2>1, <2>2, Zenon DEF IInv, LocalInv, LocalAt
  <2> QED BY <2>1, <2>2, <2>3, Zenon DEF Freeing
<1>3. ASSUME NEW t \in Freeing(p) PROVE \E o \in FreedOf(p) : f[o] = t
  <2>1. t \in Threads /\ page[t] = p /\ obj[t] # NULL
    BY Zenon DEF Freeing
  <2>2. PICK o \in Objects : o = obj[t]
    BY <2>1, Zenon DEF IInv, TypeOK
  <2>3. PageOf[o] = p
    BY <2>1, <2>2, Zenon DEF IInv, LocalInv, LocalAt
  <2>4. o \in FreedOf(p)
    BY <2>1, <2>2, <2>3, Zenon DEF FreedOf, Chunks
  <2>5. f[o] \in Threads /\ obj[f[o]] = o
    BY <1>2, <2>4, Zenon DEF Freeing
  <2>6. f[o] = t
    BY <2>1, <2>2, <2>5, Zenon DEF IInv, HomeInv, Once
  <2> QED BY <2>4, <2>6, Zenon
<1>4. f \in Bijection(FreedOf(p), Freeing(p))
  <2>1. f \in [FreedOf(p) -> Freeing(p)]
    BY <1>2, Zenon
  <2>2. \A a, b \in FreedOf(p) : f[a] = f[b] => a = b
    BY <1>2, Zenon
  <2> HIDE DEF f
  <2> QED BY <1>3, <2>1, <2>2, Zenon DEF Bijection, Injection, Surjection, IsInjective
<1>5. ExistsBijection(FreedOf(p), Freeing(p))
  <2> HIDE DEF f
  <2> QED BY <1>4, Zenon DEF ExistsBijection
<1> QED BY <1>1, <1>5, FS_Bijection, Zenon

LEMMA DisjointUnion ==
    ASSUME NEW S, NEW T, IsFiniteSet(S), IsFiniteSet(T), S \cap T = {}
    PROVE  IsFiniteSet(S \cup T) /\ Cardinality(S \cup T) = Cardinality(S) + Cardinality(T)
<1>1. /\ IsFiniteSet(S \cup T)
      /\ Cardinality(S \cup T) = Cardinality(S) + Cardinality(T) - Cardinality(S \cap T)
  BY FS_Union, Zenon
<1>2. Cardinality(S \cap T) = 0 /\ Cardinality(S) \in Nat /\ Cardinality(T) \in Nat
  BY FS_EmptySet, FS_CardinalityType, Zenon
<1> QED BY <1>1, <1>2

LEMMA InuseCountsHolds == IInv => InuseCounts
<1> SUFFICES ASSUME IInv, NEW p \in Pages \ backbone
             PROVE  /\ inuse[p] + Cardinality(freelist[p]) = PerPage
                    /\ inuse[p] = Cardinality(Held(p)) + Cardinality(Cached(p)) + Cardinality(Freeing(p))
  BY Zenon DEF InuseCounts
<1>1. inuse[p] + Cardinality(freelist[p]) = PerPage
  BY Zenon DEF IInv, CountInv
<1>2. Held(p) \cup Cached(p) \cup FreedOf(p) = Chunks(p) \ freelist[p]
  <2>1. ASSUME NEW o \in Chunks(p) PROVE Out(o) <=> o \notin freelist[p]
    BY Zenon DEF Chunks, IInv, HomeInv, Home
  <2>2. ASSUME NEW o PROVE o \in Held(p) \cup Cached(p) \cup FreedOf(p) <=> o \in Chunks(p) /\ Out(o)
    <3>1. held \subseteq Objects /\ \A c \in Caches : cached[c] \subseteq Objects
      BY Zenon DEF IInv, TypeOK
    <3>2. o \in Cached(p) <=> o \in Chunks(p) /\ \E c \in Caches : o \in cached[c]
      <4>1. ASSUME o \in Cached(p) PROVE o \in Chunks(p) /\ \E c \in Caches : o \in cached[c]
        <5>1. PICK c \in Caches : o \in cached[c] /\ PageOf[o] = p
          BY <4>1 DEF Cached
        <5> QED BY <3>1, <5>1, Zenon DEF Chunks
      <4>2. ASSUME o \in Chunks(p), NEW c \in Caches, o \in cached[c] PROVE o \in Cached(p)
        BY <4>2 DEF Cached, Chunks
      <4> QED BY <4>1, <4>2, Zenon
    <3> QED BY <3>1, <3>2, Zenon DEF Held, FreedOf, Chunks, Out
  <2> QED BY <2>1, <2>2, Zenon
<1>3. Held(p) \cap Cached(p) = {} /\ (Held(p) \cup Cached(p)) \cap FreedOf(p) = {}
  <2>1. ASSUME NEW o \in Held(p) \cup Cached(p) PROVE ~(o \in Held(p) /\ o \in Cached(p)) /\ o \notin FreedOf(p)
    <3>1. o \in Objects
      BY Zenon DEF IInv, TypeOK, Held, Cached
    <3>2. Once(o)
      BY <3>1, Zenon DEF IInv, HomeInv
    <3> QED BY <3>2, Zenon DEF Once, Held, Cached, FreedOf
  <2> QED BY <2>1, Zenon
<1>4. IsFiniteSet(Held(p)) /\ IsFiniteSet(Cached(p)) /\ IsFiniteSet(FreedOf(p))
  <2>1. Held(p) \in SUBSET Chunks(p) /\ Cached(p) \in SUBSET Chunks(p) /\ FreedOf(p) \in SUBSET Chunks(p)
    BY <1>2, Zenon
  <2> QED BY <2>1, ChunksFinite, FS_Subset, Zenon
<1>5. Cardinality(Chunks(p) \ freelist[p])
        = Cardinality(Held(p)) + Cardinality(Cached(p)) + Cardinality(FreedOf(p))
  <2>1. /\ IsFiniteSet(Held(p) \cup Cached(p))
        /\ Cardinality(Held(p) \cup Cached(p)) = Cardinality(Held(p)) + Cardinality(Cached(p))
    BY <1>3, <1>4, DisjointUnion, Zenon
  <2>2. Cardinality((Held(p) \cup Cached(p)) \cup FreedOf(p))
          = Cardinality(Held(p) \cup Cached(p)) + Cardinality(FreedOf(p))
    BY <1>3, <1>4, <2>1, DisjointUnion, Zenon
  <2> QED BY <1>2, <2>1, <2>2, Zenon
<1>6. Cardinality(Chunks(p) \ freelist[p]) = PerPage - Cardinality(freelist[p])
  <2>1. Chunks(p) \cap freelist[p] = freelist[p]
    BY FreeFinite, Zenon
  <2>2. IsFiniteSet(Chunks(p)) /\ Cardinality(Chunks(p)) = PerPage
    BY ChunksFinite, Zenon
  <2>3. Cardinality(Chunks(p) \ freelist[p]) = Cardinality(Chunks(p)) - Cardinality(Chunks(p) \cap freelist[p])
    BY <2>2, FS_Difference, Zenon
  <2> QED BY <2>1, <2>2, <2>3, Zenon
<1>7. inuse[p] = PerPage - Cardinality(freelist[p])
  <2>1. inuse[p] \in Nat /\ Cardinality(freelist[p]) \in Nat
    <3>1. inuse[p] \in 0..PerPage
      BY Zenon DEF IInv, TypeOK
    <3> QED BY <3>1, FreeFinite, PageAssumption
  <2> QED BY <1>1, <2>1, PageAssumption
<1> QED BY <1>1, <1>5, <1>6, <1>7, FreeingCount, Zenon

LEMMA ListsMatchHolds == IInv => ListsMatch
<1> SUFFICES ASSUME IInv, NEW p \in Pages
             PROVE  /\ p \in partial => (inuse[p] \in 1..(PerPage - 1) \/ Moving(p))
                    /\ p \in free => inuse[p] = 0 /\ Held(p) = {} /\ Cached(p) = {}
                    /\ p \in backbone => p \notin partial \cup free /\ Held(p) = {} /\ Cached(p) = {}
                    /\ p \notin partial \cup free \cup backbone => inuse[p] = PerPage \/ Moving(p)
                    /\ ~(p \in partial /\ p \in free)
  BY Zenon DEF ListsMatch
<1>1. PageAt(p)
  BY Zenon DEF IInv, PageInv
<1>2. Emptied(p) => Moving(p)
  BY Zenon DEF Emptied, Moving
<1>3. (\A o \in Chunks(p) : ~Out(o)) => Held(p) = {} /\ Cached(p) = {}
  <2>1. held \subseteq Objects /\ \A c \in Caches : cached[c] \subseteq Objects
    BY Zenon DEF IInv, TypeOK
  <2> QED BY <2>1, Zenon DEF Held, Cached, Chunks, Out
<1>4. p \in free => \A o \in Chunks(p) : ~Out(o)
  BY <1>1, AllFree, Zenon DEF PageAt
<1>5. p \in backbone => \A o \in Chunks(p) : ~Out(o)
  BY Zenon DEF Chunks, IInv, HomeInv, Home
<1> QED BY <1>1, <1>2, <1>3, <1>4, <1>5, Zenon DEF PageAt, Some

\* Whatever the interleaving of bucket_alloc and bucket_free on any number of
\* CPUs and external threads: no chunk is handed out twice or lost,
\* inuse_chunks counts the chunks that are not in the free list of the page,
\* and every page is in the list that its count calls for or is being moved.
THEOREM SlabSoundAlways == Spec => []SlabSound
<1>1. IInv => SlabSound
  BY OneHomeHolds, InuseCountsHolds, ListsMatchHolds, Zenon DEF SlabSound, IInv
<1> QED BY <1>1, Invariance, PTL
=============================================================================
