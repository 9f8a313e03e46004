-------------------------------- MODULE Slab --------------------------------
(***************************************************************************)
(* The allocator of the shared segment: one size class of the slab         *)
(* allocator (src/src/memory/slab.c) over the page allocator               *)
(* (src/src/memory/backbone.c).                                            *)
(*                                                                         *)
(* Each CPU allocates from its own page without synchronisation; external  *)
(* threads share one such cache under a spin lock.  An object is freed to  *)
(* the cache of its CPU, or to its page with a double-word compare and     *)
(* exchange on the page's free list and count of chunks in use.  The lists *)
(* of partial and of free pages are guarded by the lock of the size class, *)
(* which a thread takes speculatively, after it looked at the count.       *)
(*                                                                         *)
(* A free list is the set of its objects and, where it is compared, its    *)
(* first object; the order of the others is left open.                     *)
(***************************************************************************)
EXTENDS Integers, FiniteSets

CONSTANTS
    Cpus,       \* CPUs, each with the thread that runs on it
    Externals,  \* threads without a CPU
    Pages,      \* pages of the segment
    Objects,    \* the chunks of these pages
    PageOf,     \* page_metadata_from_block: the page of each object
    PerPage,    \* bucket_objinpage
    MaxFree,    \* __SLAB_MAX_FREE_PAGES
    MaxHeld,    \* bound: objects that the program has at a time
    NULL

Chunks(p) == {o \in Objects : PageOf[o] = p}
Threads == Cpus \cup Externals
Slow == "slow"

\* The largest objects are 2^19 bytes and a page has 2^21.
ASSUME PageAssumption ==
    /\ PerPage \in Nat /\ PerPage >= 2
    /\ PageOf \in [Objects -> Pages] /\ IsFiniteSet(Objects)
    /\ \A p \in Pages : Cardinality(Chunks(p)) = PerPage

\* The names of threads, pages and objects are distinct from the others.
ASSUME NameAssumption ==
    /\ NULL \notin Objects /\ NULL \notin Pages /\ NULL \notin Threads
    /\ Slow \notin Cpus /\ Cpus \cap Externals = {}

VARIABLES
    freelist, first,    \* page_metadata_t: the free list and its first object,
    inuse,              \* ... and inuse_chunks
    slab, cached,       \* cpu_cache_bucket_t: its page, its free objects
    partial, free,      \* lists of pages of the size class
    lock,               \* bucket->lock: the thread that holds it, or NULL
    slowLock,           \* bucket->slow_bucket_lock
    backbone,           \* backbone_header->free_pages
    held,               \* the objects that the program has
    pc, obj, page,      \* of each thread: where it is, what it frees, its page
    sawUse, sawHead     \* inuse and freelist as the thread read them

pagevars   == <<freelist, first, inuse>>
bucketvars == <<slab, cached, partial, free, lock, slowLock>>
locals     == <<obj, page, sawUse, sawHead>>
vars == <<pagevars, bucketvars, backbone, held, pc, locals>>

Caches == Cpus \cup {Slow}
Cache(t) == IF t \in Cpus THEN t ELSE Slow

Init ==
    /\ freelist = [p \in Pages |-> {}] /\ first = [p \in Pages |-> NULL]
    /\ inuse = [p \in Pages |-> 0]
    /\ slab = [c \in Caches |-> NULL] /\ cached = [c \in Caches |-> {}]
    /\ partial = {} /\ free = {} /\ lock = NULL /\ slowLock = NULL
    /\ backbone = Pages /\ held = {}
    /\ pc = [t \in Threads |-> "idle"]
    /\ obj = [t \in Threads |-> NULL] /\ page = [t \in Threads |-> NULL]
    /\ sawUse = [t \in Threads |-> 0] /\ sawHead = [t \in Threads |-> NULL]

Goto(t, label) == pc' = [pc EXCEPT ![t] = label]
Clear(t) ==
    /\ obj' = [obj EXCEPT ![t] = NULL] /\ page' = [page EXCEPT ![t] = NULL]
    /\ sawUse' = [sawUse EXCEPT ![t] = 0] /\ sawHead' = [sawHead EXCEPT ![t] = NULL]

\* metadata->inuse_chunks and metadata->freelist are read.
See(t, p) ==
    /\ sawUse' = [sawUse EXCEPT ![t] = inuse[p]]
    /\ sawHead' = [sawHead EXCEPT ![t] = first[p]]

\* page_metadata_cmpxchg_double would succeed.
Unchanged(t, p) == sawUse[t] = inuse[p] /\ sawHead[t] = first[p]
-----------------------------------------------------------------------------
(***************************************************************************)
(* bucket_alloc.                                                           *)
(***************************************************************************)

\* cpubucket_alloc from the cache
AllocCached(t) ==
    LET c == Cache(t) IN
    /\ pc[t] = "idle" /\ Cardinality(held) < MaxHeld
    /\ c = Slow => slowLock = NULL
    /\ \E o \in cached[c] :
         /\ held' = held \cup {o}
         /\ cached' = [cached EXCEPT ![c] = @ \ {o}]
    /\ UNCHANGED <<pagevars, slab, partial, free, lock, slowLock, backbone, pc, locals>>

\* The cache is empty and has to be refilled.
AllocEmpty(t) ==
    LET c == Cache(t) IN
    /\ pc[t] = "idle" /\ Cardinality(held) < MaxHeld
    /\ c = Slow => slowLock = NULL
    /\ cached[c] = {}
    /\ slowLock' = IF c = Slow THEN t ELSE slowLock
    /\ Goto(t, "refill")
    /\ UNCHANGED <<pagevars, slab, cached, partial, free, lock, backbone, held, locals>>

\* bucket_refill_cpu_cache: a partial page is taken with the lock held ...
RefillPartial(t, p) ==
    /\ pc[t] = "refill" /\ lock = NULL /\ p \in partial
    /\ lock' = t /\ partial' = partial \ {p}
    /\ page' = [page EXCEPT ![t] = p] /\ See(t, p)
    /\ Goto(t, "take")
    /\ UNCHANGED <<pagevars, slab, cached, free, slowLock, backbone, held, obj>>

\* cpubucket_setpage and the second cpubucket_alloc: the first object is
\* returned.
SetPage(t, p, list) ==
    /\ slab' = [slab EXCEPT ![Cache(t)] = p]
    /\ \E o \in list :
         /\ held' = held \cup {o}
         /\ cached' = [cached EXCEPT ![Cache(t)] = list \ {o}]
    /\ slowLock' = IF Cache(t) = Slow THEN NULL ELSE slowLock
    /\ Clear(t)
    /\ Goto(t, "idle")

\* ... and its whole free list with it, once nobody frees to it in between.
TakePartial(t) ==
    LET p == page[t] IN
    /\ pc[t] = "take" /\ Unchanged(t, p)
    /\ lock' = NULL
    /\ SetPage(t, p, freelist[p])
    /\ freelist' = [freelist EXCEPT ![p] = {}] /\ first' = [first EXCEPT ![p] = NULL]
    /\ inuse' = [inuse EXCEPT ![p] = PerPage]
    /\ UNCHANGED <<partial, free, backbone>>

TakeRetry(t) ==
    /\ pc[t] = "take" /\ ~Unchanged(t, page[t])
    /\ See(t, page[t])
    /\ UNCHANGED <<pagevars, bucketvars, backbone, held, pc, obj, page>>

\* ... or a free page, whose fields are written after the lock is released,
RefillFree(t, p) ==
    /\ pc[t] = "refill" /\ lock = NULL /\ partial = {} /\ p \in free
    /\ free' = free \ {p}
    /\ page' = [page EXCEPT ![t] = p]
    /\ Goto(t, "fresh")
    /\ UNCHANGED <<pagevars, slab, cached, partial, lock, slowLock, backbone, held, obj, sawUse, sawHead>>

\* ... or one of the backbone: balloc and bucket_initialize_page.
Balloc(t, p) ==
    /\ pc[t] = "balloc" /\ p \in backbone
    /\ backbone' = backbone \ {p}
    /\ page' = [page EXCEPT ![t] = p]
    /\ freelist' = [freelist EXCEPT ![p] = Chunks(p)]
    /\ \E o \in Chunks(p) : first' = [first EXCEPT ![p] = o]
    /\ inuse' = [inuse EXCEPT ![p] = 0]
    /\ Goto(t, "fresh")
    /\ UNCHANGED <<bucketvars, held, obj, sawUse, sawHead>>

RefillNone(t) ==
    /\ pc[t] = "refill" /\ lock = NULL /\ partial = {} /\ free = {}
    /\ Goto(t, "balloc")
    /\ UNCHANGED <<pagevars, bucketvars, backbone, held, locals>>

TakeFresh(t) ==
    LET p == page[t] IN
    /\ pc[t] = "fresh"
    /\ inuse' = [inuse EXCEPT ![p] = PerPage]
    /\ SetPage(t, p, freelist[p])
    /\ freelist' = [freelist EXCEPT ![p] = {}] /\ first' = [first EXCEPT ![p] = NULL]
    /\ UNCHANGED <<partial, free, lock, backbone>>
-----------------------------------------------------------------------------
(***************************************************************************)
(* bucket_free.                                                            *)
(***************************************************************************)

\* cpubucket_isinpage
IsInPage(t, o) == t \in Cpus /\ slab[t] = PageOf[o]

FreeLocal(t, o) ==
    /\ pc[t] = "idle" /\ o \in held /\ IsInPage(t, o)
    /\ held' = held \ {o}
    /\ cached' = [cached EXCEPT ![t] = @ \cup {o}]
    /\ UNCHANGED <<pagevars, slab, partial, free, lock, slowLock, backbone, pc, locals>>

FreeRemote(t, o) ==
    /\ pc[t] = "idle" /\ o \in held /\ ~IsInPage(t, o)
    /\ held' = held \ {o}
    /\ obj' = [obj EXCEPT ![t] = o] /\ page' = [page EXCEPT ![t] = PageOf[o]]
    /\ Goto(t, "look")
    /\ UNCHANGED <<pagevars, bucketvars, backbone, sawUse, sawHead>>

\* The page leaves or joins a list if this was its last or first free chunk.
Speculates(t) == sawUse[t] \in {1, PerPage}

\* Mutant: the lock is not taken for the last object of a page.
Look_NoLast(t) ==
    /\ pc[t] = "look"
    /\ See(t, page[t])
    /\ Goto(t, IF sawUse'[t] = PerPage THEN "lock" ELSE "cas")
    /\ UNCHANGED <<pagevars, bucketvars, backbone, held, obj, page>>

Look(t) ==
    /\ pc[t] = "look"
    /\ See(t, page[t])
    /\ Goto(t, IF sawUse'[t] \in {1, PerPage} THEN "lock" ELSE "cas")
    /\ UNCHANGED <<pagevars, bucketvars, backbone, held, obj, page>>

LockBucket(t) ==
    /\ pc[t] = "lock" /\ lock = NULL
    /\ lock' = t
    /\ Goto(t, "cas")
    /\ UNCHANGED <<pagevars, slab, cached, partial, free, slowLock, backbone, held, locals>>

\* The object becomes the first one of its page.
Cas(t) ==
    LET p == page[t] IN
    /\ pc[t] = "cas" /\ Unchanged(t, p)
    /\ freelist' = [freelist EXCEPT ![p] = @ \cup {obj[t]}]
    /\ first' = [first EXCEPT ![p] = obj[t]]
    /\ inuse' = [inuse EXCEPT ![p] = sawUse[t] - 1]
    /\ Goto(t, IF Speculates(t) THEN "list" ELSE "idle")
    /\ obj' = [obj EXCEPT ![t] = NULL]
    /\ IF Speculates(t) THEN UNCHANGED <<page, sawUse, sawHead>>
       ELSE /\ page' = [page EXCEPT ![t] = NULL]
            /\ sawUse' = [sawUse EXCEPT ![t] = 0] /\ sawHead' = [sawHead EXCEPT ![t] = NULL]
    /\ UNCHANGED <<bucketvars, backbone, held>>

CasFails(t) ==
    /\ pc[t] = "cas" /\ ~Unchanged(t, page[t])
    /\ lock' = IF Speculates(t) THEN NULL ELSE lock
    /\ Goto(t, "look")
    /\ UNCHANGED <<pagevars, slab, cached, partial, free, slowLock, backbone, held, locals>>

\* The page is moved between the lists; with enough free pages it is given
\* back to the backbone after the lock is released.
MovePage(t) ==
    LET p == page[t]
        last == sawUse[t] = 1
        keep == last /\ Cardinality(free) < MaxFree
    IN
    /\ pc[t] = "list"
    /\ partial' = IF last THEN partial \ {p} ELSE partial \cup {p}
    /\ free' = IF keep THEN free \cup {p} ELSE free
    /\ lock' = NULL
    /\ IF last /\ ~keep
       THEN Goto(t, "bfree") /\ UNCHANGED locals
       ELSE Goto(t, "idle") /\ Clear(t)
    /\ UNCHANGED <<pagevars, slab, cached, slowLock, backbone, held>>

Bfree(t) ==
    /\ pc[t] = "bfree"
    /\ backbone' = backbone \cup {page[t]}
    /\ Goto(t, "idle") /\ Clear(t)
    /\ UNCHANGED <<pagevars, bucketvars, held>>
-----------------------------------------------------------------------------
Alloc(t) ==
    \/ \E p \in Pages : RefillPartial(t, p) \/ RefillFree(t, p) \/ Balloc(t, p)
    \/ RefillNone(t)
    \/ TakePartial(t) \/ TakeRetry(t) \/ TakeFresh(t)

Release(t) ==
    \/ Look(t) \/ LockBucket(t) \/ Cas(t) \/ CasFails(t)
    \/ MovePage(t) \/ Bfree(t)

Next ==
    \E t \in Threads :
        \/ AllocCached(t) \/ AllocEmpty(t)
        \/ Alloc(t)
        \/ \E o \in Objects : FreeLocal(t, o) \/ FreeRemote(t, o)
        \/ Release(t)

Spec == Init /\ [][Next]_vars
-----------------------------------------------------------------------------
(***************************************************************************)
(* Properties.                                                             *)
(***************************************************************************)
Freeing(p) == {t \in Threads : page[t] = p /\ obj[t] # NULL}
Cached(p) == UNION {{o \in cached[c] : PageOf[o] = p} : c \in Caches}
Held(p) == {o \in held : PageOf[o] = p}
\* A page that a thread took from a list and has not yet made its own
Moving(p) == \E t \in Threads : page[t] = p /\ pc[t] \in {"take", "fresh", "list", "bfree"}

\* What a cache or a page holds are objects, and counts are within a page.
TypeOK ==
    /\ freelist \in [Pages -> SUBSET Objects] /\ first \in [Pages -> Objects \cup {NULL}]
    /\ inuse \in [Pages -> 0..PerPage]
    /\ slab \in [Caches -> Pages \cup {NULL}] /\ cached \in [Caches -> SUBSET Objects]
    /\ partial \subseteq Pages /\ free \subseteq Pages /\ backbone \subseteq Pages
    /\ lock \in Threads \cup {NULL} /\ slowLock \in Externals \cup {NULL}
    /\ held \subseteq Objects
    /\ pc \in [Threads -> {"idle", "refill", "take", "fresh", "balloc",
                           "look", "lock", "cas", "list", "bfree"}]
    /\ obj \in [Threads -> Objects \cup {NULL}] /\ page \in [Threads -> Pages \cup {NULL}]
    /\ sawUse \in [Threads -> 0..PerPage] /\ sawHead \in [Threads -> Objects \cup {NULL}]

\* Every object of a page that the size class has is in one place: with the
\* program, in one cache, in the free list of its page, or on its way there.
\* No object is handed out twice and none is lost.
OneHome ==
    \A p \in Pages \ backbone : \A o \in Chunks(p) :
        Cardinality({c \in Caches : o \in cached[c]}) + Cardinality({t \in Threads : obj[t] = o})
            + (IF o \in held THEN 1 ELSE 0) + (IF o \in freelist[p] THEN 1 ELSE 0) = 1

\* inuse_chunks counts what is not in the free list of the page: the objects
\* of the program, of the caches, and those that are being freed.
InuseCounts ==
    \A p \in Pages \ backbone :
        /\ inuse[p] + Cardinality(freelist[p]) = PerPage
        /\ inuse[p] = Cardinality(Held(p)) + Cardinality(Cached(p)) + Cardinality(Freeing(p))

\* A page is in the list that its count calls for, although the count is
\* changed without the lock and the list after it: partial pages have free
\* and used chunks, free pages no used ones, and a page that is in no list
\* has no free chunk or is being moved.
ListsMatch ==
    \A p \in Pages :
        /\ p \in partial => (inuse[p] \in 1..(PerPage - 1) \/ Moving(p))
        /\ p \in free => inuse[p] = 0 /\ Held(p) = {} /\ Cached(p) = {}
        /\ p \in backbone => p \notin partial \cup free /\ Held(p) = {} /\ Cached(p) = {}
        /\ p \notin partial \cup free \cup backbone => inuse[p] = PerPage \/ Moving(p)
        /\ ~(p \in partial /\ p \in free)

\* The size class is sound in every state between the steps of the threads: no
\* object is handed out twice or lost, and pages are what lists and counts say.
SlabSound == TypeOK /\ OneHome /\ InuseCounts /\ ListsMatch
=============================================================================
