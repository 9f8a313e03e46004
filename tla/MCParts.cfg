\* Seven tasks fill a tree of four levels, three elements a list and a ring; three
\* threads that share two ids of one bucket; four tasks in rounds of two; a CPU
\* and two external threads that share a cache, with two pages of three chunks,
\* which are shared by caches, filled, emptied and given back.  The rounds end,
\* so that there may be nothing left to do.
SPECIFICATION PartsSpec
CONSTANTS
    Nil = Nil
    NULL = NULL
    Anchor = Anchor
    Previous = Previous
    k1 = k1
    k2 = k2
    k3 = k3
    k4 = k4
    k5 = k5
    k6 = k6
    k7 = k7
    Task = {k1, k2, k3, k4, k5, k6, k7}
    Elements = {k1, k2, k3}
    Priority <- Prio
    Deadline <- Due
    Slots = 3
    Pthreads = {t1, t2, t3}
    Ids = {1, 3}
    ma = ma
    t1 = t1
    Masks = {ma, mb}
    Bound = mc
    NoMask = none
    Buckets = 2
    Team = {w1, w2, w3, w4}
    Width = 2
    Rounds = 3
    NoHolder = NoHolder
    p1 = p1
    p2 = p2
    a1 = a1
    a2 = a2
    a3 = a3
    b1 = b1
    b2 = b2
    b3 = b3
    Cpus = {c1}
    Externals = {x1, x2}
    Pages = {p1, p2}
    Objects = {a1, a2, a3, b1, b2, b3}
    PageOf <- PageOfChunk
    PerPage = 3
    MaxFree = 1
    MaxHeld = 2
INVARIANTS LinksRepresent AffinityHonest BarrierHolds SlabSound
SYMMETRY Symmetry
CHECK_DEADLOCK FALSE
