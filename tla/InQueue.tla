------------------------------ MODULE InQueue ------------------------------
(***************************************************************************)
(* The submission queue of the scheduler (src/src/include/scheduler/mpsc.h *)
(* and spsc.h): one ring per group of CPUs and one for external threads,   *)
(* each with a spin lock for its producers, and one consumer, the server   *)
(* of the scheduler, that takes batches from the rings in turn.            *)
(*                                                                         *)
(* Every access that the other side may observe is a step of its own.      *)
(* A task that was taken may be pushed again, so the behaviours do not end.*)
(***************************************************************************)
EXTENDS Integers, Sequences, FiniteSets

CONSTANTS
    Tasks,          \* the values that are pushed
    Cpus,           \* 0 .. n - 1, the CPUs that push; external threads push as -1
    CpusPerQueue,   \* queue->cpus_per_queue
    Slots,          \* queue->size of a ring
    Cnt,            \* cnt of mpsc_pop_batch
    NULL

ASSUME RingAssumption == Slots \in Nat \ {0, 1} /\ CpusPerQueue \in Nat \ {0}
ASSUME CpusAssumption == Cardinality(Cpus) \in Nat \ {0} /\ Cpus = 0..(Cardinality(Cpus) - 1)
ASSUME CntAssumption == Cnt \in Nat \ {0}

\* mpsc_alloc: the number of rings for CPUs; ring nqueues is the external one
nqueues == (Cardinality(Cpus) + CpusPerQueue - 1) \div CpusPerQueue
Queues == 0..nqueues
Producers == Cpus \cup {-1}

ASSUME NobodyAssumption == NULL \notin Producers

VARIABLES
    head, tail, entries,    \* of each ring
    qspin,                  \* the producer that holds the lock of each ring, or NULL
    pc, val, seen,          \* of each producer: where it is, its value, the tail it read
    cpc,                    \* where the consumer is
    current, start,         \* queue->current while it pops, and where it started
    limit,                  \* the head that it read
    batch,                  \* value[0 .. total - 1]
    put                     \* how many tasks of the batch came from this ring

ringvars == <<head, tail, entries, qspin>>
prodvars == <<pc, val, seen>>
consvars == <<cpc, current, start, limit, batch, put>>
vars == <<ringvars, prodvars, consvars>>

Init ==
    /\ head = [q \in Queues |-> 0] /\ tail = [q \in Queues |-> 0]
    /\ entries = [q \in Queues |-> [i \in 0..(Slots - 1) |-> NULL]]
    /\ qspin = [q \in Queues |-> NULL]
    /\ pc = [p \in Producers |-> "idle"] /\ val = [p \in Producers |-> NULL]
    /\ seen = [p \in Producers |-> 0]
    /\ cpc = "idle" /\ current = 0 /\ start = 0 /\ limit = 0 /\ batch = <<>> /\ put = 0

\* mpsc_push: the ring of a producer
RingOf(p) == IF p < 0 THEN nqueues ELSE p \div CpusPerQueue

\* The tasks in a ring, oldest first
Content(q) ==
    LET n == (head[q] - tail[q] + Slots) % Slots
    IN  [i \in 1..n |-> entries[q][(tail[q] + i - 1) % Slots]]

Elems(s) == {s[i] : i \in DOMAIN s}

\* The tasks that the program may submit: nobody has them
Free(t) ==
    /\ \A q \in Queues : t \notin Elems(Content(q))
    /\ \A p \in Producers : val[p] # t
    /\ t \notin Elems(batch)

Goto(p, label) == pc' = [pc EXCEPT ![p] = label]
-----------------------------------------------------------------------------
(***************************************************************************)
(* mpsc_push.                                                              *)
(***************************************************************************)
Push(p, t) ==
    /\ pc[p] = "idle" /\ Free(t)
    /\ val' = [val EXCEPT ![p] = t]
    /\ Goto(p, "lock")
    /\ UNCHANGED <<ringvars, seen, consvars>>

\* The lock of the ring; then spsc_push reads tail (head is changed only by
\* the holder of the lock).
LoadTail(p) ==
    LET q == RingOf(p) IN
    /\ pc[p] = "lock" /\ qspin[q] = NULL
    /\ qspin' = [qspin EXCEPT ![q] = p]
    /\ seen' = [seen EXCEPT ![p] = tail[q]]
    /\ Goto(p, "check")
    /\ UNCHANGED <<head, tail, entries, val, consvars>>

StoreEntry(p) ==
    LET q == RingOf(p) IN
    /\ pc[p] = "check" /\ (head[q] + 1) % Slots # seen[p]
    /\ entries' = [entries EXCEPT ![q][head[q]] = val[p]]
    /\ Goto(p, "publish")
    /\ UNCHANGED <<head, tail, qspin, val, seen, consvars>>

\* The ring is full: the producer keeps its task and may push it again.
PushFull(p) ==
    LET q == RingOf(p) IN
    /\ pc[p] = "check" /\ (head[q] + 1) % Slots = seen[p]
    /\ qspin' = [qspin EXCEPT ![q] = NULL]
    /\ seen' = [seen EXCEPT ![p] = 0]
    /\ Goto(p, "lock")
    /\ UNCHANGED <<head, tail, entries, val, consvars>>

StoreHead(p) ==
    LET q == RingOf(p) IN
    /\ pc[p] = "publish"
    /\ head' = [head EXCEPT ![q] = (@ + 1) % Slots]
    /\ qspin' = [qspin EXCEPT ![q] = NULL]
    /\ val' = [val EXCEPT ![p] = NULL] /\ seen' = [seen EXCEPT ![p] = 0]
    /\ Goto(p, "idle")
    /\ UNCHANGED <<tail, entries, consvars>>
-----------------------------------------------------------------------------
(***************************************************************************)
(* mpsc_pop_batch.                                                         *)
(***************************************************************************)
\* The head of ring q is read once; what is pushed later stays.
LoadHead(q) == limit' = head[q] /\ put' = 0 /\ cpc' = "copy"

PopBatch ==
    /\ cpc = "idle"
    /\ start' = current
    /\ LoadHead(current)
    /\ UNCHANGED <<ringvars, prodvars, current, batch>>

\* An entry is copied out of the ring.
CopyEntry ==
    LET at == (tail[current] + put) % Slots IN
    /\ cpc = "copy" /\ at # limit /\ Len(batch) < Cnt
    /\ batch' = Append(batch, entries[current][at])
    /\ put' = put + 1
    /\ UNCHANGED <<ringvars, prodvars, cpc, current, start, limit>>

\* The next ring, until the batch is full or every ring was visited; the
\* next batch starts where this one ended.
NextRing ==
    LET q == (current + 1) % (nqueues + 1) IN
    /\ current' = q
    /\ IF q # start /\ Len(batch) < Cnt
       THEN LoadHead(q)
       ELSE cpc' = "give" /\ limit' = 0 /\ put' = 0

\* The entries that were copied: what is left in them shall never be read, so
\* that it is NULL here.
Vacate ==
    entries' = [entries EXCEPT ![current] =
        [i \in DOMAIN @ |-> IF (i - tail[current] + Slots) % Slots < put THEN NULL ELSE @[i]]]

\* Mutant: the next batch starts at the same ring again.
PopEnd_Stays ==
    LET q == (current + 1) % (nqueues + 1) IN
    /\ cpc = "copy" /\ ((tail[current] + put) % Slots = limit \/ Len(batch) = Cnt)
    /\ tail' = [tail EXCEPT ![current] = (@ + put) % Slots]
    /\ IF q # start /\ Len(batch) < Cnt
       THEN LoadHead(q) /\ current' = q
       ELSE cpc' = "give" /\ limit' = 0 /\ put' = 0 /\ current' = start
    /\ Vacate
    /\ UNCHANGED <<head, qspin, prodvars, start, batch>>

\* Mutant: tail is moved to the head that was read, beyond what was copied.
PopEnd_All ==
    /\ cpc = "copy" /\ ((tail[current] + put) % Slots = limit \/ Len(batch) = Cnt)
    /\ tail' = [tail EXCEPT ![current] = limit]
    /\ Vacate
    /\ NextRing
    /\ UNCHANGED <<head, qspin, prodvars, start, batch>>

\* tail is moved over what was copied.
PopEnd ==
    /\ cpc = "copy" /\ ((tail[current] + put) % Slots = limit \/ Len(batch) = Cnt)
    /\ tail' = [tail EXCEPT ![current] = (@ + put) % Slots]
    /\ Vacate
    /\ NextRing
    /\ UNCHANGED <<head, qspin, prodvars, start, batch>>

\* process_ready_tasks: the batch is inserted in the queues of the scheduler.
Give ==
    /\ cpc = "give"
    /\ batch' = <<>> /\ cpc' = "idle"
    /\ UNCHANGED <<ringvars, prodvars, current, start, limit, put>>
-----------------------------------------------------------------------------
Produce(p) ==
    \/ LoadTail(p)
    \/ StoreEntry(p)
    \/ PushFull(p)
    \/ StoreHead(p)

Consume == PopBatch \/ CopyEntry \/ PopEnd \/ Give

Next ==
    \/ \E p \in Producers, t \in Tasks : Push(p, t)
    \/ \E p \in Producers : Produce(p)
    \/ Consume

\* The server comes back for another batch as long as CPUs ask for tasks.
\* Producers owe nothing: the spin lock is not fair, and a thread that pushes
\* may be held up for ever.
Fairness == WF_vars(Consume)

Spec == Init /\ [][Next]_vars /\ Fairness
-----------------------------------------------------------------------------
(***************************************************************************)
(* Properties.                                                             *)
(***************************************************************************)
\* Each ring behaves as a bounded queue of tasks, and the consumer has what it
\* took from them, in order and nothing else: see TaskQueue.  The copies of a
\* ring count as taken when its tail is moved.
Abstract == INSTANCE TaskQueue WITH
    queue <- [q \in Queues |-> Content(q)],
    batch <- SubSeq(batch, 1, Len(batch) - put),
    Capacity <- Slots - 1, Batch <- Cnt

AbstractSpec == Abstract!Spec

\* A task in a ring is taken, although other producers keep their rings full:
\* the comment of mpsc_pop_batch, "to prevent getting stuck extracting from a
\* single queue".
NoStarvation ==
    \A t \in Tasks : (\E q \in Queues : t \in Elems(Content(q))) ~> (t \in Elems(batch))
=============================================================================
