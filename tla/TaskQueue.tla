----------------------------- MODULE TaskQueue -----------------------------
(***************************************************************************)
(* What the submission queue promises: a first-in first-out queue per ring *)
(* of bounded length, to which producers add one task at a time, and from  *)
(* which the server takes the oldest ones in order, a batch at most before *)
(* it hands them on.                                                       *)
(***************************************************************************)
EXTENDS Integers, Sequences

CONSTANTS Tasks, Queues, Capacity, Batch
VARIABLES queue, batch

Init == queue = [q \in Queues |-> <<>>] /\ batch = <<>>

Put(q, t) ==
    /\ Len(queue[q]) < Capacity
    /\ queue' = [queue EXCEPT ![q] = Append(@, t)]
    /\ UNCHANGED batch

Take(q, n) ==
    /\ n <= Len(queue[q]) /\ Len(batch) + n <= Batch
    /\ batch' = batch \o SubSeq(queue[q], 1, n)
    /\ queue' = [queue EXCEPT ![q] = SubSeq(@, n + 1, Len(@))]

HandOn == batch # <<>> /\ batch' = <<>> /\ UNCHANGED queue

Next ==
    \/ \E q \in Queues :
        \/ \E t \in Tasks : Put(q, t)
        \/ \E n \in 1..Batch : Take(q, n)
    \/ HandOn

Spec == Init /\ [][Next]_<<queue, batch>>
=============================================================================
