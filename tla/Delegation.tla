----------------------------- MODULE Delegation -----------------------------
(***************************************************************************)
(* What a delegation lock promises, without tickets, slots, counters or    *)
(* futexes: one server at a time, requests queued in order of arrival, and *)
(* a client that the server takes out of the queue stays parked until it   *)
(* is handed exactly one reply, which it picks up before it asks again.    *)
(* DTLock.tla implements this specification.                               *)
(***************************************************************************)
EXTENDS Sequences

CONSTANTS
    Clients,   \* threads that can be served
    Others,    \* threads that can only hold the lock
    Replies,   \* what a client can be handed
    Nobody     \* the owner of a free lock

Threads == Clients \cup Others

VARIABLES
    owner,     \* the thread that the lock was granted to, or Nobody
    queue,     \* threads that wait for the lock, in order of arrival
    parked,    \* clients that the owner took out of the queue
    reply      \* reply[c]: the replies that c has not picked up, 0 or 1

avars == <<owner, queue, parked, reply>>

Idle(t) ==
    /\ t # owner
    /\ t \notin parked
    /\ \A i \in DOMAIN queue : queue[i] # t
    /\ t \in Clients => reply[t] = <<>>

Init ==
    /\ owner = Nobody
    /\ queue = <<>>
    /\ parked = {}
    /\ reply = [c \in Clients |-> <<>>]

\* A free lock is granted at once; else the thread queues up.
Request(t) ==
    /\ Idle(t)
    /\ IF owner = Nobody THEN owner' = t /\ UNCHANGED queue
                         ELSE queue' = Append(queue, t) /\ UNCHANGED owner
    /\ UNCHANGED <<parked, reply>>

Park(c) ==
    /\ owner # Nobody /\ queue # <<>> /\ Head(queue) = c
    /\ queue' = Tail(queue)
    /\ parked' = parked \cup {c}
    /\ UNCHANGED <<owner, reply>>

Reply(c, r) ==
    /\ owner # Nobody /\ c \in parked
    /\ parked' = parked \ {c}
    /\ reply' = [reply EXCEPT ![c] = Append(@, r)]
    /\ UNCHANGED <<owner, queue>>

PickUp(c) ==
    /\ reply[c] # <<>>
    /\ reply' = [reply EXCEPT ![c] = Tail(@)]
    /\ UNCHANGED <<owner, queue, parked>>

\* The first of the queue becomes the owner in the same step.
Release ==
    /\ owner # Nobody
    /\ owner' = IF queue = <<>> THEN Nobody ELSE Head(queue)
    /\ queue' = IF queue = <<>> THEN <<>> ELSE Tail(queue)
    /\ UNCHANGED <<parked, reply>>

Next ==
    \/ \E t \in Threads : Request(t)
    \/ \E c \in Clients : Park(c) \/ PickUp(c) \/ \E r \in Replies : Reply(c, r)
    \/ Release

Spec == Init /\ [][Next]_avars
=============================================================================
