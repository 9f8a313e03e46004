-------------------------- MODULE DTLockDelegation --------------------------
(***************************************************************************)
(* The mapping under which DTLock implements the abstract Delegation       *)
(* specification.                                                          *)
(***************************************************************************)
EXTENDS DTLock, Sequences

CONSTANT Nobody  \* the owner of a free lock

ASSUME NobodyAssumption == Nobody \notin Thread

WaitingTickets == {k \in next .. head - 1 : \E t \in Thread : Pending(t) /\ my[t] = k}

HolderOf(k) == CHOOSE t \in Thread : Pending(t) /\ my[t] = k

\* The thread whose ticket was released for the lock itself
OwnerBar ==
    IF \E t \in Thread : Owns(t) THEN CHOOSE t \in Thread : Owns(t) ELSE Nobody

\* The pending tickets next .. head - 1, in ticket order
QueueBar == [i \in 1 .. Cardinality(WaitingTickets) |-> HolderOf(next + i - 1)]

ReplyBar == [c \in Cpu |-> IF Answered(c) THEN <<items[c].item>> ELSE <<>>]

D == INSTANCE Delegation WITH
        Clients <- Cpu, Others <- Lockers \cup Submitters,
        Replies <- Items, Nobody <- Nobody,
        owner <- OwnerBar, queue <- QueueBar,
        parked <- waiters \cup sleepers, reply <- ReplyBar

\* The ticket lock, its two wait locations, the signal counter and the futex
\* word together behave as a first-come first-served delegation lock: one
\* owner, no reply lost, duplicated or overwritten.
ImplementsDelegation == D!Spec
=============================================================================
