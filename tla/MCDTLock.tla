------------------------------ MODULE MCDTLock ------------------------------
(***************************************************************************)
(* TLC instances of DTLock and of its refinement of Delegation.            *)
(***************************************************************************)
EXTENDS DTLockDelegation

\* Bound: dtlock_lock gets one of the first two tickets, and dtlock_try_lock is
\* called once every slot has been used.
TriesLate ==
    /\ \A l \in Lockers : pc[l] # "out" => head <= Size + 2
    /\ \A s \in Submitters : pc[s] # "out" => head >= 2 * Size
=============================================================================
