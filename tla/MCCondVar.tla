----------------------------- MODULE MCCondVar -----------------------------
(***************************************************************************)
(* TLC instances of CondVar.                                               *)
(***************************************************************************)
EXTENDS CondVar, TLC

CONSTANTS t1, t2, t3

\* A task that waits or sleeps, one that waits with and without a timeout and
\* also wakes, and one that wakes them in every way
ManyOps ==
    t1 :> {"lock", "wait", "waitfor"}
    @@ t2 :> {"lock", "wait", "timedwait", "signal"}
    @@ t3 :> {"lock", "trylock", "signal", "broadcast", "wakesleeper"}

\* abstime - now: a time that has passed, and one that has not
Passed == {-1, 1}
=============================================================================
