----------------------------- MODULE MCTaskLife -----------------------------
(***************************************************************************)
(* TLC instances of TaskLife.                                              *)
(***************************************************************************)
EXTENDS TaskLife, TLC

CONSTANTS t1, t2

\* A task that blocks in every way, and may wait for the executions of a
\* parallel task, which register events and cancel each other
TeamDegree == t1 :> 1 @@ t2 :> 3
TeamOps ==
    t1 :> {"blocking", "pause", "yield", "none", "event", "submit", "timeout"}
    @@ t2 :> {"increase", "cancel"}

=============================================================================
