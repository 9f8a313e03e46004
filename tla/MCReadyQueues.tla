--------------------------- MODULE MCReadyQueues ---------------------------
(***************************************************************************)
(* TLC instances of ReadyQueues: two CPUs, each on a NUMA node of its own. *)
(***************************************************************************)
EXTENDS ReadyQueues, TLC

CONSTANTS ta, tb, tc, td

MCCpus == 0..1
MCCpuSid == [i \in MCCpus |-> i + 1]
MCNumaOf == [i \in MCCpus |-> i]
SameNumaSid == [n \in 0..1 |-> n]
NextNumaSid == [n \in 0..1 |-> n + 1]
MCFirstPid == [i \in MCCpus |-> i]

Free(pid, prio, degree) ==
    [pid |-> pid, prio |-> prio, level |-> "none", index |-> 0, type |-> "none", degree |-> degree]
Bound(pid, prio, level, index, type) ==
    [pid |-> pid, prio |-> prio, level |-> level, index |-> index, type |-> type, degree |-> 1]

\* A parallel task of process 1, and tasks of process 0: one for any CPU, one
\* for a NUMA node and one with a priority that prefers a NUMA node
MCAttr ==
    ta :> Free(0, 0, 1) @@ tb :> Bound(0, 0, "numa", 1, "strict")
    @@ tc :> Bound(0, 1, "numa", 1, "preferred") @@ td :> Free(1, 0, 3)
MCHow == ta :> {"ready", "immediate"} @@ tb :> {"ready", "deadline"} @@ tc :> {"ready"} @@ td :> {"ready"}

\* A parallel task that prefers CPU 0, whose system id is 1
LeftAttr == td :> [Bound(0, 0, "cpu", 1, "preferred") EXCEPT !.degree = 3]

\* A task for any CPU and one for the NUMA node that the system calls 2
NumaAttr == ta :> Free(0, 0, 1) @@ tb :> Bound(0, 0, "numa", 2, "strict")
=============================================================================
