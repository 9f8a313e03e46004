----------------------------- MODULE MCSchedGet -----------------------------
(***************************************************************************)
(* TLC instances of SchedGet.                                              *)
(***************************************************************************)
EXTENDS SchedGet

CONSTANTS a, b, x, k0, k1

\* x may only run on CPU 1.
ServeAffine == [u \in Tasks |-> IF u = x THEN {1} ELSE Cpu]

\* The killers of two processes; process 0 has CPUs 0 and 1, process 1 the others
ShutTaskPid == [u \in Tasks |-> IF u = k1 THEN 1 ELSE 0]
ShutAffine == [u \in Tasks |-> Cpu]
ShutFirstPid == [c \in Cpu |-> IF c \in {0, 1} THEN 0 ELSE 1]

\* Two tasks of process 0 and one of process 1
ExternalTaskPid == [u \in Tasks |-> IF u = x THEN 1 ELSE 0]

\* CPU 0 runs the killer of process 0 at the start; or a task
KillerOnZero == [c \in Cpu |-> IF c = 0 THEN k0 ELSE NULL]
FirstOnZero == [c \in Cpu |-> IF c = 0 THEN a ELSE NULL]

\* Bound: process 1 shuts down once process 0 has given up its CPUs and two of
\* the three workers sleep.
ShutLate ==
    /\ k1 \in fresh \/ \A c \in Cpu : cpuPid[c] # 0
    /\ \A t \in Thread : submitting[t] = k1 => Cardinality(sleepers) >= 2

AllItems == Tasks \cup {NULL, RETRY}
=============================================================================
