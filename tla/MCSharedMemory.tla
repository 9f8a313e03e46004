--------------------------- MODULE MCSharedMemory ---------------------------
(***************************************************************************)
(* TLC instances of SharedMemory.  Every segment that loses its name takes *)
(* with it a process that leaves or has crashed, so that as many segments  *)
(* as initialisations are always enough.                                   *)
(***************************************************************************)
EXTENDS SharedMemory

CONSTANTS p1, p2, p3

\* One process after another under the first pid, and one under each other pid
MCInits == [p \in Pids |-> IF p = p1 THEN 2 ELSE 1]
MCSegments == Cardinality(Pids) + 1
=============================================================================
