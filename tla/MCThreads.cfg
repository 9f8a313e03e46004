\* A task, and a thread that attaches and pauses or yields, in one of the two
\* processes.
SPECIFICATION Spec
CONSTANTS
    pa = pa
    pb = pb
    ta = ta
    tx = tx
    Procs = {pa, pb}
    Tasks = {ta, tx}
    TaskProc <- MCTaskProc
    Cpus = {1, 2}
    Pids = {0, 1}
    Workers = {1, 2, 3, 4}
    Attached = {tx}
    Pausers = {tx}
    Yielders = {tx}
    MaxInits <- MCMaxInits
    MaxBlocks = 1
    NULL = NULL
INVARIANTS OneOwner HandsToRegistered JoinsAll
PROPERTIES Progress
