\* Two processes with tasks of every affinity, a parallel one and priorities.
SPECIFICATION Spec
CONSTANTS
    ta = ta
    tb = tb
    tc = tc
    td = td
    Tasks = {ta, tb, tc, td}
    Pids = {0, 1}
    Attr <- MCAttr
    Cpus <- MCCpus
    CpuSid <- MCCpuSid
    NumaOf <- MCNumaOf
    NumaSid <- SameNumaSid
    FirstPid <- MCFirstPid
    How <- MCHow
    Yielders = {ta, tc}
    Degrees = {2}
    MaxInserts = 3
    MaxYields = 1
    MaxClock = 2
    NULL = NULL
INVARIANTS QueuesMatch StrictObeyed
PROPERTIES NothingLeft QuantumObeyed InOrder
CHECK_DEADLOCK FALSE
