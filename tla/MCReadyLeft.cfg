\* A parallel task that prefers one of the two CPUs.
SPECIFICATION Spec
CONSTANTS
    ta = ta
    tb = tb
    tc = tc
    td = td
    Tasks = {td}
    Pids = {0, 1}
    Attr <- LeftAttr
    Cpus <- MCCpus
    CpuSid <- MCCpuSid
    NumaOf <- MCNumaOf
    NumaSid <- SameNumaSid
    FirstPid <- MCFirstPid
    How <- MCHow
    Yielders = {}
    Degrees = {2}
    MaxInserts = 3
    MaxYields = 1
    MaxClock = 2
    NULL = NULL
INVARIANTS OnlyStrictLeft
CHECK_DEADLOCK FALSE
