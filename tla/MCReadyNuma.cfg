\* The NUMA nodes of the process are the second and the third of the machine.
SPECIFICATION Spec
CONSTANTS
    ta = ta
    tb = tb
    tc = tc
    td = td
    Tasks = {ta, tb}
    Pids = {0, 1}
    Attr <- NumaAttr
    Cpus <- MCCpus
    CpuSid <- MCCpuSid
    NumaOf <- MCNumaOf
    NumaSid <- NextNumaSid
    FirstPid <- MCFirstPid
    How <- MCHow
    Yielders = {ta}
    Degrees = {2}
    MaxInserts = 3
    MaxYields = 1
    MaxClock = 2
    NULL = NULL
INVARIANTS StrictObeyed
CHECK_DEADLOCK FALSE
