\* Two processes that shut down; a worker of the first may be parked behind a
\* server of the second.
SPECIFICATION Spec
CONSTANTS
    NCpus = 3
    Size = 3
    Lockers = {}
    Submitters = {s1}
    NULL = NULL
    RETRY = RETRY
    CallModes = {"default"}
    SignalMod = 2
    MaxTicket = 40
    a = a
    b = b
    x = x
    k0 = k0
    k1 = k1
    Tasks = {k0, k1}
    Killers = {k0, k1}
    Pids = {0, 1}
    TaskPid <- ShutTaskPid
    Affine <- ShutAffine
    FirstPid <- ShutFirstPid
    FirstTask <- KillerOnZero
    Items <- AllItems
    Spins = 0
    MaxServed = 1
    InCap = 1
    MaxYields = 0
    NoThread = NoThread
PROPERTIES
    ShutdownIsFinal
    ShutdownCompletes
CONSTRAINT
    ShutLate
