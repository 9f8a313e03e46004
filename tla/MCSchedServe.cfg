\* Two processes, a task that may run anywhere and one bound to a CPU, a queue
\* with one place, and workers that also make scheduling points and ask for
\* tasks of the other process.
SPECIFICATION Spec
CONSTANTS
    NCpus = 2
    Size = 4
    Lockers = {}
    Submitters = {}
    NULL = NULL
    RETRY = RETRY
    CallModes = {"default", "nonblocking", "external"}
    SignalMod = 2
    MaxTicket = 40
    a = a
    b = b
    x = x
    k0 = k0
    k1 = k1
    Tasks = {a, b, x}
    Killers = {}
    Pids = {0, 1}
    TaskPid <- ExternalTaskPid
    Affine <- ServeAffine
    FirstPid <- ShutFirstPid
    FirstTask <- FirstOnZero
    Items <- AllItems
    Spins = 0
    MaxServed = 1
    InCap = 1
    MaxYields = 1
    NoThread = NoThread
INVARIANTS
    TaskInOnePlace
    ExternalIsObeyed
PROPERTIES
    TasksEnd
    NonblockingReturns
