\* Two workers, a thread that waits for the lock and one that tries it; the
\* fourth ticket has the slot of the first.
SPECIFICATION LockSpec
CONSTANTS
    NCpus = 2
    Size = 3
    Lockers = {l1}
    Submitters = {s1}
    Items = {NULL, RETRY}
    NULL = NULL
    RETRY = RETRY
    CallModes = {"default"}
    SignalMod = 2
    MaxTicket = 7
    Nobody = Nobody
INVARIANTS
    MutualExclusion
    QueueSound
    ParkedIsKnown
PROPERTIES
    ImplementsDelegation
CONSTRAINT TriesLate
CHECK_DEADLOCK FALSE
