\* Four processes under three pids, with two slots; one of them crashes outside
\* the lock, and its pid may be reused.
SPECIFICATION Spec
CONSTANTS
    p1 = p1
    p2 = p2
    p3 = p3
    Pids = {p1, p2, p3}
    MaxPids = 2
    MaxRuns = 2
    MaxInits <- MCInits
    Reinit = FALSE
    MaxSegments <- MCSegments
    Crashes = 1
    CrashLocked = FALSE
    NULL = NULL
INVARIANTS SegmentSound
PROPERTIES DetectsCrash UnlinksOwn Initialises
CHECK_DEADLOCK FALSE
