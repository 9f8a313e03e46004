\* Two tasks that wait on a mutex and a condition variable, with and without a
\* timeout, or sleep, and one that wakes them in every way.
SPECIFICATION Spec
CONSTANTS
    t1 = t1
    t2 = t2
    t3 = t3
    Tasks = {t1, t2, t3}
    Timed = {t1, t2}
    NULL = NULL
    Ops <- ManyOps
    MaxOps = 2
    Timeouts <- Passed
INVARIANTS MutexOwned BlockedOnce WokenIsPurged
PROPERTIES WakeArrives MutexGranted
CHECK_DEADLOCK FALSE
