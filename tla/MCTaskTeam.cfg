\* A task waits for a parallel task whose executions register events and
\* cancel each other.
SPECIFICATION Spec
CONSTANTS
    t1 = t1
    t2 = t2
    Tasks = {t1, t2}
    Workers = {w1, w2}
    Externals = {x1}
    NULL = NULL
    Degree <- TeamDegree
    Ops <- TeamOps
    MaxOps = 2
    MaxSubmits = 1
INVARIANTS RunsOnce CompletesLast TasksCounted
PROPERTIES Completes
CHECK_DEADLOCK FALSE
