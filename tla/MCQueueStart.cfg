\* One ring for two CPUs and one for external threads, with room for two tasks
\* each; five thousand starts of the runtime.  A start ends.
SPECIFICATION QueueStartSpec
CONSTANTS
    Tasks = {t1, t2, t3}
    Cpus <- TwoCpus
    CpusPerQueue = 2
    Slots = 3
    Cnt = 2
    NULL = NULL
    NR_CPUS = 8
    Inputs <- AllInputs
    Kilo = 4
    SizeMod = 1024
    IndexMod = 64
    MinShm = 10
    Lists <- ListsOf
INVARIANTS ConfigObeyed TopologySound
PROPERTIES AbstractSpec NoStarvation
CHECK_DEADLOCK FALSE
