---------------------------- MODULE SharedMemory ----------------------------
(***************************************************************************)
(* The shared segment: how processes create, join, leave and abandon it    *)
(* (src/src/memory/sharedmemory.c), with the logical pids that they take   *)
(* there (src/src/hardware/pids.c).                                        *)
(*                                                                         *)
(* The segment is a file under a fixed name.  Its first process creates    *)
(* and initialises it, the last one unlinks it, and a process that finds a *)
(* registered process dead unlinks it and starts over.  All of this runs   *)
(* under a lock of the file, not of the name.  A process may crash at any  *)
(* step; the kernel then releases its lock.  It stays in /proc, with its   *)
(* pid and its start time, until its parent waits for it; only then is it  *)
(* gone and its pid free.                                                  *)
(***************************************************************************)
EXTENDS Integers, FiniteSets, FiniteSetsExt

CONSTANTS
    Pids,           \* pid_t of the processes
    MaxPids,        \* MAX_PIDS, the size of config->processes
    MaxRuns,        \* bound: processes that run under one pid
    MaxInits,       \* bound: calls of nosv_init by the processes of each pid
    Reinit,         \* whether a process may initialise nOS-V again
    MaxSegments,    \* bound: segments created
    Crashes,        \* bound: number of crashes
    CrashLocked,    \* whether a process may crash while it holds the lock
    NULL

Slots == 1..MaxPids
Segments == 1..MaxSegments
\* process_identifier_t: a pid and a start time
Processes == Pids \X (1..MaxRuns)

ASSUME SharedMemoryAssumption ==
    /\ MaxPids \in Nat \ {0} /\ MaxRuns \in Nat \ {0} /\ MaxSegments \in Nat /\ Crashes \in Nat
    /\ MaxInits \in [Pids -> Nat] /\ Reinit \in BOOLEAN /\ CrashLocked \in BOOLEAN
    /\ NULL \notin Pids \cup Slots \cup Segments \cup Processes

VARIABLES
    pc, fd, slot,   \* of each running process: where it is, smem_fd, pid_slot_config
    run,            \* which process has the pid now: its start time
    inits,          \* calls of nosv_init under this pid
    name,           \* the segment that smem_name refers to, or NULL
    segs,           \* number of segments created
    sized,          \* st_size # 0
    state,          \* "raw", "ready" (the pointers of config are set) or "freed"
    procs,          \* config->processes
    count,          \* config->count
    alloc,          \* number of pids in pidmanager->pids_alloc
    lock,           \* who holds the lock of the file
    crashes,
    broken          \* segments in which a registered process ended and was waited for

procvars == <<pc, fd, slot, run, inits>>
segvars == <<name, segs, sized, state, procs, count, alloc, lock>>
vars == <<procvars, segvars, crashes, broken>>

Init ==
    /\ pc = [p \in Pids |-> "idle"] /\ fd = [p \in Pids |-> NULL]
    /\ slot = [p \in Pids |-> NULL] /\ run = [p \in Pids |-> 1]
    /\ inits = [p \in Pids |-> 0]
    /\ name = NULL /\ segs = 0
    /\ sized = [s \in Segments |-> FALSE] /\ state = [s \in Segments |-> "raw"]
    /\ procs = [s \in Segments |-> [i \in Slots |-> NULL]]
    /\ count = [s \in Segments |-> 0] /\ alloc = [s \in Segments |-> 0]
    /\ lock = [s \in Segments |-> NULL]
    /\ crashes = 0 /\ broken = {}

Goto(p, label) == pc' = [pc EXCEPT ![p] = label]
Self(p) == <<p, run[p]>>
Registered(s) == {i \in Slots : procs[s][i] # NULL}
\* shm_unlock and close
Close(p) == lock' = [lock EXCEPT ![fd[p]] = NULL] /\ fd' = [fd EXCEPT ![p] = NULL]
-----------------------------------------------------------------------------
(***************************************************************************)
(* segment_create.                                                         *)
(***************************************************************************)

\* nosv_init calls smem_initialize.  pid_slot_config is what the last call left.
NosvInit(p) ==
    /\ pc[p] = "idle" /\ inits[p] < MaxInits[p]
    /\ slot[p] = NULL \/ Reinit
    /\ inits' = [inits EXCEPT ![p] = @ + 1]
    /\ Goto(p, "open")
    /\ UNCHANGED <<fd, slot, run, segvars, crashes, broken>>

\* shm_open with O_CREAT
Open(p) ==
    /\ pc[p] = "open"
    /\ IF name = NULL
       THEN segs < MaxSegments /\ segs' = segs + 1 /\ name' = segs'
       ELSE UNCHANGED <<segs, name>>
    /\ fd' = [fd EXCEPT ![p] = name']
    /\ Goto(p, "opened")
    /\ UNCHANGED <<slot, run, inits, sized, state, procs, count, alloc, lock, crashes, broken>>

\* shm_lock
Lock(p) ==
    /\ pc[p] = "opened" /\ lock[fd[p]] = NULL
    /\ lock' = [lock EXCEPT ![fd[p]] = p]
    /\ Goto(p, "stat")
    /\ UNCHANGED <<fd, slot, run, inits, name, segs, sized, state, procs, count, alloc, crashes, broken>>

\* Mutant: st_nlink is not looked at.
Stat_NoLink(p) ==
    /\ pc[p] = "stat"
    /\ Goto(p, IF sized[fd[p]] THEN "check" ELSE "truncate")
    /\ UNCHANGED <<fd, slot, run, inits, segvars, crashes, broken>>

\* fstat: the file was unlinked before we had its lock, or it has a size, or
\* we are the first.
Stat(p) ==
    /\ pc[p] = "stat"
    /\ IF name # fd[p]
       THEN Close(p) /\ Goto(p, "open")
       ELSE Goto(p, IF sized[fd[p]] THEN "check" ELSE "truncate") /\ UNCHANGED <<fd, lock>>
    /\ UNCHANGED <<slot, run, inits, name, segs, sized, state, procs, count, alloc, crashes, broken>>

\* ftruncate and mmap
Truncate(p) ==
    /\ pc[p] = "truncate"
    /\ sized' = [sized EXCEPT ![fd[p]] = TRUE]
    /\ Goto(p, "first")
    /\ UNCHANGED <<fd, slot, run, inits, name, segs, state, procs, count, alloc, lock, crashes, broken>>

\* smem_initialize_first: smem_config_initialize ...
ConfigFirst(p) ==
    /\ pc[p] = "first"
    /\ procs' = [procs EXCEPT ![fd[p]] = [i \in Slots |-> IF i = 1 THEN Self(p) ELSE NULL]]
    /\ slot' = [slot EXCEPT ![p] = 1]
    /\ Goto(p, "modules")
    /\ UNCHANGED <<fd, run, inits, name, segs, sized, state, count, alloc, lock, crashes, broken>>

\* ... and the allocators, the topology, the pid manager and the scheduler.
InitFirst(p) ==
    /\ pc[p] = "modules"
    /\ state' = [state EXCEPT ![fd[p]] = "ready"]
    /\ Goto(p, "count")
    /\ UNCHANGED <<fd, slot, run, inits, name, segs, sized, procs, count, alloc, lock, crashes, broken>>

\* Mutant: a process is known by its pid alone.
ProcessesCorrect_PidOnly(s) ==
    \A i \in Slots : procs[s][i] # NULL => pc[procs[s][i][1]] # "dead"

\* check_processes_correct: every registered process has a /proc/<pid>/stat, with
\* the start time that it registered.  The state of the process, which is in that
\* file too, is skipped: a process that has ended passes until it is waited for.
ProcessesCorrect(s) ==
    \A i \in Slots : procs[s][i] # NULL =>
        LET q == procs[s][i][1] IN pc[q] # "dead" /\ run[q] = procs[s][i][2]

Check(p) ==
    /\ pc[p] = "check"
    /\ Goto(p, IF ProcessesCorrect(fd[p]) THEN "rest" ELSE "stale")
    /\ UNCHANGED <<fd, slot, run, inits, segvars, crashes, broken>>

\* Mutant: the stale segment keeps its name.
UnlinkStale_Keeps(p) ==
    /\ pc[p] = "stale"
    /\ Close(p)
    /\ Goto(p, "open")
    /\ UNCHANGED <<slot, run, inits, name, segs, sized, state, procs, count, alloc, crashes, broken>>

\* The stale segment loses its name, and we try again.
UnlinkStale(p) ==
    /\ pc[p] = "stale"
    /\ name' = NULL
    /\ Close(p)
    /\ Goto(p, "open")
    /\ UNCHANGED <<slot, run, inits, segs, sized, state, procs, count, alloc, crashes, broken>>

\* smem_initialize_rest takes the first free slot of config->processes.  With
\* none, a process that has never had a slot aborts; pid_slot_config of the
\* others is still the slot of their last segment, and they go on with it.
RegisterRest(p) ==
    LET empty == {i \in Slots : procs[fd[p]][i] = NULL} IN
    /\ pc[p] = "rest" /\ (empty # {} \/ slot[p] # NULL)
    /\ IF empty # {}
       THEN /\ procs' = [procs EXCEPT ![fd[p]][Min(empty)] = Self(p)]
            /\ slot' = [slot EXCEPT ![p] = Min(empty)]
       ELSE UNCHANGED <<procs, slot>>
    /\ Goto(p, "join")
    /\ UNCHANGED <<fd, run, inits, name, segs, sized, state, count, alloc, lock, crashes, broken>>

AbortRest(p) ==
    /\ pc[p] = "rest" /\ Registered(fd[p]) = Slots /\ slot[p] = NULL
    /\ Close(p)
    /\ Goto(p, "zombie")
    /\ UNCHANGED <<slot, run, inits, name, segs, sized, state, procs, count, alloc, crashes, broken>>

\* topo_init, pidmanager_init, scheduler_init and monitoring_init take the
\* pointers of the first process.
InitRest(p) ==
    /\ pc[p] = "join"
    /\ Goto(p, "count")
    /\ UNCHANGED <<fd, slot, run, inits, segvars, crashes, broken>>

\* config->count++ and shm_unlock
Counted(p) ==
    /\ pc[p] = "count"
    /\ count' = [count EXCEPT ![fd[p]] = @ + 1]
    /\ lock' = [lock EXCEPT ![fd[p]] = NULL]
    /\ Goto(p, "attach")
    /\ UNCHANGED <<fd, slot, run, inits, name, segs, sized, state, procs, alloc, crashes, broken>>
-----------------------------------------------------------------------------
(***************************************************************************)
(* The logical pid: pidmanager_register and pidmanager_shutdown.           *)
(***************************************************************************)

\* nosv_init takes a logical pid once it has the segment; nosv_abort if there is
\* none, which only happens to a process that found no slot either.
PidRegister(p) ==
    /\ pc[p] = "attach"
    /\ IF alloc[fd[p]] < MaxPids
       THEN /\ alloc' = [alloc EXCEPT ![fd[p]] = @ + 1]
            /\ Goto(p, "in")
            /\ UNCHANGED <<fd, slot>>
       ELSE /\ Goto(p, "zombie")
            /\ fd' = [fd EXCEPT ![p] = NULL] /\ slot' = [slot EXCEPT ![p] = NULL]
            /\ UNCHANGED alloc
    /\ UNCHANGED <<run, inits, name, segs, sized, state, procs, count, lock, crashes, broken>>

\* nosv_shutdown gives it back before it leaves the segment.
PidShutdown(p) ==
    /\ pc[p] = "in"
    /\ alloc' = [alloc EXCEPT ![fd[p]] = @ - 1]
    /\ Goto(p, "leave")
    /\ UNCHANGED <<fd, slot, run, inits, name, segs, sized, state, procs, count, lock, crashes, broken>>
-----------------------------------------------------------------------------
(***************************************************************************)
(* segment_unregister.                                                     *)
(***************************************************************************)

\* The last process frees the modules.
Leave(p) ==
    LET s == fd[p] IN
    /\ pc[p] = "leave" /\ lock[s] = NULL
    /\ lock' = [lock EXCEPT ![s] = p]
    /\ count' = [count EXCEPT ![s] = @ - 1]
    /\ state' = IF count[s] = 1 THEN [state EXCEPT ![s] = "freed"] ELSE state
    /\ Goto(p, "clear")
    /\ UNCHANGED <<fd, slot, run, inits, name, segs, sized, procs, alloc, crashes, broken>>

\* Mutant: the slot stays registered.
ClearSlot_Keeps(p) ==
    /\ pc[p] = "clear"
    /\ Goto(p, "unlink")
    /\ UNCHANGED <<fd, slot, run, inits, segvars, crashes, broken>>

ClearSlot(p) ==
    /\ pc[p] = "clear"
    /\ procs' = [procs EXCEPT ![fd[p]][slot[p]] = NULL]
    /\ Goto(p, "unlink")
    /\ UNCHANGED <<fd, slot, run, inits, name, segs, sized, state, count, alloc, lock, crashes, broken>>

\* The last process unlinks the name; shm_unlock and close.  pid_slot_config
\* keeps its value.
Unlink(p) ==
    /\ pc[p] = "unlink"
    /\ name' = IF count[fd[p]] = 0 THEN NULL ELSE name
    /\ Close(p)
    /\ Goto(p, "idle")
    /\ UNCHANGED <<slot, run, inits, segs, sized, state, procs, count, alloc, crashes, broken>>
-----------------------------------------------------------------------------
(***************************************************************************)
(* The kernel.                                                             *)
(***************************************************************************)

\* The process ends without leaving: its locks are released.
Crash(p) ==
    /\ pc[p] \notin {"idle", "open", "zombie", "dead"} /\ crashes < Crashes
    /\ CrashLocked \/ lock[fd[p]] # p
    /\ crashes' = crashes + 1
    /\ lock' = [s \in Segments |-> IF lock[s] = p THEN NULL ELSE lock[s]]
    /\ fd' = [fd EXCEPT ![p] = NULL] /\ slot' = [slot EXCEPT ![p] = NULL]
    /\ Goto(p, "zombie")
    /\ UNCHANGED <<run, inits, name, segs, sized, state, procs, count, alloc, broken>>

\* Its parent waits for a process that has ended: /proc/<pid> is gone.
Reap(p) ==
    /\ pc[p] = "zombie"
    /\ broken' = broken \cup {s \in Segments : \E i \in Slots : procs[s][i] = Self(p)}
    /\ Goto(p, "dead")
    /\ UNCHANGED <<fd, slot, run, inits, segvars, crashes>>

\* The pid is free, or its process exits, and another process gets it.
Reuse(p) ==
    /\ pc[p] \in {"idle", "dead"} /\ run[p] < MaxRuns
    /\ run' = [run EXCEPT ![p] = @ + 1]
    /\ slot' = [slot EXCEPT ![p] = NULL]
    /\ Goto(p, "idle")
    /\ UNCHANGED <<fd, inits, segvars, crashes, broken>>
-----------------------------------------------------------------------------
SegmentCreate(p) ==
    \/ Open(p) \/ Lock(p) \/ Stat(p)
    \/ Truncate(p) \/ ConfigFirst(p) \/ InitFirst(p)
    \/ Check(p) \/ UnlinkStale(p)
    \/ RegisterRest(p) \/ AbortRest(p) \/ InitRest(p)
    \/ Counted(p)

SegmentUnregister(p) == Leave(p) \/ ClearSlot(p) \/ Unlink(p)

Next ==
    \E p \in Pids :
        \/ NosvInit(p)
        \/ SegmentCreate(p)
        \/ PidRegister(p) \/ PidShutdown(p)
        \/ SegmentUnregister(p)
        \/ Crash(p) \/ Reap(p)
        \/ Reuse(p)

\* A process that is creating or leaving the segment goes on; flock wakes
\* those that wait for it.
Fairness == \A p \in Pids : WF_vars(SegmentCreate(p)) /\ WF_vars(SegmentUnregister(p))

Spec == Init /\ [][Next]_vars /\ Fairness
-----------------------------------------------------------------------------
(***************************************************************************)
(* Properties.                                                             *)
(***************************************************************************)
\* The type invariant; config->count never exceeds MAX_PIDS.
TypeOK ==
    /\ pc \in [Pids -> {"idle", "open", "opened", "stat", "truncate", "first", "modules", "check",
                        "stale", "rest", "join", "count", "attach", "in", "leave", "clear",
                        "unlink", "zombie", "dead"}]
    /\ fd \in [Pids -> Segments \cup {NULL}] /\ slot \in [Pids -> Slots \cup {NULL}]
    /\ run \in [Pids -> 1..MaxRuns] /\ inits \in [Pids -> Nat]
    /\ name \in Segments \cup {NULL} /\ segs \in 0..MaxSegments
    /\ sized \in [Segments -> BOOLEAN] /\ state \in [Segments -> {"raw", "ready", "freed"}]
    /\ procs \in [Segments -> [Slots -> Processes \cup {NULL}]]
    /\ count \in [Segments -> 0..MaxPids] /\ alloc \in [Segments -> 0..MaxPids]
    /\ lock \in [Segments -> Pids \cup {NULL}]
    /\ crashes \in 0..Crashes /\ broken \subseteq Segments

\* assert(pidmanager) of pidmanager_init: a process that joins a segment finds
\* it initialised by its first process and not yet freed by its last one.
JoinsReady == \A p \in Pids : pc[p] = "join" => state[fd[p]] = "ready"

\* segment_unregister_last runs for the last process only: nobody who has nOS-V
\* initialised sees its modules freed, not even where a slot is shared.
StaysReady ==
    \A p \in Pids : pc[p] \in {"attach", "in", "leave"} => state[fd[p]] = "ready"

\* config->count and config->processes agree whenever nobody holds the lock:
\* both count the processes that are in, and those that crashed there.
CountMatches ==
    \A s \in Segments : lock[s] = NULL /\ state[s] # "raw" => count[s] = Cardinality(Registered(s))

\* The segment is consistent for everybody who has it open, whatever the
\* others create, join, leave or abandon.
SegmentSound == TypeOK /\ JoinsReady /\ StaysReady /\ CountMatches

\* A process does not join a segment in which one ended without leaving and was
\* waited for before it looked, even if the pid of that one belongs to another
\* process by now.  (Until it is waited for, check_processes_correct cannot tell
\* it from one that runs, and newcomers join.)
DetectsCrash ==
    [][\A p \in Pids : pc[p] = "check" /\ pc'[p] = "rest" => fd[p] \notin broken]_vars

\* shm_unlink, which goes by name, removes the segment whose lock is held.
UnlinksOwn ==
    [][name # NULL /\ name' # name => \E p \in Pids : fd[p] = name /\ lock[name] = p]_vars

\* A process that initialises nOS-V gets a segment or finds no room in it (or
\* crashes): it does not retry for ever.
Initialises == \A p \in Pids : pc[p] = "opened" ~> pc[p] \in {"attach", "zombie", "dead"}
=============================================================================
