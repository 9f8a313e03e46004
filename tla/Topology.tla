------------------------------ MODULE Topology ------------------------------
(***************************************************************************)
(* topo_init (src/hardware/topology.c): the tree of the machine that all   *)
(* processes share, built level by level from the binding mask, the        *)
(* sibling lists of the kernel, the sets of the configuration and libnuma; *)
(* then the default affinity of the tasks (src/system/tasks.c).            *)
(*                                                                         *)
(* A level is its number, as in the source.  The tree T has the domains of *)
(* each level by logical id, T.s_to_l[v] from system to logical ids, and   *)
(* the status of the construction: "aborted" when nosv_abort is called,    *)
(* "undefined" when an access is out of bounds or reads what was never      *)
(* written, "stuck" when a loop does not end.                              *)
(***************************************************************************)
EXTENDS Config, SequencesExt

CONSTANTS
    Lists,      \* the lists of CPUs an array of the configuration stands for, by its word
    IndexMod    \* the range of the index of an affinity

VARIABLES valid, topo, default

topovars == << configvars, valid, topo, default >>

NODE == 0
NUMA == 1
COMPLEX == 2
CORE == 3
CPU == 4
Levels == NODE..CPU
DISABLED == -1
UNSET == -2

Ascending(S) == SetToSortSeq(S, <)
Count(T, v) == Cardinality(DOMAIN T.doms[v])
Fail(T, how) == [T EXCEPT !.status = how]

\* topo_dom_lid, topo_dom_sid, topo_dom_parent_lid
Lid(T, v, s) == IF s \in DOMAIN T.s_to_l[v] THEN T.s_to_l[v][s] ELSE UNSET
Sid(T, v, l) == T.doms[v][l].sid
ParentLid(T, v, l, p) == T.doms[v][l].parents[p]

NoTree == [doms |-> [v \in Levels |-> << >>], s_to_l |-> [v \in Levels |-> << >>], status |-> "run"]

\* topology_init_domain_s_to_l and topology_init_level; the array of domains
\* grows as they are made.
InitLevel(T, v, max) == [T EXCEPT !.s_to_l[v] = [s \in 0..max |-> -1], !.doms[v] = << >>]

\* topology_init_domain: the next domain of a level.
InitDomain(T, v, s) ==
    LET l   == Count(T, v)
        dom == [sid |-> s,
                parents |-> [p \in Levels |-> IF p < v THEN UNSET ELSE IF p = v THEN l ELSE DISABLED],
                sids |-> IF v = CPU THEN {s} ELSE {}, lids |-> IF v = CPU THEN {l} ELSE {}]
    IN  IF T.status # "run" THEN T
        ELSE IF s \notin DOMAIN T.s_to_l[v] THEN Fail(T, "undefined")
        ELSE [T EXCEPT !.s_to_l[v][s] = l, !.doms[v] = [i \in 0..l |-> IF i = l THEN dom ELSE @[i]]]

\* The domains that the CPUs S have in level w, below a parent that is being set.
Above(T, S, w) == {ParentLid(T, CPU, Lid(T, CPU, c), w) : c \in S}

Join(T, S, v, l) ==
    [T EXCEPT !.doms = [w \in Levels |-> [i \in DOMAIN @[w] |->
        IF w = v /\ i = l THEN [@[w][i] EXCEPT !.sids = @ \cup S, !.lids = @ \cup {Lid(T, CPU, c) : c \in S}]
        ELSE IF w > v /\ i \in Above(T, S, w) THEN [@[w][i] EXCEPT !.parents[v] = l]
        ELSE @[w][i]]]]

Known(T, S) == \A c \in S : Lid(T, CPU, c) >= 0

\* A parent that was set before is not looked at.
UpdateCpus_NoCheck(T, S, v, l) ==
    IF T.status # "run" THEN T ELSE IF ~Known(T, S) THEN Fail(T, "aborted") ELSE Join(T, S, v, l)

\* topology_update_cpu_and_parents for each CPU of the set S: it joins domain l of
\* level v, with the domains it has in the levels between them, unless one of
\* them has another parent already.
UpdateCpus(T, S, v, l) ==
    IF T.status # "run" THEN T
    ELSE IF ~Known(T, S) THEN Fail(T, "aborted")
    ELSE IF \E w \in v + 1..CPU : \E i \in Above(T, S, w) : ParentLid(T, w, i, v) \notin {UNSET, l}
    THEN Fail(T, "aborted")
    ELSE Join(T, S, v, l)

AddDomain(T, v, s, S) == UpdateCpus(InitDomain(T, v, s), S, v, Count(T, v))

Visited(T, v) == UNION {T.doms[v][i].sids : i \in DOMAIN T.doms[v]}

\* topology_init_from_config: the sets of the list that have a valid CPU, with
\* their place as system id; then, for complex sets, one for each core that is
\* left.  There are as many system ids as domains in the level below.
InitFromConfig(T, v, lists, remaining) ==
    LET start == InitLevel(T, v, Count(T, v + 1) - 1)
        given == FoldLeft(LAMBDA U, k :
                     IF U.status # "run" THEN U
                     ELSE IF lists[k] = << >> THEN Fail(U, "undefined")
                     ELSE IF ParseStatus(lists[k]) # "run" THEN Fail(U, ParseStatus(lists[k]))
                     ELSE IF ParseStr(lists[k]) \cap valid = {} THEN U
                     ELSE AddDomain(U, v, k - 1, ParseStr(lists[k])),
                     start, [k \in 1..Len(lists) |-> k])
        left  == {i \in DOMAIN given.doms[v + 1] : ParentLid(given, v + 1, i, v) = UNSET}
        all   == IF ~remaining THEN given
                 ELSE FoldLeft(LAMBDA U, i :
                          AddDomain(U, v, Len(lists) + Count(U, v) - Count(given, v), T.doms[v + 1][i].sids),
                          given, Ascending(left))
        seen  == MapThenSumSet(LAMBDA i : Cardinality(all.doms[v][i].sids), DOMAIN all.doms[v])
    IN  IF all.status = "run" /\ seen # Cardinality(valid) THEN Fail(all, "aborted") ELSE all

\* topology_init_cores: the core of a CPU is named after its first valid sibling.
InitCores(T) ==
    FoldLeft(LAMBDA U, c :
        LET cpus == in.machine.siblings[c] \cap valid IN
        IF c \in Visited(U, CORE) THEN U ELSE AddDomain(U, CORE, Min(cpus), cpus),
        InitLevel(T, CORE, NR_CPUS), Ascending(valid))

\* topology_init_numa_from_libnuma: the available nodes with a valid CPU, then the
\* node of each CPU.
InitNumaFromLibnuma(T) ==
    LET m     == in.machine
        nodes == {k \in m.nodes : \E c \in valid : m.node[c] = k}
        made  == FoldLeft(LAMBDA U, k : InitDomain(U, NUMA, k), InitLevel(T, NUMA, Max(m.nodes)), Ascending(nodes))
    IN  FoldLeft(LAMBDA U, c :
            LET l == Lid(made, NUMA, m.node[c]) IN
            IF m.node[c] < 0 \/ l < 0 THEN Fail(U, "aborted") ELSE UpdateCpus(U, {c}, NUMA, l),
            made, Ascending(valid))

\* topology_init_numa; without libnuma the text of a list is taken for an array
\* of lists.
InitNuma(T) ==
    IF cfg.numaNodes.n >= 1 THEN InitFromConfig(T, NUMA, Lists[cfg.numaNodes.s], FALSE)
    ELSE IF in.machine.libnuma THEN InitNumaFromLibnuma(T)
    ELSE Fail(T, "undefined")
-----------------------------------------------------------------------------
AllAffinity == [level |-> "all", index |-> 0, strict |-> FALSE]

TopoInit == ConfigInit /\ valid = {} /\ topo = NoTree /\ default = AllAffinity

Build(from, to, T) ==
    /\ Step(from, to)
    /\ topo' = T /\ status' = T.status
    /\ UNCHANGED << cfg, mask, default >>

\* topology_init_cpus; a mask without CPUs is only asserted against.
InitCpus ==
    LET bad == BadBinding(cfg.binding.s, mask)
        set == IF bad THEN {} ELSE BindingMask(in.machine, cfg.binding.s, mask)
    IN  /\ valid' = set
        /\ Build("cpus", "cores",
               IF bad THEN Fail(NoTree, "aborted")
               ELSE IF set = {} THEN Fail(NoTree, "undefined")
               ELSE FoldLeft(LAMBDA U, c : InitDomain(U, CPU, c), InitLevel(NoTree, CPU, NR_CPUS), Ascending(set)))

Cores == Build("cores", "complex", InitCores(topo)) /\ UNCHANGED valid

ComplexSets ==
    /\ Build("complex", "numa", InitFromConfig(topo, COMPLEX, Lists[cfg.complexSets.s], TRUE))
    /\ UNCHANGED valid

NumaNodes == Build("numa", "node", InitNuma(topo)) /\ UNCHANGED valid

\* topology_init_node
Node == Build("node", "verify", AddDomain(InitLevel(topo, NODE, 0), NODE, 0, valid)) /\ UNCHANGED valid

\* topology_assert_parents_set and topology_assert_siblings_have_same_parent
ParentsSet(T) == \A v \in NUMA..CPU : \A i \in DOMAIN T.doms[v] : \A p \in NODE..v - 1 : ParentLid(T, v, i, p) >= 0
SiblingsAgree(T) ==
    \A v \in NUMA..CORE : \A i \in DOMAIN T.doms[v] : \A p \in NUMA..v - 1 :
        \A c, d \in T.doms[v][i].lids : ParentLid(T, CPU, c, p) = ParentLid(T, CPU, d, p)

Verify ==
    /\ Build("verify", "affinity", IF ParentsSet(topo) /\ SiblingsAgree(topo) THEN topo ELSE Fail(topo, "aborted"))
    /\ UNCHANGED valid

\* task_affinity_init, parse_affinity_from_config: a level, a "-" and an index.
\* Text without a "-", another level, or an index that is out of the range of the
\* conversion stops the runtime; an index that is only too large for its field
\* loses its upper bits.
AffinityInit ==
    LET a == cfg.affinity IN
    /\ Step("affinity", "ready")
    /\ Outcome(FALSE, a.s # "all" /\ (a.s \notin {"cpu", "numa"} \/ a.n >= SizeMod))
    /\ default' = IF a.s = "all" THEN AllAffinity
                  ELSE [level |-> a.s, index |-> a.n % IndexMod, strict |-> cfg.affPolicy.s = "strict"]
    /\ UNCHANGED << cfg, mask, valid, topo >>

TopoNext ==
    \/ ConfigNext /\ UNCHANGED << valid, topo, default >>
    \/ InitCpus \/ Cores \/ ComplexSets \/ NumaNodes \/ Node \/ Verify \/ AffinityInit
-----------------------------------------------------------------------------
\* The queries of the public interface, for a task on the CPU of logical id l.
CurrentLogicalDomain(l, v) == ParentLid(topo, CPU, l, v)
CurrentSystemDomain(l, v) == Sid(topo, v, CurrentLogicalDomain(l, v))
NumCpusInDomain(v, s) == Cardinality(topo.doms[v][Lid(topo, v, s)].sids)
AvailableDomains(v) == {Sid(topo, v, l) : l \in DOMAIN topo.doms[v]}

\* The tree that the processes share describes the CPUs they may use: the domains
\* of every level divide them, the two kinds of ids of a domain and of its CPUs
\* translate into each other, what contains a domain contains its CPUs, and the
\* domain found from a CPU holds this CPU.  A mistake in the configuration is
\* found while the tree is built and never reaches the final verification.
TopologySound ==
    /\ ~(status = "aborted" /\ phase = "affinity")
    /\ (status = "run" /\ phase \in {"verify", "affinity", "ready"}) =>
        \A v \in Levels :
            /\ Visited(topo, v) = valid
            /\ \A l \in DOMAIN topo.doms[v] : LET d == topo.doms[v][l] IN
                /\ Lid(topo, v, d.sid) = l
                /\ d.sids # {} /\ d.lids = {Lid(topo, CPU, c) : c \in d.sids}
                /\ \A k \in DOMAIN topo.doms[v] : k # l => d.sids \cap topo.doms[v][k].sids = {}
                /\ \A p \in NODE..v - 1 : d.sids \subseteq topo.doms[p][d.parents[p]].sids
            /\ \A c \in valid : LET s == CurrentSystemDomain(Lid(topo, CPU, c), v) IN
                s \in AvailableDomains(v) /\ c \in topo.doms[v][Lid(topo, v, s)].sids /\ NumCpusInDomain(v, s) >= 1

=============================================================================
