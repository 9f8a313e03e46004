---------------------------- MODULE MCQueueStart ----------------------------
(***************************************************************************)
(* TLC instance of InQueue, and of the start of the runtime, from its      *)
(* configuration to the tree of the machine.  The two share no state: a    *)
(* behaviour is one of a queue or one of a start.                          *)
(***************************************************************************)
EXTENDS InQueue, Topology, TLC

VARIABLE part

allvars == << part, vars, topovars >>

TwoCpus == {0, 1}
-----------------------------------------------------------------------------
(* Machines.                                                               *)

\* Two nodes of two cores; CPUs 0 and 1, and 2 and 3, are siblings.
Plain == [online |-> 0..3, usable |-> 0..3, allowed |-> 0..3, possible |-> 4, libnuma |-> TRUE, nodes |-> {0, 1},
          siblings |-> [c \in 0..7 |-> {2 * (c \div 2), 2 * (c \div 2) + 1}], node |-> [c \in 0..7 |-> c \div 2]]

\* CPUs 0 and 1 are online and cannot be used, the process was started on the
\* last ones, and the nodes are numbered with a gap.
Odd == [online |-> 0..5, usable |-> 2..5, allowed |-> {4, 5}, possible |-> 6, libnuma |-> TRUE, nodes |-> {0, 2},
        siblings |-> [c \in 0..7 |-> {c}], node |-> [c \in 0..7 |-> IF c < 4 THEN 0 ELSE 2]]

Machines == {Plain, Odd,
             [Plain EXCEPT !.allowed = {0, 3}],                     \* one CPU of each core
             [Plain EXCEPT !.allowed = {2}],
             [Plain EXCEPT !.node = [c \in 0..7 |-> c % 2]],        \* a core in two nodes
             [Plain EXCEPT !.nodes = {0}],                          \* a CPU in a missing node
             [Plain EXCEPT !.libnuma = FALSE]}
-----------------------------------------------------------------------------
(* What the configuration holds.                                           *)

Token(m, n) == [kind |-> 2, first |-> m, last |-> n, stride |-> 1]
One(c) == [kind |-> 1, first |-> c, last |-> c, stride |-> 1]
Stride(m, n, s) == [kind |-> 3, first |-> m, last |-> n, stride |-> s]
Junk == [kind |-> 0, first |-> 0, last |-> 0, stride |-> 1]
Blank == [Junk EXCEPT !.kind = -1]

ListsOf ==
    [halves |-> << << Token(0, 1) >>, << Token(2, 3) >> >>, cross |-> << << Stride(0, 3, 2) >>, << Stride(1, 3, 2) >> >>,
     first |-> << << One(0), One(1) >> >>, twice |-> << << Token(0, 2) >>, << One(2) >> >>,
     all |-> << << Token(0, 3) >> >>, far |-> << << Token(6, 7) >>, << Token(0, 1) >> >>,
     junk |-> << << Token(0, 1), Junk, Token(2, 3) >>, << Token(2, 3) >> >>, back |-> << << Token(3, 0) >> >>,
     still |-> << << Stride(0, 3, 0) >> >>, down |-> << << Stride(0, 3, -1) >> >>, over |-> << << Token(0, 8) >> >>,
     blank |-> << << Token(0, 1), Blank >> >>, null |-> << << >> >>] @@ ("" :> << >>)

Raw(kind, s, n) == [kind |-> kind, s |-> s, n |-> n]
Entry(o, kind, s, n) == [opt |-> o, raw |-> Raw(kind, s, n)]
Array(w) == Raw("array", w, Len(ListsOf[w]))

NoFile == [o \in {} |-> 0]
Base == [path |-> "unset", cwd |-> TRUE, installed |-> TRUE, syntax |-> TRUE, file |-> NoFile, env |-> << >>,
         preset |-> "", mask |-> << 15 >>, machine |-> Plain]

\* Every way to find the file, and every value of an option in the file.
Finding == {[Base EXCEPT !.path = p, !.cwd = d, !.installed = i, !.syntax = s] :
            p \in {"unset", "readable", "missing"}, d, i, s \in BOOLEAN}

FileValues ==
    {"batch" :> Raw("int", "", n) : n \in {-1, 0, 5}} \cup {"batch" :> Raw(k, "x", 0) : k \in {"string", "flat", "table"}}
    \cup {"unknown" :> Raw("string", "x", 0)}
    \cup {"immediate" :> Raw(k, "", 0) : k \in {"bool", "int"}}
    \cup {o :> Raw("string", w, 0) : o \in {"isolation", "policy", "affPolicy", "backend"}, w \in {"", "public", "busy", "preferred", "papi"}}
    \cup {o :> Raw("string", w, 0) : o \in {"name", "binding"}, w \in {"", "mask", "cores"}}
    \cup {"start" :> Raw("int", "", n) : n \in {0, 9000}} \cup {"start" :> Raw("hex", "", 9000)}
    \cup {"size" :> Raw("string", w, 3) : w \in {"", "K", "G", "E", "?"}}
    \cup {"size" :> Raw("trailing", w, 3) : w \in {"", "G"}} \cup {"size" :> Raw("int", "", 20)}
    \cup {"affinity" :> Raw("string", w, n) : w \in {"", "cpu", "numa", "socket", "bare"}, n \in {1, IndexMod + 1, SizeMod}}
    \cup {o :> Raw(k, "", 0) : o \in {"numaNodes", "events"}, k \in {"array", "mixed", "int"}}

TextValues ==
    {Entry("batch", "int", "", n) : n \in {-1, 0, 7, SizeMod}} \cup {Entry("batch", "string", "x", 0)}
    \cup {Entry("immediate", k, "", 0) : k \in {"bool", "int"}}
    \cup {Entry("isolation", "string", w, 0) : w \in {"", "group", "busy"}}
    \cup {Entry("start", k, "", 9999) : k \in {"hex", "int"}}
    \cup {Entry("size", "string", w, 4) : w \in {"K", "P", "?"}} \cup {Entry("size", "trailing", "K", 4)}
    \cup {Entry("affinity", "string", w, 0) : w \in {"all", "numa"}}
    \cup {Entry(o, "string", "all", 1) : o \in {"numaNodes", "events", "unknown", "blank"}}

Parsing ==
    {[Base EXCEPT !.file = f, !.preset = p] : f \in FileValues, p \in {"", "isolated", "shared-mpi", "other"}}
    \cup {[Base EXCEPT !.env = << e, f >>] : e, f \in TextValues}
    \cup {[Base EXCEPT !.file = f, !.env = << e >>, !.preset = p] :
              f \in FileValues, e \in TextValues, p \in {"", "isolated"}}

\* The sets of the configuration on every machine, with the CPUs the process was
\* started on, all of them or those of a mask.
Sets2 == {[numaNodes |-> Array(v), complexSets |-> Array(w)] : v, w \in DOMAIN ListsOf}

Building ==
    {[Base EXCEPT !.file = f, !.preset = p, !.machine = m] : f \in Sets2, p \in {"", "shared-mpi"}, m \in Machines}
    \cup {[Base EXCEPT !.file = "binding" :> Raw("string", "mask", 0), !.mask = d, !.machine = m] :
              d \in {<< 0 >>, << 5 >>, << 12, 3 >>, << 5, -1 >>}, m \in {Plain, Odd}}

AllInputs == Finding \cup Parsing \cup Building
-----------------------------------------------------------------------------
QueueStartInit ==
    /\ part \in {"queue", "start"}
    /\ Init
    /\ TopoInit /\ (part = "queue" => in = Base)

QueueStartNext ==
    /\ UNCHANGED part
    /\ \/ part = "queue" /\ Next /\ UNCHANGED topovars
       \/ part = "start" /\ TopoNext /\ UNCHANGED vars

\* The fairness of InQueue; a start owes nothing.
QueueStartSpec ==
    /\ QueueStartInit /\ [][QueueStartNext]_allvars
    /\ WF_allvars(part = "queue" /\ Consume /\ UNCHANGED << part, topovars >>)
=============================================================================
