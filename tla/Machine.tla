------------------------------- MODULE Machine ------------------------------
(***************************************************************************)
(* What the runtime asks of the machine when it starts: CPU lists and      *)
(* masks, the affinity of the process and the NUMA nodes.  A bit set of    *)
(* src/include/scheduler/cpubitset.h is a set of system ids.               *)
(*                                                                         *)
(* A machine m has the CPUs reported online (m.online) and those a thread  *)
(* can really be bound to (m.usable), the CPUs the process was started on  *)
(* (m.allowed), m.siblings[c], m.node[c], the number of CPUs libnuma knows *)
(* (m.possible) and whether libnuma works (m.libnuma).                     *)
(***************************************************************************)
EXTENDS Integers, Sequences, FiniteSets, FiniteSetsExt

CONSTANT NR_CPUS

\* A list is a sequence of tokens [kind, first, last, stride], kind being how many
\* numbers of "%d-%d:%d" were read, or -1 when the token ended before the first.
\* A token without a number, or with its ends the wrong way round, stops the
\* loop; the result is the set built so far, and it is reported as a success,
\* since the return value is set on a shadowing variable.
TokenCpus(k) ==
    LET last   == IF k.kind = 1 THEN k.first ELSE k.last
        stride == IF k.kind = 3 THEN k.stride ELSE 1
    IN  {c \in k.first..last : (c - k.first) % stride = 0}

BadToken(k) == k.kind = 0 \/ (k.kind > 1 /\ k.first > k.last)

Tokens(list) ==
    LET bad == {i \in 1..Len(list) : BadToken(list[i])}
    IN  1..(IF bad = {} THEN Len(list) ELSE Min(bad) - 1)

\* What the loop over the CPUs of a token does: a blank token is read from
\* variables that were never written, a stride of zero never reaches the last
\* CPU, and a CPU that the bit set has no room for is written out of bounds.
TokenStatus(k) ==
    IF k.kind = -1 THEN "undefined"
    ELSE IF k.kind = 3 /\ k.stride = 0 THEN "stuck"
    ELSE IF (k.kind = 3 /\ k.stride < 0) \/ ~TokenCpus(k) \subseteq 0..NR_CPUS - 1 THEN "undefined"
    ELSE "run"

ParseStatus(list) ==
    LET odd == {i \in Tokens(list) : TokenStatus(list[i]) # "run"}
    IN  IF odd = {} THEN "run" ELSE TokenStatus(list[Min(odd)])

ParseStr(list) == UNION {TokenCpus(list[i]) : i \in Tokens(list)}

\* The digit of four CPUs, and the CPUs of a digit.
Digit(S, i) == SumSet({2^(c % 4) : c \in {x \in S : x \div 4 = i}})
DigitCpus(d, i) == {4 * i + b : b \in {k \in 0..3 : (d \div 2^k) % 2 = 1}}

\* cpu_get_all_mask: the online CPUs, corrected by binding the thread to them,
\* as the digits of a mask (least significant first).  The number of digits is
\* computed from the number of the last CPU.
AllMask(m) ==
    LET set == m.online \cap m.usable
        max == Max(set)
    IN  [i \in 1..((max + 3) \div 4) |-> Digit(set, i - 1)]

\* cpus_get_binding_mask: the CPUs of a binding, which is "inherit" or the digits of
\* a mask.  It stops at a word that does not start like a mask, and at a character
\* that is not a digit (-1).
BadBinding(binding, mask) ==
    binding # "inherit" /\ (binding # "mask" \/ \E i \in 1..Len(mask) : mask[i] \notin 0..15)

BindingMask(m, binding, mask) ==
    {c \in IF binding = "inherit" THEN m.allowed
           ELSE UNION {DigitCpus(mask[i], i - 1) : i \in 1..Len(mask)} : c < NR_CPUS}

\* topo_get_default_aff: a CPU, a NUMA node, or nothing.  Both loops leave out
\* the last possible CPU.
DefaultAff(m) ==
    LET seen  == {c \in m.allowed : c < m.possible - 1}
        nodes == {m.node[c] : c \in seen}
    IN  IF Cardinality(m.allowed) = 1 THEN [s |-> "cpu", n |-> Max(m.allowed)]
        ELSE IF Cardinality(nodes) = 1 THEN [s |-> "numa", n |-> m.node[Min(seen)]]
        ELSE [s |-> "none", n |-> 0]
=============================================================================
