------------------------------ MODULE MCParts -------------------------------
(***************************************************************************)
(* The parts that share no state with another: the containers, the         *)
(* affinity that threads see, the barrier and the slab allocator.  A       *)
(* behaviour works on one of them and leaves the others in an initial      *)
(* state.                                                                  *)
(***************************************************************************)
EXTENDS Containers, Affinity, Barrier, Slab, TLC

CONSTANTS k1, k2, k3, k4, k5, k6, k7, ma, t1, p1, p2, a1, a2, a3, b1, b2, b3

VARIABLE part

partvars == << part, contvars, affvars, barvars, vars >>

Prio == k1 :> 0 @@ k2 :> 0 @@ k3 :> 1 @@ k4 :> 1 @@ k5 :> 2 @@ k6 :> 3 @@ k7 :> 4
Due  == k1 :> 1 @@ k2 :> 2 @@ k3 :> 3 @@ k4 :> 4 @@ k5 :> 5 @@ k6 :> 6 @@ k7 :> 2
-----------------------------------------------------------------------------
\* One initial state for the parts that the behaviour does not work on
AffStart == original = ma /\ compat /\ thr[t1] # NoThread

PartsInit ==
    /\ part \in {"containers", "affinity", "barrier", "slab"}
    /\ ContInit /\ (part # "containers" => what = "clist")
    /\ AffInit /\ (part # "affinity" => AffStart)
    /\ BarInit
    /\ Init

PartsNext ==
    /\ UNCHANGED part
    /\ \/ part = "containers" /\ ContNext /\ UNCHANGED << affvars, barvars, vars >>
       \/ part = "affinity" /\ AffNext /\ UNCHANGED << contvars, barvars, vars >>
       \/ part = "barrier" /\ BarNext /\ UNCHANGED << contvars, affvars, vars >>
       \/ part = "slab" /\ Next /\ UNCHANGED << contvars, affvars, barvars >>

PartsSpec == PartsInit /\ [][PartsNext]_partvars

\* Two pages of three chunks
Chunks1 == {a1, a2, a3}
Chunks2 == {b1, b2, b3}
PageOfChunk == [o \in Objects |-> IF o \in Chunks1 THEN p1 ELSE p2]

\* The chunks of a page are alike, and so are the external threads that allocate.
Symmetry == Permutations(Chunks1) \cup Permutations(Chunks2) \cup Permutations(Externals)
=============================================================================
