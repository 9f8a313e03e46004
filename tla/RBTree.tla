------------------------------- MODULE RBTree -------------------------------
(***************************************************************************)
(* The red-black tree of src/include/generic/tree.h, which holds the       *)
(* priorities of a ready queue and the deadlines of a process scheduler.   *)
(* A tree T is a record of the root and of the three links of every node:  *)
(*                                                                         *)
(*   T.root           rbh_root                                             *)
(*   T.par[n]         rbe_parent                                           *)
(*   T.kid[n][s]      rbe_left and rbe_right                               *)
(*   T.col[n]         rbe_color                                            *)
(*                                                                         *)
(* tree.h writes every case of the rebalancing twice, once for each side;  *)
(* here the side s is a parameter.  Key is the function the comparison     *)
(* callback compares.                                                      *)
(***************************************************************************)
EXTENDS Integers, Sequences

CONSTANT Nil     \* NULL

Opp(s) == IF s = "left" THEN "right" ELSE "left"

NoLinks == [left |-> Nil, right |-> Nil]

\* RB_INIT sets the root only: the links of a node are set when it is inserted.
EmptyTree(Nodes) == [root |-> Nil,
                     par  |-> [n \in Nodes |-> Nil],
                     kid  |-> [n \in Nodes |-> NoLinks],
                     col  |-> [n \in Nodes |-> "black"]]

Black(T, n) == n = Nil \/ T.col[n] = "black"

SetParent(T, n, p) == IF n = Nil THEN T ELSE [T EXCEPT !.par[n] = p]

SideOf(T, p, n) == IF T.kid[p].left = n THEN "left" ELSE "right"

\* The pointer to `old' in its parent p, or in the head, becomes `new'.
Attach(T, p, old, new) ==
    IF p = Nil THEN [T EXCEPT !.root = new]
                ELSE [T EXCEPT !.kid[p][SideOf(T, p, old)] = new]

\* RB_ROTATE_LEFT for s = "left", RB_ROTATE_RIGHT for s = "right".
Rotate(T, e, s) ==
    LET o   == Opp(s)
        tmp == T.kid[e][o]
        mid == T.kid[tmp][s]
        T1  == SetParent([T EXCEPT !.kid[e][o] = mid], mid, e)
        T2  == Attach([T1 EXCEPT !.par[tmp] = T.par[e]], T.par[e], e, tmp)
    IN  [T2 EXCEPT !.kid[tmp][s] = e, !.par[e] = tmp]

RECURSIVE InsertColor(_, _)
InsertColor(T, e) ==
    LET p == T.par[e]
        g == T.par[p]
        s == SideOf(T, g, p)
        u == T.kid[g][Opp(s)]
        inner == T.kid[p][Opp(s)] = e
        T1 == IF inner THEN Rotate(T, p, s) ELSE T
        top == IF inner THEN e ELSE p
        low == IF inner THEN p ELSE e
    IN  IF p = Nil \/ T.col[p] = "black"
        THEN [T EXCEPT !.col[T.root] = "black"]
        ELSE IF ~Black(T, u)
        THEN InsertColor([T EXCEPT !.col[u] = "black", !.col[p] = "black", !.col[g] = "red"], g)
        ELSE InsertColor(Rotate([T1 EXCEPT !.col[top] = "black", !.col[g] = "red"], g, Opp(s)), low)

\* The last rotation of the removal: the sibling x takes the colour of p.
Settle(T, p, s) ==
    LET o  == Opp(s)
        x  == T.kid[p][o]
        T1 == [T EXCEPT !.col[x] = T.col[p], !.col[p] = "black"]
        f  == T1.kid[x][o]
        T2 == IF f = Nil THEN T1 ELSE [T1 EXCEPT !.col[f] = "black"]
        T3 == Rotate(T2, p, s)
    IN  [T3 EXCEPT !.col[T3.root] = "black"]

\* A removal that forgets to bring the red nephew to the outer side.
TurnNephew_Skipped(T, w, near, o) == T

\* The red nephew on the near side is rotated to the outer side first.
TurnNephew(T, w, near, o) ==
    Rotate([T EXCEPT !.col[near] = "black", !.col[w] = "red"], w, o)

RECURSIVE RemoveColor(_, _, _)
RemoveColor(T, p, e) ==
    LET s  == SideOf(T, p, e)
        o  == Opp(s)
        w0 == T.kid[p][o]
        T1 == IF T.col[w0] = "red"
              THEN Rotate([T EXCEPT !.col[w0] = "black", !.col[p] = "red"], p, s)
              ELSE T
        w  == T1.kid[p][o]
        near == T1.kid[w][s]
        far  == T1.kid[w][o]
    IN  IF ~Black(T, e) \/ e = T.root
        THEN IF e = Nil THEN T ELSE [T EXCEPT !.col[e] = "black"]
        ELSE IF Black(T1, near) /\ Black(T1, far)
        THEN RemoveColor([T1 EXCEPT !.col[w] = "red"], T1.par[p], p)
        ELSE Settle(IF Black(T1, far) THEN TurnNephew(T1, w, near, o) ELSE T1, p, s)

RECURSIVE Extreme(_, _, _)
Extreme(T, n, s) == IF T.kid[n][s] = Nil THEN n ELSE Extreme(T, T.kid[n][s], s)

\* Removal of a node with at most one child.
RemoveLeaf(T, e) ==
    LET child == IF T.kid[e].left = Nil THEN T.kid[e].right ELSE T.kid[e].left
        p  == T.par[e]
        T1 == Attach(SetParent(T, child, p), p, e, child)
    IN  IF T.col[e] = "black" THEN RemoveColor(T1, p, child) ELSE T1

\* Removal of a node with two children: its successor takes its place.
RemoveInner(T, old) ==
    LET e     == Extreme(T, T.kid[old].right, "left")
        child == T.kid[e].right
        up    == T.par[e]
        T1    == Attach(SetParent(T, child, up), up, e, child)
        p     == IF T1.par[e] = old THEN e ELSE up
        T2    == [T1 EXCEPT !.par[e] = T1.par[old], !.kid[e] = T1.kid[old], !.col[e] = T1.col[old]]
        T3    == Attach(T2, T2.par[old], old, e)
        T4    == SetParent(SetParent(T3, T3.kid[old].left, e), T3.kid[old].right, e)
    IN  IF T.col[e] = "black" THEN RemoveColor(T4, p, child) ELSE T4

RB_REMOVE(T, e) == IF Nil \in {T.kid[e].left, T.kid[e].right} THEN RemoveLeaf(T, e)
                                                              ELSE RemoveInner(T, e)

\* Where a search for a key ends: the node with that key, or the last one met.
RECURSIVE Descend(_, _, _, _)
Descend(T, Key, k, n) ==
    LET next == T.kid[n][IF k < Key[n] THEN "left" ELSE "right"] IN
    IF k = Key[n] \/ next = Nil THEN n ELSE Descend(T, Key, k, next)

RB_FIND(T, Key, k) ==
    LET n == Descend(T, Key, k, T.root) IN
    IF T.root = Nil THEN Nil ELSE IF Key[n] = k THEN n ELSE Nil

\* RB_INSERT returns the node that already has the key, and then does nothing.
RB_INSERT(T, Key, e) ==
    LET p  == Descend(T, Key, Key[e], T.root)
        T1 == [T EXCEPT !.par[e] = IF T.root = Nil THEN Nil ELSE p, !.kid[e] = NoLinks, !.col[e] = "red"]
    IN  IF T.root = Nil THEN InsertColor([T1 EXCEPT !.root = e], e)
        ELSE IF Key[p] = Key[e] THEN T
        ELSE InsertColor([T1 EXCEPT !.kid[p][IF Key[e] < Key[p] THEN "left" ELSE "right"] = e], e)

\* RB_MIN for s = "left", RB_MAX for s = "right".
RB_MINMAX(T, s) == IF T.root = Nil THEN Nil ELSE Extreme(T, T.root, s)

RECURSIVE ClimbFrom(_, _, _)
ClimbFrom(T, n, s) ==
    IF T.par[n] = Nil \/ T.kid[T.par[n]][s] = n THEN T.par[n] ELSE ClimbFrom(T, T.par[n], s)

\* RB_NEXT for s = "right", RB_PREV for s = "left".
RB_NEXT(T, n, s) ==
    IF T.kid[n][s] # Nil THEN Extreme(T, T.kid[n][s], Opp(s)) ELSE ClimbFrom(T, n, Opp(s))

\* b takes the place of a, links and colour.
RB_TRANSPLANT(T, a, b) ==
    LET T1 == [T EXCEPT !.par[b] = T.par[a], !.kid[b] = T.kid[a], !.col[b] = T.col[a]]
        T2 == SetParent(SetParent(T1, T1.kid[b].left, b), T1.kid[b].right, b)
    IN  Attach(T2, T2.par[b], a, b)
-----------------------------------------------------------------------------
\* The nodes of the subtree at n from left to right.
RECURSIVE InOrder(_, _)
InOrder(T, n) == IF n = Nil THEN << >>
                 ELSE InOrder(T, T.kid[n].left) \o << n >> \o InOrder(T, T.kid[n].right)

\* The number of black nodes on every path down from n, or -1 if paths differ.
RECURSIVE BlackHeight(_, _)
BlackHeight(T, n) ==
    IF n = Nil THEN 0 ELSE
    LET l == BlackHeight(T, T.kid[n].left)
        r == BlackHeight(T, T.kid[n].right)
    IN  IF l # r \/ l < 0 THEN -1 ELSE l + (IF T.col[n] = "black" THEN 1 ELSE 0)

\* Children point back at their parent, a red node has no red child, the root
\* is black and every path has the same number of black nodes.
WellFormed(T) ==
    LET in == InOrder(T, T.root) IN
    /\ Black(T, T.root)
    /\ T.root # Nil => T.par[T.root] = Nil
    /\ BlackHeight(T, T.root) >= 0
    /\ \A i \in 1..Len(in) : \A s \in {"left", "right"} :
          LET c == T.kid[in[i]][s] IN
          c # Nil => T.par[c] = in[i] /\ (T.col[in[i]] = "red" => T.col[c] = "black")
=============================================================================
