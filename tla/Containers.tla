----------------------------- MODULE Containers -----------------------------
(***************************************************************************)
(* The containers the scheduler and the thread manager keep their tasks    *)
(* and workers in, at the level of their links, each beside the abstract   *)
(* value it stands for:                                                    *)
(*                                                                         *)
(*   ready     a scheduler_queue_t (scheduler.c): a list until a task with *)
(*             a priority arrives, then a red-black tree whose nodes head  *)
(*             a ring of the tasks of the same priority                    *)
(*   deadline  the deadline tree of a process scheduler, whose keys are    *)
(*             made unique by insertion                                    *)
(*   clist     a counted list, as those of the pages of the allocators and *)
(*             of the workers that have shut down                          *)
(*   ring      the ring buffer under the event queue                       *)
(*                                                                         *)
(* `what' says which one a behaviour works on, `st' is its state in memory *)
(* and `ref' the value it must represent: the tasks in the order in which  *)
(* they must leave.                                                        *)
(***************************************************************************)
EXTENDS RBTree, Lists, FiniteSets

CONSTANTS Task, Elements, Priority, Deadline, Anchor, Previous, Slots

VARIABLES what, st, ref

contvars == << what, st, ref >>

In(t) == \E i \in 1..Len(ref) : ref[i] = t

\* Where a task of the given key enters a sequence that is sorted by Before.
Place(t, Before(_, _)) ==
    LET n == Cardinality({i \in 1..Len(ref) : ~Before(t, ref[i])}) IN
    SubSeq(ref, 1, n) \o << t >> \o SubSeq(ref, n + 1, Len(ref))
-----------------------------------------------------------------------------
(* The ready queue.                                                        *)

InitReady == [enabled |-> FALSE, tree |-> EmptyTree(Task), list |-> Unlinked(Task \cup {Anchor, Previous})]

\* The list becomes the tree: its first task, with the others in its ring, is
\* the node of priority zero.
EnablePriorities(q) ==
    LET L == ListReplace(q.list, Anchor, Previous)
        first == L.next[Previous]
    IN  IF first = Previous
        THEN [q EXCEPT !.enabled = TRUE, !.list = L]
        ELSE [enabled |-> TRUE, list |-> ListRemove(L, Previous),
              tree |-> RB_INSERT(EmptyTree(Task), Priority, first)]

AddQueue(q, t) ==
    LET found == RB_FIND(q.tree, Priority, Priority[t])
        on == IF q.enabled THEN q ELSE EnablePriorities(q)
    IN  IF q.enabled /\ found # Nil
        THEN [q EXCEPT !.list = ListAddTail(@, found, t)]
        ELSE IF q.enabled \/ Priority[t] # 0
        THEN [on EXCEPT !.list = ListInit(@, t), !.tree = RB_INSERT(@, Priority, t)]
        ELSE [q EXCEPT !.list = ListAddTail(@, Anchor, t)]

FindInQueue(q) == IF q.enabled THEN RB_MINMAX(q.tree, "right")
                  ELSE IF ListEmpty(q.list, Anchor) THEN Nil ELSE q.list.next[Anchor]

\* The hook of a task that left is cleared.
Unhook(T, t) == [T EXCEPT !.par[t] = Nil, !.kid[t] = NoLinks, !.col[t] = "black"]

\* The next task of the ring takes the place of the one that leaves.
PopQueue(q, t) ==
    LET next == q.list.next[t]
        alone == ListEmpty(q.list, t)
        T == IF alone THEN RB_REMOVE(q.tree, t) ELSE RB_TRANSPLANT(q.tree, t, next)
    IN  IF q.enabled
        THEN [q EXCEPT !.list = ListInit(IF alone THEN @ ELSE ListRemove(@, t), t),
                       !.tree = Unhook(T, t)]
        ELSE [q EXCEPT !.list = ListInit(ListPopFront(@, Anchor), t)]

Add(t) ==
    /\ what = "ready" /\ t \in DOMAIN Priority /\ ~In(t)
    /\ st' = AddQueue(st, t)
    /\ ref' = Place(t, LAMBDA x, y : Priority[x] > Priority[y])
    /\ UNCHANGED what

Pop ==
    LET t == FindInQueue(st) IN
    /\ what = "ready" /\ t # Nil
    /\ st' = PopQueue(st, t)
    /\ ref' = SelectSeq(ref, LAMBDA x : x # t)
    /\ UNCHANGED what
-----------------------------------------------------------------------------
(* The deadline tree.                                                      *)

\* A deadline that is taken is moved by one until it is free.
RECURSIVE InsertDeadline(_, _)
InsertDeadline(d, t) ==
    LET T == RB_INSERT(d.tree, d.key, t) IN
    IF T # d.tree THEN [d EXCEPT !.tree = T] ELSE InsertDeadline([d EXCEPT !.key[t] = @ + 1], t)

Arm(t) ==
    /\ what = "deadline" /\ t \in DOMAIN Deadline /\ ~In(t)
    /\ st' = InsertDeadline([st EXCEPT !.key[t] = Deadline[t]], t)
    /\ ref' = Place(t, LAMBDA x, y : st'.key[x] < st'.key[y])
    /\ UNCHANGED what

\* A task leaves when its deadline is the first, or wherever it is when it is
\* woken up before its deadline.  Its stale links are written again before they
\* are read (RB_SET), so they are forgotten here.
Disarm(t) ==
    /\ what = "deadline" /\ In(t)
    /\ st' = [tree |-> Unhook(RB_REMOVE(st.tree, t), t), key |-> [st.key EXCEPT ![t] = Deadline[t]]]
    /\ ref' = SelectSeq(ref, LAMBDA x : x # t)
    /\ UNCHANGED what
-----------------------------------------------------------------------------
(* The counted list and the ring buffer.                                   *)

ClistAdd(t) ==
    /\ what = "clist" /\ t \in Elements /\ ~In(t)
    /\ st' = [cnt |-> st.cnt + 1, list |-> ListAdd(st.list, Anchor, t)]
    /\ ref' = << t >> \o ref
    /\ UNCHANGED what

ClistRemove(t) ==
    /\ what = "clist" /\ In(t)
    /\ st' = [cnt |-> st.cnt - 1, list |-> ListRemove(st.list, t)]
    /\ ref' = SelectSeq(ref, LAMBDA x : x # t)
    /\ UNCHANGED what

ClistPopFront ==
    /\ what = "clist"
    /\ st' = [cnt |-> IF ListEmpty(st.list, Anchor) THEN st.cnt ELSE st.cnt - 1,
              list |-> ListPopFront(st.list, Anchor)]
    /\ ref' = IF ref = << >> THEN ref ELSE Tail(ref)
    /\ UNCHANGED what

RingPush(t) ==
    /\ what = "ring" /\ t \in Elements
    /\ IF st.length = Slots THEN UNCHANGED << st, ref >>
       ELSE /\ st' = [st EXCEPT !.buffer[(st.head + st.length) % Slots] = t, !.length = @ + 1]
            /\ ref' = Append(ref, t)
    /\ UNCHANGED what

RingPull ==
    /\ what = "ring" /\ st.length # 0
    /\ st' = [st EXCEPT !.head = (@ + 1) % Slots, !.length = @ - 1]
    /\ ref' = Tail(ref)
    /\ UNCHANGED what
-----------------------------------------------------------------------------
ContInit ==
    /\ ref = << >>
    /\ \/ what = "ready" /\ st = InitReady
       \/ what = "deadline" /\ st = [tree |-> EmptyTree(Task), key |-> Deadline]
       \/ what = "clist" /\ st = [cnt |-> 0, list |-> Unlinked(Task \cup {Anchor})]
       \/ what = "ring" /\ st = [head |-> 0, length |-> 0, buffer |-> [i \in 0..Slots - 1 |-> Nil]]

ContNext ==
    \/ \E t \in Task : Add(t) \/ Arm(t) \/ Disarm(t) \/ ClistAdd(t) \/ ClistRemove(t) \/ RingPush(t)
    \/ Pop \/ ClistPopFront \/ RingPull

ContSpec == ContInit /\ [][ContNext]_contvars
-----------------------------------------------------------------------------
\* A tree in which every node precedes its successor and where the search,
\* the two ends and the steps to the neighbours agree with the order.
Sorted(T, Key) ==
    LET in == InOrder(T, T.root)
        At(i) == IF i \in 1..Len(in) THEN in[i] ELSE Nil
    IN  /\ WellFormed(T)
        /\ RB_MINMAX(T, "left") = At(1)
        /\ RB_MINMAX(T, "right") = At(Len(in))
        /\ \A i \in 1..Len(in) :
              /\ i > 1 => Key[in[i - 1]] < Key[in[i]]
              /\ RB_FIND(T, Key, Key[in[i]]) = in[i]
              /\ RB_NEXT(T, in[i], "right") = At(i + 1)
              /\ RB_NEXT(T, in[i], "left") = At(i - 1)

\* The tasks of a tree with rings, from the last node to the first.
RECURSIVE Leaving(_, _)
Leaving(q, nodes) ==
    IF nodes = << >> THEN << >>
    ELSE LET n == nodes[Len(nodes)] IN
         << n >> \o ListSeq(q.list, n) \o Leaving(q, SubSeq(nodes, 1, Len(nodes) - 1))

\* Whatever is inserted and removed in whatever order, the links of a container
\* represent exactly the tasks in it in the order in which they must leave
\* (priority, then arrival; deadline; last in first out; first in first out),
\* the trees stay balanced and searchable through every rotation, transplant and
\* switch from list to tree, and a task that left has clean hooks.
LinksRepresent ==
    /\ what = "ready" =>
          /\ Circular(st.list)
          /\ Sorted(st.tree, Priority)
          /\ ref = IF st.enabled THEN Leaving(st, InOrder(st.tree, st.tree.root)) ELSE ListSeq(st.list, Anchor)
          /\ \A t \in Task : ~In(t) => ListEmpty(st.list, t) /\ st.tree.kid[t] = NoLinks
    /\ what = "deadline" => Sorted(st.tree, st.key) /\ ref = InOrder(st.tree, st.tree.root)
    /\ what = "clist" => Circular(st.list) /\ ref = ListSeq(st.list, Anchor) /\ st.cnt = Len(ref)
    /\ what = "ring" =>
          ref = [i \in 1..st.length |-> st.buffer[(st.head + i - 1) % Slots]]
=============================================================================
