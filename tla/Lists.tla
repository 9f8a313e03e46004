-------------------------------- MODULE Lists -------------------------------
(***************************************************************************)
(* The circular doubly-linked list of src/include/generic/list.h.  A list  *)
(* L maps every hook, heads included, to the hooks its next and prev point *)
(* at; a hook in no list points at itself.                                 *)
(***************************************************************************)
EXTENDS Sequences

ListInit(L, n) == [L EXCEPT !.next[n] = n, !.prev[n] = n]

Unlinked(Hooks) == [next |-> [h \in Hooks |-> h], prev |-> [h \in Hooks |-> h]]

ListEmpty(L, head) == L.next[head] = head

Link(L, prev, n, next) ==
    LET L1 == [L EXCEPT !.prev[next] = n, !.next[prev] = n] IN
    [L1 EXCEPT !.next[n] = next, !.prev[n] = prev]

ListAdd(L, head, n) == Link(L, head, n, L.next[head])

ListAddTail(L, head, n) == Link(L, L.prev[head], n, head)

\* list_remove: the neighbours point at each other, the hook at itself.
ListRemove(L, n) ==
    ListInit([L EXCEPT !.prev[L.next[n]] = L.prev[n], !.next[L.prev[n]] = L.next[n]], n)

\* list_pop_front unlinks list_front(head), which the caller tests first.
ListPopFront(L, head) == IF ListEmpty(L, head) THEN L ELSE ListRemove(L, L.next[head])

\* list_replace: new takes the place of old.
ListReplace(L, old, new) ==
    LET L1 == [L EXCEPT !.next[new] = L.next[old], !.prev[new] = L.prev[old]]
        L2 == [L1 EXCEPT !.prev[L1.next[new]] = new]
        L3 == [L2 EXCEPT !.next[L2.prev[new]] = new]
    IN  IF ListEmpty(L, old) THEN ListInit(L, new) ELSE ListInit(L3, old)

\* The hooks after `head', in order.
RECURSIVE From(_, _, _)
From(L, head, n) == IF n = head THEN << >> ELSE << n >> \o From(L, head, L.next[n])

ListSeq(L, head) == From(L, head, L.next[head])

\* Next and prev are inverse of each other.
Circular(L) == \A h \in DOMAIN L.next : L.prev[L.next[h]] = h /\ L.next[L.prev[h]] = h
=============================================================================
