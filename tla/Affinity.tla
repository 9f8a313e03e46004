------------------------------ MODULE Affinity ------------------------------
(***************************************************************************)
(* The affinity that a thread sees while nOS-V moves it from CPU to CPU    *)
(* (src/support/affinity.c), with the hash tables that find its worker     *)
(* (src/include/generic/hashtable.h).                                      *)
(*                                                                         *)
(* A thread has a kernel id and a pthread id, both used again after it     *)
(* ends, the affinity the kernel gives it (real), the one its worker keeps *)
(* (fake, original_affinity in the source) and, as a reference, the one it *)
(* would have if the runtime did not bind it (mine).                       *)
(***************************************************************************)
EXTENDS Integers, Sequences, FiniteSets

CONSTANTS Pthreads, Ids, Masks, Bound, Buckets, NoMask

VARIABLES thr, htTid, htPthread, original, compat

affvars == << thr, htTid, htPthread, original, compat >>

\* A table has Buckets lists of entries and a list of free ones, which only
\* saves allocations and is left out.
HtInit == [b \in 0..Buckets - 1 |-> << >>]
Hash(k) == k % Buckets
HtInsert(ht, k, d) == [ht EXCEPT ![Hash(k)] = << [key |-> k, data |-> d] >> \o @]

FirstOf(list, k) == CHOOSE i \in 1..Len(list) : list[i].key = k /\ \A j \in 1..i - 1 : list[j].key # k
HtHas(ht, k) == \E i \in 1..Len(ht[Hash(k)]) : ht[Hash(k)][i].key = k
HtSearch(ht, k) == ht[Hash(k)][FirstOf(ht[Hash(k)], k)].data
HtRemove(ht, k) ==
    LET at == FirstOf(ht[Hash(k)], k) IN
    [ht EXCEPT ![Hash(k)] = SubSeq(@, 1, at - 1) \o SubSeq(@, at + 1, Len(@))]

NoThread == [st |-> "none", tid |-> 0, pth |-> 0, real |-> NoMask, fake |-> NoMask, mine |-> NoMask]
Fresh(tid, pth, m) == [st |-> "free", tid |-> tid, pth |-> pth, real |-> m, fake |-> NoMask, mine |-> m]

\* current_worker is set in a worker and in an attached thread.
Controlled == {"attached", "worker"}
Alive == {t \in Pthreads : thr[t].st # "none"}
FreeId(f) == {i \in Ids : \A t \in Alive : thr[t][f] # i}

\* affinity_support_init, by the first thread of the process.
AffInit ==
    \E t \in Pthreads, m \in Masks :
        /\ original = m /\ compat \in BOOLEAN
        /\ thr = [u \in Pthreads |-> IF u = t THEN Fresh(1, 1, m) ELSE NoThread]
        /\ htTid = HtInit /\ htPthread = HtInit

\* affinity_support_register_worker, in the thread t with affinity m as its fake one.
Register(t, r) ==
    /\ thr' = [thr EXCEPT ![t] = r]
    /\ IF compat THEN htTid' = HtInsert(htTid, r.tid, t) /\ htPthread' = HtInsert(htPthread, r.pth, t)
       ELSE UNCHANGED << htTid, htPthread >>
    /\ UNCHANGED << original, compat >>

\* affinity_support_unregister_worker, leaving the pthread in its table.
Unregister_KeepsPthread(t, r) ==
    /\ compat => HtHas(htTid, thr[t].tid)
    /\ thr' = [thr EXCEPT ![t] = r]
    /\ IF compat THEN htTid' = HtRemove(htTid, thr[t].tid) /\ UNCHANGED htPthread ELSE UNCHANGED << htTid, htPthread >>
    /\ UNCHANGED << original, compat >>

\* affinity_support_unregister_worker: both entries must be there.
Unregister(t, r) ==
    /\ compat => HtHas(htTid, thr[t].tid) /\ HtHas(htPthread, thr[t].pth)
    /\ thr' = [thr EXCEPT ![t] = r]
    /\ IF compat THEN htTid' = HtRemove(htTid, thr[t].tid) /\ htPthread' = HtRemove(htPthread, thr[t].pth)
       ELSE UNCHANGED << htTid, htPthread >>
    /\ UNCHANGED << original, compat >>
-----------------------------------------------------------------------------
\* pthread_create by thread p, with a cpuset in its attributes (m) or without
\* (NoMask): the child of a controlled thread gets the fake affinity.
Create(p, t, m) ==
    /\ thr[p].st # "none" /\ thr[t].st = "none"
    /\ \E tid \in FreeId("tid"), pth \in FreeId("pth") :
        LET inherit == IF compat /\ thr[p].st \in Controlled THEN thr[p].fake ELSE thr[p].real
            own     == IF compat THEN thr[p].mine ELSE thr[p].real
        IN  thr' = [thr EXCEPT ![t] = [Fresh(tid, pth, IF m = NoMask THEN inherit ELSE m) EXCEPT
                        !.mine = IF m = NoMask THEN own ELSE m]]
    /\ UNCHANGED << htTid, htPthread, original, compat >>

Exit(t) ==
    /\ thr[t].st = "free"
    /\ thr' = [thr EXCEPT ![t] = NoThread]
    /\ UNCHANGED << htTid, htPthread, original, compat >>

\* nosv_attach: the thread keeps the affinity it had.
AttachThread(t) ==
    /\ thr[t].st = "free"
    /\ Register(t, [thr[t] EXCEPT !.st = "attached", !.fake = thr[t].real])

\* A worker thread of the runtime is created bound, and registers first of all.
StartWorker(t) ==
    /\ thr[t].st = "none"
    /\ \E tid \in FreeId("tid"), pth \in FreeId("pth") :
        Register(t, [st |-> "worker", tid |-> tid, pth |-> pth, real |-> Bound,
                     fake |-> IF compat THEN original ELSE Bound, mine |-> original])

\* worker_wake_internal: the thread is bound to the CPU where it wakes up.
Bind(t) ==
    /\ thr[t].st \in Controlled
    /\ thr' = [thr EXCEPT ![t].real = Bound]
    /\ UNCHANGED << htTid, htPthread, original, compat >>

\* nosv_detach, with or without NOSV_DETACH_NO_RESTORE_AFFINITY
DetachThread(t, restore) ==
    /\ thr[t].st = "attached"
    /\ LET m == IF restore THEN thr[t].fake ELSE thr[t].real IN
       Unregister(t, [thr[t] EXCEPT !.st = "free", !.real = m, !.fake = NoMask, !.mine = IF restore THEN @ ELSE m])

EndWorker(t) == thr[t].st = "worker" /\ Unregister(t, NoThread)

\* The worker that the interposed calls find for thread u when t calls them with
\* a kernel id or a pthread id, if any.
Finds(t, u, how) ==
    IF t = u THEN thr[t].st \in Controlled
    ELSE IF how = "tid" THEN HtHas(htTid, thr[u].tid) ELSE HtHas(htPthread, thr[u].pth)

WorkerOf(t, u, how) ==
    IF t = u THEN t ELSE IF how = "tid" THEN HtSearch(htTid, thr[u].tid) ELSE HtSearch(htPthread, thr[u].pth)

\* sched_setaffinity and pthread_setaffinity_np
SetAffinity(t, u, how, m) ==
    /\ t \in Alive /\ u \in Alive
    /\ thr' = IF compat /\ Finds(t, u, how)
              THEN [[thr EXCEPT ![WorkerOf(t, u, how)].fake = m] EXCEPT ![u].mine = m]
              ELSE [thr EXCEPT ![u].real = m, ![u].mine = IF compat \/ thr[u].st = "free" THEN m ELSE @]
    /\ UNCHANGED << htTid, htPthread, original, compat >>

\* sched_getaffinity and pthread_getaffinity_np
GetAffinity(t, u, how) ==
    IF compat /\ Finds(t, u, how) THEN thr[WorkerOf(t, u, how)].fake ELSE thr[u].real

AffNext ==
    \/ \E p, t \in Pthreads, m \in Masks \cup {NoMask} : Create(p, t, m)
    \/ \E t \in Pthreads : Exit(t) \/ AttachThread(t) \/ StartWorker(t) \/ Bind(t) \/ EndWorker(t)
    \/ \E t \in Pthreads, restore \in BOOLEAN : DetachThread(t, restore)
    \/ \E t, u \in Pthreads, how \in {"tid", "pthread"}, m \in Masks : SetAffinity(t, u, how, m)
-----------------------------------------------------------------------------
\* With compat_support, what any thread is told of the affinity of any other, by
\* either id, is what it would be without the runtime: what was last set or
\* inherited, through attaching, binding, detaching and threads whose ids are
\* used again.  Both tables have one entry for each thread that the runtime
\* controls and none for another.  Without the support, detaching gives back
\* what the thread had when it attached.
AffinityHonest ==
    IF compat
    THEN /\ \A t, u \in Alive, how \in {"tid", "pthread"} : GetAffinity(t, u, how) = thr[u].mine
         /\ \A ht \in {htTid, htPthread} :
              /\ \A b \in DOMAIN ht : Cardinality({e.data : e \in {ht[b][i] : i \in 1..Len(ht[b])}}) = Len(ht[b])
              /\ {e.data : e \in UNION {{ht[b][i] : i \in 1..Len(ht[b])} : b \in DOMAIN ht}}
                     = {t \in Pthreads : thr[t].st \in Controlled}
    ELSE \A t \in Pthreads : thr[t].st = "free" => thr[t].real = thr[t].mine
=============================================================================
