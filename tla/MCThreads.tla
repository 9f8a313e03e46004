----------------------------- MODULE MCThreads -----------------------------
(***************************************************************************)
(* TLC instance of Threads: two processes on two CPUs.                     *)
(***************************************************************************)
EXTENDS Threads, TLC

CONSTANTS pa, pb, ta, tx

MCTaskProc == ta :> pa @@ tx :> pa
MCMaxInits == pa :> 1 @@ pb :> 2
=============================================================================
