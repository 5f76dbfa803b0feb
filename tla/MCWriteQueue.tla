----------------------------- MODULE MCWriteQueue -----------------------------
(* Model-checking instance of WriteQueue.                                   *)
EXTENDS WriteQueue, TLC

ThreadSymmetry == Permutations(Threads)
=============================================================================
