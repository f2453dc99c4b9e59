----------------------------- MODULE MCMutexObject ----------------------------
(* Instances of MutexObject for TLC: two or three threads, one mutex. *)
EXTENDS MutexObject, TLC

CONSTANTS t1, t2, t3

ThreadSymmetry == Permutations(Threads)
===============================================================================
