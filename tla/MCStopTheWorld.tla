---------------------------- MODULE MCStopTheWorld ----------------------------
(* Instances of StopTheWorld for TLC: two or three threads beside the main one. *)
EXTENDS StopTheWorld, TLC

CONSTANTS t1, t2, t3

ThreadSymmetry == Permutations(Threads)
===============================================================================
