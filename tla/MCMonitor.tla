------------------------------- MODULE MCMonitor ------------------------------
(* An instance of Monitor for TLC. *)
EXTENDS Monitor, TLC

CONSTANTS t1, t2, t3

ThreadSymmetry == Permutations(Threads)

===============================================================================
