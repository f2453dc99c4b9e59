---------------------------- MODULE MCFiberObject -----------------------------
(* Instances of FiberObject for TLC: two threads that share the fibers. *)
EXTENDS FiberObject

CONSTANTS t1, t2, f1, f2, f3, v1, v2, e
===============================================================================
