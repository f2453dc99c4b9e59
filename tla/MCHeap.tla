--------------------------------- MODULE MCHeap -------------------------------
(* Instances of Heap for TLC. *)
EXTENDS Heap, TLC

CONSTANTS t1, t2, b1, b2, s1, s2

\* The main thread holds two references, so that it can link cells.
Roots == (t1 :> 2) @@ (t2 :> 1)

CellSymmetry == Permutations(Blocks) \cup Permutations(Slots)
===============================================================================
