------------------------------ MODULE MCHashObject -----------------------------
(* Instances of HashObject for TLC. *)
EXTENDS HashObject, TLC

CONSTANTS k1, k2, k3, n1, n2, n3, n4, n5

KeySymmetry == Permutations(Keys)
===============================================================================
