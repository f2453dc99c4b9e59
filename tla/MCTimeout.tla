------------------------------- MODULE MCTimeout ------------------------------
(* Instances of Timeout for TLC. *)
EXTENDS Timeout, TLC

CONSTANTS t1, t2, r1, r2

===============================================================================
