----------------------------- MODULE MCThreadQueue ----------------------------
(* Instances of ThreadQueue for TLC. *)
EXTENDS ThreadQueue, TLC

CONSTANTS t1, t2, t3, a, b

Calling ==
  [Queue |-> t1 :> {"pop", "pop nonblock"} @@ t2 :> {"pop", "pop timeout", "push"}
             @@ t3 :> {"push", "close", "clear"},
   SizedQueue |-> t1 :> {"push"} @@ t2 :> {"push", "push timeout", "push nonblock", "close"}
                  @@ t3 :> {"pop", "max=", "clear"}]

Pushing == t1 :> a @@ t2 :> b @@ t3 :> a

===============================================================================
