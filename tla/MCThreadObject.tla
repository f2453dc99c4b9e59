---------------------------- MODULE MCThreadObject ----------------------------
(***************************************************************************)
(* Instances of ThreadObject for TLC.  The main thread m creates the       *)
(* workers w and x.  Class A has the subclass B; errA1 and errA2 are       *)
(* instances of A, errB of B, err is a ThreadError.                        *)
(***************************************************************************)
EXTENDS ThreadObject

CONSTANTS m, w, x, errA1, errA2, errB, err

Two == {m, w}
Three == {m, w, x}

MCAncestors == (errA1 :> <<"A">>) @@ (errA2 :> <<"A">>)
                 @@ (errB :> <<"B", "A">>) @@ (err :> <<"ThreadError">>)

NeverAndMixed == {[c \in {"A"} |-> "never"],
                  [c \in {"A", "B"} |-> IF c = "A" THEN "on_blocking" ELSE "never"]}
NeverA == {[c \in {"A"} |-> "never"]}

Self(ts, ops) == {<<t, op, t>> : t \in ts, op \in ops}
On(a, ops, t) == {<<a, op, t>> : op \in ops}

\* m and x raise exceptions on w and wake it up.
InterruptCalls == On(m, {"new", "raise", "wakeup"}, w) \cup On(m, {"new"}, x)
                    \cup On(x, {"raise"}, w)
                    \cup Self({w}, {"sleep", "mask", "pass", "rescue", "return"})

\* m and x kill w, which sleeps under a mask; x wakes it up, x and w join each
\* other, and w may kill the main thread.
KillCalls == On(m, {"new", "kill"}, w) \cup On(m, {"new", "join"}, x)
               \cup On(x, {"kill", "wakeup", "join"}, w) \cup On(w, {"join"}, x)
               \cup On(w, {"kill"}, m)
               \cup Self({w}, {"sleep", "mask", "rescue"}) \cup Self({x}, {"rescue", "return"})

\* m raises exceptions on w, kills it and joins it, or itself; w raises and kills itself, masks,
\* rescues, has ensure bodies on the way of all of it, and returns.
PairCalls == On(m, {"new", "raise", "kill", "join"}, w) \cup On(m, {"return", "join"}, m)
               \cup Self({w}, {"mask", "pass", "raise", "kill", "rescue", "ensure", "jump", "return"})

===============================================================================
