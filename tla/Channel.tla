-------------------------------- MODULE Channel -------------------------------
(***************************************************************************)
(* What a queue promises to the threads that use it: a first-in first-out  *)
(* buffer in which every call takes effect at one moment between its start *)
(* and its return, or not at all.  A patient call is refused only because  *)
(* the channel is closed, an impatient one (non-blocking or timed) also    *)
(* because there is nothing to take or no room.  A call ends when it has   *)
(* been answered, or struck by an interrupt.                               *)
(***************************************************************************)
EXTENDS Naturals, Sequences

CONSTANTS Threads, Items, None,
          NoLimit    \* stands for the capacity of a channel without a bound

VARIABLES
  buffer, closed, capacity,
  asked,    \* [Threads -> what a thread has asked for and not got yet]
  cargo     \* [Threads -> the item it gives, or has been given]

vars == <<buffer, closed, capacity, asked, cargo>>

Full == capacity # NoLimit /\ Len(buffer) >= capacity

Init == /\ buffer = <<>> /\ closed = FALSE /\ capacity \in Nat
        /\ asked = [t \in Threads |-> "nothing"]
        /\ cargo = [t \in Threads |-> None]

Becomes(t, state, item) == /\ asked' = [asked EXCEPT ![t] = state]
                           /\ cargo' = [cargo EXCEPT ![t] = item]

Ask(t, what, item) == /\ asked[t] = "nothing"
                      /\ Becomes(t, what, item)
                      /\ UNCHANGED <<buffer, closed, capacity>>

Put(t) == /\ asked[t] \in {"put", "put impatiently"}
          /\ ~closed /\ ~Full
          /\ buffer' = Append(buffer, cargo[t])
          /\ Becomes(t, "answer", None)
          /\ UNCHANGED <<closed, capacity>>

Take(t) == /\ asked[t] \in {"take", "take impatiently"}
           /\ buffer # <<>>
           /\ buffer' = Tail(buffer)
           /\ Becomes(t, "answer", Head(buffer))
           /\ UNCHANGED <<closed, capacity>>

\* An error, or nil for an answer.
Refuse(t) == /\ \/ asked[t] = "put" /\ closed
                \/ asked[t] = "put impatiently" /\ (closed \/ Full)
                \/ asked[t] = "take" /\ buffer = <<>> /\ closed
                \/ asked[t] = "take impatiently" /\ buffer = <<>>
             /\ \E state \in {"nothing", "answer"} : Becomes(t, state, None)
             /\ UNCHANGED <<buffer, closed, capacity>>

\* An interrupt is thrown into the call before it has taken effect: it never will.
Strike(t) == /\ asked[t] \notin {"nothing", "answer", "struck"}
             /\ Becomes(t, "struck", cargo[t])
             /\ UNCHANGED <<buffer, closed, capacity>>

\* The call returns with its answer, or throws, with its effect or struck.
Leave(t) == /\ asked[t] \in {"answer", "struck"}
            /\ Becomes(t, "nothing", None)
            /\ UNCHANGED <<buffer, closed, capacity>>

Close == closed' = TRUE /\ UNCHANGED <<buffer, capacity, asked, cargo>>

Clear == buffer' = <<>> /\ UNCHANGED <<closed, capacity, asked, cargo>>

Resize == /\ capacity # NoLimit
          /\ capacity' \in Nat /\ capacity' # NoLimit
          /\ UNCHANGED <<buffer, closed, asked, cargo>>

Next == \/ \E t \in Threads :
             \/ Put(t) \/ Take(t) \/ Refuse(t) \/ Strike(t) \/ Leave(t)
             \/ \E i \in Items : Ask(t, "put", i) \/ Ask(t, "put impatiently", i)
             \/ Ask(t, "take", None) \/ Ask(t, "take impatiently", None)
        \/ Close \/ Clear \/ Resize

Spec == Init /\ [][Next]_vars

===============================================================================
