------------------------------ MODULE Coroutines ------------------------------
(***************************************************************************)
(* What fibers promise: in every thread they are called and return like    *)
(* procedures, except that one may pause and be called again.  With        *)
(* control goes what its caller, or the fiber that pauses or ends, has     *)
(* given: that very value, or the error a fiber has ended with, is what    *)
(* the fiber that gets control is handed.  A fiber that is over is not     *)
(* called.                                                                 *)
(***************************************************************************)
EXTENDS Sequences, SequencesExt

CONSTANTS Threads, Fibers, Values, Errors, None

VARIABLES
  active,   \* [Threads -> the fibers that have called each other, the main one first]
  home,     \* the thread a fiber belongs to, or None
  over,     \* fibers whose block has ended
  given,    \* what was given up with control and has not been received, or None
  handed    \* what the fiber that has got control is about to receive, or None

vars == <<active, home, over, given, handed>>

Init == /\ active = [t \in Threads |-> <<t>>]
        /\ home = [f \in Fibers |-> None]
        /\ over = {}
        /\ given = [t \in Threads |-> None]
        /\ handed = [t \in Threads |-> None]

Create(t, f) == /\ home[f] = None /\ given[t] = None
                /\ home' = [home EXCEPT ![f] = t]
                /\ UNCHANGED <<active, over, given, handed>>

Call(t, f, v) == /\ given[t] = None
                 /\ home[f] = t /\ f \notin over /\ f \notin Range(active[t])
                 /\ active' = [active EXCEPT ![t] = Append(@, f)]
                 /\ given' = [given EXCEPT ![t] = v]
                 /\ UNCHANGED <<home, over, handed>>

GiveBack(t, v) == /\ given[t] = None /\ Len(active[t]) > 1
                  /\ active' = [active EXCEPT ![t] = Front(@)]
                  /\ given' = [given EXCEPT ![t] = v]
                  /\ UNCHANGED <<home, handed>>

PauseWith(t, v) == GiveBack(t, v) /\ UNCHANGED over

EndWith(t, v) == GiveBack(t, v) /\ over' = over \cup {Last(active[t])}

\* What was given reaches the fiber that has control now ...
Hand(t) == /\ given[t] # None /\ handed[t] = None
           /\ handed' = [handed EXCEPT ![t] = given[t]]
           /\ UNCHANGED <<active, home, over, given>>

\* ... and is what its block, resume or yield goes on with.
Receive(t) == /\ handed[t] # None
              /\ handed' = [handed EXCEPT ![t] = None]
              /\ given' = [given EXCEPT ![t] = None]
              /\ UNCHANGED <<active, home, over>>

Next == \E t \in Threads :
          \/ Hand(t) \/ Receive(t)
          \/ \E f \in Fibers : Create(t, f) \/ \E v \in Values : Call(t, f, v)
          \/ \E v \in Values : PauseWith(t, v)
          \/ \E v \in Values \cup Errors : EndWith(t, v)

Spec == Init /\ [][Next]_vars

===============================================================================
