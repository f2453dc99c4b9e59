--------------------------- MODULE InterruptMailbox ---------------------------
(***************************************************************************)
(* What Thread#raise and Thread#kill promise, without locks, masks or      *)
(* condition variables: every thread has a mailbox; a post adds an         *)
(* exception at the end; the thread takes each post at most once, awake,   *)
(* and the posts of one class in the order they came; a kill empties the   *)
(* mailbox and dooms the thread until it takes the kill.                   *)
(***************************************************************************)
EXTENDS Sequences, SequencesExt

CONSTANTS Threads, Exceptions, Class    \* Class: [Exceptions -> class]

VARIABLES mailbox, doomed, asleep

vars == <<mailbox, doomed, asleep>>

Init == /\ mailbox = [t \in Threads |-> <<>>]
        /\ doomed = [t \in Threads |-> FALSE]
        /\ asleep = [t \in Threads |-> FALSE]

Post(t, e) == /\ mailbox' = [mailbox EXCEPT ![t] = Append(@, e)]
              /\ UNCHANGED <<doomed, asleep>>

Take(t, i) == /\ ~asleep[t]
              /\ \A j \in 1..(i - 1) : Class[mailbox[t][j]] # Class[mailbox[t][i]]
              /\ mailbox' = [mailbox EXCEPT ![t] = RemoveAt(@, i)]
              /\ UNCHANGED <<doomed, asleep>>

Empty(t) == /\ mailbox' = [mailbox EXCEPT ![t] = <<>>]
            /\ UNCHANGED <<doomed, asleep>>

Doom(t) == /\ doomed' = [doomed EXCEPT ![t] = TRUE]
           /\ UNCHANGED <<mailbox, asleep>>

TakeDoom(t) == /\ ~asleep[t]
               /\ doomed' = [doomed EXCEPT ![t] = FALSE]
               /\ UNCHANGED <<mailbox, asleep>>

FallAsleep(t) == /\ ~asleep[t]
                 /\ asleep' = [asleep EXCEPT ![t] = TRUE]
                 /\ UNCHANGED <<mailbox, doomed>>

AwakeAgain(t) == /\ asleep[t]
                 /\ asleep' = [asleep EXCEPT ![t] = FALSE]
                 /\ UNCHANGED <<mailbox, doomed>>

Next == \E t \in Threads :
          \/ \E e \in Exceptions : Post(t, e)
          \/ \E i \in DOMAIN mailbox[t] : Take(t, i)
          \/ Empty(t) \/ Doom(t) \/ TakeDoom(t)
          \/ FallAsleep(t) \/ AwakeAgain(t)

Spec == Init /\ [][Next]_vars

===============================================================================
