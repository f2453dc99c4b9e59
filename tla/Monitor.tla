-------------------------------- MODULE Monitor -------------------------------
(***************************************************************************)
(* Monitor (lib/monitor.rb) and one of its condition variables             *)
(* (src/thread/conditionvariable.rb).  The monitor is a Mutex with an      *)
(* owner and a count, which only the owner writes; the condition variable  *)
(* is a list of threads under a mutex of its own, Mutex#sleep and          *)
(* Thread#wakeup.  A thread stays on the list when it leaves wait by       *)
(* itself.                                                                 *)
(***************************************************************************)
EXTENDS Naturals, Sequences, FiniteSets

CONSTANTS Threads, Nobody,
          MaxDepth,    \* bound on the nesting of enter
          MaxEntries   \* bound on the entries of the list, the stale ones included

ASSUME MonitorAssumption == /\ Nobody \notin Threads /\ IsFiniteSet(Threads)
                            /\ MaxDepth \in Nat \ {0}

VARIABLES
  holder,    \* who has @mon_mutex
  owner,     \* @mon_owner
  count,     \* @mon_count
  saved,     \* [Threads -> count in wait_for_cond]
  waiting,   \* @waiting of the condition variable
  cvHolder,  \* who has @mutex of the condition variable
  woken,     \* sleepers with m_wakeup set
  depth,     \* history: [Threads -> how often the thread is inside the monitor]
  events,    \* history: a wait ended "early", a signal came from "outside"
  pc

vars == <<holder, owner, count, saved, waiting, cvHolder, woken, depth, events, pc>>
monitor == <<holder, owner, count>>
condition == <<waiting, cvHolder, woken>>

\* "join": wait on its way to @waiting.  "doze": @mon_mutex unlocked and not yet asleep.
Labels == {"user", "enter", "record", "join", "listed", "doze", "asleep", "relock",
           "broadcast", "dead"}

Members(s) == {s[i] : i \in DOMAIN s}
Goto(t, label) == pc' = [pc EXCEPT ![t] = label]
Happens(e) == events' = events \cup {e}

Init == /\ holder = Nobody /\ owner = Nobody /\ count = 0
        /\ saved = [t \in Threads |-> 0]
        /\ waiting = <<>> /\ cvHolder = Nobody /\ woken = {}
        /\ depth = [t \in Threads |-> 0]
        /\ events = {}
        /\ pc = [t \in Threads |-> "user"]

-------------------------------------------------------------------------------
(* enter, try_enter, exit                                                    *)

\* enter and try_enter of the owner.
Reenter(t) ==
  /\ pc[t] = "user" /\ owner = t /\ depth[t] < MaxDepth
  /\ count' = count + 1
  /\ depth' = [depth EXCEPT ![t] = @ + 1]
  /\ UNCHANGED <<holder, owner, saved, condition, events, pc>>

Enter(t) ==
  /\ pc[t] = "user" /\ owner # t
  /\ Goto(t, "enter")
  /\ UNCHANGED <<monitor, saved, condition, depth, events>>

TakeMutex(t) ==
  /\ pc[t] = "enter" /\ holder = Nobody
  /\ holder' = t
  /\ Goto(t, "record")
  /\ UNCHANGED <<owner, count, saved, condition, depth, events>>

TryEnter(t) ==
  /\ pc[t] = "user" /\ owner # t /\ holder = Nobody
  /\ holder' = t
  /\ Goto(t, "record")
  /\ UNCHANGED <<owner, count, saved, condition, depth, events>>

\* Lock threw: nothing has been done.
EnterInterrupted(t) ==
  /\ pc[t] = "enter"
  /\ Goto(t, "user")
  /\ UNCHANGED <<monitor, saved, condition, depth, events>>

Recorded(t) ==
  /\ pc[t] = "record"
  /\ owner' = t /\ count' = 1
  /\ depth' = [depth EXCEPT ![t] = 1]
  /\ Goto(t, "user")
  /\ UNCHANGED <<holder, saved, condition, events>>

LastExit == count = 1

\* exit of the owner; of others it raises.
Exit(t) ==
  /\ pc[t] = "user" /\ owner = t
  /\ count' = count - 1
  /\ IF LastExit THEN owner' = Nobody /\ holder' = Nobody ELSE UNCHANGED <<owner, holder>>
  /\ depth' = [depth EXCEPT ![t] = @ - 1]
  /\ UNCHANGED <<saved, condition, events, pc>>

-------------------------------------------------------------------------------
(* wait, on the monitor's condition variable                                 *)

WaitForCond(t) ==
  /\ pc[t] = "user" /\ owner = t
  /\ saved' = [saved EXCEPT ![t] = count]
  /\ owner' = Nobody /\ count' = 0
  /\ Goto(t, "join")
  /\ UNCHANGED <<holder, condition, depth, events>>

JoinWaiting(t) ==
  /\ pc[t] = "join" /\ cvHolder = Nobody
  /\ Len(waiting) < MaxEntries
  /\ waiting' = Append(waiting, t)
  /\ Goto(t, "listed")
  /\ UNCHANGED <<monitor, saved, cvHolder, woken, depth, events>>

\* Mutex#sleep: m_wakeup is cleared, then @mon_mutex unlocked.
SleepInMutex(t) ==
  /\ pc[t] = "listed"
  /\ woken' = woken \ {t}
  /\ holder' = Nobody
  /\ Goto(t, "doze")
  /\ UNCHANGED <<owner, count, saved, waiting, cvHolder, depth, events>>

StartWait(t) ==
  /\ pc[t] = "doze" /\ t \notin woken
  /\ Goto(t, "asleep")
  /\ UNCHANGED <<monitor, saved, condition, depth, events>>

EndWait(t) ==
  /\ pc[t] \in {"doze", "asleep"} /\ t \in woken
  /\ woken' = woken \ {t}
  /\ Goto(t, "relock")
  /\ UNCHANGED <<monitor, saved, waiting, cvHolder, depth, events>>

\* A timeout, an interrupt, a wakeup by somebody else, or none at all.
EndWaitEarly(t) ==
  /\ pc[t] \in {"doze", "asleep"}
  /\ woken' = woken \ {t}
  /\ Goto(t, "relock")
  /\ Happens("early")
  /\ UNCHANGED <<monitor, saved, waiting, cvHolder, depth>>

RestoreOne(t) == 1    \* mutant of Restored: the depth is not kept over the wait
Restored(t) == saved[t]

\* The ensure clause of wait_for_cond, with @mon_mutex locked again.
BackInside(t) ==
  /\ owner' = t /\ count' = Restored(t)
  /\ saved' = [saved EXCEPT ![t] = 0]
  /\ Goto(t, "user")

Relock(t) ==
  /\ pc[t] = "relock" /\ holder = Nobody
  /\ holder' = t
  /\ BackInside(t)
  /\ UNCHANGED <<condition, depth, events>>

\* An exception before the mutex is given up: an interrupt in the lock of the condition
\* variable or, the thread being listed, a negative timeout.
WaitInterrupted(t) ==
  /\ pc[t] \in {"join", "listed"}
  /\ BackInside(t)
  /\ events' = IF pc[t] = "listed" THEN events \cup {"early"} ELSE events
  /\ UNCHANGED <<holder, condition, depth>>

-------------------------------------------------------------------------------
(* signal, broadcast: under @mutex, by any thread                            *)

\* mutant of Rouse: no m_wakeup, only the notification
RouseSleeper(t) == IF pc[t] = "asleep" THEN woken \cup {t} ELSE woken
\* Thread#wakeup; a thread that does not sleep clears m_wakeup before it does.
Rouse(t) == IF pc[t] \in {"doze", "asleep"} THEN woken \cup {t} ELSE woken

\* The thread to wake has not given up the monitor: the signal is from outside of it.
Outside == pc[Head(waiting)] = "listed"

WakeFirst(t) ==
  /\ waiting # <<>>
  /\ waiting' = Tail(waiting)
  /\ woken' = Rouse(Head(waiting))
  /\ events' = IF Outside THEN events \cup {"outside"} ELSE events

\* Of a dead thread the wakeup raises, as its status is never "dead": signal and
\* broadcast end there, with the entry gone.
HeadIsDead == pc[Head(waiting)] = "dead"

Signal(t) ==
  /\ pc[t] = "user" /\ cvHolder = Nobody
  /\ WakeFirst(t)
  /\ UNCHANGED <<monitor, saved, cvHolder, depth, pc>>

Broadcast(t) ==
  /\ pc[t] = "user" /\ cvHolder = Nobody
  /\ cvHolder' = t
  /\ Goto(t, "broadcast")
  /\ UNCHANGED <<monitor, saved, waiting, woken, depth, events>>

StopAfterFirst == TRUE    \* mutant of BroadcastStops: broadcast wakes one
BroadcastStops == HeadIsDead

Unlock == cvHolder' = Nobody

BroadcastWakes(t) ==
  /\ pc[t] = "broadcast"
  /\ WakeFirst(t)
  /\ IF BroadcastStops THEN Goto(t, "user") /\ Unlock
     ELSE UNCHANGED <<pc, cvHolder>>
  /\ UNCHANGED <<monitor, saved, depth>>

Broadcasted(t) ==
  /\ pc[t] = "broadcast" /\ waiting = <<>>
  /\ Unlock
  /\ Goto(t, "user")
  /\ UNCHANGED <<monitor, saved, waiting, woken, depth, events>>

\* A thread ends; its mutexes are unlocked, @mon_owner is not cleared.
Die(t) ==
  /\ pc[t] = "user"
  /\ holder' = IF holder = t THEN Nobody ELSE holder
  /\ depth' = [depth EXCEPT ![t] = 0]
  /\ Goto(t, "dead")
  /\ UNCHANGED <<owner, count, saved, condition, events>>

-------------------------------------------------------------------------------
Next == \E t \in Threads :
  \/ Reenter(t) \/ Enter(t) \/ TakeMutex(t) \/ TryEnter(t) \/ EnterInterrupted(t)
  \/ Recorded(t) \/ Exit(t)
  \/ WaitForCond(t) \/ JoinWaiting(t) \/ SleepInMutex(t) \/ StartWait(t) \/ EndWait(t)
  \/ EndWaitEarly(t) \/ Relock(t) \/ WaitInterrupted(t)
  \/ Signal(t) \/ Broadcast(t) \/ BroadcastWakes(t) \/ Broadcasted(t) \/ Die(t)

Spec == Init /\ [][Next]_vars

-------------------------------------------------------------------------------
\* Every variable has its type, and the mutex of the condition variable is held
\* between steps only by a broadcast.
TypeOK ==
  /\ holder \in Threads \cup {Nobody} /\ owner \in Threads \cup {Nobody}
  /\ count \in 0..MaxDepth
  /\ saved \in [Threads -> 0..MaxDepth] /\ depth \in [Threads -> 0..MaxDepth]
  /\ waiting \in Seq(Threads)
  /\ woken \subseteq Threads
  /\ events \subseteq {"early", "outside"}
  /\ pc \in [Threads -> Labels]
  /\ cvHolder \in Threads \cup {Nobody}
  /\ \A t \in Threads : cvHolder = t <=> pc[t] = "broadcast"

\* A thread that runs inside the monitor, at whatever depth and after whatever waits, has
\* the mutex, is the owner, and needs as many exits as it has entered; a living owner
\* is inside.
MonitorExcludes ==
  \A t \in Threads : pc[t] \in {"user", "broadcast"} =>
    /\ depth[t] > 0 => holder = t /\ owner = t /\ count = depth[t]
    /\ depth[t] = 0 => holder # t /\ owner # t

\* The state is well-formed and the monitor excludes.
MonitorIsSound == TypeOK /\ MonitorExcludes

\* Threads that wait and have not been woken.
Sleepers == {t \in Threads : pc[t] \in {"doze", "asleep"}} \ woken

\* Whoever sleeps in wait can still be woken by a signal, or has been, although entries
\* of waits that are over lie on the list, unless a signal from outside the monitor
\* met it before it slept.
NoForgottenWaiter == "outside" \notin events => Sleepers \subseteq Members(waiting)

\* A signal wakes one sleeper if there is one, as long as no wait ended by itself and
\* left its entry.
SignalWakesOne ==
  [][\A t \in Threads : Signal(t) /\ events' = {} /\ Sleepers # {} =>
       Cardinality(Sleepers') = Cardinality(Sleepers) - 1]_vars

\* When a broadcast returns, everyone that slept before is awake, also those that
\* came to sleep while it ran, unless it has met the entry of a dead thread.
BroadcastWakesAll ==
  [][\A t \in Threads : pc[t] = "broadcast" /\ pc'[t] = "user" =>
       \/ Sleepers' = {}
       \/ waiting # <<>> /\ HeadIsDead
       \/ "outside" \in events']_vars

\* Signals and broadcasts wake those they should.
SignalsWake == SignalWakesOne /\ BroadcastWakesAll

-------------------------------------------------------------------------------
(* What makes the properties inductive.                                      *)

\* @mon_mutex belongs to a thread from TakeMutex to the last exit, but for its sleep.
HolderInv ==
  \A t \in Threads :
    holder = t <=> \/ pc[t] \in {"record", "join", "listed"}
                   \/ pc[t] \in {"user", "broadcast"} /\ depth[t] > 0

\* Who is inside is the owner; the owner is inside, or died there.
OwnerInv ==
  \A t \in Threads :
    /\ pc[t] \in {"user", "broadcast"} /\ depth[t] > 0 => owner = t /\ count = depth[t]
    /\ owner = t => \/ pc[t] = "dead"
                    \/ pc[t] \in {"user", "broadcast"} /\ depth[t] > 0

\* A thread in wait remembers how deep it was; one that enters is not inside.
DepthInv ==
  \A t \in Threads :
    /\ pc[t] \in {"join", "listed", "doze", "asleep", "relock"} => saved[t] = depth[t] /\ depth[t] > 0
    /\ pc[t] \in {"enter", "record", "dead"} => depth[t] = 0

\* A thread that has listed itself stays on the list until it has slept.
ListedInv ==
  "outside" \notin events =>
    \A t \in Threads : pc[t] = "listed" => t \in Members(waiting)

\* m_wakeup is set of threads that sleep.
WokenInv == \A t \in woken : pc[t] \in {"doze", "asleep"}

\* As long as every wait was ended by a signal, the list has those that wait and have
\* not been woken, each once.
ListIsTrue ==
  events = {} =>
    /\ \A i \in DOMAIN waiting : /\ pc[waiting[i]] \in {"listed", "doze", "asleep"}
                                 /\ waiting[i] \notin woken
    /\ \A i, j \in DOMAIN waiting : waiting[i] = waiting[j] => i = j

IInv == /\ TypeOK /\ HolderInv /\ OwnerInv /\ DepthInv
        /\ ListedInv /\ WokenInv /\ ListIsTrue /\ NoForgottenWaiter

===============================================================================
