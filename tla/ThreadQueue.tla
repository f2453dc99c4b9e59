------------------------------ MODULE ThreadQueue -----------------------------
(***************************************************************************)
(* Thread::Queue and Thread::SizedQueue, which src/thread/queue.rb and     *)
(* sizedqueue.rb build in Ruby out of a Mutex, lists of waiting threads,   *)
(* Mutex#sleep and Thread#wakeup.  One queue and any number of threads     *)
(* that push, pop, close, clear and resize it, are interrupted in it, and  *)
(* end.                                                                    *)
(*                                                                         *)
(* What a thread does with @mutex held is one step, except where it waits  *)
(* there for another thread.  Module MutexObject shows that the mutex      *)
(* excludes.  Of what the others do without the mutex, close reads and     *)
(* empties @waiting, and pop looks at @push_waiters: these are steps of    *)
(* their own.  An operation on an Array is taken to be atomic.             *)
(***************************************************************************)
EXTENDS Naturals, Sequences, FiniteSets

CONSTANTS Threads, Nobody, Items, None,
          Sizes,      \* the values of max programs use
          Program,    \* the calls each thread may make, of a Queue and of a SizedQueue
          Payload,    \* [Threads -> what a thread pushes]
          MaxLength   \* bound on what programs put into a Queue

NoLimit == 0          \* max of a Queue: a SizedQueue has a positive one

ASSUME QueueAssumption == /\ IsFiniteSet(Threads)
                          /\ Nobody \notin Threads /\ None \notin Items
                          /\ Sizes \subseteq Nat \ {NoLimit}
                          /\ Payload \in [Threads -> Items]
                          /\ \A t \in Threads :
                               Program["Queue"][t] \cap {"max=", "push timeout", "push nonblock"} = {}

VARIABLES
  queue, closed, max,
  waiting,    \* @waiting: consumers
  pushers,    \* @push_waiters
  holder,     \* who has @mutex
  call,       \* [Threads -> the call a thread is in]
  item,       \* [Threads -> what it pushes, or has popped]
  toWake,     \* [Threads -> those it has taken off a list, to wake them]
  woken,      \* sleepers with m_wakeup set
  events,     \* history: "none", a sleep ended "early", an "error" came out of a call
  pc

vars == <<queue, closed, max, waiting, pushers, holder, call, item, toWake, woken,
          events, pc>>
data == <<queue, closed, max>>

Pops == {"pop", "pop timeout", "pop nonblock"}
Pushes == {"push", "push timeout", "push nonblock"}
Calls == Pops \cup Pushes \cup {"close", "clear", "max="}
Timed == {"pop timeout", "push timeout"}
NonBlocking == {"pop nonblock", "push nonblock"}

\* "doze": in Mutex#sleep, @mutex unlocked and not yet asleep.  "relock", "unwind":
\* at its end, where it takes @mutex back, to go on or to raise.  "thrown": an interrupt
\* has come out of Mutex#lock and leaves the call.
Labels == {"user", "lock", "doze", "asleep", "relock", "unwind", "thrown", "popped",
           "lock list", "drain", "wake", "wakeup", "dead"}
Sleeping == {"doze", "asleep", "relock", "unwind"}

Members(s) == {s[i] : i \in DOMAIN s}
Front(s) == SubSeq(s, 1, Len(s) - 1)
Last(s) == <<s[Len(s)]>>

KeepEntry(s, t) == s    \* mutant of Delete: no ensure clause
\* Array#delete of an entry that occurs once.
Delete(s, t) ==
  IF t \notin Members(s) THEN s
  ELSE LET i == CHOOSE j \in DOMAIN s : s[j] = t
       IN  SubSeq(s, 1, i - 1) \o SubSeq(s, i + 1, Len(s))

Init == /\ queue = <<>> /\ closed = FALSE /\ max \in Sizes \cup {NoLimit}
        /\ waiting = <<>> /\ pushers = <<>> /\ holder = Nobody
        /\ call = [t \in Threads |-> "none"]
        /\ item = [t \in Threads |-> None]
        /\ toWake = [t \in Threads |-> <<>>]
        /\ woken = {} /\ events = "none"
        /\ pc = [t \in Threads |-> "user"]

Goto(t, label) == pc' = [pc EXCEPT ![t] = label]
Happens(e) == events' = IF events = "error" THEN events ELSE e

\* The call is over.
Return(t) == /\ Goto(t, "user")
             /\ call' = [call EXCEPT ![t] = "none"]
             /\ item' = [item EXCEPT ![t] = None]

-------------------------------------------------------------------------------
(* A call, up to the block of its first synchronize.                         *)

Start(t, c) ==
  /\ pc[t] = "user"
  /\ c \in Program[IF max = NoLimit THEN "Queue" ELSE "SizedQueue"][t]
  /\ c \in Pushes /\ max = NoLimit => Len(queue) < MaxLength
  /\ call' = [call EXCEPT ![t] = c]
  /\ item' = [item EXCEPT ![t] = IF c \in Pushes THEN Payload[t] ELSE None]
  /\ Goto(t, "lock")
  /\ UNCHANGED <<data, waiting, pushers, holder, toWake, woken, events>>

\* t has @mutex: it has just come, or is back from the sleep in the block.
Inside(t) == /\ pc[t] \in {"lock", "relock"}
             /\ holder = Nobody

Fresh(t) == pc[t] = "lock"

\* Mutex#sleep: m_wakeup is cleared, then @mutex unlocked.
FallAsleep(t) == /\ Goto(t, "doze")
                 /\ woken' = woken \ {t}
                 /\ UNCHANGED <<data, holder, call, item, toWake, events>>

\* t throws, or returns with nothing more to do.
Quit(t) == Return(t) /\ UNCHANGED <<data, holder, toWake, woken, events>>

-------------------------------------------------------------------------------
(* pop, deq, shift                                                           *)

Shift(t) ==
  /\ Inside(t) /\ call[t] \in Pops
  /\ queue # <<>>
  /\ queue' = Tail(queue)
  /\ item' = [item EXCEPT ![t] = Head(queue)]
  /\ waiting' = Delete(waiting, t)
  /\ Goto(t, "popped")
  /\ UNCHANGED <<closed, max, pushers, holder, call, toWake, woken, events>>

\* nil: the queue is closed, or the one sleep of a timed pop is over.
PopNil(t) ==
  /\ Inside(t) /\ call[t] \in Pops /\ queue = <<>>
  /\ \/ closed /\ call[t] \notin NonBlocking
     \/ call[t] \in Timed /\ ~Fresh(t)
  /\ waiting' = Delete(waiting, t)
  /\ Goto(t, "popped")
  /\ UNCHANGED <<data, pushers, holder, call, item, toWake, woken, events>>

PopRefused(t) ==
  /\ Inside(t) /\ call[t] = "pop nonblock" /\ queue = <<>>
  /\ Quit(t)
  /\ UNCHANGED <<waiting, pushers>>

\* mutant of ListConsumer: a consumer that loops does not list itself again
ListOnce(t) == IF Fresh(t) THEN Append(waiting, t) ELSE waiting
ListConsumer(t) == IF t \in Members(waiting) THEN waiting ELSE Append(waiting, t)

PopWaits(t) ==
  /\ Inside(t) /\ call[t] \in Pops \ NonBlocking
  /\ queue = <<>> /\ ~closed
  /\ Fresh(t) \/ call[t] \notin Timed
  /\ waiting' = ListConsumer(t)
  /\ FallAsleep(t)
  /\ UNCHANGED pushers

\* After super, SizedQueue#pop looks at @push_waiters; wake_push_waiter locks again.
PopReturns(t) ==
  /\ pc[t] = "popped"
  /\ max = NoLimit \/ pushers = <<>>
  /\ Quit(t)
  /\ UNCHANGED <<waiting, pushers>>

SeePushers(t) ==
  /\ pc[t] = "popped"
  /\ max # NoLimit /\ pushers # <<>>
  /\ Goto(t, "lock list")
  /\ UNCHANGED <<data, waiting, pushers, holder, call, item, toWake, woken, events>>

-------------------------------------------------------------------------------
(* push, enq, <<                                                             *)

FullAboveMax == max # NoLimit /\ Len(queue) > max    \* mutant of Full: off by one
Full == max # NoLimit /\ Len(queue) >= max

PushRefused(t) ==
  /\ Inside(t) /\ call[t] \in Pushes
  /\ \/ closed
     \/ Full /\ call[t] \in Timed \cup NonBlocking
  /\ pushers' = Delete(pushers, t)
  /\ Quit(t)
  /\ UNCHANGED waiting

\* A pusher lists itself before the loop, once.
PushWaits(t) ==
  /\ Inside(t) /\ call[t] \in {"push", "push timeout"}
  /\ Full /\ ~closed
  /\ pushers' = IF Fresh(t) THEN Append(pushers, t) ELSE pushers
  /\ FallAsleep(t)
  /\ UNCHANGED waiting

\* t has pushed: it wakes the last consumer in the list, with @mutex held.
Push(t) ==
  /\ Inside(t) /\ call[t] \in Pushes
  /\ ~closed /\ ~Full
  /\ queue' = Append(queue, item[t])
  /\ item' = [item EXCEPT ![t] = None]
  /\ pushers' = Delete(pushers, t)
  /\ toWake' = [toWake EXCEPT ![t] = IF waiting = <<>> THEN <<>> ELSE Last(waiting)]
  /\ waiting' = IF waiting = <<>> THEN waiting ELSE Front(waiting)
  /\ holder' = t
  /\ Goto(t, "wake")
  /\ UNCHANGED <<closed, max, call, woken, events>>

-------------------------------------------------------------------------------
(* close, clear, max=; the second synchronize of pop and close               *)

Close(t) ==
  /\ Inside(t) /\ call[t] = "close"
  /\ closed' = TRUE
  /\ Goto(t, "drain")
  /\ UNCHANGED <<queue, max, waiting, pushers, holder, call, item, toWake, woken, events>>

\* mutant of Rouse: a thread about to sleep does not see m_wakeup
RouseSleepers(t) == IF pc[t] = "asleep" THEN woken \cup {t} ELSE woken
\* Thread#wakeup; a thread that does not sleep clears m_wakeup before it does.
Rouse(t) == IF pc[t] \in {"doze", "asleep"} THEN woken \cup {t} ELSE woken

\* close, without @mutex: the ThreadError for a dead thread is rescued.
Drain(t) ==
  /\ pc[t] = "drain" /\ waiting # <<>>
  /\ woken' = Rouse(Last(waiting)[1])
  /\ waiting' = Front(waiting)
  /\ UNCHANGED <<data, pushers, holder, call, item, toWake, events, pc>>

Drained(t) ==
  /\ pc[t] = "drain" /\ waiting = <<>>
  /\ IF max = NoLimit THEN Quit(t)
     ELSE /\ Goto(t, "lock list")
          /\ UNCHANGED <<data, holder, call, item, toWake, woken, events>>
  /\ UNCHANGED <<waiting, pushers>>

Remaining(n) == SubSeq(pushers, n + 1, Len(pushers))

\* t takes the first n of @push_waiters off the list, to wake them without @mutex.
TakePushers(t, n) ==
  /\ toWake' = [toWake EXCEPT ![t] = SubSeq(pushers, 1, n)]
  /\ pushers' = Remaining(n)
  /\ Goto(t, "wake")
  /\ UNCHANGED <<closed, waiting, holder, call, item, woken, events>>

AtMost(n) == IF n < Len(pushers) THEN n ELSE Len(pushers)

Clear(t) ==
  /\ Inside(t) /\ call[t] = "clear"
  /\ queue' = <<>> /\ UNCHANGED max
  /\ TakePushers(t, Len(pushers))

SetMax(t) ==
  /\ Inside(t) /\ call[t] = "max="
  /\ \E n \in Sizes : /\ max' = n
                      /\ TakePushers(t, IF n > max THEN AtMost(n - max) ELSE 0)
  /\ UNCHANGED queue

\* wake_push_waiter of pop, drain_push_waiters of close.
TakeOneOfTwo == IF Len(pushers) > 1 THEN 1 ELSE 0    \* mutant of TakeOne: off by one
TakeOne == AtMost(1)
LockList(t) ==
  /\ pc[t] = "lock list" /\ holder = Nobody
  /\ TakePushers(t, IF call[t] = "close" THEN Len(pushers) ELSE TakeOne)
  /\ UNCHANGED <<queue, max>>

-------------------------------------------------------------------------------
(* wake_waiter                                                               *)

\* mutant of StatusSleep: Mutex#lock does not call set_current_sleeping
OnlyInCond(t) == pc[t] = "asleep"
\* Thread#status: asleep in a condition variable or in the spin loop of a mutex.
StatusSleep(t) == pc[t] \in {"asleep", "relock", "unwind", "lock", "lock list"}

KeepTarget(t) == UNCHANGED <<data, waiting, pushers, holder, call, item, toWake, events>>
NextTarget(t) == /\ toWake' = [toWake EXCEPT ![t] = Tail(@)]
                 /\ Goto(t, "wake")
                 /\ UNCHANGED <<data, waiting, pushers, holder, call, item, events>>

\* The loop over Thread.pass ends: status is "sleep".
SeeSleep(t) ==
  /\ pc[t] = "wake" /\ toWake[t] # <<>>
  /\ StatusSleep(Head(toWake[t]))
  /\ Goto(t, "wakeup")
  /\ UNCHANGED woken /\ KeepTarget(t)

\* The thread is out of the queue, and asleep somewhere else.
SeeSleepElsewhere(t) ==
  /\ pc[t] = "wake" /\ toWake[t] # <<>>
  /\ pc[Head(toWake[t])] = "user"
  /\ Goto(t, "wakeup")
  /\ UNCHANGED woken /\ KeepTarget(t)

SeeDead(t) ==
  /\ pc[t] \in {"wake", "wakeup"} /\ toWake[t] # <<>>
  /\ pc[Head(toWake[t])] = "dead"
  /\ NextTarget(t) /\ UNCHANGED woken

WakeUp(t) ==
  /\ pc[t] = "wakeup" /\ pc[Head(toWake[t])] # "dead"
  /\ woken' = Rouse(Head(toWake[t]))
  /\ NextTarget(t)

Release(t) == holder' = IF holder = t THEN Nobody ELSE holder

\* The thread died between alive? and wakeup: ThreadError ends the call.
WakeUpDead(t) ==
  /\ pc[t] = "wakeup" /\ pc[Head(toWake[t])] = "dead"
  /\ toWake' = [toWake EXCEPT ![t] = <<>>]
  /\ Release(t) /\ Return(t)
  /\ Happens("error")
  /\ UNCHANGED <<data, waiting, pushers, woken>>

Woke(t) ==
  /\ pc[t] = "wake" /\ toWake[t] = <<>>
  /\ Release(t) /\ Return(t)
  /\ UNCHANGED <<data, waiting, pushers, toWake, woken, events>>

-------------------------------------------------------------------------------
(* Mutex#sleep                                                               *)

OnlyPcMoves == UNCHANGED <<data, waiting, pushers, holder, call, item, toWake>>

StartWait(t) == /\ pc[t] = "doze" /\ t \notin woken
                /\ Goto(t, "asleep")
                /\ OnlyPcMoves /\ UNCHANGED <<woken, events>>

EndWait(t) == /\ pc[t] \in {"doze", "asleep"} /\ t \in woken
              /\ woken' = woken \ {t}
              /\ Goto(t, "relock")
              /\ OnlyPcMoves /\ UNCHANGED events

\* The timeout is over, or somebody else woke the thread, or nobody did
\* (m_sleep_cond.wait has no predicate).
EndWaitEarly(t) == /\ pc[t] = "asleep"
                   /\ Goto(t, "relock")
                   /\ Happens("early") /\ woken' = woken \ {t}
                   /\ OnlyPcMoves

\* Mutex#sleep throws with @mutex held, the ensure clauses run.
Unwind(t) == /\ pc[t] = "unwind" /\ holder = Nobody
             /\ waiting' = Delete(waiting, t)
             /\ pushers' = Delete(pushers, t)
             /\ Quit(t)

\* A raise or kill is delivered: in lock, in sleep, and in the Thread.pass of wake_waiter.
Interrupt(t) ==
  /\ Happens("error")
  /\ UNCHANGED <<data, waiting, pushers>>
  /\ \/ /\ pc[t] \in {"doze", "asleep", "relock"}
        /\ Goto(t, "unwind")
        /\ woken' = woken \ {t}
        /\ UNCHANGED <<holder, call, item, toWake>>
     \/ /\ pc[t] = "lock"
        /\ Goto(t, "thrown")
        /\ UNCHANGED <<holder, call, item, toWake, woken>>
     \/ /\ pc[t] \in {"lock list", "wake"}
        /\ pc[t] = "wake" => toWake[t] # <<>>
        /\ toWake' = [toWake EXCEPT ![t] = <<>>]
        /\ Release(t) /\ Return(t)
        /\ UNCHANGED woken

Thrown(t) == /\ pc[t] = "thrown"
             /\ Quit(t)
             /\ UNCHANGED <<waiting, pushers>>

End(t) == /\ pc[t] = "user"
          /\ Goto(t, "dead")
          /\ OnlyPcMoves /\ UNCHANGED <<woken, events>>

-------------------------------------------------------------------------------
Runtime(t) ==
  \/ Shift(t) \/ PopNil(t) \/ PopRefused(t) \/ PopWaits(t) \/ PopReturns(t) \/ SeePushers(t)
  \/ PushRefused(t) \/ PushWaits(t) \/ Push(t)
  \/ Close(t) \/ Drain(t) \/ Drained(t) \/ Clear(t) \/ SetMax(t) \/ LockList(t)
  \/ SeeSleep(t) \/ SeeDead(t) \/ WakeUp(t) \/ WakeUpDead(t) \/ Woke(t)
  \/ StartWait(t) \/ EndWait(t) \/ Unwind(t) \/ Thrown(t)

RubyCode(t) ==
  \/ \E c \in Calls : Start(t, c)
  \/ SeeSleepElsewhere(t) \/ EndWaitEarly(t) \/ Interrupt(t) \/ End(t)

Next == \E t \in Threads : RubyCode(t) \/ Runtime(t)

Spec == Init /\ [][Next]_vars

-------------------------------------------------------------------------------
Unlisted(calls, list) ==
  {t \in Threads : call[t] \in calls /\ pc[t] \in Sleeping \ {"unwind"} /\ t \notin Members(list)}

\* t is awake, or will be: its wakeup has come, or somebody has it on the way.
IsUp(t) == \/ pc[t] = "relock" \/ t \in woken
           \/ \E u \in Threads : t \in Members(toWake[u])

Undisturbed == events # "error"

\* Every variable has its type, and @mutex is held between steps only by a thread
\* that wakes a consumer.
TypeOK ==
  /\ queue \in Seq(Items) /\ closed \in BOOLEAN /\ max \in Sizes \cup {NoLimit}
  /\ waiting \in Seq(Threads) /\ pushers \in Seq(Threads)
  /\ call \in [Threads -> Calls \cup {"none"}]
  /\ item \in [Threads -> Items \cup {None}]
  /\ toWake \in [Threads -> Seq(Threads)]
  /\ woken \subseteq Threads
  /\ events \in {"none", "early", "error"}
  /\ pc \in [Threads -> Labels]
  /\ holder # Nobody =>
       /\ holder \in Threads
       /\ pc[holder] \in {"wake", "wakeup"} /\ call[holder] \in Pushes

\* The lists name threads that wait in the queue, each once, whatever ended the
\* waits before: no wakeup goes to a thread that left with its entry in place.
NoStaleWaiters ==
  /\ \A t \in Members(waiting) : call[t] \in Pops /\ pc[t] \in Sleeping
  /\ \A t \in Members(pushers) : call[t] \in Pushes /\ pc[t] \in Sleeping
  /\ \A s \in {waiting, pushers} : \A i, j \in DOMAIN s : s[i] = s[j] => i = j

\* The state of the queue is well-formed and its lists are true.
ListsAreTrue == TypeOK /\ NoStaleWaiters

\* Unless a raise or kill hits the queue: while consumers wait to be woken, every item
\* has a consumer of its own that has been woken for it and not come yet.  So no
\* consumer sleeps beside an item nobody comes for, also when others overtake it.
EveryItemHasATaker ==
  Undisturbed =>
    /\ waiting # <<>> => Len(queue) <= Cardinality(Unlisted(Pops, waiting))
    /\ \A t \in Unlisted(Pops, waiting) : IsUp(t)

\* The same for producers: while some are listed, every free place has a pop on the
\* way to offer it or a producer on the way to take it.
RoomIsOffered ==
  Undisturbed /\ ~closed /\ pushers # <<>> =>
    max <= Len(queue)
           + Cardinality({t \in Threads : call[t] \in Pops /\ pc[t] \in {"popped", "lock list"}})
           + Cardinality({t \in Unlisted(Pushes, pushers) : IsUp(t)})

\* When the queue is closed, every consumer that sleeps and everyone listed is woken or
\* has a close on its way to it.
CloseReachesTheListed ==
  Undisturbed /\ closed =>
    /\ \A t \in Threads : call[t] \in Pops /\ pc[t] \in {"doze", "asleep"} =>
         \/ IsUp(t)
         \/ t \in Members(waiting) /\ \E u \in Threads : pc[u] = "drain"
    /\ pushers # <<>> =>
         \E u \in Threads : call[u] = "close" /\ pc[u] \in {"drain", "lock list"}

\* Without timeouts and stray wakeups, whoever wakes producers without @mutex finds
\* them asleep in the queue: it never spins for a thread that has gone on, nor wakes
\* it out of something else.
WokenPusherWaits ==
  events = "none" =>
    \A t \in Threads : call[t] \notin Pushes =>
      \A u \in Members(toWake[t]) : call[u] \in Pushes /\ pc[u] \in {"doze", "asleep"}

\* A push that spins in wake_waiter with @mutex held waits for a thread that sleeps or
\* gets there without @mutex, also when it has been interrupted, has timed out or needs
\* @mutex back: the two never wait for each other.
PushLetsGo ==
  \A t \in Threads : holder = t /\ pc[t] = "wake" =>
    \A u \in Members(toWake[t]) : StatusSleep(u) \/ pc[u] = "doze"

\* Whoever wakes others finds them where a wakeup serves, and does not wait for a thread
\* that waits for it.
WakersMeetSleepers == WokenPusherWaits /\ PushLetsGo

\* Where a call has not taken effect yet, and where it never will.
Asking == {"lock", "doze", "asleep", "relock"}
Struck == {"unwind", "thrown"}

\* What a thread has asked a channel for.
Asked(t) ==
  IF call[t] \notin Pops \cup Pushes THEN "nothing"
  ELSE IF pc[t] \in Struck THEN "struck"
  ELSE IF pc[t] \notin Asking THEN "answer"
  ELSE CASE call[t] = "pop" -> "take"
         [] call[t] = "push" -> "put"
         [] call[t] \in Pops \ {"pop"} -> "take impatiently"
         [] OTHER -> "put impatiently"

AsChannel == INSTANCE Channel WITH
  buffer <- queue, capacity <- max,
  asked <- [t \in Threads |-> Asked(t)],
  cargo <- item

\* The queue is a channel: first in, first out, never above max, every answer of a call
\* is right at a moment within the call, and only an interrupt ends a call without one,
\* or loses an item.
ImplementsChannel == AsChannel!Spec

-------------------------------------------------------------------------------
(* What makes the properties inductive.                                      *)

\* What a thread has in its hands, by where it is in its call.
CallsAreTrue ==
  \A t \in Threads :
    /\ pc[t] \in {"user", "dead"} => call[t] = "none"
    /\ call[t] \notin Pops \cup Pushes => item[t] = None
    /\ pc[t] \in Sleeping => call[t] \in (Pops \cup Pushes) \ NonBlocking
    /\ pc[t] \in {"lock"} \cup Sleeping =>
         /\ call[t] \in Pops => item[t] = None
         /\ call[t] \in Pushes => item[t] \in Items
    /\ pc[t] = "wakeup" => toWake[t] # <<>>
    /\ call[t] = "max=" => max # NoLimit

IInv == TypeOK /\ NoStaleWaiters /\ CallsAreTrue

\* Where a thread is in the code that wakes others.  A push keeps @mutex until the
\* consumer it has picked is woken: it finds it in its sleep, or on the way out of it.
WakersAreTrue ==
  \A t \in Threads :
    /\ pc[t] = "popped" => call[t] \in Pops
    /\ pc[t] = "drain" => call[t] = "close"
    /\ pc[t] = "lock list" => call[t] \in Pops \cup {"close"}
    /\ toWake[t] # <<>> => pc[t] \in {"wake", "wakeup"}
    /\ toWake[t] # <<>> /\ call[t] \in Pushes => holder = t
    /\ call[t] \in Pushes => \A u \in Members(toWake[t]) : call[u] \in Pops /\ pc[u] \in Sleeping

Once(s) == \A i, j \in DOMAIN s : s[i] = s[j] => i = j

\* Nobody has woken u, and nobody but the threads in wakers is about to.
Slumbers(u, wakers) ==
  /\ call[u] \in Pushes /\ pc[u] \in {"doze", "asleep"} /\ u \notin woken
  /\ \A v \in Threads \ wakers : call[v] \notin Pushes => u \notin Members(toWake[v])

\* What makes WokenPusherWaits inductive: every wakeup that is sent is the only one.
OneWakerEach ==
  events = "none" =>
    /\ \A u \in Members(pushers) : Slumbers(u, {})
    /\ \A t \in Threads : call[t] \notin Pushes =>
         /\ Once(toWake[t])
         /\ \A u \in Members(toWake[t]) : Slumbers(u, {t}) /\ u \notin Members(pushers)

\* What makes CloseReachesTheListed inductive: the consumers that are off the list are up.
TakersAreUp ==
  Undisturbed => /\ \A t \in Unlisted(Pops, waiting) : IsUp(t)
                 /\ \A t \in Threads : pc[t] # "unwind"

ListsAreDrained ==
  /\ pushers # <<>> => max # NoLimit
  /\ closed /\ waiting # <<>> => \E u \in Threads : pc[u] = "drain"
  /\ Undisturbed /\ closed /\ pushers # <<>> =>
       \E u \in Threads : call[u] = "close" /\ pc[u] \in {"drain", "lock list"}

WInv == IInv /\ WakersAreTrue /\ OneWakerEach /\ TakersAreUp /\ ListsAreDrained

===============================================================================
