---------------------------- MODULE Monitor_proofs ----------------------------
(***************************************************************************)
(* For any number of threads, any depth and any length of the waiting      *)
(* list: a monitor excludes and keeps count over its waits, waiters stay   *)
(* within reach of a signal, and signals and broadcasts wake those they    *)
(* should.                                                                 *)
(***************************************************************************)
EXTENDS Monitor, SequenceTheorems, FiniteSetTheorems, TLAPS

\* What taking the first of a list leaves of its members.
LEMMA TailMembers ==
  ASSUME NEW S, NEW s \in Seq(S), s # <<>>
  PROVE  /\ Head(s) \in S /\ Tail(s) \in Seq(S) /\ Head(s) = s[1] /\ 1 \in DOMAIN s
         /\ \A i \in DOMAIN Tail(s) : i + 1 \in DOMAIN s /\ Tail(s)[i] = s[i + 1]
         /\ Members(s) \ {Head(s)} \subseteq Members(Tail(s))
<1>1. /\ Head(s) \in S /\ Tail(s) \in Seq(S) /\ Len(Tail(s)) = Len(s) - 1
      /\ \A i \in 1..Len(Tail(s)) : Tail(s)[i] = s[i + 1]
  BY HeadTailProperties
<1>2. Len(s) \in Nat /\ Len(s) > 0 /\ DOMAIN s = 1..Len(s) /\ DOMAIN Tail(s) = 1..Len(Tail(s))
  BY <1>1, LenProperties, EmptySeq
<1>3. Head(s) = s[1]
  BY HeadTailProperties
<1>4. ASSUME NEW x \in Members(s), x # Head(s) PROVE x \in Members(Tail(s))
  <2>1. PICK i \in 1..Len(s) : x = s[i]
    BY <1>2 DEF Members
  <2>2. i # 1 /\ i \in Nat
    BY <2>1, <1>2, <1>3, <1>4
  <2>3. i - 1 \in 1..Len(Tail(s)) /\ (i - 1) + 1 = i
    BY <2>1, <2>2, <1>1, <1>2
  <2>4. Tail(s)[i - 1] = x
    BY <2>1, <2>3, <1>1
  <2> QED BY <2>3, <2>4, <1>2 DEF Members
<1> QED BY <1>1, <1>2, <1>3, <1>4

\* What listing a thread adds.
LEMMA AppendMembers ==
  ASSUME NEW S, NEW s \in Seq(S), NEW x \in S
  PROVE  /\ Append(s, x) \in Seq(S)
         /\ Members(Append(s, x)) = Members(s) \cup {x}
         /\ DOMAIN Append(s, x) = DOMAIN s \cup {Len(s) + 1}
         /\ \A i \in DOMAIN s : Append(s, x)[i] = s[i]
         /\ Append(s, x)[Len(s) + 1] = x
<1>1. /\ Append(s, x) \in Seq(S) /\ Len(Append(s, x)) = Len(s) + 1
      /\ \A i \in 1..Len(s) : Append(s, x)[i] = s[i]
      /\ Append(s, x)[Len(s) + 1] = x
  BY AppendProperties
<1>2. Len(s) \in Nat /\ DOMAIN s = 1..Len(s) /\ DOMAIN Append(s, x) = 1..(Len(s) + 1)
  BY <1>1, LenProperties
<1>3. DOMAIN Append(s, x) = DOMAIN s \cup {Len(s) + 1}
  BY <1>2
<1>4. Members(Append(s, x)) = Members(s) \cup {x}
  <2> DEFINE as == Append(s, x)
             dom == DOMAIN s
             last == Len(s) + 1
  <2>1. DOMAIN as = dom \cup {last} /\ as[last] = x /\ \A i \in dom : as[i] = s[i]
    BY <1>1, <1>2, <1>3
  <2>2. Members(as) = {as[i] : i \in dom \cup {last}} /\ Members(s) = {s[i] : i \in dom}
    BY <2>1 DEF Members
  <2> HIDE DEF as, dom, last
  <2>3. {as[i] : i \in dom \cup {last}} = {s[i] : i \in dom} \cup {x}
    BY <2>1
  <2> QED BY <2>2, <2>3 DEF as
<1> QED BY <1>1, <1>2, <1>3, <1>4

-------------------------------------------------------------------------------
\* Before any step nobody is inside and the list is empty.
LEMMA InitStep == Init => IInv
<1> SUFFICES ASSUME Init PROVE IInv
  OBVIOUS
<1> USE MonitorAssumption
<1>1. waiting \in Seq(Threads) /\ DOMAIN waiting = {} /\ Members(waiting) = {}
  BY EmptySeq DEF Init, Members
<1>2. TypeOK
  BY <1>1 DEF Init, TypeOK, Labels
<1>3. Sleepers = {}
  BY DEF Init, Sleepers
<1> QED BY <1>1, <1>2, <1>3 DEF Init, IInv, HolderInv, OwnerInv, DepthInv, ListedInv, WokenInv,
                                ListIsTrue, NoForgottenWaiter

\* Every step keeps the types: counts and depths stay below the bound because the
\* count of an owner is how deep it is.
LEMMA TypeStep == ASSUME IInv, [Next]_vars PROVE TypeOK'
<1> USE MonitorAssumption DEF Labels, Goto
<1>1. CASE UNCHANGED vars
  BY <1>1 DEF IInv, TypeOK, vars
<1>2. ASSUME NEW t \in Threads,
             \/ Enter(t) \/ TakeMutex(t) \/ TryEnter(t) \/ EnterInterrupted(t)
             \/ StartWait(t) \/ EndWait(t) \/ EndWaitEarly(t) \/ SleepInMutex(t)
      PROVE TypeOK'
  <2>1. CASE Enter(t) \/ TakeMutex(t)
    BY <2>1 DEF IInv, TypeOK, Enter, TakeMutex, monitor, condition
  <2>2. CASE TryEnter(t) \/ EnterInterrupted(t)
    BY <2>2 DEF IInv, TypeOK, TryEnter, EnterInterrupted, monitor, condition
  <2>3. CASE StartWait(t) \/ EndWait(t) \/ EndWaitEarly(t)
    BY <2>3 DEF IInv, TypeOK, StartWait, EndWait, EndWaitEarly, monitor, condition, Happens
  <2>4. CASE SleepInMutex(t)
    BY <2>4 DEF IInv, TypeOK, SleepInMutex, monitor, condition, Happens
  <2> QED BY <1>2, <2>1, <2>2, <2>3, <2>4
<1>3. ASSUME NEW t \in Threads, Reenter(t) \/ Recorded(t) \/ Exit(t) \/ Die(t) PROVE TypeOK'
  <2>1. depth[t] \in 0..MaxDepth /\ count \in 0..MaxDepth /\ 1 \in 0..MaxDepth /\ 0 \in 0..MaxDepth
    BY DEF IInv, TypeOK
  <2>2. pc[t] = "user" /\ owner = t => count = depth[t] /\ depth[t] > 0
    BY DEF IInv, OwnerInv
  <2>3. CASE Reenter(t)
    <3>1. count + 1 \in 0..MaxDepth /\ depth[t] + 1 \in 0..MaxDepth
      BY <2>1, <2>2, <2>3 DEF Reenter
    <3> QED BY <2>3, <3>1 DEF IInv, TypeOK, Reenter, condition
  <2>4. CASE Exit(t)
    <3>1. count - 1 \in 0..MaxDepth /\ depth[t] - 1 \in 0..MaxDepth
      BY <2>1, <2>2, <2>4 DEF Exit
    <3> QED BY <2>4, <3>1 DEF IInv, TypeOK, Exit, LastExit, condition
  <2>5. CASE Recorded(t) \/ Die(t)
    <3>1. /\ depth' \in [Threads -> 0..MaxDepth] /\ count' \in 0..MaxDepth
          /\ holder' \in Threads \cup {Nobody} /\ owner' \in Threads \cup {Nobody}
      BY <2>1, <2>5, SMTT(30) DEF IInv, TypeOK, Recorded, Die
    <3>2. /\ pc' \in [Threads -> Labels] /\ UNCHANGED <<waiting, cvHolder, woken, saved, events>>
          /\ \A u \in Threads : pc'[u] = "broadcast" <=> pc[u] = "broadcast"
      BY <2>5 DEF IInv, TypeOK, Recorded, Die, condition
    <3> QED BY <3>1, <3>2 DEF IInv, TypeOK
  <2> QED BY <1>3, <2>3, <2>4, <2>5
<1>4. ASSUME NEW t \in Threads, WaitForCond(t) \/ Relock(t) \/ WaitInterrupted(t) PROVE TypeOK'
  <2>1. /\ saved[t] \in 0..MaxDepth /\ count \in 0..MaxDepth /\ 0 \in 0..MaxDepth
        /\ saved \in [Threads -> 0..MaxDepth]
    BY DEF IInv, TypeOK
  <2>2. /\ saved' \in [Threads -> 0..MaxDepth] /\ count' \in 0..MaxDepth
        /\ holder' \in Threads \cup {Nobody} /\ owner' \in Threads \cup {Nobody}
        /\ events' \subseteq {"early", "outside"}
    <3>1. CASE WaitForCond(t)
      BY <3>1, <2>1 DEF WaitForCond, IInv, TypeOK
    <3>2. CASE Relock(t)
      BY <3>2, <2>1 DEF Relock, BackInside, Restored, IInv, TypeOK
    <3>3. CASE WaitInterrupted(t)
      BY <3>3, <2>1 DEF WaitInterrupted, BackInside, Restored, IInv, TypeOK
    <3> QED BY <1>4, <3>1, <3>2, <3>3
  <2>3. /\ pc' \in [Threads -> Labels] /\ UNCHANGED <<waiting, cvHolder, woken, depth>>
        /\ \A u \in Threads : pc'[u] = "broadcast" <=> pc[u] = "broadcast"
    BY <1>4 DEF WaitForCond, Relock, WaitInterrupted, BackInside, IInv, TypeOK, condition
  <2> QED BY <2>2, <2>3 DEF IInv, TypeOK
<1>5. ASSUME NEW t \in Threads, JoinWaiting(t) PROVE TypeOK'
  BY <1>5, AppendMembers DEF IInv, TypeOK, JoinWaiting, monitor
<1>6. ASSUME NEW t \in Threads, Broadcast(t) \/ Broadcasted(t) PROVE TypeOK'
  <2>1. CASE Broadcast(t)
    BY <2>1 DEF IInv, TypeOK, Broadcast, Unlock, monitor
  <2>2. CASE Broadcasted(t)
    BY <2>2 DEF IInv, TypeOK, Broadcasted, Unlock, monitor
  <2> QED BY <1>6, <2>1, <2>2
<1>7. ASSUME NEW t \in Threads, Signal(t) \/ BroadcastWakes(t) PROVE TypeOK'
  <2>1. waiting \in Seq(Threads) /\ waiting # <<>>
    BY <1>7 DEF IInv, TypeOK, Signal, BroadcastWakes, WakeFirst
  <2>2. Head(waiting) \in Threads /\ Tail(waiting) \in Seq(Threads)
    BY <2>1, TailMembers
  <2>3. /\ waiting' \in Seq(Threads) /\ woken' \subseteq Threads
        /\ events' \subseteq {"early", "outside"}
    BY <1>7, <2>2 DEF IInv, TypeOK, Signal, BroadcastWakes, WakeFirst, Rouse
  <2>4. /\ UNCHANGED <<holder, owner, count, saved, depth>>
        /\ \/ UNCHANGED <<pc, cvHolder>>
           \/ pc[t] = "broadcast" /\ pc' = [pc EXCEPT ![t] = "user"] /\ cvHolder' = Nobody
    BY <1>7 DEF Signal, BroadcastWakes, Unlock, monitor
  <2>5. cvHolder' \in Threads \cup {Nobody} /\ pc' \in [Threads -> Labels]
    BY <2>4 DEF IInv, TypeOK
  <2>6. \A u \in Threads : cvHolder' = u <=> pc'[u] = "broadcast"
    BY <2>4 DEF IInv, TypeOK
  <2> QED BY <2>3, <2>4, <2>5, <2>6 DEF IInv, TypeOK
<1> QED BY <1>1, <1>2, <1>3, <1>4, <1>5, <1>6, <1>7 DEF Next

-------------------------------------------------------------------------------
\* Whoever takes or gives up the mutex, becomes or ceases to be the owner, does both in
\* the order in which the others cannot see the difference.
LEMMA MonitorStep ==
  ASSUME IInv, [Next]_vars PROVE HolderInv' /\ OwnerInv' /\ DepthInv'
<1> USE MonitorAssumption DEF IInv, TypeOK, Goto
<1> USE DEF HolderInv, OwnerInv, DepthInv
<1>1. CASE UNCHANGED vars
  BY <1>1 DEF vars
<1>2. ASSUME NEW t \in Threads, Reenter(t) PROVE HolderInv' /\ OwnerInv' /\ DepthInv'
  BY <1>2 DEF Reenter
<1>3. ASSUME NEW t \in Threads, Exit(t) PROVE HolderInv' /\ OwnerInv' /\ DepthInv'
  BY <1>3 DEF Exit, LastExit
<1>4. ASSUME NEW t \in Threads,
             Enter(t) \/ TakeMutex(t) \/ TryEnter(t) \/ EnterInterrupted(t) \/ Recorded(t)
      PROVE HolderInv' /\ OwnerInv' /\ DepthInv'
  <2>1. CASE Enter(t) \/ TakeMutex(t)
    BY <2>1 DEF Enter, TakeMutex, monitor
  <2>2. CASE TryEnter(t) \/ EnterInterrupted(t)
    BY <2>2 DEF TryEnter, EnterInterrupted, monitor
  <2>3. CASE Recorded(t)
    BY <2>3 DEF Recorded, monitor
  <2> QED BY <1>4, <2>1, <2>2, <2>3
<1>5. ASSUME NEW t \in Threads,
             \/ JoinWaiting(t) \/ SleepInMutex(t) \/ StartWait(t) \/ EndWait(t) \/ EndWaitEarly(t)
             \/ Broadcast(t) \/ Broadcasted(t) \/ Die(t)
      PROVE HolderInv' /\ OwnerInv' /\ DepthInv'
  <2>1. CASE JoinWaiting(t) \/ StartWait(t)
    BY <2>1 DEF JoinWaiting, StartWait, monitor
  <2>5. CASE EndWait(t) \/ EndWaitEarly(t)
    BY <2>5 DEF EndWait, EndWaitEarly, monitor
  <2>2. CASE SleepInMutex(t)
    BY <2>2 DEF SleepInMutex
  <2>3. CASE Broadcast(t)
    BY <2>3 DEF Broadcast, monitor
  <2>6. CASE Broadcasted(t)
    BY <2>6 DEF Broadcasted, monitor
  <2>4. CASE Die(t)
    BY <2>4 DEF Die
  <2> QED BY <1>5, <2>1, <2>2, <2>3, <2>4, <2>5, <2>6
<1>6. ASSUME NEW t \in Threads, WaitForCond(t) PROVE HolderInv' /\ OwnerInv' /\ DepthInv'
  BY <1>6 DEF WaitForCond
<1>7. ASSUME NEW t \in Threads, Relock(t) \/ WaitInterrupted(t)
      PROVE HolderInv' /\ OwnerInv' /\ DepthInv'
  BY <1>7 DEF Relock, WaitInterrupted, BackInside, Restored
<1>8. ASSUME NEW t \in Threads, Signal(t) \/ BroadcastWakes(t)
      PROVE HolderInv' /\ OwnerInv' /\ DepthInv'
  BY <1>8 DEF Signal, BroadcastWakes, Unlock, monitor
<1> QED BY <1>1, <1>2, <1>3, <1>4, <1>5, <1>6, <1>7, <1>8 DEF Next

-------------------------------------------------------------------------------
ListInv == ListedInv /\ WokenInv /\ ListIsTrue /\ NoForgottenWaiter

\* What does not concern threads between their listing and the end of their sleep
\* leaves the list as true as it was.
LEMMA QuietStep ==
  ASSUME IInv, UNCHANGED <<waiting, woken, events>>,
         \A u \in Threads : \/ pc'[u] = pc[u]
                            \/ pc[u] \notin {"listed", "doze", "asleep"} /\ pc'[u] \notin {"listed", "doze", "asleep"}
  PROVE  ListInv'
<1>1. waiting \in Seq(Threads) /\ woken \subseteq Threads
  BY DEF IInv, TypeOK
<1>2. \A i \in DOMAIN waiting : waiting[i] \in Threads
  BY <1>1, ElementOfSeq, LenProperties
<1>3. ListedInv' /\ WokenInv'
  BY <1>1 DEF IInv, ListedInv, WokenInv
<1>4. ListIsTrue'
  BY <1>2 DEF IInv, ListIsTrue
<1>5. Sleepers' = Sleepers
  BY DEF Sleepers
<1> QED BY <1>3, <1>4, <1>5 DEF IInv, NoForgottenWaiter, ListInv

\* A thread adds its entry before it sleeps, and clears m_wakeup before it does.
LEMMA SleeperStep ==
  ASSUME IInv, NEW t \in Threads, JoinWaiting(t) \/ SleepInMutex(t) \/ StartWait(t)
  PROVE  ListInv'
<1>1. /\ waiting \in Seq(Threads) /\ woken \subseteq Threads /\ pc \in [Threads -> Labels]
      /\ \A i \in DOMAIN waiting : waiting[i] \in Threads
  BY ElementOfSeq, LenProperties DEF IInv, TypeOK
<1>2. CASE JoinWaiting(t)
  <2>1. /\ waiting' = Append(waiting, t) /\ UNCHANGED <<woken, events>>
        /\ pc[t] = "join" /\ pc' = [pc EXCEPT ![t] = "listed"]
    BY <1>2 DEF JoinWaiting, Goto
  <2>2. /\ Members(waiting)' = Members(waiting) \cup {t}
        /\ DOMAIN waiting' = DOMAIN waiting \cup {Len(waiting) + 1}
        /\ \A i \in DOMAIN waiting : waiting'[i] = waiting[i]
        /\ waiting'[Len(waiting) + 1] = t
    BY <1>1, <2>1, AppendMembers DEF Members
  <2>3. ListedInv' /\ WokenInv'
    BY <1>1, <2>1, <2>2 DEF IInv, ListedInv, WokenInv
  <2>4. t \notin woken
    BY <2>1 DEF IInv, WokenInv
  <2>5. ListIsTrue'
    <3>1. SUFFICES ASSUME events = {} PROVE ListIsTrue'
      BY <2>1 DEF ListIsTrue
    <3>2. \A i \in DOMAIN waiting : /\ pc[waiting[i]] \in {"listed", "doze", "asleep"}
                                    /\ waiting[i] \notin woken /\ waiting[i] # t
      BY <3>1, <2>1 DEF IInv, ListIsTrue
    <3>3. \A i, j \in DOMAIN waiting : waiting[i] = waiting[j] => i = j
      BY <3>1 DEF IInv, ListIsTrue
    <3>4. \A i \in DOMAIN waiting' : /\ pc'[waiting'[i]] \in {"listed", "doze", "asleep"}
                                     /\ waiting'[i] \notin woken'
      BY <1>1, <2>1, <2>2, <2>4, <3>2
    <3>5. \A i, j \in DOMAIN waiting' : waiting'[i] = waiting'[j] => i = j
      BY <2>2, <3>2, <3>3
    <3> QED BY <3>4, <3>5 DEF ListIsTrue
  <2>6. Sleepers' = Sleepers
    BY <1>1, <2>1 DEF Sleepers
  <2> QED BY <2>1, <2>2, <2>3, <2>5, <2>6 DEF IInv, NoForgottenWaiter, ListInv
<1>3. CASE SleepInMutex(t)
  <2>1. /\ UNCHANGED <<waiting, events>> /\ woken' = woken \ {t}
        /\ pc[t] = "listed" /\ pc' = [pc EXCEPT ![t] = "doze"]
    BY <1>3 DEF SleepInMutex, Goto
  <2>2. ListedInv' /\ WokenInv' /\ ListIsTrue'
    BY <1>1, <2>1 DEF IInv, ListedInv, WokenInv, ListIsTrue
  <2>3. Sleepers' \subseteq Sleepers \cup {t}
    BY <1>1, <2>1 DEF Sleepers
  <2>4. "outside" \notin events => t \in Members(waiting)
    BY <2>1 DEF IInv, ListedInv
  <2> QED BY <2>1, <2>2, <2>3, <2>4 DEF IInv, NoForgottenWaiter, ListInv, Members
<1>4. CASE StartWait(t)
  <2>1. /\ UNCHANGED <<waiting, events, woken>>
        /\ pc[t] = "doze" /\ pc' = [pc EXCEPT ![t] = "asleep"]
    BY <1>4 DEF StartWait, condition, Goto
  <2>2. ListedInv' /\ WokenInv' /\ ListIsTrue'
    BY <1>1, <2>1 DEF IInv, ListedInv, WokenInv, ListIsTrue
  <2>3. Sleepers' = Sleepers
    BY <1>1, <2>1 DEF Sleepers
  <2> QED BY <2>1, <2>2, <2>3 DEF IInv, NoForgottenWaiter, ListInv, Members
<1> QED BY <1>2, <1>3, <1>4

\* A sleeper whose wakeup has come is not on the list; one that goes without leaves
\* its entry, which is an event.
LEMMA LeaverStep ==
  ASSUME IInv, NEW t \in Threads,
         EndWait(t) \/ EndWaitEarly(t) \/ (WaitInterrupted(t) /\ pc[t] = "listed")
  PROVE  ListInv'
<1>1. /\ woken \subseteq Threads /\ pc \in [Threads -> Labels]
      /\ \A i \in DOMAIN waiting : waiting[i] \in Threads
  BY ElementOfSeq, LenProperties DEF IInv, TypeOK
<1>2. /\ UNCHANGED waiting /\ events \subseteq events'
      /\ ("outside" \in events' => "outside" \in events)
      /\ \A u \in Threads \ {t} : pc'[u] = pc[u]
      /\ pc'[t] \in {"relock", "user"}
      /\ \/ woken' = woken \ {t}
         \/ woken' = woken /\ pc[t] = "listed"
  <2>1. CASE EndWait(t)
    BY <2>1, <1>1 DEF EndWait, Goto
  <2>2. CASE EndWaitEarly(t)
    BY <2>2, <1>1 DEF EndWaitEarly, Goto, Happens
  <2>3. CASE WaitInterrupted(t) /\ pc[t] = "listed"
    BY <2>3, <1>1 DEF WaitInterrupted, BackInside, Goto, condition
  <2> QED BY <2>1, <2>2, <2>3
<1>3. ListedInv' /\ WokenInv'
  BY <1>1, <1>2 DEF IInv, ListedInv, WokenInv, Members
<1>4. ListIsTrue'
  <2>1. CASE EndWait(t)
    BY <1>1, <1>2, <2>1 DEF EndWait, IInv, ListIsTrue
  <2>2. CASE EndWaitEarly(t) \/ (WaitInterrupted(t) /\ pc[t] = "listed")
    <3>1. events' # {}
      BY <2>2 DEF EndWaitEarly, WaitInterrupted, Happens
    <3> QED BY <3>1 DEF ListIsTrue
  <2> QED BY <2>1, <2>2
<1>5. Sleepers' \subseteq Sleepers
  BY <1>1, <1>2 DEF Sleepers
<1> QED BY <1>2, <1>3, <1>4, <1>5 DEF IInv, NoForgottenWaiter, ListInv, Members

\* A wakeup takes the first entry, and its sleeper with it: every other stays.
LEMMA WakeStep ==
  ASSUME IInv, NEW t \in Threads, WakeFirst(t),
         \A u \in Threads : \/ pc'[u] = pc[u]
                            \/ pc[u] = "broadcast" /\ pc'[u] = "user"
  PROVE  ListInv'
<1> DEFINE first == Head(waiting)
<1>1. /\ woken \subseteq Threads /\ waiting \in Seq(Threads) /\ waiting # <<>>
  BY DEF IInv, TypeOK, WakeFirst
<1>2. /\ first \in Threads /\ first = waiting[1] /\ 1 \in DOMAIN waiting
      /\ \A i \in DOMAIN waiting' : i + 1 \in DOMAIN waiting /\ waiting'[i] = waiting[i + 1]
      /\ Members(waiting) \ {first} \subseteq Members(waiting')
  BY <1>1, TailMembers DEF WakeFirst
<1>3. /\ woken' = IF pc[first] \in {"doze", "asleep"} THEN woken \cup {first} ELSE woken
      /\ events' = IF pc[first] = "listed" THEN events \cup {"outside"} ELSE events
  BY DEF WakeFirst, Rouse, Outside
<1> HIDE DEF first
<1>4. ListedInv'
  <2>1. ASSUME "outside" \notin events', NEW u \in Threads, pc'[u] = "listed"
        PROVE u \in Members(waiting')
    <3>1. pc[u] = "listed" /\ "outside" \notin events /\ u # first
      BY <2>1, <1>3
    <3> QED BY <3>1, <1>2 DEF IInv, ListedInv
  <2> QED BY <2>1 DEF ListedInv
<1>5. WokenInv'
  BY <1>1, <1>2, <1>3 DEF IInv, WokenInv
<1>6. ListIsTrue'
  <2>1. SUFFICES ASSUME events' = {} PROVE ListIsTrue'
    BY DEF ListIsTrue
  <2>2. events = {} /\ pc[first] # "listed"
    BY <2>1, <1>3
  <2>3. \A i \in DOMAIN waiting : /\ pc[waiting[i]] \in {"listed", "doze", "asleep"}
                                  /\ waiting[i] \notin woken
    BY <2>2 DEF IInv, ListIsTrue
  <2>4. \A i, j \in DOMAIN waiting : waiting[i] = waiting[j] => i = j
    BY <2>2 DEF IInv, ListIsTrue
  <2>5. woken' \subseteq woken \cup {first}
    BY <1>3
  <2>6. DOMAIN waiting' \subseteq Nat /\ \A i \in DOMAIN waiting' : i # 0
    BY <1>1, HeadTailProperties, LenProperties DEF WakeFirst
  <2>7. ASSUME NEW i \in DOMAIN waiting'
        PROVE  pc'[waiting'[i]] \in {"listed", "doze", "asleep"} /\ waiting'[i] \notin woken'
    <3>1. i + 1 \in DOMAIN waiting /\ waiting'[i] = waiting[i + 1] /\ i + 1 # 1
      BY <1>2, <2>6, <2>7
    <3>2. waiting[i + 1] # first /\ waiting[i + 1] \in Threads
      BY <3>1, <1>1, <1>2, <2>4, ElementOfSeq, LenProperties
    <3> QED BY <3>1, <3>2, <2>3, <2>5
  <2>8. ASSUME NEW i \in DOMAIN waiting', NEW j \in DOMAIN waiting', waiting'[i] = waiting'[j]
        PROVE  i = j
    <3>1. i + 1 = j + 1
      BY <2>4, <2>8, <1>2
    <3> QED BY <3>1, <2>6
  <2> QED BY <2>7, <2>8 DEF ListIsTrue
<1>7. Sleepers' \subseteq Sleepers \ {first}
  BY <1>1, <1>2, <1>3 DEF Sleepers
<1>8. "outside" \notin events' => "outside" \notin events
  BY <1>3
<1> QED BY <1>2, <1>4, <1>5, <1>6, <1>7, <1>8 DEF IInv, NoForgottenWaiter, ListInv

\* Every step keeps what is true of the list.
LEMMA ListStep == ASSUME IInv, [Next]_vars PROVE ListInv'
<1>1. CASE UNCHANGED vars
  BY <1>1, QuietStep DEF vars
<1>2. pc \in [Threads -> Labels]
  BY DEF IInv, TypeOK
<1>3. ASSUME NEW t \in Threads,
             \/ Reenter(t) \/ Enter(t) \/ TakeMutex(t) \/ TryEnter(t) \/ EnterInterrupted(t)
             \/ Recorded(t) \/ Exit(t)
      PROVE ListInv'
  <2>1. /\ UNCHANGED <<waiting, woken, events>> /\ pc[t] \in {"user", "enter", "record"}
        /\ \/ UNCHANGED pc
           \/ \E l \in {"user", "enter", "record"} : pc' = [pc EXCEPT ![t] = l]
    BY <1>3 DEF Reenter, Enter, TakeMutex, TryEnter, EnterInterrupted, Recorded, Exit,
                condition, Goto
  <2> QED BY <2>1, <1>2, QuietStep
<1>4. ASSUME NEW t \in Threads,
             WaitForCond(t) \/ Relock(t) \/ Broadcast(t) \/ Broadcasted(t) \/ Die(t)
      PROVE ListInv'
  <2>1. /\ UNCHANGED <<waiting, woken, events>>
        /\ pc[t] \in {"user", "relock", "broadcast"}
        /\ \E l \in {"join", "user", "broadcast", "dead"} : pc' = [pc EXCEPT ![t] = l]
    BY <1>4 DEF WaitForCond, Relock, BackInside, Broadcast, Broadcasted, Die, condition, Goto
  <2> QED BY <2>1, <1>2, QuietStep
<1>5. ASSUME NEW t \in Threads, JoinWaiting(t) \/ SleepInMutex(t) \/ StartWait(t) PROVE ListInv'
  BY <1>5, SleeperStep
<1>6. ASSUME NEW t \in Threads, EndWait(t) \/ EndWaitEarly(t) PROVE ListInv'
  BY <1>6, LeaverStep
<1>7. ASSUME NEW t \in Threads, Signal(t) \/ BroadcastWakes(t) PROVE ListInv'
  <2>1. /\ WakeFirst(t)
        /\ \/ UNCHANGED pc
           \/ pc[t] = "broadcast" /\ pc' = [pc EXCEPT ![t] = "user"]
    BY <1>7 DEF Signal, BroadcastWakes, Goto
  <2> QED BY <2>1, <1>2, WakeStep
<1>8. ASSUME NEW t \in Threads, WaitInterrupted(t) PROVE ListInv'
  <2>1. pc[t] \in {"join", "listed"}
    BY <1>8 DEF WaitInterrupted
  <2>2. CASE pc[t] = "join"
    <3>1. UNCHANGED <<waiting, woken, events>> /\ pc' = [pc EXCEPT ![t] = "user"]
      BY <1>8, <2>2 DEF WaitInterrupted, BackInside, condition, Goto
    <3> QED BY <3>1, <2>2, <1>2, QuietStep
  <2>3. CASE pc[t] = "listed"
    BY <1>8, <2>3, LeaverStep
  <2> QED BY <2>1, <2>2, <2>3
<1>9. CASE Next
  <2>1. PICK t \in Threads :
          \/ Reenter(t) \/ Enter(t) \/ TakeMutex(t) \/ TryEnter(t) \/ EnterInterrupted(t)
          \/ Recorded(t) \/ Exit(t)
          \/ WaitForCond(t) \/ JoinWaiting(t) \/ SleepInMutex(t) \/ StartWait(t) \/ EndWait(t)
          \/ EndWaitEarly(t) \/ Relock(t) \/ WaitInterrupted(t)
          \/ Signal(t) \/ Broadcast(t) \/ BroadcastWakes(t) \/ Broadcasted(t) \/ Die(t)
    BY <1>9 DEF Next
  <2>2. CASE \/ Reenter(t) \/ Enter(t) \/ TakeMutex(t) \/ TryEnter(t) \/ EnterInterrupted(t)
             \/ Recorded(t) \/ Exit(t)
    BY <2>2, <1>3
  <2>3. CASE \/ WaitForCond(t) \/ Relock(t) \/ Broadcast(t) \/ Broadcasted(t) \/ Die(t)
    BY <2>3, <1>4
  <2>4. CASE JoinWaiting(t) \/ SleepInMutex(t) \/ StartWait(t)
    BY <2>4, <1>5
  <2>5. CASE EndWait(t) \/ EndWaitEarly(t)
    BY <2>5, <1>6
  <2>6. CASE Signal(t) \/ BroadcastWakes(t)
    BY <2>6, <1>7
  <2> QED BY <2>1, <2>2, <2>3, <2>4, <2>5, <2>6, <1>8
<1> QED BY <1>1, <1>9

\* Every step keeps the inductive invariant.
LEMMA NextStep == ASSUME IInv, [Next]_vars PROVE IInv'
BY TypeStep, MonitorStep, ListStep DEF IInv, ListInv

\* The inductive invariant holds in every state.
LEMMA Inductive == Spec => []IInv
<1>1. Init => IInv
  BY InitStep
<1>2. IInv /\ [Next]_vars => IInv'
  BY NextStep
<1> QED BY <1>1, <1>2, PTL DEF Spec

-------------------------------------------------------------------------------
\* The state is well-formed, and a thread in the monitor, at any depth and after any
\* waits, is alone in it, is the owner and needs as many exits as it has entered.
THEOREM Sound == Spec => []MonitorIsSound
<1>1. IInv => MonitorIsSound
  <2>1. SUFFICES ASSUME IInv PROVE MonitorExcludes
    BY DEF IInv, MonitorIsSound
  <2>2. \A t \in Threads : depth[t] = 0 => ~(depth[t] > 0)
    OBVIOUS
  <2> QED BY <2>1, <2>2 DEF IInv, HolderInv, OwnerInv, MonitorExcludes
<1> QED BY <1>1, Inductive, PTL

\* Unless a signal from outside the monitor met it before it slept, whoever sleeps in
\* wait is on the list of those a signal can wake, or has been woken.
THEOREM Reached == Spec => []NoForgottenWaiter
<1>1. IInv => NoForgottenWaiter
  BY DEF IInv
<1> QED BY <1>1, Inductive, PTL

\* What one signal does to the set of sleepers.
LEMMA SignalStep ==
  ASSUME IInv, NEW t \in Threads, Signal(t), events' = {}, Sleepers # {}
  PROVE  Cardinality(Sleepers') = Cardinality(Sleepers) - 1
<1> DEFINE first == Head(waiting)
<1>1. first \in Threads /\ first = waiting[1] /\ 1 \in DOMAIN waiting
  BY TailMembers DEF IInv, TypeOK, Signal, WakeFirst
<1>2. /\ woken' = IF pc[first] \in {"doze", "asleep"} THEN woken \cup {first} ELSE woken
      /\ events' = IF pc[first] = "listed" THEN events \cup {"outside"} ELSE events
      /\ UNCHANGED pc
  BY DEF Signal, WakeFirst, Rouse, Outside
<1>3. events = {} /\ pc[first] \in {"doze", "asleep"} /\ first \notin woken
  BY <1>1, <1>2 DEF IInv, ListIsTrue
<1> HIDE DEF first
<1>4. first \in Sleepers /\ Sleepers' = Sleepers \ {first}
  BY <1>1, <1>2, <1>3 DEF Sleepers
<1>5. IsFiniteSet(Sleepers)
  <2>1. Sleepers \subseteq Threads
    BY DEF Sleepers
  <2> QED BY <2>1, MonitorAssumption, FS_Subset
<1> QED BY <1>4, <1>5, FS_RemoveElement

\* What a broadcast has done when it returns.
LEMMA BroadcastStep ==
  ASSUME IInv, [Next]_vars, NEW t \in Threads, pc[t] = "broadcast", pc'[t] = "user"
  PROVE  \/ Sleepers' = {}
         \/ waiting # <<>> /\ HeadIsDead
         \/ "outside" \in events'
<1>1. pc \in [Threads -> Labels]
  BY DEF IInv, TypeOK
<1>2. BroadcastWakes(t) \/ Broadcasted(t)
  <2>1. ~UNCHANGED vars
    BY DEF vars
  <2>2. PICK u \in Threads :
          \/ Reenter(u) \/ Enter(u) \/ TakeMutex(u) \/ TryEnter(u) \/ EnterInterrupted(u)
          \/ Recorded(u) \/ Exit(u)
          \/ WaitForCond(u) \/ JoinWaiting(u) \/ SleepInMutex(u) \/ StartWait(u) \/ EndWait(u)
          \/ EndWaitEarly(u) \/ Relock(u) \/ WaitInterrupted(u)
          \/ Signal(u) \/ Broadcast(u) \/ BroadcastWakes(u) \/ Broadcasted(u) \/ Die(u)
    BY <2>1 DEF Next
  <2>3. CASE BroadcastWakes(u) \/ Broadcasted(u)
    <3>1. u = t
      BY <2>3, <1>1 DEF BroadcastWakes, Broadcasted, Goto
    <3> QED BY <2>3, <3>1
  <2>4. CASE ~(BroadcastWakes(u) \/ Broadcasted(u))
    <3>1. pc[u] # "broadcast" /\ \A v \in Threads \ {u} : pc'[v] = pc[v]
      BY <2>2, <2>4, <1>1 DEF Reenter, Enter, TakeMutex, TryEnter, EnterInterrupted, Recorded,
           Exit, WaitForCond, JoinWaiting, SleepInMutex, StartWait, EndWait, EndWaitEarly, Relock,
           WaitInterrupted, BackInside, Signal, Broadcast, Die, Goto
    <3> QED BY <3>1
  <2> QED BY <2>3, <2>4
<1>3. CASE BroadcastWakes(t)
  BY <1>3 DEF BroadcastWakes, BroadcastStops, WakeFirst
<1>4. CASE Broadcasted(t)
  <2>1. waiting' = <<>> /\ NoForgottenWaiter'
    BY <1>4, NextStep DEF Broadcasted, IInv
  <2>2. Members(waiting') = {}
    BY <2>1 DEF Members
  <2> QED BY <2>1, <2>2 DEF NoForgottenWaiter
<1> QED BY <1>2, <1>3, <1>4

\* As long as no wait has ended by itself, a signal wakes one sleeper; and a broadcast
\* returns when nobody sleeps, whoever came to sleep while it ran.
THEOREM Wakes == Spec => SignalsWake
<1>1. IInv /\ [Next]_vars =>
        [\A t \in Threads : Signal(t) /\ events' = {} /\ Sleepers # {} =>
           Cardinality(Sleepers') = Cardinality(Sleepers) - 1]_vars
  BY SignalStep
<1>2. IInv /\ [Next]_vars =>
        [\A t \in Threads : pc[t] = "broadcast" /\ pc'[t] = "user" =>
           \/ Sleepers' = {}
           \/ waiting # <<>> /\ HeadIsDead
           \/ "outside" \in events']_vars
  BY BroadcastStep
<1>3. Spec => SignalWakesOne
  BY <1>1, Inductive, PTL DEF Spec, SignalWakesOne
<1>4. Spec => BroadcastWakesAll
  BY <1>2, Inductive, PTL DEF Spec, BroadcastWakesAll
<1> QED BY <1>3, <1>4 DEF SignalsWake

===============================================================================
