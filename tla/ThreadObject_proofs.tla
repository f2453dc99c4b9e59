------------------------- MODULE ThreadObject_proofs --------------------------
(***************************************************************************)
(* Proofs about ThreadObject, for any set of threads, exceptions, masks    *)
(* and permitted calls: type correctness (with the discipline of           *)
(* m_sleep_lock), the absence of lost wakeups, the timing :never, and the  *)
(* mailboxes of raise and kill; what a thread leaves for join; that a kill *)
(* is not rescued; and, where no two threads join the same one, that join  *)
(* sees an outcome.                                                        *)
(***************************************************************************)
EXTENDS ThreadObject, TLAPS, WellFoundedInduction

\* Delivering removes one entry of a queue, leaving a block one of the masks.
LEMMA RemoveAtType ==
  ASSUME NEW S, NEW s \in Seq(S), NEW i \in DOMAIN s
  PROVE  RemoveAt(s, i) \in Seq(S)
<1>1. i \in 1..Len(s)
  OBVIOUS
<1>2. SubSeq(s, 1, i - 1) \in Seq(S) /\ SubSeq(s, i + 1, Len(s)) \in Seq(S)
  BY <1>1
<1> QED
  BY <1>2 DEF RemoveAt

\* Leaving a handle_interrupt block leaves a sequence of masks.
LEMMA FrontType ==
  ASSUME NEW S, NEW s \in Seq(S), s # <<>>
  PROVE  Front(s) \in Seq(S)
  BY DEF Front

\* The first of a nonempty set of positions is one of them, and before the others.
LEMMA FirstIsIn ==
  ASSUME NEW S \in SUBSET Nat, S # {}
  PROVE  First(S) \in S /\ \A j \in S : First(S) <= j
<1> DEFINE Less == OpToRel(<, Nat)
<1>1. PICK i \in S : \A j \in S : <<j, i>> \notin Less
  BY NatLessThanWellFounded, WFMin
<1>2. \A j, k \in Nat : j < k => <<j, k>> \in Less
  BY DEF OpToRel
<1> HIDE DEF Less
<1>3. ASSUME NEW j \in S PROVE i <= j
  <2>1. i \in Nat /\ j \in Nat
    OBVIOUS
  <2>2. ~ j < i
    BY <1>1, <1>2, <2>1
  <2> QED
    BY <2>1, <2>2
<1> QED
  BY <1>3 DEF First

\* deliver_pending takes an exception of the queue, and leaves a queue.
LEMMA DeliveredIsPending ==
  ASSUME TypeOK, NEW a \in Threads, NEW ready \in SUBSET DOMAIN pending[a], ready # {}
  PROVE  /\ NextDelivered(ready) \in DOMAIN pending[a]
         /\ pending[a][NextDelivered(ready)] \in Exceptions
         /\ RemoveAt(pending[a], NextDelivered(ready)) \in Seq(Exceptions)
<1>1. pending[a] \in Seq(Exceptions)
  BY DEF TypeOK
<1>2. ready \in SUBSET Nat
  BY <1>1
<1>3. NextDelivered(ready) \in DOMAIN pending[a]
  BY <1>2, FirstIsIn DEF NextDelivered
<1> QED
  BY <1>1, <1>3, RemoveAtType

\* The exception that kill makes for its target is a ThreadKillError of that thread.
LEMMA KillOfType ==
  ASSUME TypeOK, NEW t \in Threads
  PROVE  KillOf(t) \in KillErrors /\ KillOf(t).kills = t
<1>1. pending[t] \in Seq(Exceptions)
  BY DEF TypeOK
<1>2. CASE pending[t] = <<>>
  BY <1>2 DEF KillOf, KillError, KillErrors
<1>3. CASE pending[t] # <<>>
  <2>1. Last(pending[t]) \in Exceptions
    BY <1>1, <1>3 DEF Last
  <2>2. <<Last(pending[t])>> \in Seq(Threads \cup Exceptions)
    BY <2>1
  <2> QED
    BY <1>3, <2>2 DEF KillOf, KillError, KillErrors
<1> QED
  BY <1>2, <1>3

\* The body a thread is in, and the bodies around it.
LEMMA HandlersType ==
  ASSUME TypeOK, NEW a \in Threads, handlers[a] # <<>>
  PROVE  /\ Last(handlers[a]).kind \in {"rescue", "ensure"}
         /\ Last(handlers[a]).exc \in Exceptions \cup KillErrors
         /\ Last(handlers[a]) = handlers[a][Len(handlers[a])]
         /\ Len(handlers[a]) \in DOMAIN handlers[a]
         /\ Front(handlers[a]) \in Seq(Bodies)
<1>1. handlers[a] \in Seq(Bodies)
  BY DEF TypeOK
<1>2. \A h \in Bodies : h.kind \in {"rescue", "ensure"} /\ h.exc \in Exceptions \cup KillErrors
  BY DEF Bodies
<1>3. Len(handlers[a]) \in DOMAIN handlers[a] /\ Last(handlers[a]) = handlers[a][Len(handlers[a])]
  BY <1>1 DEF Last
<1>4. Last(handlers[a]) \in Bodies /\ Front(handlers[a]) \in Seq(Bodies)
  BY <1>1, <1>3, FrontType
<1> QED
  BY <1>2, <1>3, <1>4

\* raise_exception changes no exception but a ThreadKillError without a cause, which
\* gets one and is still the death of the same thread.
LEMMA CausedType ==
  ASSUME TypeOK, NEW a \in Threads
  PROVE  /\ \A x \in Exceptions : Caused(a, x) = x
         /\ \A x \in KillErrors : Caused(a, x) \in KillErrors /\ Caused(a, x).kills = x.kills
<1> DEFINE Seqs == Seq(Threads \cup Exceptions)
<1>1. ErrInfo(a) \in Exceptions \cup KillErrors \cup {None}
  <2>1. CASE inflight[a] # None
    BY <2>1 DEF ErrInfo, TypeOK
  <2>2. CASE inflight[a] = None /\ handlers[a] = <<>>
    BY <2>2 DEF ErrInfo
  <2>3. CASE inflight[a] = None /\ handlers[a] # <<>>
    BY <2>3, HandlersType DEF ErrInfo
  <2> QED
    BY <2>1, <2>2, <2>3
<1>2. Chain(ErrInfo(a)) \in Seqs
  <2>1. CASE ErrInfo(a) = None
    BY <2>1 DEF Chain
  <2>2. CASE ErrInfo(a) \in Exceptions
    <3>1. <<ErrInfo(a)>> \in Seqs
      BY <2>2
    <3> QED
      BY <2>2, <3>1, KillAssumption, ExceptionAssumption DEF Chain
  <2>3. CASE ErrInfo(a) \in KillErrors
    <3>1. ErrInfo(a).kills \in Threads /\ ErrInfo(a).causes \in Seqs
      BY <2>3 DEF KillErrors
    <3>2. <<ErrInfo(a).kills>> \in Seqs
      BY <3>1
    <3>3. <<ErrInfo(a).kills>> \o ErrInfo(a).causes \in Seqs
      BY <3>1, <3>2
    <3>4. ErrInfo(a) # None
      BY <2>3, KillAssumption DEF IsKill
    <3> QED
      BY <2>3, <3>3, <3>4 DEF Chain, IsKill
  <2> QED
    BY <1>1, <2>1, <2>2, <2>3
<1>3. \A x \in Exceptions : Caused(a, x) = x
  BY KillAssumption DEF Caused
<1>4. ASSUME NEW x \in KillErrors
      PROVE  Caused(a, x) \in KillErrors /\ Caused(a, x).kills = x.kills
  <2>1. x.kills \in Threads
    BY DEF KillErrors
  <2>2. CASE x.causes = <<>>
    BY <1>2, <2>1, <2>2 DEF Caused, IsKill, KillError, KillErrors
  <2>3. CASE x.causes # <<>>
    BY <2>3 DEF Caused
  <2> QED
    BY <2>2, <2>3
<1> QED
  BY <1>3, <1>4

\* What is parked for join is an exception or nothing; of an ordinary exception, itself.
LEMMA OutcomeType ==
  /\ \A x \in Exceptions \cup KillErrors \cup {None} :
       Outcome(x) \in Exceptions \cup KillErrors \cup {None}
  /\ \A x \in Exceptions \cup {None} : Outcome(x) = x
<1>1. \A x \in Exceptions \cup {None} : Outcome(x) = x
  BY KillAssumption DEF Outcome
<1>2. ASSUME NEW x \in KillErrors
      PROVE  Outcome(x) \in Exceptions \cup KillErrors \cup {None}
  <2>1. Outcome(x) = CauseOf(x)
    BY DEF Outcome, IsKill
  <2>2. x.causes \in Seq(Threads \cup Exceptions)
    BY DEF KillErrors
  <2>3. CASE x.causes = <<>>
    BY <2>1, <2>3 DEF CauseOf
  <2>4. CASE x.causes # <<>>
    <3>1. Head(x.causes) \in Threads \cup Exceptions
      BY <2>2, <2>4
    <3>2. Tail(x.causes) \in Seq(Threads \cup Exceptions)
      BY <2>2, <2>4
    <3> QED
      BY <2>1, <2>4, <3>1, <3>2 DEF CauseOf, KillError, KillErrors
  <2> QED
    BY <2>3, <2>4
<1> QED
  BY <1>1, <1>2

\* A thread inside its block gets a kill to deliver in its terminal slot, and nothing else;
\* dropping it leaves nothing.
LEMMA DroppedType ==
  \A x \in Exceptions \cup KillErrors \cup {None} : Dropped(x) \in Exceptions \cup {None}
  BY DEF Dropped, IsKill

\* Every step keeps the types and the discipline of m_sleep_lock.
LEMMA TypeStep ==
  ASSUME TypeOK, CarriesException, [Next]_vars
  PROVE  TypeOK'
<1>0. /\ \A b \in Threads, x \in Exceptions : Caused(b, x) = x
      /\ \A b \in Threads, x \in KillErrors : Caused(b, x) \in KillErrors
      /\ \A b \in Threads : KillOf(b) \in KillErrors /\ KillOf(b).kills = b
      /\ \A x \in Exceptions : x \notin KillErrors /\ x # None
      /\ None \notin KillErrors
  BY CausedType, KillOfType, ExceptionAssumption, KillAssumption DEF IsKill
<1> USE MainAssumption, NobodyAssumption, ExceptionAssumption, KillAssumption
      DEF TypeOK, CarriesException, At, May, Goto, Throw, EnterCheckpoint, ReleaseIfHeld,
         SleepLockFree, OnlyPcMoves, lifeVars, joinVars, interruptVars, sleepVars,
         callVars, throwVars, Labels, Statuses, Checkpoints, InSleepSection
<1>1. ASSUME NEW a \in Threads, NEW t \in Threads, Initialize(a, t) PROVE TypeOK'
  BY <1>1 DEF Initialize
<1>2. ASSUME NEW a \in Threads, NEW t \in Threads, Kill(a, t) PROVE TypeOK'
  BY <1>2 DEF Kill
<1>3. ASSUME NEW a \in Threads, NEW t \in Threads, Wakeup(a, t) PROVE TypeOK'
  BY <1>3 DEF Wakeup
<1>4. ASSUME NEW a \in Threads, NEW t \in Threads, Join(a, t) PROVE TypeOK'
  BY <1>4 DEF Join
<1>5. ASSUME NEW a \in Threads, NEW t \in Threads, JoinRefused(a, t) PROVE TypeOK'
  BY <1>5, <1>0 DEF JoinRefused
<1>6. ASSUME NEW a \in Threads, NEW t \in Threads, NEW e \in Exceptions, Raise(a, t, e)
      PROVE TypeOK'
  BY <1>6 DEF Raise
<1>7. ASSUME NEW a \in Threads, NEW e \in Exceptions, RaiseNow(a, e) PROVE TypeOK'
  BY <1>7, <1>0 DEF RaiseNow
<1>8. ASSUME NEW a \in Threads, NEW e \in Exceptions, RaiseDeferred(a, e) PROVE TypeOK'
  BY <1>8 DEF RaiseDeferred
<1>9. ASSUME NEW a \in Threads, NEW frame \in Frames, PushMask(a, frame) PROVE TypeOK'
  BY <1>9 DEF PushMask
<1>10. ASSUME NEW a \in Threads, Return(a) PROVE TypeOK'
  BY <1>10 DEF Return
<1>11. ASSUME NEW a \in Threads, EndProgram(a) PROVE TypeOK'
  BY <1>11 DEF EndProgram
<1>12. ASSUME NEW a \in Threads, Pass(a) PROVE TypeOK'
  BY <1>12 DEF Pass
<1>13. ASSUME NEW a \in Threads, Sleep(a) PROVE TypeOK'
  BY <1>13 DEF Sleep
<1>14. ASSUME NEW a \in Threads, KillMain(a) PROVE TypeOK'
  BY <1>14 DEF KillMain
<1>15. ASSUME NEW a \in Threads, PopMask(a) PROVE TypeOK'
  BY <1>15, FrontType DEF PopMask
<1>16. ASSUME NEW a \in Threads, NEW kind \in {"rescue", "ensure"}, EnterBody(a, kind)
      PROVE TypeOK'
  <2>1. [kind |-> kind, exc |-> inflight[a], depth |-> Len(masks[a])] \in Bodies
    BY <1>16 DEF EnterBody, Bodies
  <2>2. handlers' \in [Threads -> Seq(Bodies)]
    BY <1>16, <2>1 DEF EnterBody
  <2> QED
    BY <1>16, <2>2 DEF EnterBody
<1>17. ASSUME NEW a \in Threads, CatchTop(a) PROVE TypeOK'
  BY <1>17, OutcomeType DEF CatchTop
<1>18. ASSUME NEW a \in Threads, CatchAndAbort(a) PROVE TypeOK'
  BY <1>18, OutcomeType DEF CatchAndAbort
<1>19. ASSUME NEW a \in Threads, Launch(a) PROVE TypeOK'
  BY <1>19 DEF Launch
<1>20. ASSUME NEW a \in Threads, DropUndeliveredKill(a) PROVE TypeOK'
  BY <1>20, DroppedType DEF DropUndeliveredKill
<1>21. ASSUME NEW a \in Threads, StoreValue(a) PROVE TypeOK'
  BY <1>21 DEF StoreValue
<1>22. ASSUME NEW a \in Threads, MarkDead(a) PROVE TypeOK'
  BY <1>22 DEF MarkDead
<1>23. ASSUME NEW a \in Threads, LeaveList(a) PROVE TypeOK'
  BY <1>23 DEF LeaveList
<1>24. ASSUME NEW a \in Threads, TakeKill(a) PROVE TypeOK'
  <2>1. terminal[a] \in KillErrors /\ Caused(a, terminal[a]) \in KillErrors
    BY <1>24, <1>0 DEF TakeKill, IsKill
  <2>2. handlers' \in [Threads -> Seq(Bodies)]
    BY <1>24 DEF TakeKill
  <2>3. /\ terminal' \in [Threads -> Exceptions \cup KillErrors \cup {None}]
        /\ inflight' \in [Threads -> Exceptions \cup KillErrors \cup {None}]
    BY <1>24, <2>1 DEF TakeKill
  <2>4. pc' \in [Threads -> Labels]
    BY <1>24 DEF TakeKill
  <2>5. sleepLock' = [t \in Threads |-> IF InSleepSection(t)' THEN t ELSE Nobody]
    BY <1>24 DEF TakeKill
  <2> QED
    BY <1>24, <2>2, <2>3, <2>4, <2>5 DEF TakeKill
<1>25. ASSUME NEW a \in Threads, NoKill(a) PROVE TypeOK'
  BY <1>25 DEF NoKill, IsKill
<1>26. ASSUME NEW a \in Threads, TakePending(a) PROVE TypeOK'
  <2>1. /\ pending[a][NextDelivered(Ready(a))] \in Exceptions
        /\ RemoveAt(pending[a], NextDelivered(Ready(a))) \in Seq(Exceptions)
    BY <1>26, DeliveredIsPending DEF TakePending, Ready
  <2>2. Caused(a, pending[a][NextDelivered(Ready(a))]) = pending[a][NextDelivered(Ready(a))]
    BY <2>1, <1>0
  <2> QED
    BY <1>26, <2>1, <2>2 DEF TakePending
<1>27. ASSUME NEW a \in Threads, NothingPending(a) PROVE TypeOK'
  BY <1>27 DEF NothingPending, AfterCheckpoint
<1>28. ASSUME NEW a \in Threads, KillMark(a) PROVE TypeOK'
  BY <1>28 DEF KillMark
<1>29. ASSUME NEW a \in Threads, KillSelf(a) PROVE TypeOK'
  <2>1. Caused(a, KillOf(a)) \in KillErrors
    BY <1>0
  <2>2. pending' \in [Threads -> Seq(Exceptions)]
    BY <1>29 DEF KillSelf
  <2> QED
    BY <1>29, <2>1, <2>2 DEF KillSelf
<1>30. ASSUME NEW a \in Threads, KillDrain(a) PROVE TypeOK'
  <2>1. KillOf(target[a]) \in KillErrors /\ KillOf(target[a]).kills = target[a]
    BY <1>0
  <2>2. pending' \in [Threads -> Seq(Exceptions)]
    BY <1>30 DEF KillDrain
  <2> QED
    BY <1>30, <2>1, <2>2 DEF KillDrain
<1>31. ASSUME NEW a \in Threads, KillPark(a) PROVE TypeOK'
  BY <1>31 DEF KillPark
<1>32. ASSUME NEW a \in Threads, WakeupDead(a) PROVE TypeOK'
  BY <1>32, <1>0 DEF WakeupDead
<1>33. ASSUME NEW a \in Threads, WakeupAlive(a) PROVE TypeOK'
  BY <1>33 DEF WakeupAlive
<1>34. ASSUME NEW a \in Threads, NotifyWakeup(a) PROVE TypeOK'
  BY <1>34 DEF NotifyWakeup, Resume
<1>35. ASSUME NEW a \in Threads, RaisePush(a) PROVE TypeOK'
  <2>1. exc[a] \in Exceptions /\ target[a] \in Threads
    BY <1>35 DEF RaisePush
  <2>2. Append(pending[target[a]], exc[a]) \in Seq(Exceptions)
    BY <2>1
  <2>3. pending' \in [Threads -> Seq(Exceptions)]
    BY <1>35, <2>1, <2>2 DEF RaisePush
  <2> QED
    BY <1>35, <2>3 DEF RaisePush
<1>36. ASSUME NEW a \in Threads, Notify(a) PROVE TypeOK'
  BY <1>36 DEF Notify, Resume
<1>37. ASSUME NEW a \in Threads, LockSleep(a) PROVE TypeOK'
  BY <1>37 DEF LockSleep
<1>38. ASSUME NEW a \in Threads, SkipWait(a) PROVE TypeOK'
  BY <1>38 DEF SkipWait
<1>39. ASSUME NEW a \in Threads, StartWait(a) PROVE TypeOK'
  BY <1>39 DEF StartWait
<1>40. ASSUME NEW a \in Threads, EndWait(a) PROVE TypeOK'
  BY <1>40 DEF EndWait
<1>41. ASSUME NEW a \in Threads, EndWaitUnnotified(a) PROVE TypeOK'
  BY <1>41 DEF EndWaitUnnotified
<1>42. ASSUME NEW a \in Threads, CheckJoined(a) PROVE TypeOK'
  BY <1>42 DEF CheckJoined
<1>43. ASSUME NEW a \in Threads, OsJoin(a) PROVE TypeOK'
  BY <1>43 DEF OsJoin
<1>44. ASSUME NEW a \in Threads, OsJoinInvalid(a) PROVE TypeOK'
  BY <1>44 DEF OsJoinInvalid
<1>45. ASSUME NEW a \in Threads, OsJoinDeadlock(a) PROVE TypeOK'
  BY <1>45 DEF OsJoinDeadlock
<1>46. ASSUME NEW a \in Threads, OsJoined(a) PROVE TypeOK'
  BY <1>46 DEF OsJoined
<1>47. ASSUME NEW a \in Threads, JoinReturns(a) PROVE TypeOK'
  BY <1>47 DEF JoinReturns
<1>48. ASSUME NEW a \in Threads, JoinRaises(a) PROVE TypeOK'
  BY <1>48, <1>0 DEF JoinRaises
<1>49. ASSUME NEW a \in Threads, EndRescue(a) \/ Jump(a) \/ LeaveBody(a) PROVE TypeOK'
  <2>1. Front(handlers[a]) \in Seq(Bodies)
    BY <1>49, FrontType DEF EndRescue, Jump, LeaveBody, AtBody
  <2>2. handlers' = [handlers EXCEPT ![a] = Front(handlers[a])]
    BY <1>49 DEF EndRescue, Jump, LeaveBody, LeaveHandler
  <2>3. handlers' \in [Threads -> Seq(Bodies)]
    BY <2>1, <2>2
  <2> QED
    BY <1>49, <2>3 DEF EndRescue, Jump, LeaveBody, LeaveHandler
<1>50. ASSUME NEW a \in Threads, EndEnsure(a) PROVE TypeOK'
  BY <1>50, HandlersType DEF EndEnsure, LeaveHandler, AtBody
<1>51. ASSUME NEW a \in Threads, Rescue(a) \/ EnterEnsure(a) PROVE TypeOK'
  BY <1>16, <1>51 DEF Rescue, EnterEnsure
<1>52. CASE UNCHANGED vars
  BY <1>52 DEF vars
<1> QED
  BY <1>1, <1>2, <1>3, <1>4, <1>5, <1>6, <1>7, <1>8, <1>9, <1>10, <1>11, <1>12, <1>13,
     <1>14, <1>15, <1>16, <1>17, <1>18, <1>19, <1>20, <1>21, <1>22, <1>23, <1>24, <1>25,
     <1>26, <1>27, <1>28, <1>29, <1>30, <1>31, <1>32, <1>33, <1>34, <1>35, <1>36, <1>37,
     <1>38, <1>39, <1>40, <1>41, <1>42, <1>43, <1>44, <1>45, <1>46, <1>47, <1>48, <1>49,
     <1>50, <1>51, <1>52
     DEF Next, RubyCode, Unwind, Runtime

\* Every step keeps an exception with each thread that unwinds or posts one.
LEMMA CarriesStep ==
  ASSUME TypeOK, CarriesException, [Next]_vars
  PROVE  CarriesException'
<1>0. /\ \A b \in Threads, x \in Exceptions : Caused(b, x) = x
      /\ \A b \in Threads, x \in KillErrors : Caused(b, x) \in KillErrors
      /\ \A b \in Threads : KillOf(b) \in KillErrors /\ KillOf(b).kills = b
      /\ \A x \in Exceptions : x \notin KillErrors /\ x # None
      /\ None \notin KillErrors
  BY CausedType, KillOfType, ExceptionAssumption, KillAssumption DEF IsKill
<1> USE MainAssumption, NobodyAssumption, ExceptionAssumption, KillAssumption
      DEF TypeOK, CarriesException, At, May, Goto, Throw, EnterCheckpoint, ReleaseIfHeld,
         SleepLockFree, OnlyPcMoves, lifeVars, joinVars, interruptVars, sleepVars,
         callVars, throwVars, Labels, Statuses, Checkpoints, InSleepSection
<1>1. ASSUME NEW a \in Threads, NEW t \in Threads, Initialize(a, t) PROVE CarriesException'
  BY <1>1 DEF Initialize
<1>2. ASSUME NEW a \in Threads, NEW t \in Threads, Kill(a, t) PROVE CarriesException'
  BY <1>2 DEF Kill
<1>3. ASSUME NEW a \in Threads, NEW t \in Threads, Wakeup(a, t) PROVE CarriesException'
  BY <1>3 DEF Wakeup
<1>4. ASSUME NEW a \in Threads, NEW t \in Threads, Join(a, t) PROVE CarriesException'
  BY <1>4 DEF Join
<1>5. ASSUME NEW a \in Threads, NEW t \in Threads, JoinRefused(a, t) PROVE CarriesException'
  BY <1>5, <1>0 DEF JoinRefused
<1>6. ASSUME NEW a \in Threads, NEW t \in Threads, NEW e \in Exceptions, Raise(a, t, e)
      PROVE CarriesException'
  BY <1>6 DEF Raise
<1>7. ASSUME NEW a \in Threads, NEW e \in Exceptions, RaiseNow(a, e) PROVE CarriesException'
  BY <1>7, <1>0 DEF RaiseNow
<1>8. ASSUME NEW a \in Threads, NEW e \in Exceptions, RaiseDeferred(a, e) PROVE CarriesException'
  BY <1>8 DEF RaiseDeferred
<1>9. ASSUME NEW a \in Threads, NEW frame \in Frames, PushMask(a, frame) PROVE CarriesException'
  BY <1>9 DEF PushMask
<1>10. ASSUME NEW a \in Threads, Return(a) PROVE CarriesException'
  BY <1>10 DEF Return
<1>11. ASSUME NEW a \in Threads, EndProgram(a) PROVE CarriesException'
  BY <1>11 DEF EndProgram
<1>12. ASSUME NEW a \in Threads, Pass(a) PROVE CarriesException'
  BY <1>12 DEF Pass
<1>13. ASSUME NEW a \in Threads, Sleep(a) PROVE CarriesException'
  BY <1>13 DEF Sleep
<1>14. ASSUME NEW a \in Threads, KillMain(a) PROVE CarriesException'
  BY <1>14 DEF KillMain
<1>15. ASSUME NEW a \in Threads, PopMask(a) PROVE CarriesException'
  BY <1>15 DEF PopMask
<1>16. ASSUME NEW a \in Threads, NEW kind \in {"rescue", "ensure"}, EnterBody(a, kind)
      PROVE CarriesException'
  BY <1>16 DEF EnterBody
<1>17. ASSUME NEW a \in Threads, CatchTop(a) PROVE CarriesException'
  BY <1>17, OutcomeType DEF CatchTop
<1>18. ASSUME NEW a \in Threads, CatchAndAbort(a) PROVE CarriesException'
  BY <1>18 DEF CatchAndAbort, IsKill
<1>19. ASSUME NEW a \in Threads, Launch(a) PROVE CarriesException'
  BY <1>19 DEF Launch
<1>20. ASSUME NEW a \in Threads, DropUndeliveredKill(a) PROVE CarriesException'
  BY <1>20, DroppedType DEF DropUndeliveredKill
<1>21. ASSUME NEW a \in Threads, StoreValue(a) PROVE CarriesException'
  BY <1>21 DEF StoreValue
<1>22. ASSUME NEW a \in Threads, MarkDead(a) PROVE CarriesException'
  BY <1>22 DEF MarkDead
<1>23. ASSUME NEW a \in Threads, LeaveList(a) PROVE CarriesException'
  BY <1>23 DEF LeaveList
<1>24. ASSUME NEW a \in Threads, TakeKill(a) PROVE CarriesException'
  BY <1>24, <1>0 DEF TakeKill, IsKill
<1>25. ASSUME NEW a \in Threads, NoKill(a) PROVE CarriesException'
  BY <1>25 DEF NoKill, IsKill
<1>26. ASSUME NEW a \in Threads, TakePending(a) PROVE CarriesException'
  <2>1. pending[a][NextDelivered(Ready(a))] \in Exceptions
    BY <1>26, DeliveredIsPending DEF TakePending, Ready
  <2> QED
    BY <1>26, <2>1, <1>0 DEF TakePending
<1>27. ASSUME NEW a \in Threads, NothingPending(a) PROVE CarriesException'
  BY <1>27 DEF NothingPending, AfterCheckpoint
<1>28. ASSUME NEW a \in Threads, KillMark(a) PROVE CarriesException'
  BY <1>28 DEF KillMark
<1>29. ASSUME NEW a \in Threads, KillSelf(a) PROVE CarriesException'
  <2>1. Caused(a, KillOf(a)) \in KillErrors
    BY <1>0
  <2>2. pending' \in [Threads -> Seq(Exceptions)]
    BY <1>29 DEF KillSelf
  <2> QED
    BY <1>29, <1>0, <2>1 DEF KillSelf
<1>30. ASSUME NEW a \in Threads, KillDrain(a) PROVE CarriesException'
  <2>1. KillOf(target[a]) \in KillErrors /\ KillOf(target[a]).kills = target[a]
    BY <1>0
  <2>2. pending' \in [Threads -> Seq(Exceptions)]
    BY <1>30 DEF KillDrain
  <2> QED
    BY <1>30, <2>1, <2>2 DEF KillDrain
<1>31. ASSUME NEW a \in Threads, KillPark(a) PROVE CarriesException'
  BY <1>31 DEF KillPark
<1>32. ASSUME NEW a \in Threads, WakeupDead(a) PROVE CarriesException'
  BY <1>32, <1>0 DEF WakeupDead
<1>33. ASSUME NEW a \in Threads, WakeupAlive(a) PROVE CarriesException'
  BY <1>33 DEF WakeupAlive
<1>34. ASSUME NEW a \in Threads, NotifyWakeup(a) PROVE CarriesException'
  BY <1>34 DEF NotifyWakeup, Resume
<1>35. ASSUME NEW a \in Threads, RaisePush(a) PROVE CarriesException'
  BY <1>35 DEF RaisePush
<1>36. ASSUME NEW a \in Threads, Notify(a) PROVE CarriesException'
  BY <1>36 DEF Notify, Resume
<1>37. ASSUME NEW a \in Threads, LockSleep(a) PROVE CarriesException'
  BY <1>37 DEF LockSleep
<1>38. ASSUME NEW a \in Threads, SkipWait(a) PROVE CarriesException'
  BY <1>38 DEF SkipWait
<1>39. ASSUME NEW a \in Threads, StartWait(a) PROVE CarriesException'
  BY <1>39 DEF StartWait
<1>40. ASSUME NEW a \in Threads, EndWait(a) PROVE CarriesException'
  BY <1>40 DEF EndWait
<1>41. ASSUME NEW a \in Threads, EndWaitUnnotified(a) PROVE CarriesException'
  BY <1>41 DEF EndWaitUnnotified
<1>42. ASSUME NEW a \in Threads, CheckJoined(a) PROVE CarriesException'
  BY <1>42 DEF CheckJoined
<1>43. ASSUME NEW a \in Threads, OsJoin(a) PROVE CarriesException'
  BY <1>43 DEF OsJoin
<1>44. ASSUME NEW a \in Threads, OsJoinInvalid(a) PROVE CarriesException'
  BY <1>44 DEF OsJoinInvalid
<1>45. ASSUME NEW a \in Threads, OsJoinDeadlock(a) PROVE CarriesException'
  BY <1>45 DEF OsJoinDeadlock
<1>46. ASSUME NEW a \in Threads, OsJoined(a) PROVE CarriesException'
  BY <1>46 DEF OsJoined
<1>47. ASSUME NEW a \in Threads, JoinReturns(a) PROVE CarriesException'
  BY <1>47 DEF JoinReturns
<1>48. ASSUME NEW a \in Threads, JoinRaises(a) PROVE CarriesException'
  BY <1>48, <1>0 DEF JoinRaises
<1>49. ASSUME NEW a \in Threads, EndRescue(a) \/ Jump(a) \/ LeaveBody(a) PROVE CarriesException'
  BY <1>49, HandlersType DEF EndRescue, Jump, LeaveBody, LeaveHandler, AtBody
<1>50. ASSUME NEW a \in Threads, EndEnsure(a) PROVE CarriesException'
  <2>1. Last(handlers[a]).exc \in Exceptions \cup KillErrors
    BY <1>50, HandlersType DEF EndEnsure, AtBody
  <2> QED
    BY <1>50, <1>0, <2>1 DEF EndEnsure, LeaveHandler
<1>51. ASSUME NEW a \in Threads, Rescue(a) \/ EnterEnsure(a) PROVE CarriesException'
  BY <1>16, <1>51 DEF Rescue, EnterEnsure
<1>52. CASE UNCHANGED vars
  BY <1>52 DEF vars
<1> QED
  BY <1>1, <1>2, <1>3, <1>4, <1>5, <1>6, <1>7, <1>8, <1>9, <1>10, <1>11, <1>12, <1>13,
     <1>14, <1>15, <1>16, <1>17, <1>18, <1>19, <1>20, <1>21, <1>22, <1>23, <1>24, <1>25,
     <1>26, <1>27, <1>28, <1>29, <1>30, <1>31, <1>32, <1>33, <1>34, <1>35, <1>36, <1>37,
     <1>38, <1>39, <1>40, <1>41, <1>42, <1>43, <1>44, <1>45, <1>46, <1>47, <1>48, <1>49,
     <1>50, <1>51, <1>52
     DEF Next, RubyCode, Unwind, Runtime

\* Every step keeps it so that a dead thread runs no more Ruby code.
LEMMA DeadStep ==
  ASSUME TypeOK, DeadHasLeft, [Next]_vars
  PROVE  DeadHasLeft'
<1> USE DEF TypeOK, DeadHasLeft, At, May, Goto, Throw, EnterCheckpoint, OnlyPcMoves,
         lifeVars, Statuses, Labels
<1>1. ASSUME NEW a \in Threads, NEW t \in Threads, Initialize(a, t) PROVE DeadHasLeft'
  BY <1>1 DEF Initialize
<1>2. ASSUME NEW a \in Threads, NEW t \in Threads, Kill(a, t) PROVE DeadHasLeft'
  BY <1>2 DEF Kill
<1>3. ASSUME NEW a \in Threads, NEW t \in Threads, Wakeup(a, t) PROVE DeadHasLeft'
  BY <1>3 DEF Wakeup
<1>4. ASSUME NEW a \in Threads, NEW t \in Threads, Join(a, t) PROVE DeadHasLeft'
  BY <1>4 DEF Join
<1>5. ASSUME NEW a \in Threads, NEW t \in Threads, JoinRefused(a, t) PROVE DeadHasLeft'
  BY <1>5 DEF JoinRefused
<1>6. ASSUME NEW a \in Threads, NEW t \in Threads, NEW e \in Exceptions, Raise(a, t, e)
      PROVE DeadHasLeft'
  BY <1>6 DEF Raise
<1>7. ASSUME NEW a \in Threads, NEW e \in Exceptions, RaiseNow(a, e) PROVE DeadHasLeft'
  BY <1>7 DEF RaiseNow
<1>8. ASSUME NEW a \in Threads, NEW e \in Exceptions, RaiseDeferred(a, e) PROVE DeadHasLeft'
  BY <1>8 DEF RaiseDeferred
<1>9. ASSUME NEW a \in Threads, NEW frame \in Frames, PushMask(a, frame) PROVE DeadHasLeft'
  BY <1>9 DEF PushMask
<1>10. ASSUME NEW a \in Threads, Return(a) PROVE DeadHasLeft'
  BY <1>10 DEF Return
<1>11. ASSUME NEW a \in Threads, EndProgram(a) PROVE DeadHasLeft'
  BY <1>11 DEF EndProgram
<1>12. ASSUME NEW a \in Threads, Pass(a) PROVE DeadHasLeft'
  BY <1>12 DEF Pass
<1>13. ASSUME NEW a \in Threads, Sleep(a) PROVE DeadHasLeft'
  BY <1>13 DEF Sleep
<1>14. ASSUME NEW a \in Threads, KillMain(a) PROVE DeadHasLeft'
  BY <1>14 DEF KillMain
<1>15. ASSUME NEW a \in Threads, PopMask(a) PROVE DeadHasLeft'
  BY <1>15 DEF PopMask
<1>16. ASSUME NEW a \in Threads, NEW kind \in {"rescue", "ensure"}, EnterBody(a, kind)
      PROVE DeadHasLeft'
  BY <1>16 DEF EnterBody
<1>17. ASSUME NEW a \in Threads, CatchTop(a) PROVE DeadHasLeft'
  BY <1>17, OutcomeType DEF CatchTop
<1>18. ASSUME NEW a \in Threads, CatchAndAbort(a) PROVE DeadHasLeft'
  BY <1>18, OutcomeType DEF CatchAndAbort
<1>19. ASSUME NEW a \in Threads, Launch(a) PROVE DeadHasLeft'
  BY <1>19 DEF Launch
<1>20. ASSUME NEW a \in Threads, DropUndeliveredKill(a) PROVE DeadHasLeft'
  BY <1>20, DroppedType DEF DropUndeliveredKill
<1>21. ASSUME NEW a \in Threads, StoreValue(a) PROVE DeadHasLeft'
  BY <1>21 DEF StoreValue
<1>22. ASSUME NEW a \in Threads, MarkDead(a) PROVE DeadHasLeft'
  BY <1>22 DEF MarkDead
<1>23. ASSUME NEW a \in Threads, LeaveList(a) PROVE DeadHasLeft'
  BY <1>23 DEF LeaveList
<1>24. ASSUME NEW a \in Threads, TakeKill(a) PROVE DeadHasLeft'
  BY <1>24 DEF TakeKill, IsKill
<1>25. ASSUME NEW a \in Threads, NoKill(a) PROVE DeadHasLeft'
  BY <1>25 DEF NoKill, IsKill
<1>26. ASSUME NEW a \in Threads, TakePending(a) PROVE DeadHasLeft'
  BY <1>26, DeliveredIsPending DEF TakePending, Ready
<1>27. ASSUME NEW a \in Threads, NothingPending(a) PROVE DeadHasLeft'
  BY <1>27 DEF NothingPending, AfterCheckpoint
<1>28. ASSUME NEW a \in Threads, KillMark(a) PROVE DeadHasLeft'
  BY <1>28 DEF KillMark
<1>29. ASSUME NEW a \in Threads, KillSelf(a) PROVE DeadHasLeft'
  BY <1>29 DEF KillSelf
<1>30. ASSUME NEW a \in Threads, KillDrain(a) PROVE DeadHasLeft'
  BY <1>30 DEF KillDrain
<1>31. ASSUME NEW a \in Threads, KillPark(a) PROVE DeadHasLeft'
  BY <1>31 DEF KillPark
<1>32. ASSUME NEW a \in Threads, WakeupDead(a) PROVE DeadHasLeft'
  BY <1>32 DEF WakeupDead
<1>33. ASSUME NEW a \in Threads, WakeupAlive(a) PROVE DeadHasLeft'
  BY <1>33 DEF WakeupAlive
<1>34. ASSUME NEW a \in Threads, NotifyWakeup(a) PROVE DeadHasLeft'
  BY <1>34 DEF NotifyWakeup, Resume
<1>35. ASSUME NEW a \in Threads, RaisePush(a) PROVE DeadHasLeft'
  BY <1>35 DEF RaisePush
<1>36. ASSUME NEW a \in Threads, Notify(a) PROVE DeadHasLeft'
  BY <1>36 DEF Notify, Resume
<1>37. ASSUME NEW a \in Threads, LockSleep(a) PROVE DeadHasLeft'
  BY <1>37 DEF LockSleep
<1>38. ASSUME NEW a \in Threads, SkipWait(a) PROVE DeadHasLeft'
  BY <1>38 DEF SkipWait
<1>39. ASSUME NEW a \in Threads, StartWait(a) PROVE DeadHasLeft'
  BY <1>39 DEF StartWait
<1>40. ASSUME NEW a \in Threads, EndWait(a) PROVE DeadHasLeft'
  BY <1>40 DEF EndWait
<1>41. ASSUME NEW a \in Threads, EndWaitUnnotified(a) PROVE DeadHasLeft'
  BY <1>41 DEF EndWaitUnnotified
<1>42. ASSUME NEW a \in Threads, CheckJoined(a) PROVE DeadHasLeft'
  BY <1>42 DEF CheckJoined
<1>43. ASSUME NEW a \in Threads, OsJoin(a) PROVE DeadHasLeft'
  BY <1>43 DEF OsJoin
<1>44. ASSUME NEW a \in Threads, OsJoinInvalid(a) PROVE DeadHasLeft'
  BY <1>44 DEF OsJoinInvalid
<1>45. ASSUME NEW a \in Threads, OsJoinDeadlock(a) PROVE DeadHasLeft'
  BY <1>45 DEF OsJoinDeadlock
<1>46. ASSUME NEW a \in Threads, OsJoined(a) PROVE DeadHasLeft'
  BY <1>46 DEF OsJoined
<1>47. ASSUME NEW a \in Threads, JoinReturns(a) PROVE DeadHasLeft'
  BY <1>47 DEF JoinReturns
<1>48. ASSUME NEW a \in Threads, JoinRaises(a) PROVE DeadHasLeft'
  BY <1>48 DEF JoinRaises
<1>49. ASSUME NEW a \in Threads, EndRescue(a) \/ Jump(a) \/ LeaveBody(a) PROVE DeadHasLeft'
  BY <1>49, HandlersType DEF EndRescue, Jump, LeaveBody, LeaveHandler, AtBody
<1>50. ASSUME NEW a \in Threads, EndEnsure(a) PROVE DeadHasLeft'
  BY <1>50, HandlersType DEF EndEnsure, LeaveHandler, AtBody
<1>51. ASSUME NEW a \in Threads, Rescue(a) \/ EnterEnsure(a) PROVE DeadHasLeft'
  BY <1>16, <1>51 DEF Rescue, EnterEnsure
<1>52. CASE UNCHANGED vars
  BY <1>52 DEF vars
<1> QED
  BY <1>1, <1>2, <1>3, <1>4, <1>5, <1>6, <1>7, <1>8, <1>9, <1>10, <1>11, <1>12, <1>13,
     <1>14, <1>15, <1>16, <1>17, <1>18, <1>19, <1>20, <1>21, <1>22, <1>23, <1>24, <1>25,
     <1>26, <1>27, <1>28, <1>29, <1>30, <1>31, <1>32, <1>33, <1>34, <1>35, <1>36, <1>37,
     <1>38, <1>39, <1>40, <1>41, <1>42, <1>43, <1>44, <1>45, <1>46, <1>47, <1>48, <1>49,
     <1>50, <1>51, <1>52
     DEF Next, RubyCode, Unwind, Runtime

-------------------------------------------------------------------------------
(* WaitProtected.  A step of thread a leaves what matters to the wait of any  *)
(* other thread alone (Spares), or it is one of the steps of a poster.        *)

Spares(a, t) ==
  /\ pc'[t] = pc[t] /\ asleep'[t] = asleep[t] /\ checkpoint'[t] = checkpoint[t]
  /\ masks'[t] = masks[t] /\ pending'[t] = pending[t]
  /\ IsKill(terminal'[t]) <=> IsKill(terminal[t])

\* Only a moves, and the operations of the others keep their targets.
OnlyMoves(a) ==
  \A b \in Threads \ {a} : pc'[b] = pc[b] /\ target'[b] = target[b]

\* a is not in, and does not get to, the part of sleep that Protected watches.
Unwatched(a) ==
  /\ pc'[a] \notin {"sleep_check", "waiting"}
  /\ pc'[a] = "deliver_queue" => ~IsKill(terminal'[a])

\* A notifier on its way stays so until it makes its own step.
LEMMA NotifierStays ==
  ASSUME NEW a \in Threads, NEW t \in Threads, OnlyMoves(a), NotifierComing(t),
         pc[a] \notin Notifying \/ (pc'[a] \in Notifying /\ target'[a] = target[a])
  PROVE  NotifierComing(t)'
  BY DEF OnlyMoves, NotifierComing, Notifying

\* A step that leaves a thread alone leaves it as protected as it was.
LEMMA SparedStaysProtected ==
  ASSUME NEW a \in Threads, NEW t \in Threads, Protected(t), Spares(a, t),
         NotifierComing(t) => NotifierComing(t)'
  PROVE  Protected(t)'
<1>1. Interruptible(t)' => Interruptible(t)
  BY DEF Spares, Interruptible
<1> QED
  BY <1>1 DEF Spares, Protected

\* A thread that is not about to wait has nothing to miss.
LEMMA UnwatchedIsProtected ==
  ASSUME NEW a \in Threads, Unwatched(a)
  PROVE  Protected(a)'
  BY DEF Unwatched, Protected

\* The steps that concern the sleep of nobody.
LEMMA QuietStep ==
  ASSUME WaitProtected, NEW a \in Threads, OnlyMoves(a), Unwatched(a),
         pc[a] \notin Notifying,
         \A t \in Threads \ {a} : Spares(a, t)
  PROVE  WaitProtected'
<1> SUFFICES ASSUME NEW t \in Threads PROVE Protected(t)'
  BY DEF WaitProtected
<1>1. CASE t = a
  BY <1>1, UnwatchedIsProtected
<1>2. CASE t # a
  BY <1>2, SparedStaysProtected, NotifierStays DEF WaitProtected
<1> QED
  BY <1>1, <1>2

\* The steps that post to a thread, or come closer to notifying it.
LEMMA PostingStep ==
  ASSUME WaitProtected, NEW a \in Threads, OnlyMoves(a), Unwatched(a),
         pc'[a] \in Notifying, target'[a] = target[a], target[a] \in Threads,
         \A t \in Threads \ {a, target[a]} : Spares(a, t)
  PROVE  WaitProtected'
<1> SUFFICES ASSUME NEW t \in Threads PROVE Protected(t)'
  BY DEF WaitProtected
<1>1. CASE t = a
  BY <1>1, UnwatchedIsProtected
<1>2. CASE t = target[a]
  <2>1. NotifierComing(t)'
    BY <1>2 DEF NotifierComing
  <2> QED
    BY <2>1 DEF Protected
<1>3. CASE t \notin {a, target[a]}
  BY <1>3, SparedStaysProtected, NotifierStays DEF WaitProtected
<1> QED
  BY <1>1, <1>2, <1>3

\* The step that notifies: it needs m_sleep_lock, so its target is not between
\* the drain and the wait.
LEMMA NotifyingStep ==
  ASSUME TypeOK, WaitProtected, NEW a \in Threads, OnlyMoves(a), Unwatched(a),
         sleepLock[target[a]] = Nobody,
         pc'[target[a]] = pc[target[a]] \/ target[a] = a,
         checkpoint' = checkpoint, asleep' = [asleep EXCEPT ![target[a]] = FALSE],
         \A t \in Threads \ {a, target[a]} : Spares(a, t)
  PROVE  WaitProtected'
<1> SUFFICES ASSUME NEW t \in Threads PROVE Protected(t)'
  BY DEF WaitProtected
<1>1. CASE t = a
  BY <1>1, UnwatchedIsProtected
<1>2. CASE t = target[a] /\ t # a
  <2>1. ~InSleepSection(t)
    BY <1>2, NobodyAssumption DEF TypeOK
  <2>2. ~asleep'[t]
    BY <1>2 DEF TypeOK
  <2> QED
    BY <1>2, <2>1, <2>2 DEF Protected, InSleepSection
<1>3. CASE t \notin {a, target[a]}
  <2>1. NotifierComing(t) => NotifierComing(t)'
    BY <1>3 DEF NotifierComing, OnlyMoves
  <2> QED
    BY <1>3, <2>1, SparedStaysProtected DEF WaitProtected
<1> QED
  BY <1>1, <1>2, <1>3

\* Every step keeps it so that no thread waits with an interrupt posted, unless
\* its notifier is on the way.
LEMMA WaitStep ==
  ASSUME TypeOK, DeadHasLeft, WaitProtected, [Next]_vars
  PROVE  WaitProtected'
<1> USE DEF TypeOK, At, May, Goto, Throw, EnterCheckpoint, ReleaseIfHeld, SleepLockFree,
            OnlyPcMoves, lifeVars, joinVars, interruptVars, sleepVars, callVars, throwVars,
            OnlyMoves, Unwatched, Spares, Notifying
<1> DEFINE Quiet(a) == /\ OnlyMoves(a) /\ Unwatched(a) /\ pc[a] \notin Notifying
                       /\ \A t \in Threads \ {a} : Spares(a, t)
<1>1. ASSUME NEW a \in Threads, NEW t \in Threads, Kill(a, t) PROVE Quiet(a)
  BY <1>1 DEF Kill
<1>2. ASSUME NEW a \in Threads, NEW t \in Threads, Wakeup(a, t) PROVE Quiet(a)
  BY <1>2 DEF Wakeup
<1>3. ASSUME NEW a \in Threads, NEW t \in Threads, Join(a, t) PROVE Quiet(a)
  BY <1>3 DEF Join
<1>4. ASSUME NEW a \in Threads, NEW t \in Threads, JoinRefused(a, t) PROVE Quiet(a)
  BY <1>4 DEF JoinRefused
<1>5. ASSUME NEW a \in Threads, NEW t \in Threads, NEW e \in Exceptions, Raise(a, t, e)
      PROVE Quiet(a)
  BY <1>5 DEF Raise
<1>6. ASSUME NEW a \in Threads, NEW e \in Exceptions, RaiseNow(a, e) PROVE Quiet(a)
  BY <1>6 DEF RaiseNow
<1>7. ASSUME NEW a \in Threads, NEW e \in Exceptions, RaiseDeferred(a, e) PROVE Quiet(a)
  BY <1>7 DEF RaiseDeferred
<1>8. ASSUME NEW a \in Threads, NEW frame \in Frames, PushMask(a, frame) PROVE Quiet(a)
  BY <1>8 DEF PushMask
<1>9. ASSUME NEW a \in Threads, Return(a) PROVE Quiet(a)
  BY <1>9 DEF Return
<1>10. ASSUME NEW a \in Threads, EndProgram(a) PROVE Quiet(a)
  BY <1>10 DEF EndProgram
<1>11. ASSUME NEW a \in Threads, Pass(a) PROVE Quiet(a)
  BY <1>11 DEF Pass
<1>12. ASSUME NEW a \in Threads, Sleep(a) PROVE Quiet(a)
  BY <1>12 DEF Sleep
<1>13. ASSUME NEW a \in Threads, KillMain(a) PROVE Quiet(a)
  BY <1>13 DEF KillMain
<1>14. ASSUME NEW a \in Threads, PopMask(a) PROVE Quiet(a)
  BY <1>14 DEF PopMask
<1>15. ASSUME NEW a \in Threads, NEW kind \in {"rescue", "ensure"}, EnterBody(a, kind) PROVE Quiet(a)
  BY <1>15 DEF EnterBody
<1>16. ASSUME NEW a \in Threads, CatchTop(a) PROVE Quiet(a)
  BY <1>16 DEF CatchTop
<1>17. ASSUME NEW a \in Threads, CatchAndAbort(a) PROVE Quiet(a)
  BY <1>17 DEF CatchAndAbort
<1>18. ASSUME NEW a \in Threads, Launch(a) PROVE Quiet(a)
  BY <1>18 DEF Launch
<1>19. ASSUME NEW a \in Threads, DropUndeliveredKill(a) PROVE Quiet(a)
  BY <1>19 DEF DropUndeliveredKill
<1>20. ASSUME NEW a \in Threads, StoreValue(a) PROVE Quiet(a)
  BY <1>20 DEF StoreValue
<1>21. ASSUME NEW a \in Threads, MarkDead(a) PROVE Quiet(a)
  BY <1>21 DEF MarkDead
<1>22. ASSUME NEW a \in Threads, LeaveList(a) PROVE Quiet(a)
  BY <1>22 DEF LeaveList
<1>23. ASSUME NEW a \in Threads, TakeKill(a) PROVE Quiet(a)
  BY <1>23 DEF TakeKill
<1>24. ASSUME NEW a \in Threads, NoKill(a) PROVE Quiet(a)
  BY <1>24 DEF NoKill
<1>25. ASSUME NEW a \in Threads, TakePending(a) PROVE Quiet(a)
  BY <1>25 DEF TakePending
<1>26. ASSUME NEW a \in Threads, KillMark(a) PROVE Quiet(a)
  BY <1>26 DEF KillMark
<1>27. ASSUME NEW a \in Threads, KillSelf(a) PROVE Quiet(a)
  BY <1>27 DEF KillSelf
<1>28. ASSUME NEW a \in Threads, LockSleep(a) PROVE Quiet(a)
  BY <1>28 DEF LockSleep
<1>29. ASSUME NEW a \in Threads, SkipWait(a) PROVE Quiet(a)
  BY <1>29 DEF SkipWait
<1>30. ASSUME NEW a \in Threads, EndWait(a) PROVE Quiet(a)
  BY <1>30 DEF EndWait
<1>31. ASSUME NEW a \in Threads, CheckJoined(a) PROVE Quiet(a)
  BY <1>31 DEF CheckJoined
<1>32. ASSUME NEW a \in Threads, OsJoin(a) PROVE Quiet(a)
  BY <1>32 DEF OsJoin
<1>33. ASSUME NEW a \in Threads, OsJoinInvalid(a) PROVE Quiet(a)
  BY <1>33 DEF OsJoinInvalid
<1>34. ASSUME NEW a \in Threads, OsJoinDeadlock(a) PROVE Quiet(a)
  BY <1>34 DEF OsJoinDeadlock
<1>35. ASSUME NEW a \in Threads, OsJoined(a) PROVE Quiet(a)
  BY <1>35 DEF OsJoined
<1>36. ASSUME NEW a \in Threads, JoinReturns(a) PROVE Quiet(a)
  BY <1>36 DEF JoinReturns
<1>37. ASSUME NEW a \in Threads, JoinRaises(a) PROVE Quiet(a)
  <2>1. terminal[target[a]] \in Exceptions \cup KillErrors
    BY <1>37 DEF JoinRaises
  <2>2. IsKill(Caused(a, terminal[target[a]])) <=> IsKill(terminal[target[a]])
    BY <2>1, CausedType DEF IsKill
  <2>3. \A t \in Threads : IsKill(terminal'[t]) <=> IsKill(terminal[t])
    BY <1>37, <2>2 DEF JoinRaises
  <2> QED
    BY <1>37, <2>3 DEF JoinRaises
<1>38. ASSUME NEW a \in Threads, RaisePush(a) PROVE WaitProtected'
  <2>1. /\ OnlyMoves(a) /\ Unwatched(a)
        /\ pc'[a] \in Notifying /\ target'[a] = target[a] /\ target[a] \in Threads
        /\ \A t \in Threads \ {a, target[a]} : Spares(a, t)
    BY <1>38 DEF RaisePush
  <2> QED
    BY <2>1, PostingStep
<1>39. ASSUME NEW a \in Threads, KillPark(a) PROVE WaitProtected'
  <2>1. /\ OnlyMoves(a) /\ Unwatched(a)
        /\ pc'[a] \in Notifying /\ target'[a] = target[a] /\ target[a] \in Threads
        /\ \A t \in Threads \ {a, target[a]} : Spares(a, t)
    BY <1>39 DEF KillPark
  <2> QED
    BY <2>1, PostingStep
<1>40. ASSUME NEW a \in Threads, WakeupAlive(a) PROVE WaitProtected'
  <2>1. /\ OnlyMoves(a) /\ Unwatched(a)
        /\ pc'[a] \in Notifying /\ target'[a] = target[a] /\ target[a] \in Threads
        /\ \A t \in Threads \ {a, target[a]} : Spares(a, t)
    BY <1>40 DEF WakeupAlive
  <2> QED
    BY <2>1, PostingStep
<1>41. ASSUME NEW a \in Threads, NotifyWakeup(a) PROVE WaitProtected'
  <2>1. /\ OnlyMoves(a) /\ Unwatched(a) /\ sleepLock[target[a]] = Nobody
        /\ pc'[target[a]] = pc[target[a]] \/ target[a] = a
        /\ checkpoint' = checkpoint /\ asleep' = [asleep EXCEPT ![target[a]] = FALSE]
        /\ \A t \in Threads \ {a, target[a]} : Spares(a, t)
    BY <1>41 DEF NotifyWakeup, Resume
  <2> QED
    BY <2>1, NotifyingStep
<1>42. ASSUME NEW a \in Threads, Notify(a) PROVE WaitProtected'
  <2>1. /\ OnlyMoves(a) /\ Unwatched(a) /\ sleepLock[target[a]] = Nobody
        /\ pc'[target[a]] = pc[target[a]] \/ target[a] = a
        /\ checkpoint' = checkpoint /\ asleep' = [asleep EXCEPT ![target[a]] = FALSE]
        /\ \A t \in Threads \ {a, target[a]} : Spares(a, t)
    BY <1>42 DEF Notify, Resume
  <2> QED
    BY <2>1, NotifyingStep
<1>43. ASSUME NEW a \in Threads, NothingPending(a) PROVE WaitProtected'
  <2> SUFFICES ASSUME NEW t \in Threads PROVE Protected(t)'
    BY DEF WaitProtected
  <2>1. CASE t = a /\ checkpoint[a] = "pre_sleep"
    <3>1. pc'[a] = "sleep_check" /\ masks' = masks /\ pending' = pending /\ terminal' = terminal
      BY <1>43, <2>1 DEF NothingPending, AfterCheckpoint
    <3>2. IsKill(terminal[a]) => NotifierComing(a)
      BY <1>43, <2>1 DEF NothingPending, WaitProtected, Protected
    <3>3. Interruptible(a)' => IsKill(terminal[a])
      BY <1>43, <2>1, <3>1 DEF NothingPending, Interruptible, Ready, Kind
    <3>4. NotifierComing(a) => NotifierComing(a)'
      BY <1>43, NotifierStays DEF NothingPending
    <3> QED
      BY <2>1, <3>1, <3>2, <3>3, <3>4 DEF Protected
  <2>2. CASE t = a /\ checkpoint[a] # "pre_sleep"
    <3>1. Unwatched(a)
      BY <1>43, <2>2 DEF NothingPending, AfterCheckpoint
    <3> QED
      BY <2>2, <3>1, UnwatchedIsProtected
  <2>3. CASE t # a
    <3>1. OnlyMoves(a) /\ Spares(a, t) /\ pc[a] \notin Notifying
      BY <1>43, <2>3 DEF NothingPending
    <3> QED
      BY <3>1, <2>3, SparedStaysProtected, NotifierStays DEF WaitProtected
  <2> QED
    BY <2>1, <2>2, <2>3
<1>44. ASSUME NEW a \in Threads, StartWait(a) PROVE WaitProtected'
  <2> SUFFICES ASSUME NEW t \in Threads PROVE Protected(t)'
    BY DEF WaitProtected
  <2>1. CASE t = a
    <3>1. Interruptible(a) => NotifierComing(a)
      BY <1>44 DEF StartWait, WaitProtected, Protected
    <3>2. Interruptible(a)' => Interruptible(a)
      BY <1>44 DEF StartWait, Interruptible
    <3>3. NotifierComing(a) => NotifierComing(a)'
      BY <1>44, NotifierStays DEF StartWait
    <3>4. pc'[a] = "waiting"
      BY <1>44 DEF StartWait
    <3> QED
      BY <2>1, <3>1, <3>2, <3>3, <3>4 DEF Protected
  <2>2. CASE t # a
    <3>1. OnlyMoves(a) /\ Spares(a, t) /\ pc[a] \notin Notifying
      BY <1>44, <2>2 DEF StartWait
    <3> QED
      BY <3>1, <2>2, SparedStaysProtected, NotifierStays DEF WaitProtected
  <2> QED
    BY <2>1, <2>2
<1>45. ASSUME NEW a \in Threads, EndWaitUnnotified(a) PROVE WaitProtected'
  <2> SUFFICES ASSUME NEW t \in Threads PROVE Protected(t)'
    BY DEF WaitProtected
  <2>1. CASE t = a
    <3>1. pc'[a] = "waiting" /\ ~asleep'[a]
      BY <1>45 DEF EndWaitUnnotified
    <3> QED
      BY <2>1, <3>1 DEF Protected
  <2>2. CASE t # a
    <3>1. OnlyMoves(a) /\ Spares(a, t) /\ pc[a] \notin Notifying
      BY <1>45, <2>2 DEF EndWaitUnnotified
    <3> QED
      BY <3>1, <2>2, SparedStaysProtected, NotifierStays DEF WaitProtected
  <2> QED
    BY <2>1, <2>2
<1>46. ASSUME NEW a \in Threads, WakeupDead(a) PROVE WaitProtected'
  <2> SUFFICES ASSUME NEW t \in Threads PROVE Protected(t)'
    BY DEF WaitProtected
  <2>1. CASE t = a
    <3>1. Unwatched(a)
      BY <1>46 DEF WakeupDead
    <3> QED
      BY <2>1, <3>1, UnwatchedIsProtected
  <2>2. CASE t # a /\ t = target[a]
    <3>1. pc'[t] \in {"finish", "gone"}
      BY <1>46, <2>2 DEF WakeupDead, DeadHasLeft
    <3> QED
      BY <3>1 DEF Protected
  <2>3. CASE t \notin {a, target[a]}
    <3>1. OnlyMoves(a) /\ Spares(a, t)
      BY <1>46, <2>3 DEF WakeupDead
    <3>2. NotifierComing(t) => NotifierComing(t)'
      BY <2>3, <3>1 DEF NotifierComing
    <3> QED
      BY <2>3, <3>1, <3>2, SparedStaysProtected DEF WaitProtected
  <2> QED
    BY <2>1, <2>2, <2>3
<1>47. ASSUME NEW a \in Threads, KillDrain(a) PROVE WaitProtected'
  <2> SUFFICES ASSUME NEW t \in Threads PROVE Protected(t)'
    BY DEF WaitProtected
  <2>1. CASE t = a
    <3>1. Unwatched(a)
      BY <1>47 DEF KillDrain
    <3> QED
      BY <2>1, <3>1, UnwatchedIsProtected
  <2>2. CASE t # a
    <3>1. /\ pc'[t] = pc[t] /\ asleep'[t] = asleep[t] /\ checkpoint'[t] = checkpoint[t]
          /\ masks'[t] = masks[t] /\ terminal'[t] = terminal[t]
          /\ pending'[t] = pending[t] \/ pending'[t] = <<>>
      BY <1>47, <2>2 DEF KillDrain
    <3>2. Interruptible(t)' => Interruptible(t)
      BY <3>1 DEF Interruptible
    <3>3. NotifierComing(t) => NotifierComing(t)'
      BY <1>47, NotifierStays DEF KillDrain
    <3> QED
      BY <3>1, <3>2, <3>3 DEF WaitProtected, Protected
  <2> QED
    BY <2>1, <2>2
<1>48. ASSUME NEW a \in Threads, NEW u \in Threads, Initialize(a, u) PROVE WaitProtected'
  <2>1. OnlyMoves(u) /\ Unwatched(u) /\ pc[u] \notin Notifying
    BY <1>48 DEF Initialize
  <2>2. \A t \in Threads \ {u} : Spares(u, t)
    BY <1>48 DEF Initialize
  <2> QED
    BY <2>1, <2>2, QuietStep
<1>49. CASE UNCHANGED vars
  <2>1. \A t \in Threads : Protected(t)' <=> Protected(t)
    BY <1>49 DEF vars, Protected, Interruptible, NotifierComing
  <2> QED
    BY <2>1 DEF WaitProtected
<1>50. ASSUME NEW a \in Threads, Quiet(a) PROVE WaitProtected'
  BY <1>50, QuietStep
<1>51. ASSUME NEW a \in Threads, EndRescue(a) \/ Jump(a) \/ LeaveBody(a) PROVE Quiet(a)
  BY <1>51 DEF EndRescue, Jump, LeaveBody, LeaveHandler
<1>52. ASSUME NEW a \in Threads, EndEnsure(a) PROVE Quiet(a)
  BY <1>52 DEF EndEnsure, LeaveHandler
<1>53. ASSUME NEW a \in Threads, Rescue(a) \/ EnterEnsure(a) PROVE Quiet(a)
  BY <1>15, <1>53 DEF Rescue, EnterEnsure
<1> HIDE DEF Quiet
<1> QED
  BY <1>1, <1>2, <1>3, <1>4, <1>5, <1>6, <1>7, <1>8, <1>9, <1>10, <1>11, <1>12, <1>13,
     <1>14, <1>15, <1>16, <1>17, <1>18, <1>19, <1>20, <1>21, <1>22, <1>23, <1>24, <1>25,
     <1>26, <1>27, <1>28, <1>29, <1>30, <1>31, <1>32, <1>33, <1>34, <1>35, <1>36, <1>37,
     <1>38, <1>39, <1>40, <1>41, <1>42, <1>43, <1>44, <1>45, <1>46, <1>47, <1>48, <1>49,
     <1>50, <1>51, <1>52, <1>53
     DEF Next, RubyCode, Unwind, Runtime

-------------------------------------------------------------------------------
\* The inductive invariant holds in the initial states.
LEMMA IInvInit == Init => IInv
<1> SUFFICES ASSUME Init PROVE IInv
  OBVIOUS
<1> USE MainAssumption, NobodyAssumption, ExceptionAssumption, KillAssumption DEF Init
<1>1. TypeOK
  BY DEF TypeOK, Labels, Statuses, Checkpoints, InSleepSection
<1>2. CarriesException /\ DeadHasLeft
  BY DEF CarriesException, DeadHasLeft
<1>3. WaitProtected
  BY DEF WaitProtected, Protected
<1> QED
  BY <1>1, <1>2, <1>3 DEF IInv

\* The invariant of which the two theorems below are parts.
THEOREM Invariance == Spec => []IInv
<1>1. IInv /\ [Next]_vars => IInv'
  BY TypeStep, CarriesStep, DeadStep, WaitStep DEF IInv
<1> QED
  BY <1>1, IInvInit, PTL DEF Spec

\* Every variable keeps its type, and m_sleep_lock is held by its own thread
\* exactly from the lock in sleep to the wait or to the throw that leaves it.
THEOREM TypeCorrect == Spec => []TypeOK
<1>1. IInv => TypeOK
  BY DEF IInv
<1> QED
  BY <1>1, Invariance, PTL

\* No lost wakeup: nobody waits in sleep with a kill or a deliverable exception
\* posted to it unless the thread that posted it is about to notify it.
THEOREM NoLostInterruptTheorem == Spec => []NoLostInterrupt
<1>1. IInv => NoLostInterrupt
  BY DEF IInv, WaitProtected, Protected, NoLostInterrupt
<1> QED
  BY <1>1, Invariance, PTL

-------------------------------------------------------------------------------
(* The steps of a thread, by what they are about. *)

Starts(a) ==
  \/ Pass(a) \/ Sleep(a) \/ KillMain(a) \/ Return(a)
  \/ \E frame \in Frames : PushMask(a, frame)
  \/ \E e \in Exceptions : RaiseNow(a, e) \/ RaiseDeferred(a, e)
  \/ \E t \in Threads :
       \/ Initialize(a, t) \/ Kill(a, t) \/ Wakeup(a, t) \/ Join(a, t) \/ JoinRefused(a, t)
       \/ \E e \in Exceptions : Raise(a, t, e)

Ends(a) ==
  \/ CatchTop(a) \/ CatchAndAbort(a) \/ PopMask(a) \/ EndProgram(a)
  \/ Launch(a) \/ DropUndeliveredKill(a) \/ StoreValue(a) \/ MarkDead(a) \/ LeaveList(a)

Handles(a) == \/ Rescue(a) \/ EnterEnsure(a) \/ LeaveBody(a)
              \/ EndRescue(a) \/ EndEnsure(a) \/ Jump(a)

Delivers(a) == TakeKill(a) \/ NoKill(a) \/ TakePending(a) \/ NothingPending(a)

Posts(a) == \/ KillMark(a) \/ KillSelf(a) \/ KillDrain(a) \/ KillPark(a) \/ RaisePush(a)
            \/ WakeupDead(a) \/ WakeupAlive(a) \/ NotifyWakeup(a) \/ Notify(a)

Waits(a) == LockSleep(a) \/ SkipWait(a) \/ StartWait(a) \/ EndWait(a) \/ EndWaitUnnotified(a)

Joins(a) == \/ CheckJoined(a) \/ OsJoin(a) \/ OsJoinInvalid(a) \/ OsJoinDeadlock(a) \/ OsJoined(a)
            \/ JoinReturns(a) \/ JoinRaises(a)

Steps(a) == \/ Starts(a) \/ Ends(a) \/ Handles(a) \/ Delivers(a)
            \/ Posts(a) \/ Waits(a) \/ Joins(a)

\* Every step is one of them.
LEMMA StepKinds == ASSUME Next PROVE \E a \in Threads : Steps(a)
<1>1. PICK a \in Threads : RubyCode(a) \/ Unwind(a) \/ Runtime(a) \/ EndWaitUnnotified(a)
  BY DEF Next
<1>2. \A S : \A e \in Exceptions \ S : e \in Exceptions
  OBVIOUS
<1>3. RubyCode(a) => Starts(a) \/ Ends(a) \/ Handles(a)
  BY <1>2 DEF RubyCode, Starts, Ends, Handles
<1>4. Unwind(a) => Ends(a) \/ Handles(a)
  BY DEF Unwind, Ends, Handles
<1>5. Runtime(a) => Ends(a) \/ Delivers(a) \/ Posts(a) \/ Waits(a) \/ Joins(a)
  BY DEF Runtime, Ends, Delivers, Posts, Waits, Joins
<1>6. EndWaitUnnotified(a) => Waits(a)
  BY DEF Waits
<1> QED BY <1>1, <1>3, <1>4, <1>5, <1>6 DEF Steps

\* What a step of a does to another thread: it gives birth to it, notifies it, or parks
\* and queues what it posts.
Apart(a, t) ==
  /\ pc'[t] = pc[t] \/ (pc[t] = "unborn" /\ pc'[t] = "launch")
  /\ target'[t] = target[t] /\ inflight'[t] = inflight[t] /\ checkpoint'[t] = checkpoint[t]
  /\ value'[t] = value[t] /\ masks'[t] = masks[t]
  /\ asleep'[t] \in {asleep[t], FALSE} /\ handlers'[t] = handlers[t]
  /\ \/ SameException(terminal'[t], terminal[t])
     \/ /\ pc[a] = "kill_park" /\ target[a] = t /\ terminal'[t] = exc[a]
        /\ OutOfBlock(t) => t \in late'
  /\ pending'[t] \in {pending[t], <<>>} \/ pc[a] = "raise_push"
  /\ t \in late => t \in late'

\* A step of a leaves the other threads alone but for that.
LEMMA ApartStep ==
  ASSUME TypeOK, NEW a \in Threads, Steps(a), NEW t \in Threads, t # a
  PROVE  Apart(a, t)
<1> USE DEF At, May, Goto, Throw, EnterCheckpoint, OnlyPcMoves, lifeVars, joinVars,
            interruptVars, sleepVars, callVars, throwVars, Apart, SameException
<1>1. /\ pc \in [Threads -> Labels] /\ target \in [Threads -> Threads]
      /\ inflight \in [Threads -> Exceptions \cup KillErrors \cup {None}]
      /\ terminal \in [Threads -> Exceptions \cup KillErrors \cup {None}]
      /\ checkpoint \in [Threads -> Checkpoints] /\ value \in [Threads -> BOOLEAN]
      /\ masks \in [Threads -> Seq(Frames)] /\ asleep \in [Threads -> BOOLEAN]
      /\ pending \in [Threads -> Seq(Exceptions)]
      /\ handlers \in [Threads -> Seq(Bodies)]
  BY DEF TypeOK
<1>2. CASE Starts(a)
  <2>1. CASE Pass(a) \/ Sleep(a) \/ KillMain(a) \/ Return(a)
    BY <1>1, <2>1 DEF Pass, Sleep, KillMain, Return
  <2>2. ASSUME NEW frame \in Frames, PushMask(a, frame) PROVE Apart(a, t)
    BY <1>1, <2>2 DEF PushMask
  <2>3. ASSUME NEW e \in Exceptions, RaiseNow(a, e) PROVE Apart(a, t)
    BY <1>1, <2>3 DEF RaiseNow
  <2>4. ASSUME NEW e \in Exceptions, RaiseDeferred(a, e) PROVE Apart(a, t)
    BY <1>1, <2>4 DEF RaiseDeferred
  <2>5. ASSUME NEW u \in Threads, Initialize(a, u) PROVE Apart(a, t)
    BY <1>1, <2>5 DEF Initialize
  <2>6. ASSUME NEW u \in Threads, Kill(a, u) PROVE Apart(a, t)
    BY <1>1, <2>6 DEF Kill
  <2>7. ASSUME NEW u \in Threads, Wakeup(a, u) PROVE Apart(a, t)
    BY <1>1, <2>7 DEF Wakeup
  <2>8. ASSUME NEW u \in Threads, Join(a, u) PROVE Apart(a, t)
    BY <1>1, <2>8 DEF Join
  <2>9. ASSUME NEW u \in Threads, JoinRefused(a, u) PROVE Apart(a, t)
    BY <1>1, <2>9 DEF JoinRefused
  <2>10. ASSUME NEW u \in Threads, NEW e \in Exceptions, Raise(a, u, e) PROVE Apart(a, t)
    BY <1>1, <2>10 DEF Raise
  <2> QED BY <1>2, <2>1, <2>2, <2>3, <2>4, <2>5, <2>6, <2>7, <2>8, <2>9, <2>10 DEF Starts
<1>3. CASE Ends(a)
  <2>1. CASE CatchTop(a) \/ CatchAndAbort(a) \/ PopMask(a)
             \/ EndProgram(a) \/ Launch(a) \/ DropUndeliveredKill(a) \/ StoreValue(a)
             \/ MarkDead(a) \/ LeaveList(a)
    BY <1>1, <2>1 DEF CatchTop, CatchAndAbort, PopMask, EndProgram, Launch,
       DropUndeliveredKill, StoreValue, MarkDead, LeaveList
  <2> QED BY <1>3, <2>1 DEF Ends
<1>4. CASE Delivers(a)
  <2>1. CASE TakeKill(a) \/ NoKill(a) \/ TakePending(a) \/ NothingPending(a)
    BY <1>1, <2>1 DEF TakeKill, NoKill, TakePending, NothingPending
  <2> QED BY <1>4, <2>1 DEF Delivers
<1>5. CASE Posts(a)
  <2>1. CASE KillMark(a) \/ KillSelf(a) \/ KillDrain(a) \/ KillPark(a) \/ RaisePush(a)
             \/ WakeupDead(a) \/ WakeupAlive(a) \/ NotifyWakeup(a) \/ Notify(a)
    BY <1>1, <2>1 DEF KillMark, KillSelf, KillDrain, KillPark, RaisePush, WakeupDead,
       WakeupAlive, NotifyWakeup, Notify
  <2> QED BY <1>5, <2>1 DEF Posts
<1>6. CASE Waits(a)
  <2>1. CASE LockSleep(a) \/ SkipWait(a) \/ StartWait(a) \/ EndWait(a) \/ EndWaitUnnotified(a)
    BY <1>1, <2>1 DEF LockSleep, SkipWait, StartWait, EndWait, EndWaitUnnotified
  <2> QED BY <1>6, <2>1 DEF Waits
<1>7. CASE Joins(a)
  <2>1. CASE CheckJoined(a) \/ OsJoin(a) \/ OsJoinInvalid(a) \/ OsJoinDeadlock(a)
             \/ OsJoined(a) \/ JoinReturns(a)
    BY <1>1, <2>1 DEF CheckJoined, OsJoin, OsJoinInvalid, OsJoinDeadlock, OsJoined, JoinReturns
  <2>2. CASE JoinRaises(a)
    <3>1. terminal[target[a]] \in Exceptions \cup KillErrors
      BY <1>1, <2>2 DEF JoinRaises
    <3>2. SameException(Caused(a, terminal[target[a]]), terminal[target[a]])
      BY <3>1, CausedType DEF IsKill
    <3>3. SameException(terminal'[t], terminal[t])
      BY <1>1, <2>2, <3>2 DEF JoinRaises
    <3> QED
      BY <1>1, <2>2, <3>3 DEF JoinRaises
  <2> QED BY <1>7, <2>1, <2>2 DEF Joins
<1>8. CASE Handles(a)
  BY <1>1, <1>8 DEF Handles, Rescue, EnterEnsure, EnterBody, LeaveBody, EndRescue, EndEnsure, Jump,
     LeaveHandler
<1> QED BY <1>2, <1>3, <1>4, <1>5, <1>6, <1>7, <1>8 DEF Steps

\* What propagates in a thread stays with it.
LEMMA UnwindsStep ==
  ASSUME TypeOK, CarriesException, InFlightUnwinds, NEW a \in Threads, Steps(a)
  PROVE  InFlightUnwinds'
<1>1. Steps(a) /\ \A t \in Threads \ {a} : Apart(a, t)
  BY ApartStep
<1> USE MainAssumption, NobodyAssumption, ExceptionAssumption, KillAssumption
      DEF At, May, Goto, Throw, EnterCheckpoint, OnlyPcMoves, lifeVars, joinVars, interruptVars,
          sleepVars, callVars, throwVars
<1>2. /\ pc \in [Threads -> Labels] /\ target \in [Threads -> Threads]
      /\ inflight \in [Threads -> Exceptions \cup KillErrors \cup {None}]
      /\ terminal \in [Threads -> Exceptions \cup KillErrors \cup {None}]
      /\ checkpoint \in [Threads -> Checkpoints] /\ value \in [Threads -> BOOLEAN]
      /\ masks \in [Threads -> Seq(Frames)] /\ asleep \in [Threads -> BOOLEAN]
      /\ pending \in [Threads -> Seq(Exceptions)]
  BY DEF TypeOK
<1>0. /\ \A e \in Exceptions : ~IsKill(e) /\ e # None
      /\ \A x \in KillErrors : IsKill(x) /\ x # None
      /\ ~IsKill(None)
  BY KillAssumption, ExceptionAssumption DEF IsKill
<1>3. ASSUME NEW t \in Threads, t # a PROVE Unwinds(t)'
  <2>1. Unwinds(t) /\ Apart(a, t)
    BY <1>1, <1>3 DEF InFlightUnwinds
  <2> QED
    BY <1>2, <1>3, <2>1 DEF Apart, Unwinds
<1>4. Unwinds(a)'
  <2>1. CASE Starts(a)
    <3>1. CASE Pass(a) \/ Sleep(a) \/ KillMain(a) \/ Return(a)
      BY <1>2, <1>0, <3>1 DEF Pass, Sleep, KillMain, Return, InFlightUnwinds, Unwinds,
         CarriesException, Labels
    <3>2. ASSUME NEW frame \in Frames, PushMask(a, frame) PROVE Unwinds(a)'
      BY <1>2, <1>0, <3>2 DEF PushMask, InFlightUnwinds, Unwinds, CarriesException, Labels
    <3>3. ASSUME NEW e \in Exceptions, RaiseNow(a, e) \/ RaiseDeferred(a, e) PROVE Unwinds(a)'
      BY <1>2, <1>0, <3>3, CausedType DEF RaiseNow, RaiseDeferred, InFlightUnwinds, Unwinds,
         CarriesException, Labels
    <3>4. ASSUME NEW t \in Threads, Initialize(a, t) \/ Kill(a, t) \/ Wakeup(a, t) PROVE Unwinds(a)'
      BY <1>2, <1>0, <3>4 DEF Initialize, Kill, Wakeup, InFlightUnwinds, Unwinds,
         CarriesException, Labels
    <3>5. ASSUME NEW t \in Threads, Join(a, t) PROVE Unwinds(a)'
      BY <1>2, <1>0, <3>5 DEF Join, InFlightUnwinds, Unwinds, CarriesException, Labels
    <3>6. ASSUME NEW t \in Threads, JoinRefused(a, t) PROVE Unwinds(a)'
      BY <1>2, <1>0, <3>6, CausedType
         DEF JoinRefused, InFlightUnwinds, Unwinds, CarriesException, Labels
    <3>7. ASSUME NEW t \in Threads, NEW e \in Exceptions, Raise(a, t, e) PROVE Unwinds(a)'
      BY <1>2, <1>0, <3>7 DEF Raise, InFlightUnwinds, Unwinds, CarriesException, Labels
    <3> QED BY <2>1, <3>1, <3>2, <3>3, <3>4, <3>5, <3>6, <3>7 DEF Starts
  <2>2. CASE Ends(a)
    <3>0. Unwinds(a)
      BY DEF InFlightUnwinds
    <3>1. CASE CatchTop(a) \/ CatchAndAbort(a)
      BY <1>2, <1>0, <3>0, <3>1 DEF CatchTop, CatchAndAbort, Unwinds
    <3>2. CASE PopMask(a) \/ EndProgram(a)
      BY <1>2, <1>0, <3>0, <3>2 DEF PopMask, EndProgram, Unwinds
    <3>3. CASE Launch(a) \/ DropUndeliveredKill(a) \/ StoreValue(a) \/ MarkDead(a) \/ LeaveList(a)
      BY <1>2, <1>0, <3>0, <3>3
         DEF Launch, DropUndeliveredKill, StoreValue, MarkDead, LeaveList, Unwinds
    <3> QED BY <2>2, <3>1, <3>2, <3>3 DEF Ends
  <2>3. CASE Delivers(a)
    BY <1>2, <1>0, <2>3, DeliveredIsPending, CausedType
    DEF Delivers, TakeKill, NoKill, TakePending, NothingPending, AfterCheckpoint, Ready,
       InFlightUnwinds, Unwinds, CarriesException, Labels
  <2>4. CASE Posts(a)
    <3>1. CASE KillMark(a) \/ KillDrain(a) \/ KillPark(a) \/ RaisePush(a)
      <4>1. Unwinds(a)
        BY DEF InFlightUnwinds
      <4> QED
        BY <1>2, <3>1, <4>1 DEF KillMark, KillDrain, KillPark, RaisePush, Unwinds
    <3>2. CASE KillSelf(a)
      BY <1>2, <1>0, <3>2, KillOfType, CausedType
         DEF KillSelf, Resume, InFlightUnwinds, Unwinds, CarriesException, Labels
    <3>3. CASE WakeupDead(a) \/ WakeupAlive(a)
      <4>1. Unwinds(a)
        BY DEF InFlightUnwinds
      <4>2. CASE WakeupDead(a)
        BY <1>2, <1>0, CausedType, <4>1, <4>2 DEF WakeupDead, Unwinds
      <4>3. CASE WakeupAlive(a)
        BY <1>2, <4>1, <4>3 DEF WakeupAlive, Unwinds
      <4> QED
        BY <3>3, <4>2, <4>3
    <3>4. CASE NotifyWakeup(a) \/ Notify(a)
      BY <1>2, <1>0, <3>4, KillOfType
         DEF NotifyWakeup, Notify, Resume, InFlightUnwinds, Unwinds, CarriesException,
         Labels
    <3> QED BY <2>4, <3>1, <3>2, <3>3, <3>4 DEF Posts
  <2>5. CASE Waits(a)
    BY <1>2, <1>0, <2>5
    DEF Waits, LockSleep, SkipWait, StartWait, EndWait, EndWaitUnnotified,
       InFlightUnwinds, Unwinds, CarriesException, Labels
  <2>6. CASE Joins(a)
    BY <1>2, <1>0, <2>6, CausedType
    DEF Joins, CheckJoined, OsJoin, OsJoinInvalid, OsJoinDeadlock, OsJoined, JoinReturns,
       JoinRaises, InFlightUnwinds, Unwinds, CarriesException, Labels
  <2>7. CASE Handles(a)
    BY <1>2, <1>0, <2>7, HandlersType
       DEF Handles, Rescue, EnterEnsure, EnterBody, LeaveBody, EndRescue, EndEnsure,
           Jump, LeaveHandler, AtBody, InFlightUnwinds, Unwinds, CarriesException, Labels
  <2> QED BY <1>1, <2>1, <2>2, <2>3, <2>4, <2>5, <2>6, <2>7 DEF Steps
<1> QED BY <1>3, <1>4 DEF InFlightUnwinds

\* Nobody waits on m_sleep_cond outside of its wait.
LEMMA AsleepStep ==
  ASSUME TypeOK, AsleepWaits, NEW a \in Threads, Steps(a)
  PROVE  AsleepWaits'
<1>1. Steps(a) /\ \A t \in Threads \ {a} : Apart(a, t)
  BY ApartStep
<1> USE MainAssumption, NobodyAssumption, ExceptionAssumption, KillAssumption
      DEF At, May, Goto, Throw, EnterCheckpoint, OnlyPcMoves, lifeVars, joinVars, interruptVars,
          sleepVars, callVars, throwVars
<1>2. /\ pc \in [Threads -> Labels] /\ target \in [Threads -> Threads]
      /\ inflight \in [Threads -> Exceptions \cup KillErrors \cup {None}]
      /\ terminal \in [Threads -> Exceptions \cup KillErrors \cup {None}]
      /\ checkpoint \in [Threads -> Checkpoints] /\ value \in [Threads -> BOOLEAN]
      /\ masks \in [Threads -> Seq(Frames)] /\ asleep \in [Threads -> BOOLEAN]
      /\ pending \in [Threads -> Seq(Exceptions)]
  BY DEF TypeOK
<1>0. /\ \A e \in Exceptions : ~IsKill(e) /\ e # None
      /\ \A x \in KillErrors : IsKill(x) /\ x # None
      /\ ~IsKill(None)
  BY KillAssumption, ExceptionAssumption DEF IsKill
<1>3. ASSUME NEW t \in Threads, t # a PROVE SleepsInWait(t)'
  <2>1. SleepsInWait(t) /\ Apart(a, t)
    BY <1>1, <1>3 DEF AsleepWaits
  <2> QED
    BY <1>2, <1>3, <2>1 DEF Apart, SleepsInWait
<1>4. SleepsInWait(a)'
  <2>1. CASE Starts(a)
    BY <1>2, <2>1
    DEF Starts, Pass, Sleep, KillMain, Return, PushMask, RaiseNow, RaiseDeferred,
        Initialize, Kill, Wakeup, Join, JoinRefused, Raise, AsleepWaits, SleepsInWait
  <2>2. CASE Ends(a)
    BY <1>2, <2>2
    DEF Ends, CatchTop, CatchAndAbort, PopMask, EndProgram, Launch,
        DropUndeliveredKill, StoreValue, MarkDead, LeaveList, AsleepWaits, SleepsInWait
  <2>3. CASE Delivers(a)
    BY <1>2, <2>3
    DEF Delivers, TakeKill, NoKill, TakePending, NothingPending, AfterCheckpoint,
       AsleepWaits, SleepsInWait
  <2>4. CASE Posts(a)
    BY <1>2, <2>4
    DEF Posts, KillMark, KillSelf, KillDrain, KillPark, RaisePush, WakeupDead, WakeupAlive,
        NotifyWakeup, Notify, Resume, AsleepWaits, SleepsInWait
  <2>5. CASE Waits(a)
    BY <1>2, <2>5
    DEF Waits, LockSleep, SkipWait, StartWait, EndWait, EndWaitUnnotified, AsleepWaits, SleepsInWait
  <2>6. CASE Joins(a)
    BY <1>2, <2>6
    DEF Joins, CheckJoined, OsJoin, OsJoinInvalid, OsJoinDeadlock, OsJoined, JoinReturns,
       JoinRaises, AsleepWaits, SleepsInWait
  <2>7. CASE Handles(a)
    BY <1>2, <2>7 DEF Handles, Rescue, EnterEnsure, EnterBody, LeaveBody, EndRescue, EndEnsure,
     Jump, LeaveHandler, AtBody, AsleepWaits, SleepsInWait
  <2> QED BY <1>1, <2>1, <2>2, <2>3, <2>4, <2>5, <2>6, <2>7 DEF Steps
<1> QED BY <1>3, <1>4 DEF AsleepWaits

\* Nor does a thread leave its block without an outcome.
LEMMA OutcomeStep ==
  ASSUME TypeOK, CarriesException, InFlightUnwinds, OutcomeIsLeft, NEW a \in Threads, Steps(a)
  PROVE  OutcomeIsLeft'
<1>1. Steps(a) /\ \A t \in Threads \ {a} : Apart(a, t)
  BY ApartStep
<1> USE MainAssumption, NobodyAssumption, ExceptionAssumption, KillAssumption
      DEF At, May, Goto, Throw, EnterCheckpoint, OnlyPcMoves, lifeVars, joinVars, interruptVars,
          sleepVars, callVars, throwVars
<1>2. /\ pc \in [Threads -> Labels] /\ target \in [Threads -> Threads]
      /\ inflight \in [Threads -> Exceptions \cup KillErrors \cup {None}]
      /\ terminal \in [Threads -> Exceptions \cup KillErrors \cup {None}]
      /\ checkpoint \in [Threads -> Checkpoints] /\ value \in [Threads -> BOOLEAN]
      /\ masks \in [Threads -> Seq(Frames)] /\ asleep \in [Threads -> BOOLEAN]
      /\ pending \in [Threads -> Seq(Exceptions)]
  BY DEF TypeOK
<1>0. /\ \A e \in Exceptions : ~IsKill(e) /\ e # None
      /\ \A x \in KillErrors : IsKill(x) /\ x # None
      /\ ~IsKill(None)
  BY KillAssumption, ExceptionAssumption DEF IsKill
<1>3. ASSUME NEW t \in Threads, t # a PROVE LeavesOutcome(t)'
  <2>1. LeavesOutcome(t) /\ Apart(a, t)
    BY <1>1, <1>3 DEF OutcomeIsLeft
  <2>2. terminal[t] # None => terminal'[t] # None
    BY <1>0, <1>2, <2>1 DEF Apart, SameException, CarriesException
  <2> QED
    BY <1>2, <2>1, <2>2 DEF Apart, LeavesOutcome, HasOutcome
<1>4. LeavesOutcome(a)'
  <2>1. CASE Starts(a)
    <3>1. CASE Pass(a) \/ Sleep(a) \/ KillMain(a) \/ Return(a)
      BY <1>2, <1>0, <3>1 DEF Pass, Sleep, KillMain, Return, InFlightUnwinds, Unwinds,
         OutcomeIsLeft, LeavesOutcome, HasOutcome
    <3>2. ASSUME NEW frame \in Frames, PushMask(a, frame) PROVE LeavesOutcome(a)'
      BY <1>2, <1>0, <3>2 DEF PushMask, InFlightUnwinds, Unwinds, OutcomeIsLeft,
         LeavesOutcome, HasOutcome
    <3>3. ASSUME NEW e \in Exceptions, RaiseNow(a, e) \/ RaiseDeferred(a, e) PROVE LeavesOutcome(a)'
      BY <1>2, <1>0, <3>3, CausedType DEF RaiseNow, RaiseDeferred, InFlightUnwinds, Unwinds,
         OutcomeIsLeft, LeavesOutcome, HasOutcome
    <3>4. ASSUME NEW t \in Threads, Initialize(a, t) \/ Kill(a, t) \/ Wakeup(a, t)
          PROVE LeavesOutcome(a)'
      BY <1>2, <1>0, <3>4 DEF Initialize, Kill, Wakeup, InFlightUnwinds, Unwinds,
         OutcomeIsLeft, LeavesOutcome, HasOutcome
    <3>5. ASSUME NEW t \in Threads, Join(a, t) PROVE LeavesOutcome(a)'
      BY <1>2, <1>0, <3>5 DEF Join, InFlightUnwinds, Unwinds, OutcomeIsLeft,
         LeavesOutcome, HasOutcome
    <3>6. ASSUME NEW t \in Threads, JoinRefused(a, t) PROVE LeavesOutcome(a)'
      BY <1>2, <1>0, <3>6, CausedType DEF JoinRefused, InFlightUnwinds, Unwinds, OutcomeIsLeft,
         LeavesOutcome, HasOutcome
    <3>7. ASSUME NEW t \in Threads, NEW e \in Exceptions, Raise(a, t, e) PROVE LeavesOutcome(a)'
      BY <1>2, <1>0, <3>7 DEF Raise, InFlightUnwinds, Unwinds, OutcomeIsLeft,
         LeavesOutcome, HasOutcome
    <3> QED BY <2>1, <3>1, <3>2, <3>3, <3>4, <3>5, <3>6, <3>7 DEF Starts
  <2>2. CASE Ends(a)
    BY <1>2, <1>0, <2>2, OutcomeType
    DEF Ends, CatchTop, CatchAndAbort, PopMask, EndProgram, Launch,
        DropUndeliveredKill, StoreValue, MarkDead, LeaveList, CarriesException,
           InFlightUnwinds, Unwinds, Labels, OutcomeIsLeft, LeavesOutcome, HasOutcome
  <2>3. CASE Delivers(a)
    BY <1>2, <1>0, <2>3
    DEF Delivers, TakeKill, NoKill, TakePending, NothingPending, AfterCheckpoint,
       InFlightUnwinds, Unwinds, OutcomeIsLeft, LeavesOutcome, HasOutcome
  <2>4. CASE Posts(a)
    <3>1. CASE KillMark(a) \/ KillDrain(a) \/ KillPark(a) \/ RaisePush(a)
      BY <1>2, <1>0, <3>1 DEF KillMark, KillDrain, KillPark, RaisePush, Resume,
         InFlightUnwinds, Unwinds, CarriesException, OutcomeIsLeft, LeavesOutcome,
         HasOutcome
    <3>2. CASE KillSelf(a)
      BY <1>2, <1>0, <3>2 DEF KillSelf, Resume, InFlightUnwinds, Unwinds,
         CarriesException, OutcomeIsLeft, LeavesOutcome, HasOutcome
    <3>3. CASE WakeupDead(a) \/ WakeupAlive(a)
      BY <1>2, <1>0, <3>3 DEF WakeupDead, WakeupAlive, Resume, InFlightUnwinds, Unwinds,
         CarriesException, OutcomeIsLeft, LeavesOutcome, HasOutcome
    <3>4. CASE NotifyWakeup(a) \/ Notify(a)
      BY <1>2, <1>0, <3>4 DEF NotifyWakeup, Notify, Resume, InFlightUnwinds, Unwinds,
         CarriesException, OutcomeIsLeft, LeavesOutcome, HasOutcome
    <3> QED BY <2>4, <3>1, <3>2, <3>3, <3>4 DEF Posts
  <2>5. CASE Waits(a)
    BY <1>2, <1>0, <2>5
    DEF Waits, LockSleep, SkipWait, StartWait, EndWait, EndWaitUnnotified,
       InFlightUnwinds, Unwinds, OutcomeIsLeft, LeavesOutcome, HasOutcome
  <2>6. CASE Joins(a)
    BY <1>2, <1>0, <2>6, CausedType
    DEF Joins, CheckJoined, OsJoin, OsJoinInvalid, OsJoinDeadlock, OsJoined, JoinReturns,
       JoinRaises, InFlightUnwinds, Unwinds, OutcomeIsLeft, LeavesOutcome, HasOutcome
  <2>7. CASE Handles(a)
    BY <1>2, <1>0, <2>7, HandlersType
       DEF Handles, Rescue, EnterEnsure, EnterBody, LeaveBody, EndRescue, EndEnsure,
           Jump, LeaveHandler, AtBody, InFlightUnwinds, Unwinds, CarriesException,
     OutcomeIsLeft, LeavesOutcome, HasOutcome
  <2> QED BY <1>1, <2>1, <2>2, <2>3, <2>4, <2>5, <2>6, <2>7 DEF Steps
<1> QED BY <1>3, <1>4 DEF OutcomeIsLeft

\* Initially nothing propagates, nobody waits and everybody is in its block.
LEMMA FlowInit == ASSUME Init PROVE FlowInv
<1>1. None \notin KillErrors
  BY KillAssumption DEF IsKill
<1> QED
  BY <1>1, MainAssumption
  DEF Init, FlowInv, InFlightUnwinds, Unwinds, AsleepWaits, SleepsInWait, OutcomeIsLeft,
     LeavesOutcome, IsKill

\* The three together are kept.
LEMMA FlowStep ==
  ASSUME IInv, FlowInv, [Next]_vars
  PROVE  FlowInv'
<1>1. TypeOK /\ CarriesException
  BY DEF IInv
<1>2. ASSUME Next PROVE FlowInv'
  <2>1. PICK a \in Threads : Steps(a)
    BY <1>2, StepKinds
  <2> QED
    BY <1>1, <2>1, UnwindsStep, AsleepStep, OutcomeStep DEF FlowInv
<1>3. ASSUME UNCHANGED vars PROVE FlowInv'
  BY <1>3
  DEF vars, lifeVars, joinVars, interruptVars, sleepVars, callVars, throwVars,
      FlowInv, InFlightUnwinds, Unwinds, AsleepWaits, SleepsInWait, OutcomeIsLeft,
         LeavesOutcome, HasOutcome
<1> QED
  BY <1>2, <1>3

\* What propagates, sleeps and is left behind, in every state of the program.
LEMMA Flow == Spec => [](IInv /\ FlowInv)
<1>1. Init => FlowInv
  BY FlowInit
<1>2. IInv /\ FlowInv /\ [Next]_vars => FlowInv'
  BY FlowStep
<1> QED
  BY <1>1, <1>2, Invariance, PTL DEF Spec

\* In every program, a thread that has left its block has left a value or an exception for
\* join, or was unwound by a kill.
THEOREM OutcomesAreLeft == Spec => []OutcomeIsLeft
<1>1. FlowInv => OutcomeIsLeft
  BY DEF FlowInv
<1> QED
  BY <1>1, Flow, PTL

-------------------------------------------------------------------------------
(* join: JoinSeesOutcome, in programs where no two threads join the same one. *)

\* A step that is not about joining: it neither comes from a join nor enters further than
\* its start.
Elsewhere(a) ==
  /\ osJoin' = osJoin /\ joined' = joined
  /\ pc[a] \notin Joining \cup {"gone"}
  /\ pc'[a] \in Joining => pc'[a] = "join" /\ <<a, "join", target'[a]>> \in Calls

LEMMA ElsewhereStep ==
  ASSUME TypeOK, NEW a \in Threads,
         Starts(a) \/ Ends(a) \/ Handles(a) \/ Delivers(a) \/ Posts(a) \/ Waits(a)
  PROVE  Elsewhere(a)
<1> USE MainAssumption, NobodyAssumption, ExceptionAssumption, KillAssumption
      DEF At, May, Goto, Throw, EnterCheckpoint, OnlyPcMoves, lifeVars, joinVars, interruptVars,
          sleepVars, callVars, throwVars
<1>1. pc \in [Threads -> Labels] /\ target \in [Threads -> Threads]
  BY DEF TypeOK
<1>2. CASE Starts(a)
  <2>1. CASE Pass(a) \/ Sleep(a) \/ KillMain(a) \/ Return(a)
    BY <1>1, <2>1 DEF Pass, Sleep, KillMain, Return, Elsewhere, Joining
  <2>2. ASSUME NEW frame \in Frames, PushMask(a, frame) PROVE Elsewhere(a)
    BY <1>1, <2>2 DEF PushMask, Elsewhere, Joining
  <2>3. ASSUME NEW e \in Exceptions, RaiseNow(a, e) \/ RaiseDeferred(a, e) PROVE Elsewhere(a)
    BY <1>1, <2>3 DEF RaiseNow, RaiseDeferred, Elsewhere, Joining
  <2>4. ASSUME NEW t \in Threads, Initialize(a, t) \/ Kill(a, t) \/ Wakeup(a, t) PROVE Elsewhere(a)
    BY <1>1, <2>4 DEF Initialize, Kill, Wakeup, Elsewhere, Joining
  <2>5. ASSUME NEW t \in Threads, Join(a, t) PROVE Elsewhere(a)
    BY <1>1, <2>5 DEF Join, Elsewhere, Joining
  <2>6. ASSUME NEW t \in Threads, JoinRefused(a, t) PROVE Elsewhere(a)
    BY <1>1, <2>6 DEF JoinRefused, Elsewhere, Joining
  <2>7. ASSUME NEW t \in Threads, NEW e \in Exceptions, Raise(a, t, e) PROVE Elsewhere(a)
    BY <1>1, <2>7 DEF Raise, Elsewhere, Joining
  <2> QED BY <1>2, <2>1, <2>2, <2>3, <2>4, <2>5, <2>6, <2>7 DEF Starts
<1>3. CASE Ends(a)
  BY <1>1, <1>3
  DEF Ends, CatchTop, CatchAndAbort, PopMask, EndProgram, Launch,
      DropUndeliveredKill, StoreValue, MarkDead, LeaveList, Elsewhere, Joining
<1>4. CASE Delivers(a)
  BY <1>1, <1>4
  DEF Delivers, TakeKill, NoKill, TakePending, NothingPending, Elsewhere, Joining, AfterCheckpoint
<1>5. CASE Posts(a)
  <2>1. CASE KillMark(a) \/ KillDrain(a) \/ KillPark(a) \/ RaisePush(a)
    BY <1>1, <2>1 DEF KillMark, KillDrain, KillPark, RaisePush, Elsewhere, Joining, Resume
  <2>2. CASE KillSelf(a)
    BY <1>1, <2>2 DEF KillSelf, Elsewhere, Joining, Resume
  <2>3. CASE WakeupDead(a) \/ WakeupAlive(a)
    BY <1>1, <2>3 DEF WakeupDead, WakeupAlive, Elsewhere, Joining, Resume
  <2>4. CASE NotifyWakeup(a) \/ Notify(a)
    BY <1>1, <2>4 DEF NotifyWakeup, Notify, Elsewhere, Joining, Resume
  <2> QED BY <1>5, <2>1, <2>2, <2>3, <2>4 DEF Posts
<1>6. CASE Waits(a)
  BY <1>1, <1>6
  DEF Waits, LockSleep, SkipWait, StartWait, EndWait, EndWaitUnnotified, Elsewhere, Joining
<1>7. CASE Handles(a)
  BY <1>1, <1>7 DEF Handles, Rescue, EnterEnsure, EnterBody, LeaveBody, EndRescue, EndEnsure, Jump,
     LeaveHandler, Elsewhere, Joining
<1> QED BY <1>2, <1>3, <1>4, <1>5, <1>6, <1>7

\* The thread that joins one is the first to reach pthread_join, and the last.
LEMMA JoinStep ==
  ASSUME TypeOK, OneJoiner, JoinIsFirst, NEW a \in Threads, Steps(a)
  PROVE  JoinIsFirst'
<1> DEFINE Holds(t) == joined[t] \/ \E b \in Threads : target[b] = t /\ pc[b] \in {"joining", "join_mark"}
           First3(b) == /\ pc[b] \in Joining => <<b, "join", target[b]>> \in Calls
                        /\ pc[b] = "os_join" => osJoin[target[b]] = "free"
                        /\ pc[b] = "join_mark" => pc[target[b]] = "gone"
<1>1. \A t \in Threads \ {a} : Apart(a, t)
  BY ApartStep
<1>2. /\ pc \in [Threads -> Labels] /\ target \in [Threads -> Threads]
      /\ osJoin \in [Threads -> {"free", "busy", "done"}] /\ joined \in [Threads -> BOOLEAN]
  BY DEF TypeOK
<1>3. /\ \A b \in Threads : First3(b)
      /\ \A t \in Threads : osJoin[t] # "free" => Holds(t)
  BY DEF JoinIsFirst
<1>4. \A b \in Threads : pc[b] \in Joining /\ pc[a] \in Joining /\ target[b] = target[a] => b = a
  <2>1. ASSUME NEW b \in Threads, pc[b] \in Joining, pc[a] \in Joining, target[b] = target[a]
        PROVE  b = a
    <3>1. <<b, "join", target[a]>> \in Calls /\ <<a, "join", target[a]>> \in Calls
      BY <1>3, <2>1
    <3>2. target[a] \in Threads
      BY <1>2
    <3> QED
      BY <3>1, <3>2 DEF OneJoiner
  <2> QED
    BY <2>1
<1>5. \A b \in Threads \ {a} : target'[b] = target[b] /\ (pc'[b] = pc[b] \/ pc'[b] = "launch")
  BY <1>1 DEF Apart
<1>6. SUFFICES (\A b \in Threads : First3(b)') /\ \A t \in Threads : osJoin'[t] # "free" => Holds(t)'
  BY DEF JoinIsFirst
<1>7. CASE Starts(a) \/ Ends(a) \/ Handles(a) \/ Delivers(a) \/ Posts(a) \/ Waits(a)
  <2>1. Elsewhere(a)
    BY <1>7, ElsewhereStep
  <2>2. \A b \in Threads : pc[b] = "gone" => pc'[b] = "gone"
    BY <1>1, <2>1 DEF Elsewhere, Apart
  <2>3. ASSUME NEW b \in Threads PROVE First3(b)'
    BY <1>2, <1>3, <1>5, <2>1, <2>2 DEF Elsewhere, Joining
  <2>4. ASSUME NEW t \in Threads, osJoin'[t] # "free" PROVE Holds(t)'
    <3>1. osJoin[t] # "free" /\ Holds(t)
      BY <1>3, <2>1, <2>4 DEF Elsewhere
    <3>2. \A b \in Threads : pc[b] \in {"joining", "join_mark"} => b # a
      BY <2>1 DEF Elsewhere, Joining
    <3>3. \A b \in Threads : pc[b] \in {"joining", "join_mark"} => pc'[b] = pc[b] /\ target'[b] = target[b]
      BY <1>1, <3>2 DEF Apart
    <3> QED
      BY <2>1, <3>1, <3>3 DEF Elsewhere
  <2> QED
    BY <2>3, <2>4
<1>8. CASE Joins(a)
  <2>1. CASE CheckJoined(a)
    <3>1. \A b \in Threads : First3(b)'
      BY <1>2, <1>3, <1>4, <1>5, <2>1
      DEF CheckJoined, At, Goto, Throw, OnlyPcMoves, lifeVars, joinVars, callVars, Joining
    <3>2. \A t \in Threads : osJoin'[t] # "free" => Holds(t)'
      BY <1>2, <1>3, <1>4, <1>5, <2>1
      DEF CheckJoined, At, Goto, Throw, OnlyPcMoves, lifeVars, joinVars, callVars, Joining
    <3> QED
      BY <3>1, <3>2
  <2>2. CASE OsJoin(a)
    <3>1. \A b \in Threads : First3(b)'
      BY <1>2, <1>3, <1>4, <1>5, <2>2
      DEF OsJoin, At, Goto, Throw, OnlyPcMoves, lifeVars, joinVars, callVars, Joining
    <3>2. \A t \in Threads : osJoin'[t] # "free" => Holds(t)'
      BY <1>2, <1>3, <1>4, <1>5, <2>2
      DEF OsJoin, At, Goto, Throw, OnlyPcMoves, lifeVars, joinVars, callVars, Joining
    <3> QED
      BY <3>1, <3>2
  <2>3. CASE OsJoinInvalid(a)
    <3>1. \A b \in Threads : First3(b)'
      BY <1>2, <1>3, <1>4, <1>5, <2>3
      DEF OsJoinInvalid, At, Goto, Throw, OnlyPcMoves, lifeVars, joinVars, callVars, Joining
    <3>2. \A t \in Threads : osJoin'[t] # "free" => Holds(t)'
      BY <1>2, <1>3, <1>4, <1>5, <2>3
      DEF OsJoinInvalid, At, Goto, Throw, OnlyPcMoves, lifeVars, joinVars, callVars, Joining
    <3> QED
      BY <3>1, <3>2
  <2>4. CASE OsJoinDeadlock(a)
    <3>1. \A b \in Threads : First3(b)'
      BY <1>2, <1>3, <1>4, <1>5, <2>4
      DEF OsJoinDeadlock, At, Goto, Throw, OnlyPcMoves, lifeVars, joinVars, callVars, Joining
    <3>2. \A t \in Threads : osJoin'[t] # "free" => Holds(t)'
      BY <1>2, <1>3, <1>4, <1>5, <2>4
      DEF OsJoinDeadlock, At, Goto, Throw, OnlyPcMoves, lifeVars, joinVars, callVars, Joining
    <3> QED
      BY <3>1, <3>2
  <2>5. CASE OsJoined(a)
    <3>1. \A b \in Threads : First3(b)'
      BY <1>2, <1>3, <1>4, <1>5, <2>5
      DEF OsJoined, At, Goto, Throw, OnlyPcMoves, lifeVars, joinVars, callVars, Joining
    <3>2. \A t \in Threads : osJoin'[t] # "free" => Holds(t)'
      BY <1>2, <1>3, <1>4, <1>5, <2>5
      DEF OsJoined, At, Goto, Throw, OnlyPcMoves, lifeVars, joinVars, callVars, Joining
    <3> QED
      BY <3>1, <3>2
  <2>6. CASE JoinReturns(a)
    <3>1. \A b \in Threads : First3(b)'
      BY <1>2, <1>3, <1>4, <1>5, <2>6
      DEF JoinReturns, At, Goto, Throw, OnlyPcMoves, lifeVars, joinVars, callVars, Joining
    <3>2. \A t \in Threads : osJoin'[t] # "free" => Holds(t)'
      BY <1>2, <1>3, <1>4, <1>5, <2>6
      DEF JoinReturns, At, Goto, Throw, OnlyPcMoves, lifeVars, joinVars, callVars, Joining
    <3> QED
      BY <3>1, <3>2
  <2>7. CASE JoinRaises(a)
    <3>1. \A b \in Threads : First3(b)'
      BY <1>2, <1>3, <1>4, <1>5, <2>7
      DEF JoinRaises, At, Goto, Throw, OnlyPcMoves, lifeVars, joinVars, callVars, Joining
    <3>2. \A t \in Threads : osJoin'[t] # "free" => Holds(t)'
      BY <1>2, <1>3, <1>4, <1>5, <2>7
      DEF JoinRaises, At, Goto, Throw, OnlyPcMoves, lifeVars, joinVars, callVars, Joining
    <3> QED
      BY <3>1, <3>2
  <2> QED
    BY <1>8, <2>1, <2>2, <2>3, <2>4, <2>5, <2>6, <2>7 DEF Joins
<1> QED
  BY <1>7, <1>8 DEF Steps

\* join goes past the OS-level join only when the thread is gone and has left an outcome,
\* in every program in which no two threads join the same one.
THEOREM Joined == OneJoiner => (Spec => []JoinSeesOutcome)
<1> SUFFICES ASSUME OneJoiner PROVE Spec => []JoinSeesOutcome
  OBVIOUS
<1>1. Init => JoinIsFirst
  BY MainAssumption DEF Init, JoinIsFirst, Joining
<1>2. IInv /\ JoinIsFirst /\ [Next]_vars => JoinIsFirst'
  <2> SUFFICES ASSUME IInv, JoinIsFirst, [Next]_vars PROVE JoinIsFirst'
    OBVIOUS
  <2>1. CASE Next
    BY <2>1, StepKinds, JoinStep DEF IInv
  <2>2. CASE UNCHANGED vars
    BY <2>2 DEF vars, lifeVars, joinVars, callVars, JoinIsFirst
  <2> QED
    BY <2>1, <2>2
<1>3. TypeOK /\ FlowInv /\ JoinIsFirst => JoinSeesOutcome
  BY DEF TypeOK, FlowInv, OutcomeIsLeft, LeavesOutcome, HasOutcome, JoinIsFirst, JoinSeesOutcome
<1>4. IInv => TypeOK
  BY DEF IInv
<1> QED
  BY <1>1, <1>2, <1>3, <1>4, Flow, PTL DEF Spec

-------------------------------------------------------------------------------
(* What a thread keeps for join, and the way of a kill through a thread.      *)

\* One thread of JoinRaisesWhatEnded and KillsInBlock.
Ended(t) ==
  OutOfBlock(t) =>
     \/ SameException(terminal[t], Outcome(inflight[t]))
     \/ t \in late /\ IsKill(terminal[t]) /\ terminal[t].kills = t

KillInBlock(t) == ~OutOfBlock(t) => terminal[t] = None \/ IsKill(terminal[t])

\* The steps of a that leave it in its block, or out of it.
StaysIn(a) == /\ ~OutOfBlock(a) /\ ~OutOfBlock(a)'
              /\ \/ terminal'[a] = terminal[a]
                 \/ terminal'[a] = None
                 \/ IsKill(terminal'[a])

StaysOut(a) == /\ OutOfBlock(a) /\ OutOfBlock(a)'
               /\ terminal'[a] = terminal[a] /\ inflight'[a] = inflight[a] /\ late' = late

\* A step of a leaves the other threads with what ended them: another exception appears
\* in their terminal slot only as a kill of theirs, late if they are out of their block.
LEMMA OthersKeepOutcome ==
  ASSUME TypeOK, CarriesException, NEW a \in Threads, Steps(a), NEW t \in Threads, t # a,
         Ended(t), KillInBlock(t)
  PROVE  Ended(t)' /\ KillInBlock(t)'
<1>1. Apart(a, t)
  BY ApartStep
<1>2. OutOfBlock(t)' <=> OutOfBlock(t)
  BY <1>1 DEF Apart, OutOfBlock
<1>3. inflight'[t] = inflight[t] /\ (t \in late => t \in late')
  BY <1>1 DEF Apart
<1>4. CASE SameException(terminal'[t], terminal[t])
  <2>1. IsKill(terminal[t]) => IsKill(terminal'[t]) /\ terminal'[t].kills = terminal[t].kills
    BY <1>4 DEF SameException
  <2>2. terminal[t] = None => terminal'[t] = None
    BY <1>4, KillAssumption DEF SameException
  <2>3. SameException(terminal[t], Outcome(inflight[t]))
          => SameException(terminal'[t], Outcome(inflight[t]))
    BY <1>4 DEF SameException
  <2>4. Outcome(inflight[t])' = Outcome(inflight[t])
    BY <1>3
  <2> QED
    BY <1>2, <1>3, <2>1, <2>2, <2>3, <2>4 DEF Ended, KillInBlock
<1>5. CASE ~SameException(terminal'[t], terminal[t])
  <2>1. /\ pc[a] = "kill_park" /\ target[a] = t /\ terminal'[t] = exc[a]
        /\ OutOfBlock(t) => t \in late'
    BY <1>1, <1>5 DEF Apart
  <2>2. IsKill(terminal'[t]) /\ terminal'[t].kills = t
    BY <2>1 DEF CarriesException, IsKill
  <2> QED
    BY <1>2, <2>1, <2>2 DEF Ended, KillInBlock
<1> QED
  BY <1>4, <1>5

\* Each thread comes to its end with nothing in its terminal slot but what ends it.
LEMMA ParkedStep ==
  ASSUME TypeOK, CarriesException, InFlightUnwinds, KillsInBlock, JoinRaisesWhatEnded,
         NEW a \in Threads, Steps(a)
  PROVE  KillsInBlock' /\ JoinRaisesWhatEnded'
<1>1. Ended(a) /\ KillInBlock(a) /\ Unwinds(a)
  BY DEF JoinRaisesWhatEnded, KillsInBlock, Ended, KillInBlock, InFlightUnwinds
<1>2. /\ pc \in [Threads -> Labels] /\ target \in [Threads -> Threads]
      /\ inflight \in [Threads -> Exceptions \cup KillErrors \cup {None}]
      /\ terminal \in [Threads -> Exceptions \cup KillErrors \cup {None}]
  BY DEF TypeOK
<1>3. ASSUME StaysIn(a) PROVE Ended(a)' /\ KillInBlock(a)'
  BY <1>1, <1>3 DEF StaysIn, Ended, KillInBlock
<1>4. ASSUME StaysOut(a) PROVE Ended(a)' /\ KillInBlock(a)'
  <2>1. Outcome(inflight[a])' = Outcome(inflight[a])
    BY <1>4 DEF StaysOut
  <2> QED
    BY <1>1, <1>4, <2>1 DEF StaysOut, Ended, KillInBlock
<1>5. Ended(a)' /\ KillInBlock(a)'
  <2> USE DEF At, May, Goto, Throw, EnterCheckpoint, OnlyPcMoves, lifeVars, joinVars,
              interruptVars, sleepVars, callVars, throwVars
  <2>1. CASE Starts(a)
    <3>1. pc[a] = "user" /\ terminal' = terminal
      BY <2>1 DEF Starts, Pass, Sleep, KillMain, Return, PushMask, RaiseNow, RaiseDeferred,
         Initialize, Kill, Wakeup, Join, JoinRefused, Raise
    <3>2. /\ pc'[a] \notin {"store", "exit", "finish", "gone", "notify"}
          /\ pc'[a] = "raise_push" => inflight' = inflight
      BY <1>2, <2>1 DEF Starts, Pass, Sleep, KillMain, Return, PushMask, RaiseNow, RaiseDeferred,
         Initialize, Kill, Wakeup, Join, JoinRefused, Raise
    <3>3. inflight[a] = None
      BY <1>1, <3>1 DEF Unwinds
    <3> QED
      BY <1>3, <3>1, <3>2, <3>3 DEF StaysIn, OutOfBlock
  <2>2. CASE Ends(a)
    <3>1. CASE CatchTop(a) \/ CatchAndAbort(a)
      <4>1. OutOfBlock(a)'
        BY <1>2, <3>1 DEF CatchTop, CatchAndAbort, OutOfBlock, CarriesException
      <4>2. terminal'[a] = Outcome(inflight[a]) /\ inflight'[a] = inflight[a]
        BY <1>2, <3>1 DEF CatchTop, CatchAndAbort
      <4>3. Outcome(inflight[a])' = Outcome(inflight[a])
        BY <4>2
      <4> QED
        BY <4>1, <4>2, <4>3 DEF Ended, KillInBlock, SameException
    <3>2. CASE DropUndeliveredKill(a)
      <4>1. inflight[a] = None /\ inflight'[a] = None /\ OutOfBlock(a)' /\ ~OutOfBlock(a)
        BY <1>1, <1>2, <3>2 DEF DropUndeliveredKill, Unwinds, OutOfBlock
      <4>2. terminal'[a] = None
        BY <1>1, <1>2, <3>2, <4>1, KillAssumption DEF DropUndeliveredKill, Dropped, KillInBlock
      <4>3. Outcome(inflight[a])' = None
        BY <4>1, OutcomeType
      <4> QED
        BY <4>1, <4>2, <4>3 DEF Ended, KillInBlock, SameException
    <3>3. CASE PopMask(a) \/ EndProgram(a) \/ Launch(a)
      <4>1. ~OutOfBlock(a) /\ ~OutOfBlock(a)' /\ terminal' = terminal
        BY <1>2, <3>3 DEF PopMask, EndProgram, Launch, OutOfBlock
      <4> QED
        BY <1>3, <4>1 DEF StaysIn
    <3>4. CASE StoreValue(a) \/ MarkDead(a) \/ LeaveList(a)
      <4>1. StaysOut(a)
        BY <1>2, <3>4 DEF StoreValue, MarkDead, LeaveList, OutOfBlock, StaysOut
      <4> QED
        BY <1>4, <4>1
    <3> QED
      BY <2>2, <3>1, <3>2, <3>3, <3>4 DEF Ends
  <2>3. CASE Handles(a)
    <3>1. ~OutOfBlock(a) /\ ~OutOfBlock(a)' /\ terminal' = terminal
      BY <1>2, <2>3 DEF Handles, Rescue, EnterEnsure, EnterBody, LeaveBody, EndRescue, EndEnsure,
         Jump, LeaveHandler, OutOfBlock
    <3> QED
      BY <1>3, <3>1 DEF StaysIn
  <2>4. CASE Delivers(a)
    <3>1. ~OutOfBlock(a) /\ ~OutOfBlock(a)' /\ terminal'[a] \in {terminal[a], None}
      BY <1>2, <2>4 DEF Delivers, TakeKill, NoKill, TakePending, NothingPending, AfterCheckpoint,
         OutOfBlock
    <3> QED
      BY <1>3, <3>1 DEF StaysIn
  <2>5. CASE Posts(a)
    <3>1. CASE KillMark(a) \/ KillSelf(a) \/ KillDrain(a) \/ WakeupDead(a) \/ WakeupAlive(a)
               \/ NotifyWakeup(a)
      <4>1. ~OutOfBlock(a) /\ ~OutOfBlock(a)' /\ terminal' = terminal
        BY <1>1, <1>2, <3>1 DEF KillMark, KillSelf, KillDrain, WakeupDead, WakeupAlive, NotifyWakeup,
           Resume, OutOfBlock, Unwinds
      <4> QED
        BY <1>3, <4>1 DEF StaysIn
    <3>2. CASE KillPark(a)
      <4>1. terminal'[a] = terminal[a] \/ IsKill(terminal'[a])
        BY <1>2, <3>2 DEF KillPark, CarriesException, IsKill
      <4>2. ~OutOfBlock(a) /\ ~OutOfBlock(a)'
        BY <1>2, <3>2 DEF KillPark, OutOfBlock
      <4> QED
        BY <1>3, <4>1, <4>2 DEF StaysIn
    <3>3. CASE RaisePush(a) \/ Notify(a)
      <4>1. terminal' = terminal /\ inflight' = inflight /\ late' = late
            /\ (OutOfBlock(a)' <=> OutOfBlock(a))
        BY <1>2, <3>3 DEF RaisePush, Notify, Resume, OutOfBlock
      <4> QED
        BY <1>3, <1>4, <4>1 DEF StaysIn, StaysOut
    <3> QED
      BY <2>5, <3>1, <3>2, <3>3 DEF Posts
  <2>6. CASE Waits(a)
    <3>1. ~OutOfBlock(a) /\ ~OutOfBlock(a)' /\ terminal' = terminal
      BY <1>2, <2>6 DEF Waits, LockSleep, SkipWait, StartWait, EndWait, EndWaitUnnotified, OutOfBlock
    <3> QED
      BY <1>3, <3>1 DEF StaysIn
  <2>7. CASE Joins(a)
    <3>1. ~OutOfBlock(a) /\ ~OutOfBlock(a)'
      BY <1>2, <2>7 DEF Joins, CheckJoined, OsJoin, OsJoinInvalid, OsJoinDeadlock, OsJoined,
         JoinReturns, JoinRaises, OutOfBlock
    <3>2. CASE JoinRaises(a)
      <4>1. IsKill(terminal[a]) => IsKill(Caused(a, terminal[a]))
        BY CausedType DEF IsKill
      <4>2. terminal[a] = None \/ IsKill(terminal[a])
        BY <1>1, <3>1 DEF KillInBlock
      <4>3. terminal'[a] = terminal[a] \/ IsKill(terminal'[a])
        BY <1>2, <3>2, <4>1, <4>2 DEF JoinRaises
      <4> QED
        BY <1>3, <3>1, <4>3 DEF StaysIn
    <3>3. CASE ~JoinRaises(a)
      <4>1. terminal' = terminal
        BY <2>7, <3>3 DEF Joins, CheckJoined, OsJoin, OsJoinInvalid, OsJoinDeadlock, OsJoined,
           JoinReturns
      <4> QED
        BY <1>3, <3>1, <4>1 DEF StaysIn
    <3> QED
      BY <3>2, <3>3
  <2> QED
    BY <2>1, <2>2, <2>3, <2>4, <2>5, <2>6, <2>7 DEF Steps
<1>6. \A t \in Threads : Ended(t)' /\ KillInBlock(t)'
  BY <1>5, OthersKeepOutcome DEF JoinRaisesWhatEnded, KillsInBlock, Ended, KillInBlock
<1> QED
  BY <1>6 DEF JoinRaisesWhatEnded, KillsInBlock, Ended, KillInBlock

\* In every program, what a thread that has left its block keeps for join and value is what
\* ended it: nothing, an exception, what was behind a kill, or a kill of its own that came
\* when the thread had left its block.
THEOREM JoinRaisesIt == Spec => []JoinRaisesWhatEnded
<1>1. Init => KillsInBlock /\ JoinRaisesWhatEnded
  BY MainAssumption DEF Init, KillsInBlock, JoinRaisesWhatEnded, OutOfBlock
<1>2. IInv /\ FlowInv /\ KillsInBlock /\ JoinRaisesWhatEnded /\ [Next]_vars
        => KillsInBlock' /\ JoinRaisesWhatEnded'
  <2> SUFFICES ASSUME IInv, FlowInv, KillsInBlock, JoinRaisesWhatEnded, [Next]_vars
               PROVE  KillsInBlock' /\ JoinRaisesWhatEnded'
    OBVIOUS
  <2>1. CASE Next
    BY <2>1, StepKinds, ParkedStep DEF IInv, FlowInv
  <2>2. CASE UNCHANGED vars
    BY <2>2 DEF vars, lifeVars, throwVars, KillsInBlock, JoinRaisesWhatEnded, OutOfBlock, Outcome,
       CauseOf
  <2> QED
    BY <2>1, <2>2
<1> QED
  BY <1>1, <1>2, Flow, PTL DEF Spec

\* A kill on its way through a thread stays on its way, but for an exception that takes its
\* place and for a jump out of an ensure body.
LEMMA DyingStep ==
  ASSUME TypeOK, CarriesException, NEW a \in Threads, Steps(a), NEW t \in Threads, Dying(t)
  PROVE  Dying(t)' \/ inflight'[t] # None \/ Jump(t)
<1>1. CASE t # a
  <2>1. inflight'[t] = inflight[t] /\ handlers'[t] = handlers[t]
    BY <1>1, ApartStep DEF Apart
  <2> QED
    BY <2>1 DEF Dying
<1>2. CASE t = a
  <2>1. /\ inflight \in [Threads -> Exceptions \cup KillErrors \cup {None}]
        /\ handlers \in [Threads -> Seq(Bodies)] /\ handlers[a] \in Seq(Bodies)
    BY DEF TypeOK
  <2>2. ASSUME inflight'[a] = inflight[a], handlers'[a] = handlers[a] PROVE Dying(a)'
    BY <1>2, <2>2 DEF Dying
  <2>3. ASSUME NEW x \in Exceptions \cup KillErrors, Throw(a, x) PROVE inflight'[a] # None
    BY <2>1, <2>3, CausedType, KillAssumption, ExceptionAssumption DEF Throw, IsKill
  <2>4. CASE Handles(a)
    <3>1. CASE Rescue(a) \/ EnterEnsure(a)
      <4>1. PICK kind \in {"rescue", "ensure"} :
              EnterBody(a, kind) /\ (kind = "rescue" => ~IsKill(inflight[a]))
        BY <3>1 DEF Rescue, EnterEnsure, Rescuable
      <4> DEFINE body == [kind |-> kind, exc |-> inflight[a], depth |-> Len(masks[a])]
      <4>2. handlers'[a] = Append(handlers[a], body)
        BY <2>1, <4>1 DEF EnterBody
      <4>3. body.kind = kind /\ body.exc = inflight[a]
        OBVIOUS
      <4> HIDE DEF body
      <4>4. CASE IsKill(inflight[a])
        <5>1. Len(handlers[a]) + 1 \in DOMAIN handlers'[a]
              /\ handlers'[a][Len(handlers[a]) + 1] = body
          BY <2>1, <4>2
        <5> QED
          BY <1>2, <4>1, <4>3, <4>4, <5>1 DEF Dying
      <4>5. CASE ~IsKill(inflight[a])
        <5>1. PICK i \in DOMAIN handlers[a] :
                handlers[a][i].kind = "ensure" /\ IsKill(handlers[a][i].exc)
          BY <1>2, <4>5 DEF Dying
        <5>2. i \in DOMAIN handlers'[a] /\ handlers'[a][i] = handlers[a][i]
          BY <2>1, <4>2
        <5> QED
          BY <1>2, <5>1, <5>2 DEF Dying
      <4> QED
        BY <4>4, <4>5
    <3>2. CASE EndRescue(a)
      <4>1. /\ handlers[a] # <<>> /\ Last(handlers[a]).kind = "rescue"
            /\ handlers'[a] = Front(handlers[a]) /\ inflight'[a] = inflight[a]
        BY <2>1, <3>2 DEF EndRescue, AtBody, LeaveHandler
      <4>2. CASE IsKill(inflight[a])
        BY <1>2, <4>1, <4>2 DEF Dying
      <4>3. CASE ~IsKill(inflight[a])
        <5>1. PICK i \in DOMAIN handlers[a] :
                handlers[a][i].kind = "ensure" /\ IsKill(handlers[a][i].exc)
          BY <1>2, <4>3 DEF Dying
        <5>2. i # Len(handlers[a])
          BY <4>1, <5>1 DEF Last
        <5>3. i \in DOMAIN handlers'[a] /\ handlers'[a][i] = handlers[a][i]
          BY <2>1, <4>1, <5>2 DEF Front
        <5> QED
          BY <1>2, <5>1, <5>3 DEF Dying
      <4> QED
        BY <4>2, <4>3
    <3>3. CASE EndEnsure(a)
      <4>1. handlers[a] # <<>> /\ inflight'[a] = Last(handlers[a]).exc
        BY <2>1, <3>3 DEF EndEnsure, AtBody
      <4>2. Last(handlers[a]).exc \in Exceptions \cup KillErrors
        BY <4>1, HandlersType
      <4> QED
        BY <1>2, <4>1, <4>2, KillAssumption, ExceptionAssumption DEF IsKill
    <3>4. CASE Jump(a)
      BY <1>2, <3>4
    <3>5. CASE LeaveBody(a)
      BY <1>2, <3>5 DEF LeaveBody, CarriesException, At
    <3> QED
      BY <2>4, <3>1, <3>2, <3>3, <3>4, <3>5 DEF Handles
  <2>5. CASE Starts(a)
    <3>1. CASE \E e \in Exceptions : RaiseNow(a, e)
      BY <1>2, <2>3, <3>1 DEF RaiseNow
    <3>2. CASE \E u \in Threads : JoinRefused(a, u)
      BY <1>2, <2>3, <3>2, ExceptionAssumption DEF JoinRefused
    <3>3. CASE ~(\E e \in Exceptions : RaiseNow(a, e)) /\ ~\E u \in Threads : JoinRefused(a, u)
      <4>1. inflight' = inflight /\ handlers' = handlers
        BY <2>5, <3>3 DEF Starts, Pass, Sleep, KillMain, Return, PushMask, RaiseDeferred, Initialize,
           Kill, Wakeup, Join, Raise, OnlyPcMoves, throwVars
      <4> QED
        BY <1>2, <2>2, <4>1
    <3> QED
      BY <3>1, <3>2, <3>3
  <2>6. CASE Ends(a) \/ Waits(a)
    <3>1. inflight' = inflight /\ handlers' = handlers
      BY <2>6 DEF Ends, CatchTop, CatchAndAbort, PopMask, EndProgram, Launch, DropUndeliveredKill,
         StoreValue, MarkDead, LeaveList, Waits, LockSleep, SkipWait, StartWait, EndWait,
         EndWaitUnnotified, throwVars
    <3> QED
      BY <1>2, <2>2, <3>1
  <2>7. CASE Delivers(a)
    <3>1. CASE TakeKill(a)
      BY <1>2, <2>3, <3>1 DEF TakeKill, IsKill
    <3>2. CASE TakePending(a)
      BY <1>2, <2>3, <3>2, DeliveredIsPending DEF TakePending, Ready
    <3>3. CASE NoKill(a) \/ NothingPending(a)
      BY <1>2, <2>2, <3>3 DEF NoKill, NothingPending, OnlyPcMoves, throwVars
    <3> QED
      BY <2>7, <3>1, <3>2, <3>3 DEF Delivers
  <2>8. CASE Posts(a)
    <3>1. CASE KillSelf(a)
      BY <1>2, <2>3, <3>1, KillOfType DEF KillSelf
    <3>2. CASE WakeupDead(a)
      BY <1>2, <2>3, <3>2, ExceptionAssumption DEF WakeupDead
    <3>3. CASE ~KillSelf(a) /\ ~WakeupDead(a)
      <4>1. inflight' = inflight /\ handlers' = handlers
        BY <2>8, <3>3 DEF Posts, KillMark, KillDrain, KillPark, RaisePush, WakeupAlive, NotifyWakeup,
           Notify, OnlyPcMoves, throwVars
      <4> QED
        BY <1>2, <2>2, <4>1
    <3> QED
      BY <3>1, <3>2, <3>3
  <2>9. CASE Joins(a)
    <3>1. CASE JoinRaises(a)
      <4>1. terminal[target[a]] \in Exceptions \cup KillErrors
        BY <3>1 DEF JoinRaises, TypeOK
      <4> QED
        BY <1>2, <2>3, <3>1, <4>1 DEF JoinRaises
    <3>2. CASE ~JoinRaises(a)
      <4>1. inflight' = inflight /\ handlers' = handlers
        BY <2>9, <3>2 DEF Joins, CheckJoined, OsJoin, OsJoinInvalid, OsJoinDeadlock, OsJoined,
           JoinReturns, OnlyPcMoves, throwVars
      <4> QED
        BY <1>2, <2>2, <4>1
    <3> QED
      BY <3>1, <3>2
  <2> QED
    BY <2>4, <2>5, <2>6, <2>7, <2>8, <2>9 DEF Steps
<1> QED
  BY <1>1, <1>2

\* In every program, a kill on its way through a thread, or waiting for an ensure body, goes
\* on until another exception takes its place or Ruby code jumps out of the ensure body.
THEOREM KillEnds == Spec => KillIsNotRescued
<1>1. TypeOK /\ CarriesException /\ [Next]_vars
        => [\A t \in Threads : Dying(t) => Dying(t)' \/ inflight'[t] # None \/ Jump(t)]_vars
  BY StepKinds, DyingStep
<1>2. IInv => TypeOK /\ CarriesException
  BY DEF IInv
<1> QED
  BY <1>1, <1>2, Invariance, PTL DEF Spec, KillIsNotRescued

-------------------------------------------------------------------------------
(* Interrupt timing.                                                         *)

\* The least and the greatest of a set of numbers, once they are known.
LEMMA FirstIs ==
  ASSUME NEW S \in SUBSET Nat, NEW i \in S, \A j \in S : i <= j
  PROVE  First(S) = i
<1>1. \A k \in S : (\A j \in S : k <= j) => k = i
  <2>1. ASSUME NEW k \in S, \A j \in S : k <= j PROVE k = i
    <3>1. k <= i /\ i <= k /\ i \in Nat /\ k \in Nat
      BY <2>1
    <3> QED
      BY <3>1
  <2> QED
    BY <2>1
<1> QED
  BY <1>1 DEF First

LEMMA InnermostIs ==
  ASSUME NEW S \in SUBSET Nat, NEW i \in S, \A j \in S : j <= i
  PROVE  Innermost(S) = i
<1>1. \A k \in S : (\A j \in S : j <= k) => k = i
  <2>1. ASSUME NEW k \in S, \A j \in S : j <= k PROVE k = i
    <3>1. k <= i /\ i <= k /\ i \in Nat /\ k \in Nat
      BY <2>1
    <3> QED
      BY <3>1
  <2> QED
    BY <2>1
<1> QED
  BY <1>1 DEF Innermost

\* The innermost mask decides for the class it names.
LEMMA OwnClassDecides ==
  ASSUME NEW stack \in Seq(Frames), NEW e \in Exceptions, stack # <<>>,
         Ancestors[e][1] \in DOMAIN Last(stack)
  PROVE  Timing(stack, e) = Last(stack)[Ancestors[e][1]]
<1> DEFINE top == Len(stack)
           naming == {i \in DOMAIN stack : Names(stack[i], e) # {}}
<1>1. top \in DOMAIN stack /\ Last(stack) = stack[top] /\ DOMAIN stack = 1..top /\ top \in Nat
  BY DEF Last
<1>2. DOMAIN Ancestors[e] \subseteq Nat /\ 1 \in DOMAIN Ancestors[e]
      /\ \A k \in DOMAIN Ancestors[e] : 1 <= k
  BY AncestorsAssumption
<1>3. 1 \in Names(stack[top], e) /\ Names(stack[top], e) \in SUBSET Nat
      /\ \A k \in Names(stack[top], e) : 1 <= k
  BY <1>1, <1>2 DEF Names
<1>4. First(Names(stack[top], e)) = 1
  BY <1>3, FirstIs
<1>5. top \in naming /\ naming \in SUBSET Nat /\ \A i \in naming : i <= top
  BY <1>1, <1>3
<1>6. Innermost(naming) = top
  <2> HIDE DEF naming
  <2> QED
    BY <1>5, InnermostIs
<1> QED
  BY <1>1, <1>4, <1>5, <1>6 DEF Timing

\* deliver_pending takes an exception that its thread may take.
LEMMA TakenIsReady ==
  ASSUME TypeOK, NEW t \in Threads, Ready(t) # {}
  PROVE  NextDelivered(Ready(t)) \in Ready(t)
<1>1. pending[t] \in Seq(Exceptions)
  BY DEF TypeOK
<1>2. Ready(t) \in SUBSET Nat
  BY <1>1 DEF Ready
<1> QED
  BY <1>2, FirstIsIn DEF NextDelivered

\* A thread leaves the second half of deliver_pending by one of two steps of its own.
LEMMA DeliveryStep ==
  ASSUME TypeOK, NEW a \in Threads, Steps(a), NEW t \in Threads, pc[t] = "deliver_queue", pc'[t] = "throw"
  PROVE  TakePending(t) \/ NothingPending(t)
<1>1. a = t
  BY ApartStep DEF Apart
<1>2. ~Starts(a)
  BY <1>1 DEF Starts, Pass, Sleep, KillMain, Return, PushMask, RaiseNow, RaiseDeferred,
     Initialize, Kill, Wakeup, Join, JoinRefused, Raise, May, At
<1>3. ~Ends(a)
  BY <1>1 DEF Ends, CatchTop, CatchAndAbort, PopMask, EndProgram, Launch,
     DropUndeliveredKill, StoreValue, MarkDead, LeaveList, May, At
<1>4. ~Posts(a) /\ ~Waits(a) /\ ~Joins(a)
  BY <1>1 DEF Posts, KillMark, KillSelf, KillDrain, KillPark, RaisePush, WakeupDead, WakeupAlive,
     NotifyWakeup, Notify, Waits, LockSleep, SkipWait, StartWait, EndWait, EndWaitUnnotified,
     Joins, CheckJoined, OsJoin, OsJoinInvalid, OsJoinDeadlock, OsJoined, JoinReturns,
        JoinRaises, At
<1>5. ~TakeKill(a) /\ ~NoKill(a)
  BY <1>1 DEF TakeKill, NoKill, At
<1>6. ~Handles(a)
  BY <1>1 DEF Handles, Rescue, EnterEnsure, EnterBody, LeaveBody, EndRescue, EndEnsure, Jump, May, At
<1> QED
  BY <1>1, <1>2, <1>3, <1>4, <1>5, <1>6 DEF Steps, Delivers

\* No thread is delivered an exception whose very class its innermost handle_interrupt
\* block declares :never.
THEOREM NeverHolds == Spec => NeverIsHonoured
<1> DEFINE Delivered(t) == At(t, "deliver_queue") /\ pending'[t] # pending[t] /\ pc'[t] = "throw"
           Forbidden(t) == /\ masks[t] # <<>>
                           /\ Ancestors[inflight'[t]][1] \in DOMAIN Last(masks[t])
                           /\ Last(masks[t])[Ancestors[inflight'[t]][1]] = "never"
<1>1. ASSUME TypeOK, [Next]_vars, NEW t \in Threads, Delivered(t), Forbidden(t) PROVE FALSE
  <2> DEFINE i == NextDelivered(Ready(t))
             e == pending[t][i]
  <2>1. Next
    BY <1>1 DEF vars, interruptVars
  <2>2. TakePending(t) \/ NothingPending(t)
    BY <1>1, <2>1, StepKinds, DeliveryStep DEF At
  <2>3. TakePending(t)
    BY <1>1, <2>2 DEF NothingPending, OnlyPcMoves, interruptVars
  <2>4. i \in Ready(t) /\ e \in Exceptions
    BY <1>1, <2>3, TakenIsReady, DeliveredIsPending DEF TakePending, Ready
  <2>5. Deliverable(masks[t], Kind(checkpoint[t]), e)
    BY <2>4 DEF Ready
  <2>6. inflight'[t] = e
    BY <1>1, <2>3, <2>4, CausedType DEF TakePending, Throw, TypeOK
  <2>7. masks[t] \in Seq(Frames)
    BY <1>1 DEF TypeOK
  <2> HIDE DEF e, i
  <2>8. Timing(masks[t], e) = "never"
    BY <1>1, <2>4, <2>6, <2>7, OwnClassDecides
  <2> QED
    BY <2>5, <2>8 DEF Deliverable
<1>2. TypeOK /\ [Next]_vars => [\A t \in Threads : Delivered(t) => ~Forbidden(t)]_vars
  BY <1>1
<1>3. IInv => TypeOK
  BY DEF IInv
<1> QED
  BY <1>2, <1>3, Invariance, PTL DEF Spec, NeverIsHonoured

-------------------------------------------------------------------------------
(* The mailbox: ImplementsMailbox.                                           *)

Doomed == [t \in Threads |-> IsKill(terminal[t])]

\* A table of flags in which one flag is set or reset.
LEMMA OneFlag ==
  ASSUME NEW f, f \in [Threads -> BOOLEAN], NEW g, g \in [Threads -> BOOLEAN],
         NEW u \in Threads, NEW v, g[u] = v, \A t \in Threads \ {u} : g[t] = f[t]
  PROVE  g = [f EXCEPT ![u] = v]
  OBVIOUS

\* Who is doomed.
LEMMA DoomedIs ==
  /\ Doomed \in [Threads -> BOOLEAN]
  /\ \A t \in Threads : Doomed[t] = IsKill(terminal[t])
<1>1. \A t \in Threads : IsKill(terminal[t]) \in BOOLEAN
  BY DEF IsKill
<1>2. Doomed = [t \in Threads |-> IsKill(terminal[t])]
  BY DEF Doomed
<1>3. Doomed \in [Threads -> BOOLEAN]
  BY <1>1, <1>2
<1>4. \A t \in Threads : Doomed[t] = IsKill(terminal[t])
  BY <1>2
<1> QED
  BY <1>3, <1>4

LEMMA DoomedIsPrime ==
  /\ Doomed' \in [Threads -> BOOLEAN]
  /\ \A t \in Threads : Doomed'[t] = IsKill(terminal'[t])
<1>1. \A t \in Threads : IsKill(terminal'[t]) \in BOOLEAN
  BY DEF IsKill
<1>2. Doomed' = [t \in Threads |-> IsKill(terminal'[t])]
  BY DEF Doomed
<1>3. Doomed' \in [Threads -> BOOLEAN]
  BY <1>1, <1>2
<1>4. \A t \in Threads : Doomed'[t] = IsKill(terminal'[t])
  BY <1>2
<1> QED
  BY <1>3, <1>4

\* The mailboxes of all threads, as InterruptMailbox sees them, are left alone.
Kept == pending' = pending /\ asleep' = asleep /\ Doomed' = Doomed

\* Exceptions of one class have the same timing.
LEMMA SameClassSameTiming ==
  ASSUME NEW stack, NEW kind, NEW e \in Exceptions, NEW f \in Exceptions, Ancestors[e][1] = Ancestors[f][1]
  PROVE  Deliverable(stack, kind, e) = Deliverable(stack, kind, f)
<1>1. Ancestors[e] = Ancestors[f]
  BY AncestorsAssumption
<1>2. Timing(stack, e) = Timing(stack, f)
  BY <1>1 DEF Timing, Names
<1> QED
  BY <1>2 DEF Deliverable

\* What deliver_pending takes is the first of its class in the queue.
LEMMA FirstOfItsClass ==
  ASSUME TypeOK, NEW t \in Threads, Ready(t) # {}, NEW i, i = NextDelivered(Ready(t)),
         NEW j \in 1..(i - 1)
  PROVE  Ancestors[pending[t][j]][1] # Ancestors[pending[t][i]][1]
<1>1. pending[t] \in Seq(Exceptions)
  BY DEF TypeOK
<1>2. Ready(t) \in SUBSET Nat /\ Ready(t) \subseteq DOMAIN pending[t]
  BY <1>1 DEF Ready
<1>3. i \in Ready(t) /\ \A k \in Ready(t) : i <= k
  BY <1>2, FirstIsIn DEF NextDelivered
<1>4. i \in DOMAIN pending[t] /\ i \in Nat
  BY <1>2, <1>3
<1>5. j \in DOMAIN pending[t] /\ ~ i <= j
  BY <1>1, <1>4
<1>6. pending[t][i] \in Exceptions /\ pending[t][j] \in Exceptions
  BY <1>1, <1>4, <1>5
<1>7. ~Deliverable(masks[t], Kind(checkpoint[t]), pending[t][j])
  BY <1>3, <1>5 DEF Ready
<1>8. Deliverable(masks[t], Kind(checkpoint[t]), pending[t][i])
  BY <1>3 DEF Ready
<1> QED
  BY <1>6, <1>7, <1>8, SameClassSameTiming

\* Posting and taking an exception, and emptying a mailbox.
LEMMA QueueMaps ==
  ASSUME TypeOK, CarriesException, AsleepWaits, NEW a \in Threads,
         \/ RaisePush(a) \/ TakePending(a) \/ KillSelf(a) \/ KillDrain(a)
         \/ \E e \in Exceptions : RaiseDeferred(a, e)
  PROVE  Mailbox!Next
<1> USE DEF lifeVars, interruptVars, sleepVars
<1>1. /\ target[a] \in Threads /\ pending[a] \in Seq(Exceptions)
      /\ asleep[a] => pc[a] = "waiting"
  BY DEF TypeOK, AsleepWaits, SleepsInWait
<1>2. Doomed' = Doomed
  BY DEF Doomed, RaisePush, TakePending, KillSelf, KillDrain, RaiseDeferred
<1>3. CASE RaisePush(a)
  <2>1. exc[a] \in Exceptions
    BY <1>3 DEF CarriesException, RaisePush, At
  <2>2. Mailbox!Post(target[a], exc[a])
    BY <1>2, <1>3 DEF RaisePush, Mailbox!Post, Doomed
  <2> QED
    BY <1>1, <2>1, <2>2 DEF Mailbox!Next
<1>4. CASE TakePending(a)
  <2> DEFINE i == NextDelivered(Ready(a))
  <2>1. i \in DOMAIN pending[a]
    BY <1>4, DeliveredIsPending DEF TakePending, Ready
  <2>2. \A j \in 1..(i - 1) : Ancestors[pending[a][j]][1] # Ancestors[pending[a][i]][1]
    BY <1>4, FirstOfItsClass DEF TakePending
  <2>3. ~asleep[a]
    BY <1>1, <1>4 DEF TakePending, At
  <2>4. pending' = [pending EXCEPT ![a] = RemoveAt(@, i)] /\ asleep' = asleep
    BY <1>4 DEF TakePending
  <2> HIDE DEF i
  <2>5. \A j \in 1..(i - 1) : pending[a][j] \in Exceptions
    BY <1>1, <2>1
  <2>6. pending[a][i] \in Exceptions
    BY <1>1, <2>1
  <2>7. \A j \in 1..(i - 1) : [e \in Exceptions |-> Ancestors[e][1]][pending[a][j]]
                                # [e \in Exceptions |-> Ancestors[e][1]][pending[a][i]]
    BY <2>2, <2>5, <2>6
  <2>8. Mailbox!Take(a, i)
    BY <1>2, <2>3, <2>4, <2>7 DEF Mailbox!Take, Doomed, RemoveAt, Mailbox!RemoveAt
  <2> QED
    BY <2>1, <2>8 DEF Mailbox!Next
<1>5. CASE KillSelf(a)
  <2>1. Mailbox!Empty(a)
    BY <1>2, <1>5 DEF KillSelf, Mailbox!Empty, Doomed
  <2> QED
    BY <2>1 DEF Mailbox!Next
<1>6. CASE KillDrain(a)
  <2>1. Mailbox!Empty(target[a])
    BY <1>2, <1>6 DEF KillDrain, Mailbox!Empty, Doomed
  <2> QED
    BY <1>1, <2>1 DEF Mailbox!Next
<1>7. ASSUME NEW e \in Exceptions, RaiseDeferred(a, e) PROVE Mailbox!Next
  <2>1. Mailbox!Post(a, e)
    BY <1>2, <1>7 DEF RaiseDeferred, Mailbox!Post, Doomed
  <2> QED
    BY <2>1 DEF Mailbox!Next
<1> QED
  BY <1>3, <1>4, <1>5, <1>6, <1>7

\* Parking a kill, and taking or dropping it.
LEMMA DoomMaps ==
  ASSUME TypeOK, CarriesException, AsleepWaits, NEW a \in Threads,
         KillPark(a) \/ TakeKill(a) \/ DropUndeliveredKill(a) \/ CatchTop(a) \/ CatchAndAbort(a)
  PROVE  Mailbox!Next
<1> USE DEF lifeVars, interruptVars, sleepVars
<1>1. /\ target[a] \in Threads /\ terminal \in [Threads -> Exceptions \cup KillErrors \cup {None}]
      /\ inflight[a] \in Exceptions \cup KillErrors \cup {None}
      /\ asleep[a] => pc[a] = "waiting"
  BY DEF TypeOK, AsleepWaits, SleepsInWait
<1>2. pending' = pending /\ asleep' = asleep
  BY DEF KillPark, TakeKill, DropUndeliveredKill, CatchTop, CatchAndAbort
<1>3. CASE KillPark(a)
  <2>1. IsKill(exc[a])
    BY <1>3 DEF CarriesException, KillPark, At, IsKill
  <2>2. terminal' = [terminal EXCEPT ![target[a]] = exc[a]]
    BY <1>3 DEF KillPark
  <2>3. \A t \in Threads \ {target[a]} : terminal'[t] = terminal[t]
    BY <1>1, <2>2
  <2>4. IsKill(terminal'[target[a]])
    BY <1>1, <2>1, <2>2
  <2>5. Doomed' = [Doomed EXCEPT ![target[a]] = TRUE]
    <3>1. \A t \in Threads \ {target[a]} : Doomed'[t] = Doomed[t]
      BY <2>3, DoomedIs, DoomedIsPrime
    <3>2. Doomed'[target[a]] = IsKill(terminal'[target[a]])
      BY <1>1, DoomedIsPrime
    <3>3. Doomed'[target[a]] = TRUE
      BY <2>4, <3>2, Zenon
    <3> QED
      BY <1>1, <3>1, <3>3, DoomedIs, DoomedIsPrime, OneFlag
  <2>6. Mailbox!Doom(target[a])
    BY <1>2, <2>5 DEF Mailbox!Doom, Doomed
  <2> QED
    BY <1>1, <2>6 DEF Mailbox!Next
<1>4. CASE TakeKill(a) \/ DropUndeliveredKill(a) \/ CatchTop(a) \/ CatchAndAbort(a)
  <2>1. \E x \in Exceptions \cup KillErrors \cup {None} : terminal' = [terminal EXCEPT ![a] = x]
    <3>1. CASE TakeKill(a)
      BY <3>1 DEF TakeKill
    <3>2. CASE DropUndeliveredKill(a)
      BY <1>1, <3>2, DroppedType DEF DropUndeliveredKill
    <3>3. CASE CatchTop(a) \/ CatchAndAbort(a)
      BY <1>1, <3>3, OutcomeType DEF CatchTop, CatchAndAbort
    <3> QED
      BY <1>4, <3>1, <3>2, <3>3
  <2>2. \A t \in Threads \ {a} : Doomed'[t] = Doomed[t]
    BY <1>1, <2>1, DoomedIs, DoomedIsPrime
  <2>3. ~asleep[a]
    BY <1>1, <1>4 DEF TakeKill, DropUndeliveredKill, CatchTop, CatchAndAbort, At
  <2>4. CASE Doomed'[a] = TRUE
    <3>1. Doomed' = [Doomed EXCEPT ![a] = TRUE]
      BY <2>2, <2>4, DoomedIs, DoomedIsPrime, OneFlag
    <3>2. Mailbox!Doom(a)
      BY <1>2, <3>1 DEF Mailbox!Doom, Doomed
    <3> QED
      BY <3>2 DEF Mailbox!Next
  <2>5. CASE Doomed'[a] = FALSE
    <3>1. Doomed' = [Doomed EXCEPT ![a] = FALSE]
      BY <2>2, <2>5, DoomedIs, DoomedIsPrime, OneFlag
    <3>2. Mailbox!TakeDoom(a)
      BY <1>2, <2>3, <3>1 DEF Mailbox!TakeDoom, Doomed
    <3> QED
      BY <3>2 DEF Mailbox!Next
  <2> QED
    BY <2>4, <2>5, DoomedIsPrime
<1> QED
  BY <1>3, <1>4

\* Falling asleep and being woken; a notification may find nobody asleep.
LEMMA SleepMaps ==
  ASSUME TypeOK, AsleepWaits, NEW a \in Threads,
         StartWait(a) \/ EndWaitUnnotified(a) \/ NotifyWakeup(a) \/ Notify(a)
  PROVE  Mailbox!Next \/ Kept
<1> USE DEF lifeVars, interruptVars
<1>1. /\ target[a] \in Threads /\ asleep \in [Threads -> BOOLEAN]
      /\ asleep[a] => pc[a] = "waiting"
  BY DEF TypeOK, AsleepWaits, SleepsInWait
<1>2. pending' = pending /\ Doomed' = Doomed
  BY DEF StartWait, EndWaitUnnotified, NotifyWakeup, Notify, Doomed
<1>3. CASE StartWait(a)
  <2>1. Mailbox!FallAsleep(a)
    BY <1>1, <1>2, <1>3 DEF StartWait, At, Mailbox!FallAsleep, Doomed
  <2> QED
    BY <2>1 DEF Mailbox!Next
<1>4. CASE EndWaitUnnotified(a)
  <2>1. Mailbox!AwakeAgain(a)
    BY <1>1, <1>2, <1>4 DEF EndWaitUnnotified, Mailbox!AwakeAgain, Doomed
  <2> QED
    BY <2>1 DEF Mailbox!Next
<1>5. CASE NotifyWakeup(a) \/ Notify(a)
  <2>1. asleep' = [asleep EXCEPT ![target[a]] = FALSE]
    BY <1>5 DEF NotifyWakeup, Notify
  <2>2. CASE asleep[target[a]]
    <3>1. Mailbox!AwakeAgain(target[a])
      BY <1>2, <2>1, <2>2 DEF Mailbox!AwakeAgain, Doomed
    <3> QED
      BY <1>1, <3>1 DEF Mailbox!Next
  <2>3. CASE ~asleep[target[a]]
    <3>1. asleep' = asleep
      BY <1>1, <2>1, <2>3
    <3> QED
      BY <1>2, <3>1 DEF Kept
  <2> QED
    BY <2>2, <2>3
<1> QED
  BY <1>3, <1>4, <1>5

\* Every other step leaves the mailboxes alone.
LEMMA OtherMaps ==
  ASSUME TypeOK, NEW a \in Threads, Steps(a)
  PROVE  \/ Kept
         \/ RaisePush(a) \/ TakePending(a) \/ KillSelf(a) \/ KillDrain(a)
         \/ \E e \in Exceptions : RaiseDeferred(a, e)
         \/ KillPark(a) \/ TakeKill(a) \/ DropUndeliveredKill(a) \/ CatchTop(a) \/ CatchAndAbort(a)
         \/ StartWait(a) \/ EndWaitUnnotified(a) \/ NotifyWakeup(a) \/ Notify(a)
<1> USE DEF Kept, Doomed, OnlyPcMoves, lifeVars, interruptVars, sleepVars
<1>1. CASE Starts(a)
  BY <1>1 DEF Starts, Pass, Sleep, KillMain, Return, PushMask, RaiseNow, Initialize, Kill, Wakeup,
      Join, JoinRefused, Raise
<1>2. CASE Ends(a)
  BY <1>2 DEF Ends, PopMask, EndProgram, Launch, StoreValue, MarkDead, LeaveList
<1>3. CASE Delivers(a)
  BY <1>3 DEF Delivers, NoKill, NothingPending
<1>4. CASE Posts(a)
  BY <1>4 DEF Posts, KillMark, WakeupDead, WakeupAlive
<1>5. CASE Waits(a)
  BY <1>5 DEF Waits, LockSleep, SkipWait, EndWait
<1>6. CASE Joins(a)
  <2>1. CASE JoinRaises(a)
    <3>1. terminal \in [Threads -> Exceptions \cup KillErrors \cup {None}] /\ target[a] \in Threads
      BY DEF TypeOK
    <3>2. IsKill(Caused(a, terminal[target[a]])) <=> IsKill(terminal[target[a]])
      BY <2>1, <3>1, CausedType DEF JoinRaises, IsKill
    <3>3. terminal' = [terminal EXCEPT ![target[a]] = Caused(a, terminal[target[a]])]
      BY <2>1 DEF JoinRaises
    <3>4. \A t \in Threads : IsKill(terminal'[t]) <=> IsKill(terminal[t])
      BY <3>1, <3>2, <3>3
    <3>5. ASSUME NEW t \in Threads PROVE Doomed'[t] = Doomed[t]
      <4>1. Doomed'[t] = IsKill(terminal'[t]) /\ Doomed[t] = IsKill(terminal[t])
        BY DoomedIs, DoomedIsPrime
      <4>2. Doomed'[t] \in BOOLEAN /\ Doomed[t] \in BOOLEAN
        BY DoomedIs, DoomedIsPrime
      <4>3. Doomed'[t] <=> Doomed[t]
        BY <3>4, <4>1, Zenon
      <4> QED
        BY <4>2, <4>3
    <3>6. Doomed' = Doomed
      BY <3>5, DoomedIs, DoomedIsPrime
    <3> QED
      BY <2>1, <3>6 DEF JoinRaises
  <2>2. CASE ~JoinRaises(a)
    BY <1>6, <2>2 DEF Joins, CheckJoined, OsJoin, OsJoinInvalid, OsJoinDeadlock, OsJoined, JoinReturns
  <2> QED
    BY <2>1, <2>2
<1>7. CASE Handles(a)
  BY <1>7 DEF Handles, Rescue, EnterEnsure, EnterBody, LeaveBody, EndRescue, EndEnsure, Jump,
     LeaveHandler
<1> QED
  BY <1>1, <1>2, <1>3, <1>4, <1>5, <1>6, <1>7 DEF Steps

\* Thread#raise, Thread#kill and the checkpoints implement a mailbox per thread: what is
\* posted is taken once, awake, one class in the order of posting, and a kill empties it.
THEOREM Refines == Spec => ImplementsMailbox
<1>1. Init => Mailbox!Init
  <2>1. ASSUME Init PROVE Doomed = [t \in Threads |-> FALSE]
    <3>1. \A t \in Threads : Doomed[t] = FALSE
      BY <2>1, KillAssumption, DoomedIs DEF Init, IsKill
    <3> QED
      BY <3>1, DoomedIs
  <2> QED
    BY <2>1 DEF Init, Mailbox!Init, Doomed
<1>2. IInv /\ FlowInv /\ [Next]_vars => [Mailbox!Next]_(Mailbox!vars)
  <2> SUFFICES ASSUME IInv, FlowInv, [Next]_vars PROVE Mailbox!Next \/ Kept
    BY DEF Kept, Doomed, Mailbox!vars
  <2>1. TypeOK /\ CarriesException /\ AsleepWaits
    BY DEF IInv, FlowInv
  <2>2. CASE Next
    <3>1. PICK a \in Threads : Steps(a)
      BY <2>2, StepKinds
    <3> QED
      BY <2>1, <3>1, OtherMaps, QueueMaps, DoomMaps, SleepMaps
  <2>3. CASE UNCHANGED vars
    BY <2>3 DEF vars, lifeVars, interruptVars, sleepVars, Kept, Doomed
  <2> QED
    BY <2>2, <2>3
<1> QED
  BY <1>1, <1>2, Flow, PTL DEF Spec, ImplementsMailbox, Mailbox!Spec
===============================================================================
