---------------------------- MODULE Timeout_proofs ----------------------------
(***************************************************************************)
(* For any number of threads and calls, nested in any way: one watcher is  *)
(* created, a call's exception is raised once, and only while it is on.    *)
(***************************************************************************)
EXTENDS Timeout, SequenceTheorems, TLAPS

Once(s) == \A i, j \in DOMAIN s : s[i] = s[j] => i = j

\* Taking the first of a list leaves the others.
LEMMA TailMembers ==
  ASSUME NEW S, NEW s \in Seq(S), s # <<>>
  PROVE  /\ Head(s) \in S /\ Tail(s) \in Seq(S) /\ Head(s) \in Members(s)
         /\ Members(Tail(s)) \subseteq Members(s)
         /\ Once(s) => Once(Tail(s)) /\ Head(s) \notin Members(Tail(s))
<1>1. /\ Head(s) \in S /\ Tail(s) \in Seq(S) /\ Len(Tail(s)) = Len(s) - 1 /\ Head(s) = s[1]
      /\ \A i \in 1..Len(Tail(s)) : Tail(s)[i] = s[i + 1]
  BY HeadTailProperties
<1>2. Len(s) \in Nat /\ Len(s) > 0 /\ DOMAIN s = 1..Len(s) /\ DOMAIN Tail(s) = 1..Len(Tail(s))
  BY <1>1, LenProperties, EmptySeq
<1>3. /\ 1 \in DOMAIN s
      /\ \A i \in DOMAIN Tail(s) : i \in Nat /\ i + 1 \in DOMAIN s /\ i + 1 # 1 /\ Tail(s)[i] = s[i + 1]
  BY <1>1, <1>2
<1>4. Once(s) => Once(Tail(s))
  <2>1. SUFFICES ASSUME Once(s), NEW i \in DOMAIN Tail(s), NEW j \in DOMAIN Tail(s),
                        Tail(s)[i] = Tail(s)[j]
                 PROVE  i = j
    BY DEF Once
  <2>2. i + 1 = j + 1
    BY <2>1, <1>3 DEF Once
  <2> QED BY <2>2, <1>3
<1>5. Once(s) => Head(s) \notin Members(Tail(s))
  BY <1>1, <1>3 DEF Once, Members
<1>6. Members(Tail(s)) \subseteq Members(s) /\ Head(s) \in Members(s)
  BY <1>1, <1>3 DEF Members
<1> QED BY <1>1, <1>4, <1>5, <1>6

\* What appending to a list adds.
LEMMA AppendMembers ==
  ASSUME NEW S, NEW s \in Seq(S), NEW x \in S
  PROVE  /\ Append(s, x) \in Seq(S)
         /\ Members(Append(s, x)) = Members(s) \cup {x}
         /\ Once(s) /\ x \notin Members(s) => Once(Append(s, x))
<1> DEFINE as == Append(s, x)
           dom == DOMAIN s
           last == Len(s) + 1
<1>1. /\ as \in Seq(S) /\ Len(as) = Len(s) + 1
      /\ \A i \in 1..Len(s) : as[i] = s[i]
      /\ as[Len(s) + 1] = x
  BY AppendProperties
<1>2. Len(s) \in Nat /\ DOMAIN s = 1..Len(s) /\ DOMAIN as = 1..(Len(s) + 1)
  BY <1>1, LenProperties
<1>3. DOMAIN as = dom \cup {last} /\ last \notin dom
  BY <1>2
<1>4. as[last] = x /\ \A i \in dom : as[i] = s[i]
  BY <1>1, <1>2
<1>5. Members(as) = {as[i] : i \in dom \cup {last}} /\ Members(s) = {s[i] : i \in dom}
  BY <1>3 DEF Members
<1>6. Once(s) = (\A i, j \in dom : s[i] = s[j] => i = j)
  BY DEF Once
<1> HIDE DEF as, dom, last
<1>7. Members(as) = Members(s) \cup {x}
  BY <1>4, <1>5
<1>8. ASSUME Once(s), x \notin Members(s), NEW i \in DOMAIN as, NEW j \in DOMAIN as, as[i] = as[j]
      PROVE  i = j
  BY <1>3, <1>4, <1>5, <1>6, <1>8
<1>9. Once(s) /\ x \notin Members(s) => Once(as)
  BY <1>8 DEF Once
<1> QED BY <1>1, <1>7, <1>9 DEF as

\* What the innermost call leaves when it is left.
LEMMA FrontMembers ==
  ASSUME NEW S, NEW s \in Seq(S)
  PROVE  /\ Front(s) \in Seq(S)
         /\ Members(Front(s)) \subseteq Members(s)
         /\ s # <<>> => /\ s[Len(s)] \in S /\ s[Len(s)] \in Members(s)
                        /\ Members(s) \ {s[Len(s)]} \subseteq Members(Front(s))
<1>1. Len(s) \in Nat /\ DOMAIN s = 1..Len(s)
  BY LenProperties
<1>2. CASE s = <<>>
  <2>1. Len(s) = 0
    BY <1>2, EmptySeq
  <2>2. Front(s) \in Seq(S) /\ DOMAIN Front(s) = {}
    BY <2>1, <1>1, SubSeqProperties, EmptySeq, LenProperties DEF Front
  <2> QED BY <2>2, <1>2 DEF Members
<1>3. CASE s # <<>>
  <2>1. Len(s) > 0
    BY <1>1, <1>3, EmptySeq
  <2>2. /\ Front(s) \in Seq(S) /\ Len(Front(s)) = Len(s) - 1
        /\ \A i \in 1..(Len(s) - 1) : Front(s)[i] = s[i]
    BY <2>1, <1>1, SubSeqProperties DEF Front
  <2>3. DOMAIN Front(s) = 1..(Len(s) - 1)
    BY <2>2, LenProperties
  <2>4. /\ DOMAIN s = DOMAIN Front(s) \cup {Len(s)} /\ \A i \in DOMAIN Front(s) : Front(s)[i] = s[i]
    BY <2>1, <2>2, <2>3, <1>1
  <2>5. s[Len(s)] \in S
    BY <2>4, <1>1, ElementOfSeq
  <2>6. Members(Front(s)) \subseteq Members(s) /\ s[Len(s)] \in Members(s)
    BY <2>4 DEF Members
  <2>7. ASSUME NEW x \in Members(s), x # s[Len(s)] PROVE x \in Members(Front(s))
    <3>1. PICK i \in DOMAIN s : x = s[i]
      BY DEF Members
    <3>2. i \in DOMAIN Front(s) /\ x = Front(s)[i]
      BY <3>1, <2>4, <2>7
    <3> QED BY <3>2 DEF Members
  <2> QED BY <2>2, <2>5, <2>6, <2>7
<1> QED BY <1>2, <1>3

-------------------------------------------------------------------------------
\* Before any call nothing is raised and nothing watched.
LEMMA InitStep == Init => IInv
<1> SUFFICES ASSUME Init PROVE IInv
  OBVIOUS
<1> USE TimeoutAssumption
<1>1. <<>> \in Seq(Requests) /\ Members(<<>>) = {} /\ DOMAIN <<>> = {}
  BY EmptySeq DEF Members
<1>2. TypeOK
  BY <1>1 DEF Init, TypeOK, Labels, WatcherLabels
<1>3. ExpiryStaysInCall /\ RaisedOnce
  BY <1>1 DEF Init, ExpiryStaysInCall, RaisedOnce
<1>4. RaisedIsDone /\ WatchedIsOn
  BY <1>1 DEF Init, RaisedIsDone, WatchedIsOn, Raised, Watched
<1> QED BY <1>2, <1>3, <1>4 DEF Init, IInv, CallIsOn, WatcherCounted

\* What a step of a thread may be, of a watcher, and of the clock.
ThreadStep(t) ==
  \/ Timeout(t) \/ AddInterrupted(t) \/ Checkpoint(t) \/ Rescue(t) \/ BlockEnds(t)
  \/ LookForWatcher(t) \/ CreateWatcher(t) \/ AddRequest(t) \/ Signal(t)
  \/ Finished(t) \/ FinishedInterrupted(t)

\* A request is made of an object nobody else has.
LEMMA NewRequest ==
  ASSUME IInv, NEW t \in Threads, AddRequest(t)
  PROVE  \E r \in Requests :
           /\ Free(r)
           /\ target' = [target EXCEPT ![r] = t]
           /\ frames' = [frames EXCEPT ![t] = Append(@, r)]
           /\ queue' = Append(queue, r)
           /\ due' = due \ {r} /\ done' = done \ {r}
<1> DEFINE r == CHOOSE r \in Requests : Free(r)
<1>1. r \in Requests /\ Free(r)
  BY DEF AddRequest
<1>2. /\ target' = [target EXCEPT ![r] = t]
      /\ frames' = [frames EXCEPT ![t] = Append(@, r)]
      /\ queue' = Append(queue, r)
      /\ due' = due \ {r} /\ done' = done \ {r}
  BY DEF AddRequest
<1> HIDE DEF r
<1> QED BY <1>1, <1>2

\* A throw takes the first pending exception.
LEMMA ThrowFacts ==
  ASSUME IInv, NEW t \in Threads, Throw(t)
  PROVE  /\ Head(pending[t]) \in Requests /\ Tail(pending[t]) \in Seq(Requests)
         /\ Head(pending[t]) \in Members(pending[t])
         /\ Members(Tail(pending[t])) \subseteq Members(pending[t])
         /\ Once(Tail(pending[t])) /\ Head(pending[t]) \notin Members(Tail(pending[t]))
<1>1. pending[t] \in Seq(Requests) /\ pending[t] # <<>> /\ Once(pending[t])
  BY DEF IInv, TypeOK, RaisedOnce, Throw, Once
<1> QED BY <1>1, TailMembers

-------------------------------------------------------------------------------
\* Every step of the watcher keeps the types: what it has in hand it has taken from
\* the queue or from its requests.
LEMMA WatchTypes == ASSUME IInv, Watch PROVE TypeOK'
<1> USE TimeoutAssumption DEF IInv, TypeOK, WatcherLabels
<1> USE DEF CallersUnchanged, calls, WatcherGoes
<1>1. CASE Pop
  <2>1. Head(queue) \in Requests /\ Tail(queue) \in Seq(Requests)
    BY <1>1, TailMembers DEF Pop
  <2> QED BY <2>1, <1>1 DEF Pop
<1>2. CASE KeepIfNotDone
  BY <1>2 DEF KeepIfNotDone
<1>3. CASE HaveAll \/ Wait \/ WaitEnds
  BY <1>3 DEF HaveAll, Wait, WaitEnds
<1>4. CASE Scan
  BY <1>4 DEF Scan
<1>5. CASE Mark
  BY <1>5 DEF Mark, Marked
<1>6. CASE Reject
  BY <1>6 DEF Reject
<1>7. ASSUME NEW r \in Requests, Skip(r) PROVE TypeOK'
  BY <1>7 DEF Skip
<1>8. ASSUME NEW r \in Requests, Interrupt(r) PROVE TypeOK'
  <2>1. pending' \in [Threads -> Seq(Requests)]
    <3>1. pending' = [pending EXCEPT ![target[r]] = Append(@, r)]
      BY <1>8 DEF Interrupt
    <3>2. CASE target[r] \in Threads
      <4>1. Append(pending[target[r]], r) \in Seq(Requests)
        BY <3>2, AppendMembers
      <4> QED BY <3>1, <4>1
    <3>3. CASE target[r] \notin Threads
      BY <3>1, <3>3
    <3> QED BY <3>2, <3>3
  <2> QED BY <2>1, <1>8 DEF Interrupt
<1> QED BY <1>1, <1>2, <1>3, <1>4, <1>5, <1>6, <1>7, <1>8 DEF Watch

\* So does every step of a thread.
LEMMA ThreadTypes == ASSUME IInv, NEW t \in Threads, ThreadStep(t) PROVE TypeOK'
<1> USE TimeoutAssumption DEF IInv, TypeOK, Labels, Goto
<1>1. CASE Timeout(t) \/ LookForWatcher(t) \/ BlockEnds(t) \/ Rescue(t)
  <2>1. CASE Timeout(t)
    BY <2>1 DEF Timeout, calls, watcher
  <2>2. CASE LookForWatcher(t)
    BY <2>2 DEF LookForWatcher, calls, watcher
  <2>3. CASE BlockEnds(t)
    BY <2>3 DEF BlockEnds, calls, watcher
  <2>4. CASE Rescue(t)
    BY <2>4 DEF Rescue, calls, watcher
  <2> QED BY <1>1, <2>1, <2>2, <2>3, <2>4
<1>2. CASE CreateWatcher(t)
  BY <1>2 DEF CreateWatcher, StillNone, calls, WatcherLabels
<1>3. CASE Signal(t)
  BY <1>3 DEF Signal, Signalled, WatcherGoes, Unlock, calls, WatcherLabels
<1>4. CASE AddRequest(t)
  <2>1. PICK r \in Requests : /\ target' = [target EXCEPT ![r] = t]
                              /\ frames' = [frames EXCEPT ![t] = Append(@, r)]
                              /\ queue' = Append(queue, r)
                              /\ due' = due \ {r} /\ done' = done \ {r}
    BY <1>4, NewRequest
  <2>2. Append(frames[t], r) \in Seq(Requests) /\ queue' \in Seq(Requests)
    BY <2>1, AppendMembers
  <2> QED BY <1>4, <2>1, <2>2 DEF AddRequest, watcher
<1>5. CASE Checkpoint(t)
  BY <1>5, ThrowFacts DEF Checkpoint, Throw, calls, watcher
<1>6. CASE AddInterrupted(t)
  <2>1. Front(frames[t]) \in Seq(Requests)
    BY FrontMembers
  <2>2. thrown' \in [Threads -> Requests \cup {None, Error}] /\ pending' \in [Threads -> Seq(Requests)]
    BY <1>6, ThrowFacts DEF AddInterrupted, Throw
  <2>3. frames' \in [Threads -> Seq(Requests)]
    BY <1>6, <2>1 DEF AddInterrupted
  <2>5. missed' \in BOOLEAN
    <3>1. missed' = TRUE \/ missed' = missed
      BY <1>6 DEF AddInterrupted
    <3> QED BY <3>1
  <2>4. /\ adder' \in Threads \cup {None} /\ pc' \in [Threads -> Labels]
        /\ \A u \in Threads : adder' = u <=> pc'[u] = "signal"
    BY <1>6 DEF AddInterrupted, Unlock
  <2> QED BY <1>6, <2>2, <2>3, <2>4, <2>5 DEF AddInterrupted, watcher
<1>7. CASE Finished(t) \/ FinishedInterrupted(t)
  <2>1. Front(frames[t]) \in Seq(Requests) /\ Innermost(t) \in Requests
    BY <1>7, FrontMembers DEF CallIsOn, Finished, FinishedInterrupted, Innermost
  <2>2. thrown' \in [Threads -> Requests \cup {None, Error}] /\ pending' \in [Threads -> Seq(Requests)]
    <3>1. CASE Finished(t)
      BY <3>1 DEF Finished, Translated
    <3>2. CASE FinishedInterrupted(t)
      <4>1. Head(pending[t]) \in Requests /\ Tail(pending[t]) \in Seq(Requests)
        BY <3>2, TailMembers DEF FinishedInterrupted
      <4> QED BY <3>2, <4>1 DEF FinishedInterrupted, Translated
    <3> QED BY <1>7, <3>1, <3>2
  <2>3. done' \subseteq Requests /\ missed' \in BOOLEAN
    BY <1>7, <2>1 DEF Finished, FinishedInterrupted
  <2>4. pc[t] = "finish" /\ LeaveCall(t)
    BY <1>7 DEF Finished, FinishedInterrupted
  <2> QED BY <2>1, <2>2, <2>3, <2>4 DEF LeaveCall, watcher
<1> QED BY <1>1, <1>2, <1>3, <1>4, <1>5, <1>6, <1>7 DEF ThreadStep

\* A thread that has added a request, or ends a block, is in the call; one watcher is
\* created, as whoever creates it has looked under the mutex.
LEMMA WatchCounts == ASSUME IInv, Watch PROVE CallIsOn' /\ WatcherCounted'
<1>1. UNCHANGED <<frames, pc, watchers>> /\ wpc # "none" /\ wpc' # "none"
  BY DEF Watch, Pop, KeepIfNotDone, HaveAll, Wait, WaitEnds, Scan, Mark, Reject, Interrupt, Skip,
         CallersUnchanged, calls, WatcherGoes
<1> QED BY <1>1 DEF IInv, CallIsOn, WatcherCounted

\* The same of a step of a thread.
LEMMA ThreadCounts ==
  ASSUME IInv, NEW t \in Threads, ThreadStep(t) PROVE CallIsOn' /\ WatcherCounted'
<1> USE DEF IInv, TypeOK, Goto, CallIsOn, WatcherCounted
<1>1. CASE Timeout(t) \/ LookForWatcher(t) \/ BlockEnds(t) \/ Rescue(t) \/ Checkpoint(t)
  BY <1>1 DEF Timeout, LookForWatcher, BlockEnds, Rescue, Checkpoint, calls, watcher
<1>2. CASE CreateWatcher(t)
  BY <1>2 DEF CreateWatcher, StillNone, calls
<1>3. CASE Signal(t)
  BY <1>3 DEF Signal, Signalled, WatcherGoes, calls
<1>4. CASE AddRequest(t)
  <2>1. PICK r \in Requests : frames' = [frames EXCEPT ![t] = Append(@, r)]
    BY <1>4, NewRequest
  <2>2. Append(frames[t], r) # <<>>
    <3>1. r \in Members(Append(frames[t], r))
      BY AppendMembers
    <3>2. Members(<<>>) = {}
      BY EmptySeq DEF Members
    <3> QED BY <3>1, <3>2, Zenon
  <2> QED BY <1>4, <2>1, <2>2 DEF AddRequest, watcher
<1>5. CASE AddInterrupted(t) \/ Finished(t) \/ FinishedInterrupted(t)
  <2>1. /\ pc' = [pc EXCEPT ![t] = "user"] /\ \A u \in Threads \ {t} : frames'[u] = frames[u]
        /\ UNCHANGED <<wpc, watchers>>
    BY <1>5 DEF AddInterrupted, Finished, FinishedInterrupted, LeaveCall, watcher
  <2> QED BY <2>1
<1> QED BY <1>1, <1>2, <1>3, <1>4, <1>5 DEF ThreadStep

-------------------------------------------------------------------------------
Exceptions == ExpiryStaysInCall /\ RaisedOnce /\ RaisedIsDone /\ WatchedIsOn

\* What raises, delivers, begins and ends nothing leaves all exceptions as they should
\* be; what it takes out of the watcher's hand is done.
LEMMA QuietStep ==
  ASSUME IInv, UNCHANGED <<pending, frames, target, missed>>,
         \A t \in Threads : thrown'[t] \in {thrown[t], None},
         done \subseteq done', Watched' \ {None} \subseteq Watched,
         \A r \in Requests : InHand(r) => InHand(r)' \/ r \in done'
  PROVE  Exceptions'
<1> USE TimeoutAssumption DEF IInv
<1>1. \A t \in Threads : \A r \in Requests : r \in Raised(t)' => r \in Raised(t)
  BY DEF Raised
<1>2. ExpiryStaysInCall'
  BY <1>1 DEF ExpiryStaysInCall, Raised
<1>3. RaisedOnce'
  <2>1. \A t \in Threads : \A i \in DOMAIN pending[t] : pending[t][i] \in Requests
    BY ElementOfSeq, LenProperties DEF TypeOK
  <2> QED BY <2>1 DEF RaisedOnce
<1>4. RaisedIsDone'
  BY <1>1 DEF RaisedIsDone
<1>5. WatchedIsOn'
  BY DEF WatchedIsOn
<1> QED BY <1>2, <1>3, <1>4, <1>5 DEF Exceptions

\* The watcher raises the exception of a request that is not done: of none it has
\* raised it before.
LEMMA InterruptStep == ASSUME IInv, NEW r \in Requests, Interrupt(r) PROVE Exceptions'
<1> USE TimeoutAssumption DEF IInv
<1>1. /\ r \in requests /\ r \notin done /\ wpc = "scan" /\ current = None
      /\ UNCHANGED <<frames, target, missed, done, thrown, requests, queue>>
      /\ current' = r /\ wpc' = "mark"
      /\ pending' = [pending EXCEPT ![target[r]] = Append(@, r)]
      /\ pending \in [Threads -> Seq(Requests)]
  BY DEF Interrupt, MayInterrupt, TypeOK, CallersUnchanged, calls, WatcherGoes
<1> DEFINE u == target[r]
<1>2. u \in Threads /\ (~missed => r \in Members(frames[u]))
  BY <1>1 DEF WatchedIsOn, Watched, InHand
<1>3. r \notin Raised(u)
  BY <1>1, <1>2 DEF RaisedIsDone, InHand
<1>4. /\ Members(pending'[u]) = Members(pending[u]) \cup {r} /\ Once(pending'[u])
      /\ \A t \in Threads \ {u} : pending'[t] = pending[t]
  <2>1. Once(pending[u]) /\ r \notin Members(pending[u])
    BY <1>2, <1>3 DEF RaisedOnce, Once, Raised
  <2> QED BY <1>1, <1>2, <2>1, AppendMembers
<1> HIDE DEF u
<1>5. \A t \in Threads : \A q \in Requests : q \in Raised(t)' => q \in Raised(t) \/ (t = u /\ q = r)
  BY <1>1, <1>4 DEF Raised
<1>6. ExpiryStaysInCall'
  BY <1>1, <1>2, <1>5 DEF ExpiryStaysInCall, Raised
<1>7. RaisedOnce'
  <2>1. ASSUME NEW t \in Threads
        PROVE  Once(pending'[t]) /\ thrown[t] \notin Members(pending'[t])
    <3>1. Once(pending[t]) /\ thrown[t] \notin Members(pending[t])
      BY DEF RaisedOnce, Once, Members
    <3>2. CASE t = u
      BY <3>1, <3>2, <1>3, <1>4 DEF Raised
    <3>3. CASE t # u
      BY <3>1, <3>3, <1>4
    <3> QED BY <3>2, <3>3
  <2> QED BY <2>1, <1>1 DEF RaisedOnce, Once, Members
<1>8. RaisedIsDone'
  <2>1. \A q \in Requests : ~InHand(q)
    BY <1>1 DEF InHand
  <2>2. InHand(r)' /\ target[r] = u
    BY <1>1 DEF InHand, u
  <2> QED BY <1>1, <1>5, <2>1, <2>2 DEF RaisedIsDone
<1>9. WatchedIsOn'
  BY <1>1 DEF WatchedIsOn, Watched, InHand
<1> QED BY <1>6, <1>7, <1>8, <1>9 DEF Exceptions

\* The watcher raises exceptions and otherwise only moves requests.
LEMMA WatchExceptions == ASSUME IInv, Watch PROVE Exceptions'
<1> USE DEF CallersUnchanged, calls, WatcherGoes
<1>1. TypeOK
  BY DEF IInv
<1>2. CASE Pop
  <2>1. Head(queue) \in Members(queue) /\ Members(queue') \subseteq Members(queue)
    BY <1>1, <1>2, TailMembers DEF Pop, TypeOK
  <2> QED BY <1>1, <1>2, <2>1, QuietStep DEF Pop, Watched, InHand
<1>3. CASE KeepIfNotDone
  BY <1>3, QuietStep DEF KeepIfNotDone, Watched, InHand
<1>4. CASE HaveAll \/ Wait \/ WaitEnds \/ Scan
  BY <1>4, QuietStep DEF HaveAll, Wait, WaitEnds, Scan, Watched, InHand
<1>5. CASE Mark
  BY <1>5, QuietStep DEF Mark, Marked, Watched, InHand
<1>6. CASE Reject
  BY <1>6, QuietStep DEF Reject, Watched, InHand
<1>7. ASSUME NEW r \in Requests, Skip(r) PROVE Exceptions'
  BY <1>7, QuietStep DEF Skip, Watched, InHand
<1>8. ASSUME NEW r \in Requests, Interrupt(r) PROVE Exceptions'
  BY <1>8, InterruptStep
<1> QED BY <1>2, <1>3, <1>4, <1>5, <1>6, <1>7, <1>8 DEF Watch

\* A throw delivers the first pending exception; if it ends a call without finished,
\* that is missed.
LEMMA ThrowStep ==
  ASSUME IInv, NEW t \in Threads, Throw(t), UNCHANGED <<target, done>>,
         Watched' = Watched, \A r \in Requests : InHand(r)' = InHand(r),
         missed' \/ UNCHANGED <<frames, missed>>
  PROVE  Exceptions'
<1> USE TimeoutAssumption DEF IInv
<1> DEFINE first == Head(pending[t])
<1>1. /\ first \in Members(pending[t]) /\ first \in Requests
      /\ Members(Tail(pending[t])) \subseteq Members(pending[t])
      /\ Once(Tail(pending[t])) /\ first \notin Members(Tail(pending[t]))
  BY ThrowFacts
<1>2. /\ thrown'[t] = first /\ pending'[t] = Tail(pending[t])
      /\ \A u \in Threads \ {t} : thrown'[u] = thrown[u] /\ pending'[u] = pending[u]
  BY DEF Throw, TypeOK
<1> HIDE DEF first
<1>3. \A u \in Threads : \A r \in Requests : r \in Raised(u)' => r \in Raised(u)
  BY <1>1, <1>2 DEF Raised
<1>4. ExpiryStaysInCall'
  BY <1>3 DEF ExpiryStaysInCall, Raised
<1>5. RaisedOnce'
  <2>1. ASSUME NEW u \in Threads
        PROVE  Once(pending'[u]) /\ thrown'[u] \notin Members(pending'[u])
    <3>1. Once(pending[u]) /\ thrown[u] \notin Members(pending[u])
      BY DEF RaisedOnce, Once, Members
    <3> QED BY <3>1, <1>1, <1>2
  <2> QED BY <2>1 DEF RaisedOnce, Once, Members
<1>6. RaisedIsDone'
  BY <1>3 DEF RaisedIsDone
<1>7. WatchedIsOn'
  BY DEF WatchedIsOn
<1> QED BY <1>4, <1>5, <1>6, <1>7 DEF Exceptions

\* A new request is of nobody else: no exception of it is on its way.
LEMMA AddStep == ASSUME IInv, NEW t \in Threads, AddRequest(t) PROVE Exceptions'
<1> USE TimeoutAssumption DEF IInv
<1>1. PICK r \in Requests : /\ Free(r)
                            /\ target' = [target EXCEPT ![r] = t]
                            /\ frames' = [frames EXCEPT ![t] = Append(@, r)]
                            /\ queue' = Append(queue, r) /\ done' = done \ {r}
  BY NewRequest
<1>2. UNCHANGED <<pending, thrown, missed, requests, current, wpc>>
  BY DEF AddRequest, watcher
<1>3. /\ Members(frames'[t]) = Members(frames[t]) \cup {r}
      /\ \A u \in Threads \ {t} : frames'[u] = frames[u]
      /\ Members(queue') = Members(queue) \cup {r}
  BY <1>1, AppendMembers DEF TypeOK
<1>4. /\ target'[r] = t /\ \A q \in Requests \ {r} : target'[q] = target[q]
  BY <1>1 DEF TypeOK
<1>5. /\ \A u \in Threads : r \notin Raised(u) /\ Raised(u)' = Raised(u)
      /\ \A q \in Requests : InHand(q)' = InHand(q)
      /\ Watched' = Watched \cup {r}
  BY <1>1, <1>2, <1>3 DEF Raised, InHand, Watched, Free
<1>6. ExpiryStaysInCall'
  BY <1>2, <1>3 DEF ExpiryStaysInCall
<1>7. RaisedOnce'
  BY <1>2 DEF RaisedOnce
<1>8. RaisedIsDone'
  BY <1>1, <1>4, <1>5 DEF RaisedIsDone
<1>9. WatchedIsOn'
  BY <1>1, <1>2, <1>3, <1>4, <1>5 DEF WatchedIsOn
<1> QED BY <1>6, <1>7, <1>8, <1>9 DEF Exceptions

\* A call ends with its request done and its exception neither pending nor thrown: the
\* checkpoint of finished has delivered it, or found that there is none.
LEMMA FinishStep ==
  ASSUME IInv, NEW t \in Threads, Finished(t) \/ FinishedInterrupted(t) PROVE Exceptions'
<1> USE TimeoutAssumption DEF IInv
<1> DEFINE r == Innermost(t)
<1>1. /\ r \in Requests /\ frames[t] # <<>> /\ frames \in [Threads -> Seq(Requests)]
      /\ thrown \in [Threads -> Requests \cup {None, Error}]
      /\ pending \in [Threads -> Seq(Requests)]
  BY FrontMembers DEF CallIsOn, Finished, FinishedInterrupted, Innermost, TypeOK
<1>2. /\ LeaveCall(t) /\ UNCHANGED <<target, queue, requests, current, wpc>>
  BY DEF Finished, FinishedInterrupted, LeaveCall, watcher
<1>3. /\ Members(frames[t]) \ {r} \subseteq Members(frames'[t])
      /\ \A u \in Threads \ {t} : frames'[u] = frames[u]
  BY <1>1, <1>2, FrontMembers DEF LeaveCall, Innermost
<1>4. /\ Watched' = Watched /\ \A q \in Requests : InHand(q)' = InHand(q)
  BY <1>2 DEF Watched, InHand
<1>5. CASE Finished(t)
  <2>1. /\ pending[t] = <<>> /\ UNCHANGED <<pending, missed>> /\ done' = done \cup {r}
        /\ thrown'[t] \in {Error, thrown[t]} /\ thrown'[t] # r
        /\ \A u \in Threads \ {t} : thrown'[u] = thrown[u]
    BY <1>1, <1>5 DEF Finished, Clear, Translated
  <2> HIDE DEF r
  <2>2. Members(pending[t]) = {}
    BY <2>1, EmptySeq DEF Members
  <2>3. \A u \in Threads : \A q \in Requests :
          q \in Raised(u)' => q \in Raised(u) /\ (u = t => q # r)
    BY <2>1, <2>2 DEF Raised
  <2>4. ExpiryStaysInCall'
    BY <1>3, <2>1, <2>3 DEF ExpiryStaysInCall, Raised
  <2>5. RaisedOnce'
    <3>1. \A u \in Threads : \A i \in DOMAIN pending[u] : pending[u][i] \in Requests
      BY <1>1, ElementOfSeq, LenProperties
    <3>2. DOMAIN pending[t] = {}
      BY <2>1, EmptySeq
    <3> QED BY <2>1, <3>1, <3>2 DEF RaisedOnce
  <2>6. RaisedIsDone'
    BY <1>2, <1>4, <2>1, <2>3 DEF RaisedIsDone
  <2>7. WatchedIsOn'
    BY <1>2, <1>3, <1>4, <2>1 DEF WatchedIsOn
  <2> QED BY <2>4, <2>5, <2>6, <2>7 DEF Exceptions
<1>6. CASE FinishedInterrupted(t)
  <2> DEFINE first == Head(pending[t])
  <2>1. /\ pending[t] # <<>> /\ pending'[t] = Tail(pending[t]) /\ done' = done
        /\ thrown'[t] = IF first = r THEN Error ELSE first
        /\ \A u \in Threads \ {t} : thrown'[u] = thrown[u] /\ pending'[u] = pending[u]
        /\ missed' = (missed \/ first # r)
    BY <1>1, <1>6 DEF FinishedInterrupted, Translated
  <2>2. Once(pending[t])
    BY DEF RaisedOnce, Once
  <2>3. /\ first \in Members(pending[t]) /\ first \in Requests
        /\ Members(Tail(pending[t])) \subseteq Members(pending[t])
        /\ Once(Tail(pending[t])) /\ first \notin Members(Tail(pending[t]))
        /\ Tail(pending[t]) \in Seq(Requests)
    BY <1>1, <2>1, <2>2, TailMembers
  <2> HIDE DEF r, first
  <2>4. \A u \in Threads : \A q \in Requests :
          q \in Raised(u)' => q \in Raised(u) /\ (u = t /\ first = r => q # r)
    BY <2>1, <2>3 DEF Raised
  <2>5. ~missed' => ~missed /\ first = r
    BY <2>1
  <2>6. ExpiryStaysInCall'
    BY <1>3, <2>4, <2>5 DEF ExpiryStaysInCall, Raised
  <2>7. RaisedOnce'
    <3>1. ASSUME NEW u \in Threads
          PROVE  Once(pending'[u]) /\ thrown'[u] \notin Members(pending'[u])
      <4>1. Once(pending[u]) /\ thrown[u] \notin Members(pending[u])
        BY DEF RaisedOnce, Once, Members
      <4>2. Error \notin Members(Tail(pending[t]))
        BY <2>3, ElementOfSeq, LenProperties DEF Members
      <4> QED BY <4>1, <4>2, <2>1, <2>3
    <3> QED BY <3>1 DEF RaisedOnce, Once, Members
  <2>8. RaisedIsDone'
    BY <1>2, <1>4, <2>1, <2>4 DEF RaisedIsDone
  <2>9. WatchedIsOn'
    <3>1. first \in done \/ InHand(first)
      BY <2>3 DEF RaisedIsDone, Raised
    <3> QED BY <3>1, <1>2, <1>3, <1>4, <2>1, <2>5 DEF WatchedIsOn
  <2> QED BY <2>6, <2>7, <2>8, <2>9 DEF Exceptions
<1> QED BY <1>5, <1>6

\* Threads deliver exceptions, begin calls and end them.
LEMMA ThreadExceptions == ASSUME IInv, NEW t \in Threads, ThreadStep(t) PROVE Exceptions'
<1>1. TypeOK
  BY DEF IInv
<1>2. CASE Timeout(t) \/ LookForWatcher(t) \/ BlockEnds(t)
  <2>1. UNCHANGED <<pending, thrown, frames, target, missed, done, requests, queue, current, wpc>>
    BY <1>2 DEF Timeout, LookForWatcher, BlockEnds, calls, watcher
  <2> QED BY <2>1, QuietStep DEF Watched, InHand
<1>3. CASE Rescue(t)
  <2>1. UNCHANGED <<pending, frames, target, missed, done, requests, queue, current, wpc>>
    BY <1>3 DEF Rescue, calls, watcher
  <2>2. \A u \in Threads : thrown'[u] \in {thrown[u], None}
    BY <1>1, <1>3 DEF Rescue, TypeOK
  <2> QED BY <2>1, <2>2, QuietStep DEF Watched, InHand
<1>4. CASE CreateWatcher(t)
  <2>1. UNCHANGED <<pending, thrown, frames, target, missed, done, requests, queue, current>>
    BY <1>4 DEF CreateWatcher, calls
  <2>2. wpc = "mark" => wpc' = "mark"
    BY <1>4 DEF CreateWatcher, StillNone
  <2> QED BY <2>1, <2>2, QuietStep DEF Watched, InHand
<1>5. CASE Signal(t)
  <2>1. UNCHANGED <<pending, thrown, frames, target, missed, done, requests, queue, current>>
    BY <1>5 DEF Signal, calls
  <2>2. wpc = "mark" => wpc' = "mark"
    BY <1>5 DEF Signal, Signalled, WatcherGoes
  <2> QED BY <2>1, <2>2, QuietStep DEF Watched, InHand
<1>6. CASE AddRequest(t)
  BY <1>6, AddStep
<1>7. CASE Checkpoint(t) \/ AddInterrupted(t)
  <2>1. /\ Throw(t) /\ UNCHANGED <<target, done, requests, queue, current, wpc>>
        /\ missed' \/ UNCHANGED <<frames, missed>>
    <3>1. CASE Checkpoint(t)
      BY <3>1 DEF Checkpoint, calls, watcher
    <3>2. CASE AddInterrupted(t)
      <4>1. Throw(t) /\ UNCHANGED <<target, done, requests, queue, current, wpc>>
        BY <3>2 DEF AddInterrupted, watcher
      <4>2. missed' = TRUE \/ UNCHANGED <<frames, missed>>
        BY <3>2 DEF AddInterrupted
      <4> QED BY <4>1, <4>2
    <3> QED BY <1>7, <3>1, <3>2
  <2>2. Watched' = Watched /\ \A r \in Requests : InHand(r)' = InHand(r)
    BY <2>1 DEF Watched, InHand
  <2> QED BY <2>1, <2>2, ThrowStep
<1>8. CASE Finished(t) \/ FinishedInterrupted(t)
  BY <1>8, FinishStep
<1> QED BY <1>2, <1>3, <1>4, <1>5, <1>6, <1>7, <1>8 DEF ThreadStep

-------------------------------------------------------------------------------
\* Every step keeps the inductive invariant.
LEMMA NextStep == ASSUME IInv, [Next]_vars PROVE IInv'
<1>1. CASE UNCHANGED vars
  <2>1. TypeOK' /\ CallIsOn' /\ WatcherCounted'
    BY <1>1 DEF IInv, TypeOK, CallIsOn, WatcherCounted, vars
  <2>2. Exceptions'
    BY <1>1, QuietStep DEF vars, Watched, InHand
  <2> QED BY <2>1, <2>2 DEF IInv, Exceptions
<1>2. CASE Watch
  BY <1>2, WatchTypes, WatchCounts, WatchExceptions DEF IInv, Exceptions
<1>3. ASSUME NEW r \in Requests, Expire(r) PROVE IInv'
  <2>1. due' = due \cup {r} /\ UNCHANGED <<calls, done, pending, thrown, pc, adder, queue, watcher>>
    BY <1>3 DEF Expire
  <2>2. TypeOK' /\ CallIsOn' /\ WatcherCounted'
    BY <2>1 DEF IInv, TypeOK, CallIsOn, WatcherCounted, calls, watcher
  <2>3. Exceptions'
    BY <2>1, QuietStep DEF Watched, InHand, calls, watcher
  <2> QED BY <2>2, <2>3 DEF IInv, Exceptions
<1>4. ASSUME NEW t \in Threads, ThreadStep(t) PROVE IInv'
  BY <1>4, ThreadTypes, ThreadCounts, ThreadExceptions DEF IInv, Exceptions
<1>5. Next => \/ Watch
              \/ \E r \in Requests : Expire(r)
              \/ \E t \in Threads : ThreadStep(t)
  BY DEF Next, Runtime, ThreadStep
<1> QED BY <1>1, <1>2, <1>3, <1>4, <1>5

\* The inductive invariant holds in every state.
LEMMA Inductive == Spec => []IInv
<1>1. Init => IInv
  BY InitStep
<1>2. IInv /\ [Next]_vars => IInv'
  BY NextStep
<1> QED BY <1>1, <1>2, PTL DEF Spec

\* The state is well-formed; as long as no call is left without finished, the exception
\* of a call is on its way to its thread only while the call is on; it is raised once.
THEOREM Hits == Spec => []ExpiriesHitTheirCall
<1>1. IInv => ExpiriesHitTheirCall
  BY DEF IInv, ExpiriesHitTheirCall
<1> QED BY <1>1, Inductive, PTL

\* At most one watcher is created, however many threads look for it at once.
THEOREM AtMostOne == Spec => []OneWatcher
<1>1. IInv => OneWatcher
  BY DEF IInv, WatcherCounted, OneWatcher
<1> QED BY <1>1, Inductive, PTL

===============================================================================
