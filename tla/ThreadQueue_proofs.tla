-------------------------- MODULE ThreadQueue_proofs --------------------------
(***************************************************************************)
(* For any number of threads, items and sizes and any calls: the lists of  *)
(* waiting threads are true, and the queue implements a channel.  Unless a *)
(* raise or kill hits the queue, every item has a consumer on its way to   *)
(* it, every free place is offered, close reaches everyone listed; and who *)
(* wakes others finds them where a wakeup serves.                          *)
(***************************************************************************)
EXTENDS ThreadQueue, SequenceTheorems, FiniteSetTheorems, TLAPS

\* A part of a list.
LEMMA SubSeqMembers ==
  ASSUME NEW S, NEW s \in Seq(S), NEW m \in Nat \ {0}, NEW n \in Nat, n <= Len(s)
  PROVE  /\ SubSeq(s, m, n) \in Seq(S)
         /\ Members(SubSeq(s, m, n)) \subseteq Members(s)
         /\ Once(s) => Once(SubSeq(s, m, n))
<1> DEFINE p == SubSeq(s, m, n)
<1>1. Len(s) \in Nat /\ DOMAIN s = 1..Len(s) /\ \A i \in m..n : i \in DOMAIN s /\ s[i] \in S
  BY LenProperties, ElementOfSeq
<1>2. /\ p \in Seq(S) /\ Len(p) = IF m <= n THEN n - m + 1 ELSE 0
      /\ \A i \in 1..(n - m + 1) : p[i] = s[m + i - 1]
  BY <1>1, SubSeqProperties
<1>3. DOMAIN p = 1..Len(p)
  BY <1>2, LenProperties
<1> HIDE DEF p
<1>4. \A i \in DOMAIN p : i \in Int /\ m + i - 1 \in DOMAIN s /\ p[i] = s[m + i - 1]
  BY <1>1, <1>2, <1>3
<1>5. Members(p) \subseteq Members(s)
  BY <1>4 DEF Members
<1>6. ASSUME Once(s), NEW i \in DOMAIN p, NEW j \in DOMAIN p, p[i] = p[j] PROVE i = j
  <2>1. m + i - 1 = m + j - 1
    BY <1>4, <1>6 DEF Once
  <2> QED BY <2>1, <1>4
<1>7. Once(s) => Once(p)
  BY <1>6 DEF Once
<1> QED BY <1>2, <1>5, <1>7 DEF p

\* What appending to a list adds.
LEMMA AppendMembers ==
  ASSUME NEW S, NEW s \in Seq(S), NEW x \in S
  PROVE  /\ Append(s, x) \in Seq(S)
         /\ Members(Append(s, x)) = Members(s) \cup {x}
         /\ Once(s) /\ x \notin Members(s) => Once(Append(s, x))
<1> DEFINE as == Append(s, x)
           dom == DOMAIN s
           last == Len(s) + 1
<1>1. /\ as \in Seq(S) /\ Len(as) = Len(s) + 1
      /\ \A i \in 1..Len(s) : as[i] = s[i]
      /\ as[Len(s) + 1] = x
  BY AppendProperties
<1>2. Len(s) \in Nat /\ DOMAIN s = 1..Len(s) /\ DOMAIN as = 1..(Len(s) + 1)
  BY <1>1, LenProperties
<1>3. DOMAIN as = dom \cup {last} /\ last \notin dom
  BY <1>2
<1>4. as[last] = x /\ \A i \in dom : as[i] = s[i]
  BY <1>1, <1>2
<1>5. Members(as) = {as[i] : i \in dom \cup {last}} /\ Members(s) = {s[i] : i \in dom}
  BY <1>3 DEF Members
<1>6. Once(s) = (\A i, j \in dom : s[i] = s[j] => i = j)
  BY DEF Once
<1> HIDE DEF as, dom, last
<1>7. Members(as) = Members(s) \cup {x}
  BY <1>4, <1>5
<1>8. ASSUME Once(s), x \notin Members(s), NEW i \in DOMAIN as, NEW j \in DOMAIN as, as[i] = as[j]
      PROVE  i = j
  BY <1>3, <1>4, <1>5, <1>6, <1>8
<1>9. Once(s) /\ x \notin Members(s) => Once(as)
  BY <1>8 DEF Once
<1> QED BY <1>1, <1>7, <1>9 DEF as

\* Delete takes the one entry of a thread off the list.
LEMMA DeleteMembers ==
  ASSUME NEW S, NEW s \in Seq(S), NEW t, Once(s)
  PROVE  /\ Delete(s, t) \in Seq(S) /\ Once(Delete(s, t))
         /\ Members(Delete(s, t)) = Members(s) \ {t}
<1>1. CASE t \notin Members(s)
  BY <1>1 DEF Delete
<1>2. CASE t \in Members(s)
  <2> DEFINE k == CHOOSE j \in DOMAIN s : s[j] = t
             a == SubSeq(s, 1, k - 1)
             b == SubSeq(s, k + 1, Len(s))
             d == a \o b
  <2>1. k \in DOMAIN s /\ s[k] = t
    BY <1>2 DEF Members
  <2>2. Delete(s, t) = d
    BY <1>2 DEF Delete
  <2>3. Len(s) \in Nat /\ DOMAIN s = 1..Len(s)
    BY LenProperties
  <2> HIDE DEF k
  <2>4. /\ k \in Nat \ {0} /\ k <= Len(s)
        /\ \A i \in 1..(k - 1) : s[i] \in S
        /\ \A i \in (k + 1)..Len(s) : s[i] \in S
    BY <2>1, <2>3, ElementOfSeq
  <2>5. a \in Seq(S) /\ Len(a) = k - 1 /\ \A i \in 1..(k - 1) : a[i] = s[i]
    BY <2>4, SubSeqProperties
  <2>6. b \in Seq(S) /\ Len(b) = Len(s) - k /\ \A i \in 1..(Len(s) - k) : b[i] = s[k + i]
    <3>1. k + 1 \in Int /\ Len(s) \in Int
      BY <2>3, <2>4
    <3>2. /\ b \in Seq(S) /\ Len(b) = IF k + 1 <= Len(s) THEN Len(s) - (k + 1) + 1 ELSE 0
          /\ \A i \in 1..(Len(s) - (k + 1) + 1) : b[i] = s[(k + 1) + i - 1]
      BY <3>1, <2>4, SubSeqProperties
    <3>3. k \in Int /\ Len(s) \in Int /\ k <= Len(s)
      BY <2>3, <2>4
    <3> HIDE DEF b
    <3>4. Len(b) = Len(s) - k
      BY <3>2, <3>3
    <3>5. ASSUME NEW i \in 1..(Len(s) - k) PROVE b[i] = s[k + i]
      <4>1. i \in 1..(Len(s) - (k + 1) + 1) /\ (k + 1) + i - 1 = k + i
        BY <3>3
      <4> QED BY <3>2, <4>1
    <3> QED BY <3>2, <3>4, <3>5
  <2> HIDE DEF a, b
  <2>7. /\ d \in Seq(S) /\ Len(d) = Len(s) - 1
        /\ \A i \in 1..(Len(s) - 1) : d[i] = IF i <= k - 1 THEN a[i] ELSE b[i - (k - 1)]
    <3>1. Len(a) + Len(b) = Len(s) - 1
      BY <2>3, <2>4, <2>5, <2>6
    <3>2. /\ d \in Seq(S) /\ Len(d) = Len(a) + Len(b)
          /\ \A i \in 1..(Len(a) + Len(b)) : d[i] = IF i <= Len(a) THEN a[i] ELSE b[i - Len(a)]
      BY <2>5, <2>6, ConcatProperties
    <3> HIDE DEF d
    <3> QED BY <3>1, <3>2, <2>5
  <2>8. DOMAIN d = 1..(Len(s) - 1)
    BY <2>7, LenProperties
  <2> HIDE DEF d
  <2> DEFINE from(i) == IF i <= k - 1 THEN i ELSE i + 1
  <2>9. ASSUME NEW i \in DOMAIN d
        PROVE  i \in Int /\ from(i) \in DOMAIN s /\ from(i) # k /\ d[i] = s[from(i)]
    <3>1. i \in 1..(Len(s) - 1)
      BY <2>8
    <3>2. CASE i <= k - 1
      <4>1. i \in 1..(k - 1)
        BY <3>1, <3>2, <2>3
      <4>2. d[i] = s[i]
        BY <3>2, <4>1, <2>5, <2>7
      <4> QED BY <3>1, <3>2, <4>2, <2>3, <2>4
    <3>3. CASE ~(i <= k - 1)
      <4>1. i - (k - 1) \in 1..(Len(s) - k) /\ k + (i - (k - 1)) = i + 1
        BY <3>1, <3>3, <2>3, <2>4
      <4>2. d[i] = s[i + 1]
        BY <3>1, <3>3, <4>1, <2>6, <2>7
      <4> QED BY <3>1, <3>3, <4>2, <2>3, <2>4
    <3> QED BY <3>2, <3>3
  <2>10. Members(d) \subseteq Members(s) \ {t}
    <3>1. ASSUME NEW i \in DOMAIN d PROVE d[i] \in Members(s) /\ d[i] # t
      BY <2>1, <2>9 DEF Once, Members
    <3> QED BY <3>1 DEF Members
  <2>11. Members(s) \ {t} \subseteq Members(d)
    <3>1. ASSUME NEW j \in DOMAIN s, s[j] # t PROVE s[j] \in Members(d)
      <4>1. j \in 1..Len(s) /\ j # k
        BY <2>1, <2>3, <3>1
      <4>2. CASE j <= k - 1
        <5>1. j \in DOMAIN d /\ from(j) = j
          BY <4>1, <4>2, <2>3, <2>4, <2>8
        <5>2. d[j] = s[j]
          BY <5>1, <2>9
        <5> QED BY <5>1, <5>2 DEF Members
      <4>3. CASE ~(j <= k - 1)
        <5>1. j - 1 \in DOMAIN d /\ from(j - 1) = j
          BY <4>1, <4>3, <2>3, <2>4, <2>8
        <5>2. d[j - 1] = s[j]
          BY <5>1, <2>9
        <5> QED BY <5>1, <5>2 DEF Members
      <4> QED BY <4>2, <4>3
    <3> QED BY <3>1 DEF Members
  <2>12. ASSUME NEW i \in DOMAIN d, NEW j \in DOMAIN d, d[i] = d[j] PROVE i = j
    <3>1. from(i) = from(j)
      <4>1. s[from(i)] = s[from(j)] /\ from(i) \in DOMAIN s /\ from(j) \in DOMAIN s
        BY <2>9, <2>12
      <4> HIDE DEF from
      <4> QED BY <4>1 DEF Once
    <3> QED BY <3>1, <2>4, <2>9
  <2> QED BY <2>2, <2>7, <2>10, <2>11, <2>12 DEF Once
<1> QED BY <1>1, <1>2

\* A part of a list, element by element.
LEMMA PartMembers ==
  ASSUME NEW S, NEW s \in Seq(S), NEW m \in Nat \ {0}, NEW n \in Nat, n <= Len(s)
  PROVE  Members(SubSeq(s, m, n)) = {s[i] : i \in m..n}
<1> DEFINE p == SubSeq(s, m, n)
<1>1. Len(s) \in Nat /\ \A i \in m..n : s[i] \in S
  BY LenProperties, ElementOfSeq
<1>2. /\ p \in Seq(S) /\ Len(p) = IF m <= n THEN n - m + 1 ELSE 0
      /\ \A i \in 1..(n - m + 1) : p[i] = s[m + i - 1]
  BY <1>1, SubSeqProperties
<1>3. DOMAIN p = 1..Len(p)
  BY <1>2, LenProperties
<1> HIDE DEF p
<1>4. ASSUME NEW i \in DOMAIN p PROVE p[i] \in {s[j] : j \in m..n}
  <2>1. m + i - 1 \in m..n /\ p[i] = s[m + i - 1]
    BY <1>2, <1>3
  <2> QED BY <2>1
<1>5. ASSUME NEW i \in m..n PROVE s[i] \in Members(p)
  <2>1. i - m + 1 \in DOMAIN p /\ i - m + 1 \in 1..(n - m + 1) /\ m + (i - m + 1) - 1 = i
    BY <1>2, <1>3
  <2>2. p[i - m + 1] = s[i]
    BY <2>1, <1>2
  <2> QED BY <2>1, <2>2 DEF Members
<1>6. Members(p) = {s[i] : i \in m..n}
  BY <1>4, <1>5 DEF Members
<1> QED BY <1>6 DEF p

\* The first n entries of a list without repetitions, and the others.
LEMMA SplitMembers ==
  ASSUME NEW S, NEW s \in Seq(S), NEW n \in Nat, n <= Len(s), Once(s)
  PROVE  /\ Members(s) = Members(SubSeq(s, 1, n)) \cup Members(SubSeq(s, n + 1, Len(s)))
         /\ Members(SubSeq(s, 1, n)) \cap Members(SubSeq(s, n + 1, Len(s))) = {}
         /\ IsFiniteSet(Members(SubSeq(s, 1, n)))
         /\ Cardinality(Members(SubSeq(s, 1, n))) = n
<1>1. Len(s) \in Nat /\ DOMAIN s = 1..Len(s)
  BY LenProperties
<1>2. 1 \in Nat \ {0} /\ n + 1 \in Nat \ {0} /\ Len(s) <= Len(s)
  BY <1>1
<1>3. /\ Members(SubSeq(s, 1, n)) = {s[i] : i \in 1..n}
      /\ Members(SubSeq(s, n + 1, Len(s))) = {s[i] : i \in (n + 1)..Len(s)}
  BY <1>1, <1>2, PartMembers
<1>4. /\ 1..Len(s) = (1..n) \cup ((n + 1)..Len(s)) /\ (1..n) \cap ((n + 1)..Len(s)) = {}
  BY <1>1
<1> DEFINE T == {s[i] : i \in 1..n}
           f == [i \in 1..n |-> s[i]]
<1>5. f \in Bijection(1..n, T)
  <2>1. \A i, j \in 1..n : f[i] = f[j] => i = j
    BY <1>1, <1>4 DEF Once
  <2> QED BY <2>1 DEF Bijection, Injection, Surjection, IsInjective
<1>6. IsFiniteSet(1..n) /\ Cardinality(1..n) = n
  BY FS_Interval
<1>7. IsFiniteSet(T) /\ Cardinality(T) = n
  <2>1. ExistsBijection(1..n, T)
    BY <1>5 DEF ExistsBijection
  <2> HIDE DEF T
  <2> QED BY <2>1, <1>6, FS_Bijection
<1>8. Members(s) = T \cup {s[i] : i \in (n + 1)..Len(s)}
  BY <1>1, <1>4 DEF Members
<1>9. T \cap {s[i] : i \in (n + 1)..Len(s)} = {}
  BY <1>1, <1>4 DEF Once
<1> QED BY <1>3, <1>7, <1>8, <1>9

\* The last entry of a list, and the others.
LEMMA LastMember ==
  ASSUME NEW S, NEW s \in Seq(S), s # <<>>, Once(s)
  PROVE  /\ s[Len(s)] \in S /\ Last(s) = <<s[Len(s)]>> /\ Last(s)[1] = s[Len(s)]
         /\ Members(Last(s)) = {s[Len(s)]}
         /\ Members(s) = Members(Front(s)) \cup {s[Len(s)]} /\ s[Len(s)] \notin Members(Front(s))
<1>1. Len(s) \in Nat \ {0} /\ DOMAIN s = 1..Len(s)
  BY EmptySeq, LenProperties
<1>2. Len(s) - 1 \in Nat /\ Len(s) - 1 <= Len(s) /\ Len(s) \in DOMAIN s
  BY <1>1
<1>3. Members(Front(s)) = {s[i] : i \in 1..(Len(s) - 1)}
  BY <1>2, PartMembers DEF Front
<1>4. DOMAIN s = (1..(Len(s) - 1)) \cup {Len(s)} /\ Len(s) \notin 1..(Len(s) - 1)
  BY <1>1
<1>5. Members(s) = Members(Front(s)) \cup {s[Len(s)]}
  BY <1>3, <1>4 DEF Members
<1>6. s[Len(s)] \notin Members(Front(s))
  BY <1>2, <1>3, <1>4 DEF Once
<1>7. s[Len(s)] \in S /\ Last(s) = <<s[Len(s)]>> /\ Last(s)[1] = s[Len(s)] /\ DOMAIN Last(s) = {1}
  BY <1>1, ElementOfSeq DEF Last
<1>8. Members(Last(s)) = {s[Len(s)]}
  BY <1>7 DEF Members
<1> QED BY <1>5, <1>6, <1>7, <1>8

\* The first entry of a list, and the others.
LEMMA HeadMember ==
  ASSUME NEW S, NEW s \in Seq(S), s # <<>>
  PROVE  /\ Head(s) \in Members(s) /\ Members(Tail(s)) \subseteq Members(s)
         /\ Members(s) = {Head(s)} \cup Members(Tail(s))
         /\ Once(s) => Once(Tail(s)) /\ Head(s) \notin Members(Tail(s))
<1>1. Len(s) \in Nat \ {0} /\ DOMAIN s = 1..Len(s)
  BY EmptySeq, LenProperties
<1>2. Tail(s) = SubSeq(s, 2, Len(s)) /\ Head(s) = s[1]
  BY TailIsSubSeq
<1>3. 2 \in Nat \ {0} /\ Len(s) \in Nat /\ Len(s) <= Len(s)
  BY <1>1
<1>4. Members(Tail(s)) = {s[i] : i \in 2..Len(s)} /\ (Once(s) => Once(Tail(s)))
  <2>1. Members(SubSeq(s, 2, Len(s))) = {s[i] : i \in 2..Len(s)}
    BY <1>3, PartMembers
  <2>2. Once(s) => Once(SubSeq(s, 2, Len(s)))
    BY <1>3, SubSeqMembers
  <2> QED BY <1>2, <2>1, <2>2
<1>5. DOMAIN s = {1} \cup (2..Len(s)) /\ 1 \notin 2..Len(s)
  BY <1>1
<1>6. Members(s) = {Head(s)} \cup Members(Tail(s))
  BY <1>2, <1>4, <1>5 DEF Members
<1>7. Once(s) => Head(s) \notin Members(Tail(s))
  BY <1>2, <1>4, <1>5 DEF Once
<1> QED BY <1>4, <1>6, <1>7

-------------------------------------------------------------------------------
\* What the empty list is.
LEMMA EmptyList == ASSUME NEW S PROVE <<>> \in Seq(S) /\ Members(<<>>) = {} /\ DOMAIN <<>> = {}
BY EmptySeq DEF Members

\* Before any call the lists are empty.
LEMMA InitStep == Init => IInv
<1> SUFFICES ASSUME Init PROVE IInv
  OBVIOUS
<1> USE QueueAssumption
<1>1. <<>> \in Seq(Items) /\ <<>> \in Seq(Threads) /\ Members(<<>>) = {} /\ DOMAIN <<>> = {}
  BY EmptyList
<1>2. TypeOK
  BY <1>1 DEF Init, TypeOK, Labels
<1>3. NoStaleWaiters
  <2>1. waiting = <<>> /\ pushers = <<>>
    BY DEF Init
  <2> QED BY <2>1, <1>1 DEF NoStaleWaiters
<1>4. CallsAreTrue
  BY DEF Init, CallsAreTrue, Sleeping
<1> QED BY <1>2, <1>3, <1>4 DEF IInv

\* What one thread does changes what another is doing in nothing.
OthersStay(t) ==
  \A u \in Threads \ {t} : /\ pc'[u] = pc[u] /\ call'[u] = call[u]
                           /\ item'[u] = item[u] /\ toWake'[u] = toWake[u]

\* Every step is of one thread.
LEMMA OnlyOne ==
  ASSUME TypeOK, NEW t \in Threads, RubyCode(t) \/ Runtime(t)
  PROVE  OthersStay(t)
<1> USE DEF TypeOK, OthersStay, Goto
<1>1. CASE \/ Shift(t) \/ PopNil(t) \/ PopWaits(t) \/ SeePushers(t) \/ PushWaits(t) \/ Push(t)
           \/ Close(t) \/ Drain(t)
  BY <1>1 DEF Shift, PopNil, PopWaits, SeePushers, PushWaits, FallAsleep, Push, Close, Drain
<1>2. CASE \/ PopRefused(t) \/ PopReturns(t) \/ PushRefused(t) \/ Drained(t) \/ Unwind(t) \/ Thrown(t)
           \/ WakeUpDead(t) \/ Woke(t)
  BY <1>2 DEF PopRefused, PopReturns, PushRefused, Drained, Unwind, Thrown, WakeUpDead, Woke, Quit, Return
<1>3. CASE \/ Clear(t) \/ SetMax(t) \/ LockList(t)
  BY <1>3 DEF Clear, SetMax, LockList, TakePushers
<1>4. CASE \/ SeeSleep(t) \/ SeeSleepElsewhere(t) \/ SeeDead(t) \/ WakeUp(t)
  BY <1>4 DEF SeeSleep, SeeSleepElsewhere, SeeDead, WakeUp, KeepTarget, NextTarget
<1>5. CASE StartWait(t) \/ EndWait(t) \/ EndWaitEarly(t) \/ End(t)
  BY <1>5 DEF StartWait, EndWait, EndWaitEarly, End, OnlyPcMoves
<1>6. CASE Interrupt(t)
  BY <1>6 DEF Interrupt, Return
<1>7. ASSUME NEW c \in Calls, Start(t, c) PROVE OthersStay(t)
  BY <1>7 DEF Start
<1> QED BY <1>1, <1>2, <1>3, <1>4, <1>5, <1>6, <1>7 DEF RubyCode, Runtime

\* Who is on no list, or stays asleep in its call, leaves lists that do not change true.
LEMMA SameLists ==
  ASSUME IInv, NEW t \in Threads, OthersStay(t), UNCHANGED <<waiting, pushers>>,
         \/ pc[t] \notin Sleeping
         \/ pc'[t] \in Sleeping /\ call'[t] = call[t]
  PROVE  NoStaleWaiters'
<1>1. /\ waiting \in Seq(Threads) /\ pushers \in Seq(Threads)
  BY DEF IInv, TypeOK
<1>2. Members(waiting) \subseteq Threads /\ Members(pushers) \subseteq Threads
  BY <1>1, ElementOfSeq, LenProperties DEF Members
<1>3. \A u \in Members(waiting) : call'[u] \in Pops /\ pc'[u] \in Sleeping
  BY <1>2 DEF IInv, NoStaleWaiters, OthersStay
<1>4. \A u \in Members(pushers) : call'[u] \in Pushes /\ pc'[u] \in Sleeping
  BY <1>2 DEF IInv, NoStaleWaiters, OthersStay
<1>5. \A s \in {waiting, pushers} : \A i, j \in DOMAIN s : s[i] = s[j] => i = j
  BY DEF IInv, NoStaleWaiters
<1> QED BY <1>3, <1>4, <1>5 DEF NoStaleWaiters

\* Lists stay true if t is the only one that comes to them, where it waits.
LEMMA OtherLists ==
  ASSUME IInv, NEW t \in Threads, OthersStay(t),
         Once(waiting'), Once(pushers'),
         Members(waiting') \subseteq Members(waiting) \cup {t},
         Members(pushers') \subseteq Members(pushers) \cup {t},
         t \in Members(waiting') => call'[t] \in Pops /\ pc'[t] \in Sleeping,
         t \in Members(pushers') => call'[t] \in Pushes /\ pc'[t] \in Sleeping
  PROVE  NoStaleWaiters'
<1>1. /\ waiting \in Seq(Threads) /\ pushers \in Seq(Threads)
  BY DEF IInv, TypeOK
<1>2. Members(waiting) \subseteq Threads /\ Members(pushers) \subseteq Threads
  BY <1>1, ElementOfSeq, LenProperties DEF Members
<1>3. \A u \in Members(waiting') : call'[u] \in Pops /\ pc'[u] \in Sleeping
  BY <1>2 DEF IInv, NoStaleWaiters, OthersStay
<1>4. \A u \in Members(pushers') : call'[u] \in Pushes /\ pc'[u] \in Sleeping
  BY <1>2 DEF IInv, NoStaleWaiters, OthersStay
<1>5. \A s \in {waiting', pushers'} : \A i, j \in DOMAIN s : s[i] = s[j] => i = j
  BY DEF Once
<1> QED BY <1>3, <1>4, <1>5 DEF NoStaleWaiters, Members

\* Who is where on the lists.
LEMMA ListFacts ==
  ASSUME IInv, NEW t \in Threads
  PROVE  /\ waiting \in Seq(Threads) /\ pushers \in Seq(Threads)
         /\ Once(waiting) /\ Once(pushers)
         /\ t \in Members(waiting) => call[t] \in Pops /\ pc[t] \in Sleeping
         /\ t \in Members(pushers) => call[t] \in Pushes /\ pc[t] \in Sleeping
         /\ pc[t] \in Sleeping => call[t] \notin NonBlocking
BY DEF IInv, TypeOK, NoStaleWaiters, CallsAreTrue, Once

-------------------------------------------------------------------------------
\* Wakers and sleepers leave the lists to others.
LEMMA ListStep ==
  ASSUME IInv, NEW t \in Threads, RubyCode(t) \/ Runtime(t)
  PROVE  NoStaleWaiters'
<1>1. OthersStay(t)
  BY OnlyOne DEF IInv
<1>2. /\ waiting \in Seq(Threads) /\ pushers \in Seq(Threads)
      /\ Once(waiting) /\ Once(pushers)
      /\ t \in Members(waiting) => call[t] \in Pops /\ pc[t] \in Sleeping
      /\ t \in Members(pushers) => call[t] \in Pushes /\ pc[t] \in Sleeping
      /\ pc[t] \in Sleeping => call[t] \notin NonBlocking
      /\ Pops \cap Pushes = {}
  BY ListFacts DEF Pops, Pushes
<1>3. /\ pc \in [Threads -> Labels] /\ call \in [Threads -> Calls \cup {"none"}]
  BY DEF IInv, TypeOK
<1>4. CASE \/ SeePushers(t) \/ Close(t) \/ PopReturns(t) \/ PopRefused(t) \/ Drained(t)
  <2>1. UNCHANGED <<waiting, pushers>>
    BY <1>4 DEF SeePushers, Close, PopReturns, PopRefused, Drained
  <2>2. pc[t] \notin Sleeping
    <3>1. CASE SeePushers(t) \/ PopReturns(t) \/ Drained(t)
      BY <3>1 DEF SeePushers, PopReturns, Drained, Sleeping
    <3>2. CASE Close(t)
      BY <3>2 DEF Close, Inside, IInv, CallsAreTrue, Pops, Pushes, Sleeping
    <3>3. CASE PopRefused(t)
      BY <3>3, <1>2 DEF PopRefused, NonBlocking
    <3> QED BY <1>4, <3>1, <3>2, <3>3
  <2> QED BY <1>1, <2>1, <2>2, SameLists
<1>5. CASE \/ SeeSleep(t) \/ SeeSleepElsewhere(t) \/ SeeDead(t) \/ WakeUp(t) \/ WakeUpDead(t)
           \/ Woke(t) \/ Thrown(t) \/ End(t)
  <2>1. UNCHANGED <<waiting, pushers>> /\ pc[t] \in {"wake", "wakeup", "thrown", "user"}
    BY <1>5 DEF SeeSleep, SeeSleepElsewhere, SeeDead, WakeUp, WakeUpDead, Woke, Thrown, End, KeepTarget,
                NextTarget, OnlyPcMoves
  <2> QED BY <1>1, <2>1, SameLists DEF Sleeping
<1>6. CASE StartWait(t) \/ EndWait(t) \/ EndWaitEarly(t)
  <2>1. UNCHANGED <<waiting, pushers>> /\ pc'[t] \in {"asleep", "relock"} /\ call' = call
    BY <1>3, <1>6 DEF StartWait, EndWait, EndWaitEarly, OnlyPcMoves, Goto
  <2> QED BY <1>1, <2>1, SameLists DEF Sleeping
<1>7. CASE Interrupt(t)
  <2>1. UNCHANGED <<waiting, pushers>>
    BY <1>7 DEF Interrupt
  <2>2. \/ pc[t] \in {"lock", "lock list", "wake"}
        \/ pc'[t] = "unwind" /\ call' = call
    BY <1>3, <1>7 DEF Interrupt, Goto
  <2> QED BY <1>1, <2>1, <2>2, SameLists DEF Sleeping
<1>8. ASSUME NEW c \in Calls, Start(t, c) PROVE NoStaleWaiters'
  <2>1. UNCHANGED <<waiting, pushers>> /\ pc[t] = "user"
    BY <1>8 DEF Start
  <2> QED BY <1>1, <2>1, SameLists DEF Sleeping
<1>9. /\ Once(Delete(waiting, t)) /\ Members(Delete(waiting, t)) = Members(waiting) \ {t}
      /\ Once(Delete(pushers, t)) /\ Members(Delete(pushers, t)) = Members(pushers) \ {t}
  BY <1>2, DeleteMembers
<1>10. waiting # <<>> => Once(Front(waiting)) /\ Members(Front(waiting)) \subseteq Members(waiting)
  <2>1. ASSUME waiting # <<>>
        PROVE  Once(Front(waiting)) /\ Members(Front(waiting)) \subseteq Members(waiting)
    <3>1. Len(waiting) \in Nat /\ Len(waiting) - 1 \in Nat /\ Len(waiting) - 1 <= Len(waiting)
      BY <1>2, <2>1, EmptySeq, LenProperties
    <3> QED BY <3>1, <1>2, SubSeqMembers DEF Front
  <2> QED BY <2>1
<1>11. CASE Shift(t) \/ PopNil(t)
  <2>1. waiting' = Delete(waiting, t) /\ pushers' = pushers /\ call[t] \in Pops
    BY <1>11 DEF Shift, PopNil
  <2> QED BY <1>1, <1>2, <1>9, <2>1, OtherLists
<1>12. CASE PushRefused(t)
  <2>1. waiting' = waiting /\ pushers' = Delete(pushers, t) /\ call[t] \in Pushes
    BY <1>12 DEF PushRefused
  <2> QED BY <1>1, <1>2, <1>9, <2>1, OtherLists
<1>13. CASE Unwind(t)
  <2>1. waiting' = Delete(waiting, t) /\ pushers' = Delete(pushers, t)
    BY <1>13 DEF Unwind
  <2> QED BY <1>1, <1>2, <1>9, <2>1, OtherLists
<1>14. CASE PopWaits(t)
  <2>1. /\ waiting' = ListConsumer(t) /\ pushers' = pushers
        /\ call[t] \in Pops /\ call' = call /\ pc'[t] = "doze"
    BY <1>3, <1>14 DEF PopWaits, FallAsleep, Goto
  <2>2. Once(waiting') /\ Members(waiting') \subseteq Members(waiting) \cup {t}
    BY <1>2, <2>1, AppendMembers DEF ListConsumer
  <2> QED BY <1>1, <1>2, <2>1, <2>2, OtherLists DEF Sleeping
<1>15. CASE PushWaits(t)
  <2>1. /\ pushers' = IF Fresh(t) THEN Append(pushers, t) ELSE pushers
        /\ waiting' = waiting /\ call[t] \in Pushes /\ call' = call /\ pc'[t] = "doze"
    BY <1>3, <1>15 DEF PushWaits, FallAsleep, Goto, Pushes
  <2>2. Fresh(t) => t \notin Members(pushers)
    BY <1>2 DEF Fresh, Sleeping
  <2>3. Once(pushers') /\ Members(pushers') \subseteq Members(pushers) \cup {t}
    BY <1>2, <2>1, <2>2, AppendMembers
  <2> QED BY <1>1, <1>2, <2>1, <2>3, OtherLists DEF Sleeping
<1>16. CASE Push(t)
  <2>1. /\ waiting' = IF waiting = <<>> THEN waiting ELSE Front(waiting)
        /\ pushers' = Delete(pushers, t) /\ call[t] \in Pushes
    BY <1>16 DEF Push
  <2> QED BY <1>1, <1>2, <1>9, <1>10, <2>1, OtherLists
<1>17. CASE Drain(t)
  <2>1. waiting' = Front(waiting) /\ waiting # <<>> /\ pushers' = pushers /\ pc[t] = "drain"
    BY <1>17 DEF Drain
  <2> QED BY <1>1, <1>2, <1>10, <2>1, OtherLists DEF Sleeping
<1>18. CASE Clear(t) \/ SetMax(t) \/ LockList(t)
  <2>1. \E n \in Nat : waiting' = waiting /\ pushers' = Remaining(n)
    <3>1. Len(pushers) \in Nat /\ \A n \in Nat : AtMost(n) \in Nat
      BY <1>2, LenProperties DEF AtMost
    <3>2. CASE Clear(t)
      BY <3>1, <3>2 DEF Clear, TakePushers
    <3>3. CASE SetMax(t)
      <4>1. PICK n \in Sizes : TakePushers(t, IF n > max THEN AtMost(n - max) ELSE 0)
        BY <3>3 DEF SetMax
      <4>2. n \in Nat /\ max \in Nat
        <5>1. Sizes \subseteq Nat /\ NoLimit \in Nat
          BY QueueAssumption DEF NoLimit
        <5>2. max \in Sizes \cup {NoLimit}
          BY DEF IInv, TypeOK
        <5> QED BY <5>1, <5>2
      <4>3. (IF n > max THEN AtMost(n - max) ELSE 0) \in Nat
        BY <3>1, <4>2
      <4> QED BY <4>1, <4>3 DEF TakePushers
    <3>4. CASE LockList(t)
      <4>1. (IF call[t] = "close" THEN Len(pushers) ELSE TakeOne) \in Nat
        BY <3>1 DEF TakeOne
      <4> QED BY <3>4, <4>1 DEF LockList, TakePushers
    <3> QED BY <1>18, <3>2, <3>3, <3>4
  <2>2. PICK n \in Nat : waiting' = waiting /\ pushers' = Remaining(n)
    BY <2>1
  <2>3. Once(pushers') /\ Members(pushers') \subseteq Members(pushers)
    <3>1. Len(pushers) \in Nat /\ n + 1 \in Nat \ {0} /\ Len(pushers) <= Len(pushers)
      BY <1>2, LenProperties
    <3> QED BY <2>2, <3>1, <1>2, SubSeqMembers DEF Remaining
  <2>4. pc[t] \notin Sleeping
    BY <1>18 DEF Clear, SetMax, LockList, Inside, IInv, CallsAreTrue, Sleeping, Pops, Pushes
  <2> QED BY <1>1, <1>2, <2>2, <2>3, <2>4, OtherLists
<1> QED BY <1>4, <1>5, <1>6, <1>7, <1>8, <1>11, <1>12, <1>13, <1>14, <1>15, <1>16, <1>17, <1>18
        DEF RubyCode, Runtime

\* Every step keeps the types: items go from threads to the queue and back, and only
\* a push keeps @mutex between steps.
LEMMA TypeStep ==
  ASSUME IInv, NEW t \in Threads, RubyCode(t) \/ Runtime(t) PROVE TypeOK'
<1> DEFINE Holding == holder # Nobody => /\ holder \in Threads
                                         /\ pc[holder] \in {"wake", "wakeup"} /\ call[holder] \in Pushes
           DataOK == queue \in Seq(Items) /\ closed \in BOOLEAN /\ max \in Sizes \cup {NoLimit}
           ListOK == waiting \in Seq(Threads) /\ pushers \in Seq(Threads)
           WakeOK == toWake \in [Threads -> Seq(Threads)] /\ woken \subseteq Threads
           CallOK == /\ call \in [Threads -> Calls \cup {"none"}]
                     /\ item \in [Threads -> Items \cup {None}]
                     /\ events \in {"none", "early", "error"}
                     /\ pc \in [Threads -> Labels]
<1>1. DataOK /\ ListOK /\ WakeOK /\ CallOK /\ Holding
  BY DEF IInv, TypeOK
<1>2. SUFFICES DataOK' /\ ListOK' /\ WakeOK' /\ CallOK' /\ Holding'
  BY DEF TypeOK
<1>3. Once(waiting) /\ Once(pushers)
  BY ListFacts
<1>4. /\ Delete(waiting, t) \in Seq(Threads) /\ Delete(pushers, t) \in Seq(Threads)
      /\ ListConsumer(t) \in Seq(Threads) /\ Append(pushers, t) \in Seq(Threads)
  BY <1>1, <1>3, DeleteMembers, AppendMembers DEF ListConsumer
<1>5. waiting # <<>> => /\ Front(waiting) \in Seq(Threads) /\ waiting[Len(waiting)] \in Threads
                        /\ Last(waiting) \in Seq(Threads) /\ Last(waiting)[1] \in Threads
  <2>1. ASSUME waiting # <<>>
        PROVE  Front(waiting) \in Seq(Threads) /\ waiting[Len(waiting)] \in Threads
    <3>1. /\ Len(waiting) \in Nat /\ Len(waiting) - 1 \in Nat /\ Len(waiting) - 1 <= Len(waiting)
          /\ Len(waiting) \in 1..Len(waiting)
      BY <1>1, <2>1, EmptySeq, LenProperties
    <3> QED BY <3>1, <1>1, SubSeqMembers, ElementOfSeq DEF Front
  <2> QED BY <2>1 DEF Last
<1>6. \A n \in Nat : n <= Len(pushers) =>
        Remaining(n) \in Seq(Threads) /\ SubSeq(pushers, 1, n) \in Seq(Threads)
  <2>1. Len(pushers) \in Nat /\ Len(pushers) <= Len(pushers)
    BY <1>1, LenProperties
  <2> QED BY <2>1, <1>1, SubSeqMembers DEF Remaining
<1>7. Sizes \subseteq Nat /\ NoLimit \in Nat /\ Nobody \notin Threads /\ None \notin Items
      /\ Payload \in [Threads -> Items]
  BY QueueAssumption DEF NoLimit
<1>8. toWake[t] # <<>> => Head(toWake[t]) \in Threads /\ Tail(toWake[t]) \in Seq(Threads)
  BY <1>1, HeadTailProperties
<1>9. <<>> \in Seq(Threads) /\ <<>> \in Seq(Items)
  BY EmptyList
<1> USE DEF Goto
<1>10. CASE \/ Shift(t) \/ PopNil(t) \/ PopWaits(t) \/ SeePushers(t) \/ PushWaits(t) \/ Close(t)
  <2>1. UNCHANGED <<holder, call, toWake, events, max>> /\ woken' \subseteq woken
        /\ \E l \in {"popped", "doze", "lock list", "drain"} : pc' = [pc EXCEPT ![t] = l]
    BY <1>10 DEF Shift, PopNil, PopWaits, SeePushers, PushWaits, FallAsleep, Close, data
  <2>2. DataOK' /\ item' \in [Threads -> Items \cup {None}]
    <3>1. CASE Shift(t)
      <4>1. Head(queue) \in Items /\ Tail(queue) \in Seq(Items)
        BY <1>1, <3>1, HeadTailProperties DEF Shift
      <4> QED BY <1>1, <3>1, <4>1 DEF Shift
    <3>2. CASE Close(t)
      BY <1>1, <3>2 DEF Close
    <3>3. CASE \/ PopNil(t) \/ PopWaits(t) \/ SeePushers(t) \/ PushWaits(t)
      BY <1>1, <3>3 DEF PopNil, PopWaits, SeePushers, PushWaits, FallAsleep, data
    <3> QED BY <1>10, <3>1, <3>2, <3>3
  <2>3. ListOK'
    BY <1>1, <1>4, <1>10 DEF Shift, PopNil, PopWaits, SeePushers, PushWaits, Close
  <2>4. holder # Nobody => holder # t
    BY <1>1, <1>10 DEF Shift, PopNil, PopWaits, SeePushers, PushWaits, Close, Inside
  <2>5. CallOK'
    BY <1>1, <2>1, <2>2 DEF Labels
  <2>6. Holding'
    BY <1>1, <2>1, <2>4
  <2> QED BY <1>1, <2>1, <2>2, <2>3, <2>5, <2>6
<1>11. CASE Push(t)
  <2>1. item[t] \in Items
    BY <1>11 DEF IInv, CallsAreTrue, Push, Inside, Sleeping
  <2>2. queue' \in Seq(Items) /\ UNCHANGED <<closed, max, call, woken, events>>
    BY <1>1, <1>11, <2>1, AppendProperties DEF Push
  <2>3. ListOK' /\ WakeOK'
    BY <1>1, <1>4, <1>5, <1>9, <1>11 DEF Push
  <2>4. /\ item' \in [Threads -> Items \cup {None}] /\ pc' \in [Threads -> Labels]
        /\ holder' = t /\ pc'[t] = "wake" /\ call[t] \in Pushes
    BY <1>1, <1>11 DEF Push, Labels
  <2> QED BY <1>1, <2>2, <2>3, <2>4
<1>12. CASE \/ PopRefused(t) \/ PopReturns(t) \/ PushRefused(t) \/ Unwind(t) \/ Thrown(t)
            \/ (Drained(t) /\ Quit(t)) \/ WakeUpDead(t) \/ Woke(t)
  <2>1. /\ UNCHANGED <<queue, closed, max, woken>> /\ Return(t)
        /\ events' \in {events, "error"}
        /\ toWake' \in {toWake, [toWake EXCEPT ![t] = <<>>]}
    BY <1>12 DEF PopRefused, PopReturns, PushRefused, Unwind, Thrown, WakeUpDead, Woke, Quit, Happens, data
  <2>2. ListOK'
    BY <1>1, <1>4, <1>12 DEF PopRefused, PopReturns, PushRefused, Unwind, Thrown, Drained, WakeUpDead, Woke
  <2>3. \/ holder' = holder /\ holder # t
        \/ holder' = Nobody
    BY <1>1, <1>7, <1>12 DEF PopRefused, PopReturns, PushRefused, Unwind, Thrown, Drained, WakeUpDead, Woke,
                             Quit, Release, Inside
  <2>4. CallOK' /\ WakeOK'
    BY <1>1, <1>9, <2>1 DEF Return, Labels
  <2>5. Holding'
    BY <1>1, <2>1, <2>3 DEF Return
  <2> QED BY <1>1, <2>1, <2>2, <2>4, <2>5
<1>13. CASE Drained(t) /\ ~Quit(t)
  <2>1. /\ UNCHANGED <<data, holder, call, item, toWake, woken, events, waiting, pushers>>
        /\ pc' = [pc EXCEPT ![t] = "lock list"] /\ pc[t] = "drain"
    BY <1>13 DEF Drained
  <2> QED BY <1>1, <2>1 DEF data, Labels
<1>14. CASE Drain(t)
  <2>1. /\ UNCHANGED <<queue, closed, max, pushers, holder, call, item, toWake, events, pc>>
        /\ waiting' = Front(waiting) /\ waiting # <<>>
        /\ woken' \subseteq woken \cup {Last(waiting)[1]}
    BY <1>14 DEF Drain, Rouse, data
  <2> QED BY <1>1, <1>5, <2>1
<1>15. CASE Clear(t) \/ SetMax(t) \/ LockList(t)
  <2>1. /\ UNCHANGED <<closed, waiting, holder, call, item, woken, events>>
        /\ pc' = [pc EXCEPT ![t] = "wake"] /\ queue' \in {queue, <<>>}
    BY <1>15 DEF Clear, SetMax, LockList, TakePushers
  <2>2. Len(pushers) \in Nat /\ \A n \in Nat : AtMost(n) \in Nat /\ AtMost(n) <= Len(pushers)
    BY <1>1, LenProperties DEF AtMost
  <2>3. max' \in Sizes \cup {NoLimit} /\ \E n \in Nat : n <= Len(pushers) /\ TakePushers(t, n)
    <3>1. CASE Clear(t)
      <4>1. Len(pushers) <= Len(pushers)
        BY <2>2
      <4> QED BY <1>1, <2>2, <3>1, <4>1 DEF Clear
    <3>2. CASE SetMax(t)
      <4>1. PICK n \in Sizes : max' = n /\ TakePushers(t, IF n > max THEN AtMost(n - max) ELSE 0)
        BY <3>2 DEF SetMax
      <4>2. n \in Nat /\ max \in Nat
        BY <1>1, <1>7
      <4>3. (IF n > max THEN AtMost(n - max) ELSE 0) \in 0..Len(pushers)
        BY <2>2, <4>2
      <4> QED BY <2>2, <4>1, <4>3
    <3>3. CASE LockList(t)
      <4> DEFINE n == IF call[t] = "close" THEN Len(pushers) ELSE TakeOne
      <4>1. n \in Nat /\ n <= Len(pushers)
        BY <2>2 DEF TakeOne
      <4>2. max' = max /\ TakePushers(t, n)
        BY <3>3 DEF LockList
      <4> HIDE DEF n
      <4> QED BY <1>1, <4>1, <4>2
    <3> QED BY <1>15, <3>1, <3>2, <3>3
  <2>4. ListOK' /\ WakeOK'
    BY <1>1, <1>6, <2>1, <2>3 DEF TakePushers
  <2>5. DataOK' /\ CallOK'
    BY <1>1, <1>9, <2>1, <2>3 DEF Labels
  <2>6. Holding'
    BY <1>1, <2>1
  <2> QED BY <2>4, <2>5, <2>6
<1>16. CASE \/ SeeSleep(t) \/ SeeSleepElsewhere(t) \/ SeeDead(t) \/ WakeUp(t)
  <2>1. /\ UNCHANGED <<data, waiting, pushers, holder, call, item, events>>
        /\ \E l \in {"wake", "wakeup"} : pc' = [pc EXCEPT ![t] = l]
        /\ toWake' \in {toWake, [toWake EXCEPT ![t] = Tail(@)]}
        /\ woken' \subseteq woken \cup {Head(toWake[t])}
    BY <1>16 DEF SeeSleep, SeeSleepElsewhere, SeeDead, WakeUp, KeepTarget, NextTarget, Rouse
  <2>2. toWake[t] # <<>>
    BY <1>16 DEF SeeSleep, SeeSleepElsewhere, SeeDead, WakeUp, IInv, CallsAreTrue
  <2>3. WakeOK'
    BY <1>1, <1>8, <2>1, <2>2
  <2>4. CallOK' /\ Holding'
    BY <1>1, <2>1 DEF Labels
  <2> QED BY <1>1, <2>1, <2>3, <2>4 DEF data
<1>17. CASE StartWait(t) \/ EndWait(t) \/ EndWaitEarly(t) \/ End(t)
  <2>1. /\ UNCHANGED <<data, waiting, pushers, holder, call, item, toWake>>
        /\ pc[t] \in {"doze", "asleep", "user"} /\ woken' \subseteq woken
        /\ events' \in {events, "early"}
        /\ \E l \in {"asleep", "relock", "dead"} : pc' = [pc EXCEPT ![t] = l]
    BY <1>17 DEF StartWait, EndWait, EndWaitEarly, End, OnlyPcMoves, Happens
  <2>2. CallOK' /\ Holding'
    BY <1>1, <2>1 DEF Labels
  <2> QED BY <1>1, <2>1, <2>2 DEF data
<1>18. CASE Interrupt(t)
  <2>1. /\ UNCHANGED <<data, waiting, pushers>> /\ woken' \subseteq woken
        /\ events' \in {events, "error"}
        /\ toWake' \in {toWake, [toWake EXCEPT ![t] = <<>>]}
    BY <1>18 DEF Interrupt, Happens
  <2>2. \/ /\ pc[t] \in {"doze", "asleep", "relock"} /\ pc' = [pc EXCEPT ![t] = "unwind"]
           /\ UNCHANGED <<holder, call, item>>
        \/ pc[t] = "lock" /\ pc' = [pc EXCEPT ![t] = "thrown"] /\ UNCHANGED <<holder, call, item>>
        \/ Release(t) /\ Return(t)
    BY <1>18 DEF Interrupt
  <2>3. CallOK' /\ WakeOK'
    <3>1. CallOK'
      <4>1. CASE /\ pc[t] \in {"doze", "asleep", "relock"} /\ pc' = [pc EXCEPT ![t] = "unwind"]
                 /\ UNCHANGED <<holder, call, item>>
        BY <1>1, <2>1, <4>1 DEF Labels
      <4>2. CASE pc[t] = "lock" /\ pc' = [pc EXCEPT ![t] = "thrown"] /\ UNCHANGED <<holder, call, item>>
        BY <1>1, <2>1, <4>2 DEF Labels
      <4>3. CASE Release(t) /\ Return(t)
        BY <1>1, <2>1, <4>3 DEF Return, Labels
      <4> QED BY <2>2, <4>1, <4>2, <4>3
    <3>2. WakeOK'
      BY <1>1, <1>9, <2>1
    <3> QED BY <3>1, <3>2
  <2>4. Holding'
    BY <1>1, <2>2 DEF Return, Release
  <2> QED BY <1>1, <2>1, <2>3, <2>4 DEF data
<1>19. ASSUME NEW c \in Calls, Start(t, c) PROVE DataOK' /\ ListOK' /\ WakeOK' /\ CallOK' /\ Holding'
  BY <1>1, <1>7, <1>19 DEF Start, data, Labels
<1> QED BY <1>10, <1>11, <1>12, <1>13, <1>14, <1>15, <1>16, <1>17, <1>18, <1>19 DEF RubyCode, Runtime

\* A SizedQueue keeps a limit, and only its programs set it.
LEMMA LimitStep ==
  ASSUME IInv, NEW t \in Threads, RubyCode(t) \/ Runtime(t)
  PROVE  \A u \in Threads : call'[u] = "max=" => max' # NoLimit
<1>1. OthersStay(t)
  BY OnlyOne DEF IInv
<1>2. \A u \in Threads : call[u] = "max=" => max # NoLimit
  BY DEF IInv, CallsAreTrue
<1>3. NoLimit \notin Sizes /\ call \in [Threads -> Calls \cup {"none"}]
  BY QueueAssumption DEF IInv, TypeOK
<1>4. CASE SetMax(t)
  BY <1>3, <1>4 DEF SetMax
<1>5. ASSUME NEW c \in Calls, Start(t, c)
      PROVE \A u \in Threads : call'[u] = "max=" => max' # NoLimit
  <2>1. max' = max /\ (c = "max=" => max # NoLimit)
    BY <1>5, QueueAssumption DEF Start, data
  <2> QED BY <1>2, <1>3, <1>5, <2>1 DEF Start
<1>6. max' = max \/ SetMax(t)
  BY DEF RubyCode, Runtime, Shift, PopNil, PopRefused, PopWaits, PopReturns, SeePushers,
         PushRefused, PushWaits, Push, Close, Drain, Drained, Clear, LockList, SeeSleep, SeeDead,
         WakeUp, WakeUpDead, Woke, StartWait, EndWait, Unwind, Thrown, Start, SeeSleepElsewhere,
         EndWaitEarly, Interrupt, End, FallAsleep, Quit, data, KeepTarget, NextTarget, OnlyPcMoves
<1>7. (\E c \in Calls : Start(t, c)) \/ call'[t] \in {call[t], "none"}
  BY <1>3 DEF RubyCode, Runtime, Shift, PopNil, PopRefused, PopWaits, PopReturns, SeePushers,
         PushRefused, PushWaits, Push, Close, Drain, Drained, Clear, SetMax, TakePushers, LockList,
         SeeSleep, SeeDead, WakeUp, WakeUpDead, Woke, StartWait, EndWait, Unwind, Thrown,
         SeeSleepElsewhere, EndWaitEarly, Interrupt, End, FallAsleep, Quit, Return, KeepTarget,
         NextTarget, OnlyPcMoves
<1> QED BY <1>1, <1>2, <1>4, <1>5, <1>6, <1>7 DEF OthersStay

\* What a thread has in its hands goes with where it is.
InHands(u) ==
  /\ pc[u] \in {"user", "dead"} => call[u] = "none"
  /\ call[u] \notin Pops \cup Pushes => item[u] = None
  /\ pc[u] \in Sleeping => call[u] \in (Pops \cup Pushes) \ NonBlocking
  /\ pc[u] \in {"lock"} \cup Sleeping =>
       /\ call[u] \in Pops => item[u] = None
       /\ call[u] \in Pushes => item[u] \in Items
  /\ pc[u] = "wakeup" => toWake[u] # <<>>

\* Every step keeps hands and places in agreement.
LEMMA CallStep ==
  ASSUME IInv, NEW t \in Threads, RubyCode(t) \/ Runtime(t) PROVE CallsAreTrue'
<1>1. OthersStay(t)
  BY OnlyOne DEF IInv
<1>2. InHands(t) /\ \A u \in Threads \ {t} : InHands(u)'
  BY <1>1 DEF IInv, CallsAreTrue, InHands, OthersStay
<1>3. /\ pc \in [Threads -> Labels] /\ call \in [Threads -> Calls \cup {"none"}]
      /\ item \in [Threads -> Items \cup {None}] /\ toWake \in [Threads -> Seq(Threads)]
  BY DEF IInv, TypeOK
<1>4. SUFFICES InHands(t)'
  BY <1>2, LimitStep DEF CallsAreTrue, InHands
<1> USE DEF Goto
<1>5. CASE \/ Shift(t) \/ PopNil(t) \/ SeePushers(t) \/ Push(t) \/ Close(t) \/ Clear(t)
           \/ SetMax(t) \/ LockList(t) \/ SeeDead(t) \/ WakeUp(t) \/ (Drained(t) /\ ~Quit(t))
  <2>1. pc'[t] \in {"popped", "lock list", "wake", "drain"}
    BY <1>3, <1>5 DEF Shift, PopNil, SeePushers, Push, Close, Clear, SetMax, LockList, TakePushers,
       SeeDead, WakeUp, NextTarget, Drained
  <2>2. \/ item'[t] = item[t] /\ call'[t] = call[t]
        \/ call'[t] \in Pops \cup Pushes
    BY <1>3, <1>5 DEF Shift, PopNil, SeePushers, Push, Close, Clear, SetMax, LockList, TakePushers,
       SeeDead, WakeUp, NextTarget, Drained
  <2> QED BY <1>2, <2>1, <2>2 DEF InHands, Sleeping
<1>6. CASE \/ PopRefused(t) \/ PopReturns(t) \/ PushRefused(t) \/ Unwind(t) \/ Thrown(t)
           \/ (Drained(t) /\ Quit(t)) \/ WakeUpDead(t) \/ Woke(t)
           \/ (Interrupt(t) /\ pc[t] \in {"lock list", "wake"})
  <2>1. Return(t)
    BY <1>6 DEF PopRefused, PopReturns, PushRefused, Unwind, Thrown, WakeUpDead, Woke, Quit, Interrupt
  <2> QED BY <1>3, <2>1 DEF Return, InHands, Sleeping, Pops, Pushes
<1>7. CASE PopWaits(t) \/ PushWaits(t)
  <2>1. /\ pc'[t] = "doze" /\ call' = call /\ item' = item /\ pc[t] \in {"lock", "relock"}
        /\ call[t] \in (Pops \cup Pushes) \ NonBlocking
    BY <1>3, <1>7 DEF PopWaits, PushWaits, FallAsleep, Inside, Pops, Pushes, NonBlocking
  <2> QED BY <1>2, <2>1 DEF InHands, Sleeping
<1>8. CASE \/ StartWait(t) \/ EndWait(t) \/ EndWaitEarly(t)
           \/ (Interrupt(t) /\ pc[t] \in {"lock", "doze", "asleep", "relock"})
  <2>1. /\ call' = call /\ item' = item
        /\ \/ pc[t] \in Sleeping /\ pc'[t] \in {"asleep", "relock", "unwind"}
           \/ pc'[t] = "thrown"
    BY <1>3, <1>8 DEF StartWait, EndWait, EndWaitEarly, Interrupt, OnlyPcMoves, Sleeping
  <2> QED BY <1>2, <2>1 DEF InHands, Sleeping
<1>9. CASE SeeSleep(t) \/ SeeSleepElsewhere(t)
  <2>1. /\ pc'[t] = "wakeup" /\ toWake' = toWake /\ toWake[t] # <<>>
        /\ item' = item /\ call' = call
    BY <1>3, <1>9 DEF SeeSleep, SeeSleepElsewhere, KeepTarget
  <2> QED BY <1>2, <2>1 DEF InHands, Sleeping
<1>10. CASE Drain(t)
  <2>1. UNCHANGED <<pc, call, item, toWake>>
    BY <1>10 DEF Drain
  <2> QED BY <1>2, <2>1 DEF InHands
<1>11. CASE End(t)
  <2>1. pc'[t] = "dead" /\ pc[t] = "user" /\ call' = call /\ item' = item
    BY <1>3, <1>11 DEF End, OnlyPcMoves
  <2> QED BY <1>2, <2>1 DEF InHands, Sleeping
<1>12. ASSUME NEW c \in Calls, Start(t, c) PROVE InHands(t)'
  <2>1. /\ pc'[t] = "lock" /\ call'[t] = c
        /\ item'[t] = IF c \in Pushes THEN Payload[t] ELSE None
    BY <1>3, <1>12 DEF Start
  <2>2. Payload[t] \in Items /\ (c \in Pops => c \notin Pushes)
    BY QueueAssumption DEF Pops, Pushes
  <2> QED BY <2>1, <2>2 DEF InHands, Sleeping
<1>13. Interrupt(t) => pc[t] \in {"lock", "lock list", "wake", "doze", "asleep", "relock"}
  BY DEF Interrupt
<1> QED BY <1>5, <1>6, <1>7, <1>8, <1>9, <1>10, <1>11, <1>12, <1>13 DEF RubyCode, Runtime

\* Every step keeps the inductive invariant.
LEMMA NextStep == ASSUME IInv, [Next]_vars PROVE IInv'
<1>1. CASE UNCHANGED vars
  BY <1>1 DEF IInv, TypeOK, NoStaleWaiters, CallsAreTrue, vars, data
<1>2. CASE Next
  BY <1>2, TypeStep, ListStep, CallStep DEF IInv, Next
<1> QED BY <1>1, <1>2

\* The inductive invariant holds in every state.
LEMMA Inductive == Spec => []IInv
<1>1. Init => IInv
  BY InitStep
<1>2. IInv /\ [Next]_vars => IInv'
  BY NextStep
<1> QED BY <1>1, <1>2, PTL DEF Spec

\* The state is well-formed, and a list of waiting threads names threads that wait in a
\* pop, or in a push, each once, however the waits before have ended.
THEOREM Lists == Spec => []ListsAreTrue
<1>1. IInv => ListsAreTrue
  BY DEF IInv, ListsAreTrue
<1> QED BY <1>1, Inductive, PTL

-------------------------------------------------------------------------------
(* The refinement.                                                           *)

asked == [u \in Threads |-> Asked(u)]

\* What a thread has asked the channel for, by its call and where it is in it.
LEMMA AskedFacts ==
  ASSUME NEW t \in Threads
  PROVE  /\ call[t] \notin Pops \cup Pushes => Asked(t) = "nothing"
         /\ call[t] \in Pops \cup Pushes =>
              /\ pc[t] \in Struck => Asked(t) = "struck"
              /\ pc[t] \notin Asking \cup Struck => Asked(t) = "answer"
         /\ pc[t] \in Asking =>
              /\ call[t] = "pop" => Asked(t) = "take"
              /\ call[t] = "push" => Asked(t) = "put"
              /\ call[t] \in {"pop timeout", "pop nonblock"} => Asked(t) = "take impatiently"
              /\ call[t] \in {"push timeout", "push nonblock"} => Asked(t) = "put impatiently"
BY DEF Asked, Asking, Struck, Pops, Pushes

\* The same after a step.
LEMMA AskedFactsNext ==
  ASSUME NEW t \in Threads
  PROVE  /\ call'[t] \notin Pops \cup Pushes => Asked(t)' = "nothing"
         /\ call'[t] \in Pops \cup Pushes =>
              /\ pc'[t] \in Struck => Asked(t)' = "struck"
              /\ pc'[t] \notin Asking \cup Struck => Asked(t)' = "answer"
         /\ pc'[t] \in Asking =>
              /\ call'[t] = "pop" => Asked(t)' = "take"
              /\ call'[t] = "push" => Asked(t)' = "put"
              /\ call'[t] \in {"pop timeout", "pop nonblock"} => Asked(t)' = "take impatiently"
              /\ call'[t] \in {"push timeout", "push nonblock"} => Asked(t)' = "put impatiently"
BY DEF Asked, Asking, Struck, Pops, Pushes

\* A thread changes only its own entries in what has been asked for and given.
LEMMA OwnEntries ==
  ASSUME IInv, TypeOK', NEW t \in Threads, OthersStay(t)
  PROVE  /\ asked' = [asked EXCEPT ![t] = Asked(t)']
         /\ item' = [item EXCEPT ![t] = item'[t]]
         /\ asked[t] = Asked(t)
<1>1. item \in [Threads -> Items \cup {None}] /\ item' \in [Threads -> Items \cup {None}]
  BY DEF IInv, TypeOK
<1>2. ASSUME NEW u \in Threads \ {t} PROVE Asked(u)' = Asked(u)
  <2>1. pc'[u] = pc[u] /\ call'[u] = call[u]
    BY DEF OthersStay
  <2>2. CASE call[u] \notin Pops \cup Pushes
    BY <2>1, <2>2 DEF Asked
  <2>3. CASE call[u] \in Pops \cup Pushes
    BY <2>1, <2>3, AskedFacts, AskedFactsNext DEF Pops, Pushes, Asking, Struck
  <2> QED BY <2>2, <2>3
<1>3. asked' = [asked EXCEPT ![t] = Asked(t)']
  BY <1>2 DEF asked
<1>4. item' = [item EXCEPT ![t] = item'[t]]
  BY <1>1 DEF OthersStay
<1> QED BY <1>3, <1>4 DEF asked

\* A step after which the thread has asked for the same and has the same is a stutter.
LEMMA Stutter ==
  ASSUME IInv, TypeOK', NEW t \in Threads, OthersStay(t), UNCHANGED data,
         Asked(t)' = Asked(t), item'[t] = item[t]
  PROVE  UNCHANGED AsChannel!vars
<1>1. asked' = [asked EXCEPT ![t] = asked[t]] /\ item' = [item EXCEPT ![t] = item[t]]
  BY OwnEntries
<1>2. asked' = asked /\ item' = item
  BY <1>1 DEF asked, IInv, TypeOK
<1> QED BY <1>2 DEF data, asked, AsChannel!vars

\* A call that returns, or throws, has been answered or struck; another one than pop or
\* push asks the channel for nothing.
LEMMA Leaves ==
  ASSUME IInv, TypeOK', NEW t \in Threads, OthersStay(t), UNCHANGED data, Return(t),
         pc[t] \notin Asking
  PROVE  AsChannel!Leave(t) \/ UNCHANGED AsChannel!vars
<1>1. call'[t] = "none" /\ item'[t] = None
  BY DEF Return, IInv, TypeOK
<1>2. Asked(t)' = "nothing"
  BY <1>1, AskedFactsNext DEF Pops, Pushes
<1>3. CASE call[t] \in Pops \cup Pushes
  <2>1. Asked(t) \in {"answer", "struck"}
    BY <1>3, AskedFacts
  <2> QED BY <1>1, <1>2, <2>1, OwnEntries DEF data, asked, AsChannel!Leave, AsChannel!Becomes
<1>4. CASE call[t] \notin Pops \cup Pushes
  <2>1. Asked(t) = "nothing" /\ item[t] = None
    BY <1>4, AskedFacts DEF IInv, CallsAreTrue
  <2> QED BY <1>1, <1>2, <2>1, Stutter
<1> QED BY <1>3, <1>4

\* The queue begins as the channel does.
LEMMA InitMaps == Init => AsChannel!Init
<1> SUFFICES ASSUME Init PROVE AsChannel!Init
  OBVIOUS
<1>1. max \in Nat
  <2>1. Sizes \subseteq Nat /\ NoLimit \in Nat
    BY QueueAssumption DEF NoLimit
  <2> QED BY <2>1 DEF Init
<1>2. \A t \in Threads : Asked(t) = "nothing"
  BY AskedFacts DEF Init, Pops, Pushes
<1> QED BY <1>1, <1>2 DEF Init, AsChannel!Init

\* Every step of the queue is a step of the channel or none.
LEMMA StepMaps ==
  ASSUME IInv, IInv', NEW t \in Threads, RubyCode(t) \/ Runtime(t)
  PROVE  AsChannel!Next \/ UNCHANGED AsChannel!vars
<1>1. OthersStay(t) /\ TypeOK /\ TypeOK'
  BY OnlyOne DEF IInv
<1>2. /\ asked' = [asked EXCEPT ![t] = Asked(t)'] /\ item' = [item EXCEPT ![t] = item'[t]]
      /\ asked[t] = Asked(t)
  BY <1>1, OwnEntries
<1>3. /\ pc \in [Threads -> Labels] /\ call \in [Threads -> Calls \cup {"none"}]
      /\ item \in [Threads -> Items \cup {None}]
  BY <1>1 DEF TypeOK
<1>4. /\ pc[t] \in {"user", "dead"} => call[t] = "none" /\ item[t] = None
      /\ pc[t] \in Sleeping => call[t] \in (Pops \cup Pushes) \ NonBlocking
      /\ pc[t] \in Asking => (call[t] \in Pops => item[t] = None)
      /\ call[t] = "max=" => max # NoLimit
  BY DEF IInv, CallsAreTrue, Asking, Sleeping, Pops, Pushes
<1>5. CASE Shift(t)
  <2>1. /\ pc[t] \in Asking /\ call[t] \in Pops /\ queue # <<>>
        /\ queue' = Tail(queue) /\ UNCHANGED <<closed, max>>
        /\ item'[t] = Head(queue) /\ call'[t] = call[t] /\ pc'[t] = "popped"
    BY <1>3, <1>5 DEF Shift, Inside, Goto, Asking
  <2>2. Asked(t) \in {"take", "take impatiently"} /\ Asked(t)' = "answer"
    BY <2>1, AskedFacts, AskedFactsNext DEF Pops, Asking, Struck
  <2>3. AsChannel!Take(t)
    BY <1>2, <2>1, <2>2 DEF asked, AsChannel!Take, AsChannel!Becomes
  <2> QED BY <2>3 DEF AsChannel!Next
<1>6. CASE PopNil(t) \/ PopRefused(t) \/ PushRefused(t)
  <2>1. /\ pc[t] \in Asking /\ call[t] \in Pops \cup Pushes /\ UNCHANGED data
    BY <1>6 DEF PopNil, PopRefused, PushRefused, Inside, Quit, Asking, Pops
  <2>2. item'[t] = None /\ Asked(t)' \in {"nothing", "answer"}
    <3>1. CASE PopNil(t)
      <4>1. item'[t] = item[t] /\ call[t] \in Pops /\ call'[t] = call[t] /\ pc'[t] = "popped"
        BY <1>3, <3>1 DEF PopNil, Goto
      <4> QED BY <1>4, <2>1, <4>1, AskedFactsNext DEF Asking, Struck
    <3>2. CASE PopRefused(t) \/ PushRefused(t)
      <4>1. item'[t] = None /\ call'[t] = "none"
        BY <1>3, <3>2 DEF PopRefused, PushRefused, Quit, Return
      <4> QED BY <4>1, AskedFactsNext DEF Pops, Pushes
    <3> QED BY <1>6, <3>1, <3>2
  <2>3. \/ Asked(t) = "put" /\ closed
        \/ Asked(t) = "put impatiently" /\ (closed \/ Full)
        \/ Asked(t) = "take" /\ queue = <<>> /\ closed
        \/ Asked(t) = "take impatiently" /\ queue = <<>>
    <3>1. CASE PopNil(t)
      BY <2>1, <3>1, AskedFacts DEF PopNil, Pops, Timed, NonBlocking
    <3>2. CASE PopRefused(t)
      BY <2>1, <3>2, AskedFacts DEF PopRefused
    <3>3. CASE PushRefused(t)
      BY <2>1, <3>3, AskedFacts DEF PushRefused, Pushes, Timed, NonBlocking
    <3> QED BY <1>6, <3>1, <3>2, <3>3
  <2>4. AsChannel!Full = Full
    BY DEF Full, AsChannel!Full
  <2>5. AsChannel!Refuse(t)
    BY <1>2, <2>1, <2>2, <2>3, <2>4 DEF asked, data, AsChannel!Refuse, AsChannel!Becomes
  <2> QED BY <2>5 DEF AsChannel!Next
<1>7. CASE Push(t)
  <2>1. /\ pc[t] \in Asking /\ call[t] \in Pushes /\ ~closed /\ ~Full
        /\ queue' = Append(queue, item[t]) /\ UNCHANGED <<closed, max>>
        /\ item'[t] = None /\ call'[t] = call[t] /\ pc'[t] = "wake"
    BY <1>3, <1>7 DEF Push, Inside, Goto, Asking
  <2>2. Asked(t) \in {"put", "put impatiently"} /\ Asked(t)' = "answer"
    BY <2>1, AskedFacts, AskedFactsNext DEF Pushes, Asking, Struck
  <2>3. AsChannel!Full = Full
    BY DEF Full, AsChannel!Full
  <2>4. AsChannel!Put(t)
    BY <1>2, <2>1, <2>2, <2>3 DEF asked, AsChannel!Put, AsChannel!Becomes
  <2> QED BY <2>4 DEF AsChannel!Next
<1>8. CASE \/ PopReturns(t) \/ Unwind(t) \/ Thrown(t) \/ (Drained(t) /\ Quit(t)) \/ WakeUpDead(t)
           \/ Woke(t) \/ (Interrupt(t) /\ pc[t] \in {"lock list", "wake"})
  <2>1. Return(t) /\ UNCHANGED data
    BY <1>8 DEF PopReturns, Unwind, Thrown, WakeUpDead, Woke, Quit, Interrupt
  <2>2. pc[t] \notin Asking
    BY <1>8 DEF PopReturns, Unwind, Thrown, Drained, WakeUpDead, Woke, Asking
  <2>3. AsChannel!Leave(t) \/ UNCHANGED AsChannel!vars
    BY <1>1, <2>1, <2>2, Leaves DEF IInv
  <2> QED BY <2>3 DEF AsChannel!Next
<1>9. CASE PopWaits(t) \/ PushWaits(t) \/ StartWait(t) \/ EndWait(t) \/ EndWaitEarly(t)
  <2>1. /\ UNCHANGED <<data, call, item>>
        /\ pc[t] \in Asking /\ pc'[t] \in Asking
        /\ call[t] \in Pops \cup Pushes
    BY <1>3, <1>4, <1>9 DEF PopWaits, PushWaits, FallAsleep, Inside, StartWait, EndWait, EndWaitEarly,
       OnlyPcMoves, Goto, Sleeping, Asking, Pushes
  <2>2. Asked(t)' = Asked(t)
    BY <2>1, AskedFacts, AskedFactsNext DEF Pops, Pushes
  <2> QED BY <1>1, <2>1, <2>2, Stutter
<1>10. CASE \/ SeePushers(t) \/ (Drained(t) /\ ~Quit(t)) \/ LockList(t) \/ Drain(t)
            \/ SeeSleep(t) \/ SeeSleepElsewhere(t) \/ SeeDead(t) \/ WakeUp(t) \/ End(t)
  <2>1. UNCHANGED <<data, call, item>>
    BY <1>10 DEF SeePushers, Drained, LockList, TakePushers, Drain, SeeSleep, SeeSleepElsewhere,
       SeeDead, WakeUp, End, KeepTarget, NextTarget, OnlyPcMoves, data
  <2>2. \/ call[t] = "none"
        \/ pc[t] \notin Asking \cup Struck /\ pc'[t] \notin Asking \cup Struck
    BY <1>3, <1>4, <1>10 DEF SeePushers, Drained, LockList, TakePushers, Drain, SeeSleep,
       SeeSleepElsewhere, SeeDead, WakeUp, End, KeepTarget, NextTarget, Goto, Asking, Struck
  <2>3. Asked(t)' = Asked(t)
    <3>1. CASE call[t] \notin Pops \cup Pushes
      <4>1. call'[t] \notin Pops \cup Pushes
        BY <2>1, <3>1
      <4>2. Asked(t) = "nothing" /\ Asked(t)' = "nothing"
        BY <3>1, <4>1, AskedFacts, AskedFactsNext
      <4> QED BY <4>2
    <3>2. CASE call[t] \in Pops \cup Pushes
      <4>1. pc[t] \notin Asking \cup Struck /\ pc'[t] \notin Asking \cup Struck
        BY <2>2, <3>2 DEF Pops, Pushes
      <4>2. call'[t] \in Pops \cup Pushes
        BY <2>1, <3>2
      <4>3. Asked(t) = "answer" /\ Asked(t)' = "answer"
        BY <3>2, <4>1, <4>2, AskedFacts, AskedFactsNext
      <4> QED BY <4>3
    <3> QED BY <3>1, <3>2
  <2> QED BY <1>1, <2>1, <2>3, Stutter
<1>11. CASE Close(t) \/ Clear(t) \/ SetMax(t)
  <2>1. call[t] \in {"close", "clear", "max="} /\ call' = call /\ item' = item
    BY <1>11 DEF Close, Clear, SetMax, TakePushers
  <2>2. Asked(t) = "nothing" /\ Asked(t)' = "nothing"
    BY <2>1, AskedFacts, AskedFactsNext DEF Pops, Pushes
  <2>3. asked' = asked
    BY <1>2, <2>2 DEF asked
  <2>4. CASE Close(t)
    BY <2>1, <2>3, <2>4 DEF Close, asked, AsChannel!Next, AsChannel!Close
  <2>5. CASE Clear(t)
    BY <2>1, <2>3, <2>5 DEF Clear, TakePushers, asked, AsChannel!Next, AsChannel!Clear
  <2>6. CASE SetMax(t)
    <3>1. /\ call[t] = "max=" /\ max' \in Sizes /\ UNCHANGED <<queue, closed>>
      BY <2>6 DEF SetMax, TakePushers
    <3>2. max' \in Nat /\ max' # NoLimit /\ max # NoLimit
      BY <1>4, <3>1, QueueAssumption
    <3> QED BY <2>1, <2>3, <3>1, <3>2 DEF asked, AsChannel!Next, AsChannel!Resize
  <2> QED BY <1>11, <2>4, <2>5, <2>6
<1>12. ASSUME NEW c \in Calls, Start(t, c) PROVE AsChannel!Next \/ UNCHANGED AsChannel!vars
  <2>1. /\ pc[t] = "user" /\ pc'[t] = "lock" /\ call'[t] = c /\ UNCHANGED data
        /\ item'[t] = IF c \in Pushes THEN Payload[t] ELSE None
    BY <1>3, <1>12 DEF Start, Goto
  <2>2. Asked(t) = "nothing" /\ item[t] = None
    BY <1>4, <2>1, AskedFacts DEF Pops, Pushes
  <2>3. Payload[t] \in Items
    BY QueueAssumption
  <2>4. CASE c \in Pops \cup Pushes
    <3>1. \/ Asked(t)' \in {"take", "take impatiently"} /\ item'[t] = None
          \/ Asked(t)' \in {"put", "put impatiently"} /\ item'[t] \in Items
      BY <2>1, <2>3, <2>4, AskedFactsNext DEF Asking, Pops, Pushes
    <3>2. AsChannel!Ask(t, Asked(t)', item'[t])
      BY <1>2, <2>1, <2>2 DEF data, asked, AsChannel!Ask, AsChannel!Becomes
    <3> QED BY <3>1, <3>2 DEF AsChannel!Next
  <2>5. CASE c \notin Pops \cup Pushes
    <3>1. Asked(t)' = "nothing" /\ item'[t] = None
      BY <2>1, <2>5, AskedFactsNext
    <3> QED BY <1>1, <2>1, <2>2, <3>1, Stutter
  <2> QED BY <2>4, <2>5
<1>13. CASE Interrupt(t) /\ pc[t] \in Asking
  <2>1. /\ UNCHANGED <<data, call, item>> /\ pc'[t] \in Struck
    BY <1>3, <1>13 DEF Interrupt, Goto, Asking, Struck
  <2>2. CASE call[t] \in Pops \cup Pushes
    <3>1. Asked(t) \notin {"nothing", "answer", "struck"}
      BY <1>13, <2>2, AskedFacts DEF Pops, Pushes
    <3>2. Asked(t)' = "struck"
      BY <2>1, <2>2, AskedFactsNext
    <3>3. AsChannel!Strike(t)
      BY <1>2, <2>1, <3>1, <3>2 DEF data, asked, AsChannel!Strike, AsChannel!Becomes
    <3> QED BY <3>3 DEF AsChannel!Next
  <2>3. CASE call[t] \notin Pops \cup Pushes
    <3>1. Asked(t) = "nothing" /\ Asked(t)' = "nothing"
      BY <2>1, <2>3, AskedFacts, AskedFactsNext
    <3> QED BY <1>1, <2>1, <3>1, Stutter
  <2> QED BY <2>2, <2>3
<1>14. Interrupt(t) => pc[t] \in {"lock list", "wake"} \cup Asking
  BY DEF Interrupt, Asking
<1> QED BY <1>5, <1>6, <1>7, <1>8, <1>9, <1>10, <1>11, <1>12, <1>13, <1>14 DEF RubyCode, Runtime

\* The queue is a channel: items come out in the order in which they went in, never more
\* of them are inside than max, every answer is right at a moment within its call, and a
\* call takes effect once or, if it fails or is interrupted, once or not at all.
THEOREM Refines == Spec => ImplementsChannel
<1>1. Init => AsChannel!Init
  BY InitMaps
<1>2. IInv /\ [Next]_vars => [AsChannel!Next]_(AsChannel!vars)
  <2>1. SUFFICES ASSUME IInv, [Next]_vars PROVE AsChannel!Next \/ UNCHANGED AsChannel!vars
    OBVIOUS
  <2>2. IInv'
    BY <2>1, NextStep
  <2>3. CASE UNCHANGED vars
    BY <2>3 DEF vars, data, AsChannel!vars, Asked
  <2>4. CASE Next
    BY <2>1, <2>2, <2>4, StepMaps DEF Next
  <2> QED BY <2>1, <2>3, <2>4
<1> QED BY <1>1, <1>2, Inductive, PTL DEF Spec, ImplementsChannel, AsChannel!Spec

-------------------------------------------------------------------------------
(* Wakers. *)

\* While a push holds @mutex, who sleeps in the queue stays there.
LEMMA WhileHeld ==
  ASSUME IInv, NEW t \in Threads, RubyCode(t) \/ Runtime(t), NEW u \in Threads, u # t, holder = u
  PROVE  /\ holder' = u
         /\ pc[t] \in Sleeping => pc'[t] \in Sleeping /\ call'[t] = call[t]
<1>1. holder # Nobody /\ holder # t /\ pc \in [Threads -> Labels]
  BY QueueAssumption DEF IInv, TypeOK
<1>2. ~Inside(t)
  BY <1>1 DEF Inside
<1>3. CASE \/ PopReturns(t) \/ SeePushers(t) \/ Drain(t) \/ Drained(t)
           \/ SeeSleep(t) \/ SeeSleepElsewhere(t) \/ SeeDead(t) \/ WakeUp(t) \/ WakeUpDead(t) \/ Woke(t)
           \/ Thrown(t) \/ End(t)
  <2>1. holder' = holder
    BY <1>1, <1>3 DEF PopReturns, SeePushers, Drain, Drained, Thrown, Quit, SeeSleep, SeeSleepElsewhere,
       SeeDead, WakeUp, WakeUpDead, Woke, KeepTarget, NextTarget, Release, End, OnlyPcMoves
  <2>2. pc[t] \notin Sleeping
    BY <1>3 DEF PopReturns, SeePushers, Drain, Drained, Thrown, SeeSleep, SeeSleepElsewhere,
       SeeDead, WakeUp, WakeUpDead, Woke, End, Sleeping
  <2> QED BY <2>1, <2>2
<1>4. CASE StartWait(t) \/ EndWait(t) \/ EndWaitEarly(t)
  BY <1>1, <1>4 DEF StartWait, EndWait, EndWaitEarly, OnlyPcMoves, Goto, Sleeping
<1>5. CASE Interrupt(t)
  BY <1>1, <1>5 DEF Interrupt, Release, Goto, Sleeping
<1>6. ASSUME NEW c \in Calls, Start(t, c) PROVE holder' = u /\ pc[t] \notin Sleeping
  BY <1>6 DEF Start, Sleeping
<1>7. ~LockList(t) /\ ~Unwind(t)
  BY <1>1 DEF LockList, Unwind
<1>8. ~(\/ Shift(t) \/ PopNil(t) \/ PopRefused(t) \/ PopWaits(t) \/ PushRefused(t) \/ PushWaits(t)
        \/ Push(t) \/ Close(t) \/ Clear(t) \/ SetMax(t))
  BY <1>2 DEF Shift, PopNil, PopRefused, PopWaits, PushRefused, PushWaits, Push, Close, Clear, SetMax
<1> QED BY <1>3, <1>4, <1>5, <1>6, <1>7, <1>8 DEF RubyCode, Runtime

\* What WakersAreTrue says of one thread.
WakerIsTrue(t) ==
  /\ pc[t] = "popped" => call[t] \in Pops
  /\ pc[t] = "drain" => call[t] = "close"
  /\ pc[t] = "lock list" => call[t] \in Pops \cup {"close"}
  /\ toWake[t] # <<>> => pc[t] \in {"wake", "wakeup"}
  /\ toWake[t] # <<>> /\ call[t] \in Pushes => holder = t
  /\ call[t] \in Pushes => \A u \in Members(toWake[t]) : call[u] \in Pops /\ pc[u] \in Sleeping

\* Threads are on lists, and on their way to be woken; no list is on none.
LEMMA ListTypes ==
  ASSUME IInv, NEW t \in Threads
  PROVE  /\ Members(waiting) \subseteq Threads /\ Members(pushers) \subseteq Threads
         /\ Members(toWake[t]) \subseteq Threads /\ toWake[t] \in Seq(Threads)
         /\ Members(<<>>) = {} /\ <<>> \in Seq(Threads)
<1>1. waiting \in Seq(Threads) /\ pushers \in Seq(Threads) /\ toWake[t] \in Seq(Threads)
  BY DEF IInv, TypeOK
<1> QED BY <1>1, EmptyList, ElementOfSeq, LenProperties DEF Members

\* A step of one thread keeps what is said of another.
LEMMA OtherWakers ==
  ASSUME IInv, WakersAreTrue, NEW t \in Threads, RubyCode(t) \/ Runtime(t), OthersStay(t),
         NEW u \in Threads, u # t
  PROVE  WakerIsTrue(u)'
<1>1. /\ pc'[u] = pc[u] /\ call'[u] = call[u] /\ toWake'[u] = toWake[u] /\ WakerIsTrue(u)
  BY DEF OthersStay, WakersAreTrue, WakerIsTrue
<1>2. holder = u => /\ holder' = u
                    /\ pc[t] \in Sleeping => pc'[t] \in Sleeping /\ call'[t] = call[t]
  BY WhileHeld
<1>3. ASSUME call[u] \in Pushes, NEW v \in Members(toWake[u]) PROVE call'[v] \in Pops /\ pc'[v] \in Sleeping
  <2>1. toWake[u] # <<>> /\ v \in Threads
    BY <1>3, ListTypes
  <2>2. holder = u /\ call[v] \in Pops /\ pc[v] \in Sleeping
    BY <1>1, <1>3, <2>1 DEF WakerIsTrue
  <2>3. CASE v = t
    BY <1>2, <2>2, <2>3
  <2>4. CASE v # t
    BY <2>1, <2>2, <2>4 DEF OthersStay
  <2> QED BY <2>3, <2>4
<1> QED BY <1>1, <1>2, <1>3 DEF WakerIsTrue

\* Who is not waking others has nobody to wake.
LEMMA IdleWaker ==
  ASSUME IInv, WakersAreTrue, NEW t \in Threads, pc[t] \notin {"wake", "wakeup"}
  PROVE  toWake[t] = <<>> /\ Members(toWake[t]) = {}
<1>1. toWake[t] = <<>>
  BY DEF WakersAreTrue
<1> QED BY <1>1, ListTypes

\* Every step keeps the wakers true.
LEMMA WakersStep ==
  ASSUME IInv, WakersAreTrue, NEW t \in Threads, RubyCode(t) \/ Runtime(t)
  PROVE  WakersAreTrue'
<1>1. OthersStay(t)
  BY OnlyOne DEF IInv
<1>2. SUFFICES WakerIsTrue(t)'
  BY <1>1, OtherWakers DEF WakersAreTrue, WakerIsTrue
<1>3. /\ pc \in [Threads -> Labels] /\ call \in [Threads -> Calls \cup {"none"}]
      /\ toWake \in [Threads -> Seq(Threads)] /\ WakerIsTrue(t)
      /\ Pops \cap Pushes = {} /\ Members(<<>>) = {}
      /\ "none" \notin Pushes /\ "close" \notin Pushes /\ "clear" \notin Pushes /\ "max=" \notin Pushes
  BY ListTypes DEF IInv, TypeOK, WakersAreTrue, WakerIsTrue, Pops, Pushes
<1> USE DEF Goto
<1>4. CASE \/ Shift(t) \/ PopNil(t) \/ PopRefused(t) \/ PopWaits(t) \/ PopReturns(t) \/ SeePushers(t)
           \/ PushRefused(t) \/ PushWaits(t) \/ Close(t) \/ Drain(t) \/ Drained(t)
  <2>1. pc[t] \notin {"wake", "wakeup"}
    BY <1>4 DEF Shift, PopNil, PopRefused, PopWaits, PopReturns, SeePushers, PushRefused,
       PushWaits, Close, Drain, Drained, Inside
  <2>2. toWake' = toWake
    BY <1>4 DEF Shift, PopNil, PopRefused, PopWaits, PopReturns, SeePushers, PushRefused,
       PushWaits, Close, Drain, Drained, FallAsleep, Quit
  <2>3. toWake'[t] = <<>> /\ Members(toWake'[t]) = {}
    BY <2>1, <2>2, IdleWaker
  <2>4. CASE \/ Shift(t) \/ PopNil(t) \/ SeePushers(t) \/ Close(t) \/ Drain(t)
    BY <1>3, <2>3, <2>4 DEF Shift, PopNil, SeePushers, Close, Drain, WakerIsTrue
  <2>5. CASE \/ PopRefused(t) \/ PopReturns(t) \/ PushRefused(t)
    BY <1>3, <2>3, <2>5 DEF PopRefused, PopReturns, PushRefused, Quit, Return, WakerIsTrue
  <2>6. CASE \/ PopWaits(t) \/ PushWaits(t)
    BY <1>3, <2>3, <2>6 DEF PopWaits, PushWaits, FallAsleep, WakerIsTrue
  <2>7. CASE Drained(t)
    BY <1>3, <2>3, <2>7 DEF Drained, Quit, Return, WakerIsTrue
  <2> QED BY <1>4, <2>4, <2>5, <2>6, <2>7
<1>5. CASE Push(t)
  <2>1. /\ toWake'[t] \in {<<>>} \cup (IF waiting = <<>> THEN {} ELSE {Last(waiting)})
        /\ call' = call /\ call[t] \in Pushes /\ pc'[t] = "wake" /\ holder' = t
    BY <1>3, <1>5 DEF Push
  <2>2. \A u \in Members(toWake'[t]) : u \in Members(waiting)
    <3>1. waiting # <<>> => Members(Last(waiting)) \subseteq Members(waiting)
      BY ListFacts, LastMember
    <3> QED BY <1>3, <2>1, <3>1
  <2>3. \A u \in Members(waiting) : u \in Threads /\ call[u] \in Pops /\ pc[u] \in Sleeping
    BY ListTypes DEF IInv, NoStaleWaiters
  <2>4. \A u \in Members(toWake'[t]) : call'[u] \in Pops /\ pc'[u] \in Sleeping
    BY <1>1, <1>3, <2>1, <2>2, <2>3 DEF OthersStay
  <2> QED BY <2>1, <2>4 DEF WakerIsTrue
<1>6. CASE Clear(t) \/ SetMax(t) \/ LockList(t)
  <2>1. call' = call /\ pc'[t] = "wake"
    BY <1>3, <1>6 DEF Clear, SetMax, LockList, TakePushers
  <2>2. call[t] \notin Pushes
    BY <1>3, <1>6 DEF Clear, SetMax, LockList, WakerIsTrue
  <2> QED BY <2>1, <2>2 DEF WakerIsTrue
<1>7. CASE SeeSleep(t) \/ SeeSleepElsewhere(t) \/ SeeDead(t) \/ WakeUp(t)
  <2>1. /\ toWake[t] # <<>> /\ pc'[t] \in {"wake", "wakeup"} /\ call' = call /\ holder' = holder
        /\ toWake'[t] \in {toWake[t], Tail(toWake[t])}
    BY <1>3, <1>7 DEF SeeSleep, SeeSleepElsewhere, SeeDead, WakeUp, KeepTarget, NextTarget,
                      IInv, CallsAreTrue
  <2>2. Members(toWake'[t]) \subseteq Members(toWake[t])
    BY <1>3, <2>1, HeadMember
  <2>3. ASSUME call[t] \in Pushes, NEW u \in Members(toWake[t]) PROVE call'[u] \in Pops /\ pc'[u] \in Sleeping
    <3>1. u \in Threads /\ call[u] \in Pops /\ pc[u] \in Sleeping /\ u # t
      BY <1>3, <2>3, ListTypes DEF WakerIsTrue
    <3> QED BY <1>1, <2>1, <3>1 DEF OthersStay
  <2> QED BY <1>3, <2>1, <2>2, <2>3 DEF WakerIsTrue
<1>8. CASE WakeUpDead(t) \/ Woke(t)
  <2>1. toWake'[t] = <<>> /\ pc'[t] = "user"
    BY <1>3, <1>8 DEF WakeUpDead, Woke, Return
  <2> QED BY <1>3, <2>1 DEF WakerIsTrue
<1>9. CASE Interrupt(t)
  <2>1. toWake'[t] = <<>>
    <3>1. CASE pc[t] \in Asking
      BY <1>9, <3>1, IdleWaker DEF Interrupt, Asking
    <3>2. CASE pc[t] \notin Asking
      BY <1>3, <1>9, <3>2 DEF Interrupt, Asking
    <3> QED BY <3>1, <3>2
  <2>2. pc'[t] \in {"unwind", "thrown", "user"}
    BY <1>3, <1>9 DEF Interrupt, Return
  <2> QED BY <1>3, <2>1, <2>2 DEF WakerIsTrue
<1>10. CASE StartWait(t) \/ EndWait(t) \/ EndWaitEarly(t) \/ Unwind(t) \/ Thrown(t) \/ End(t)
  <2>1. pc[t] \notin {"wake", "wakeup"} /\ toWake' = toWake
    BY <1>10 DEF StartWait, EndWait, EndWaitEarly, Unwind, Thrown, End, OnlyPcMoves, Quit
  <2>2. toWake'[t] = <<>> /\ pc'[t] \in {"asleep", "relock", "user", "dead"}
    BY <1>3, <1>10, <2>1, IdleWaker DEF StartWait, EndWait, EndWaitEarly, Unwind, Thrown, End, Quit, Return
  <2> QED BY <1>3, <2>2 DEF WakerIsTrue
<1>11. ASSUME NEW c \in Calls, Start(t, c) PROVE WakerIsTrue(t)'
  <2>1. toWake'[t] = <<>> /\ pc'[t] = "lock"
    BY <1>3, <1>11, IdleWaker DEF Start
  <2> QED BY <1>3, <2>1 DEF WakerIsTrue
<1> QED BY <1>4, <1>5, <1>6, <1>7, <1>8, <1>9, <1>10, <1>11 DEF RubyCode, Runtime

\* Who slumbers before a step of t slumbers after it, if t neither wakes nor picks it.
LEMMA StillSlumbers ==
  ASSUME NEW t \in Threads, OthersStay(t), NEW u \in Threads, NEW W, Slumbers(u, W),
         u = t => pc'[t] \in {"doze", "asleep"} /\ call'[t] = call[t],
         u \notin woken', NEW V, W \subseteq V,
         t \notin V /\ call'[t] \notin Pushes => u \notin Members(toWake'[t])
  PROVE  Slumbers(u, V)'
<1>1. call'[u] \in Pushes /\ pc'[u] \in {"doze", "asleep"}
  BY DEF OthersStay, Slumbers
<1>2. ASSUME NEW v \in Threads \ V, call'[v] \notin Pushes PROVE u \notin Members(toWake'[v])
  <2>1. CASE v = t
    BY <1>2, <2>1
  <2>2. CASE v # t
    BY <1>2, <2>2 DEF OthersStay, Slumbers
  <2> QED BY <2>1, <2>2
<1> QED BY <1>1, <1>2 DEF Slumbers

\* A step of t that puts no pusher on its way keeps the wakers apart.
LEMMA CalmKept ==
  ASSUME IInv, OneWakerEach, NEW t \in Threads, OthersStay(t),
         Members(pushers') \subseteq Members(pushers) \cup {t},
         t \in Members(pushers') \ Members(pushers) => Slumbers(t, {})',
         pc[t] \in {"doze", "asleep"} /\ t \notin woken =>
           pc'[t] \in {"doze", "asleep"} /\ call'[t] = call[t],
         \A u \in woken' : \/ u \in woken \/ call[u] \in Pops
                           \/ call[t] \notin Pushes /\ u \in Members(toWake[t]),
         call'[t] \notin Pushes =>
           /\ toWake'[t] # <<>> => call[t] \notin Pushes
           /\ Members(toWake'[t]) \subseteq Members(toWake[t])
           /\ Once(toWake[t]) => Once(toWake'[t])
           /\ call[t] \notin Pushes /\ Once(toWake[t]) => Members(toWake'[t]) \cap woken' \subseteq woken,
         Once(<<>>)
  PROVE  events = "none" /\ events' = "none" => OneWakerEach'
<1> SUFFICES ASSUME events = "none" PROVE OneWakerEach'
  OBVIOUS
<1>1. /\ \A u \in Members(pushers) : Slumbers(u, {})
      /\ \A v \in Threads : call[v] \notin Pushes =>
           /\ Once(toWake[v])
           /\ \A u \in Members(toWake[v]) : Slumbers(u, {v}) /\ u \notin Members(pushers)
  BY DEF OneWakerEach
<1>2. Pops \cap Pushes = {} /\ Members(<<>>) = {}
  BY ListTypes DEF Pops, Pushes
<1>3. \A u \in Members(toWake'[t]) : call'[t] \notin Pushes => call[t] \notin Pushes /\ u \in Members(toWake[t])
  BY <1>2
<1>4. ASSUME NEW u \in Threads, NEW W, Slumbers(u, W), t \notin W PROVE Slumbers(u, W)'
  <2>1. call[t] \notin Pushes => u \notin Members(toWake[t])
    BY <1>4 DEF Slumbers
  <2>2. u \notin woken'
    BY <1>2, <1>4, <2>1 DEF Slumbers
  <2>3. call'[t] \notin Pushes => u \notin Members(toWake'[t])
    BY <1>3, <2>1
  <2>4. u = t => pc'[t] \in {"doze", "asleep"} /\ call'[t] = call[t]
    BY <1>4 DEF Slumbers
  <2> QED BY <1>4, <2>2, <2>3, <2>4, StillSlumbers
<1>5. ASSUME NEW u \in Members(pushers') PROVE Slumbers(u, {})'
  <2>1. CASE u \in Members(pushers)
    <3>1. u \in Threads /\ Slumbers(u, {})
      BY <1>1, <2>1, ListTypes
    <3> QED BY <3>1, <1>4
  <2>2. CASE u \notin Members(pushers)
    BY <1>5, <2>2
  <2> QED BY <2>1, <2>2
<1>6. ASSUME NEW v \in Threads, call'[v] \notin Pushes
      PROVE  /\ Once(toWake'[v])
             /\ \A u \in Members(toWake'[v]) : Slumbers(u, {v})' /\ u \notin Members(pushers')
  <2>1. CASE v # t
    <3>1. call[v] \notin Pushes /\ toWake'[v] = toWake[v]
      BY <1>6, <2>1 DEF OthersStay
    <3>2. ASSUME NEW u \in Members(toWake[v]) PROVE Slumbers(u, {v})' /\ u \notin Members(pushers')
      <4>1. u \in Threads /\ Slumbers(u, {v}) /\ u \notin Members(pushers)
        BY <1>1, <3>1, ListTypes
      <4>2. Slumbers(u, {v})'
        BY <2>1, <4>1, <1>4
      <4>3. ASSUME u \in Members(pushers') PROVE FALSE
        <5>1. Slumbers(u, {})'
          BY <1>5, <4>3
        <5>2. u \notin Members(toWake'[v])
          BY <5>1, <1>6 DEF Slumbers
        <5> QED BY <5>2, <3>1
      <4> QED BY <4>2, <4>3
    <3> QED BY <1>1, <3>1, <3>2
  <2>2. CASE v = t
    <3>1. CASE toWake'[t] = <<>>
      BY <1>2, <2>2, <3>1
    <3>2. CASE toWake'[t] # <<>>
      <4>1. call[t] \notin Pushes /\ Once(toWake[t]) /\ Once(toWake'[t])
        BY <1>1, <1>6, <2>2, <3>2
      <4>2. ASSUME NEW u \in Members(toWake'[t]) PROVE Slumbers(u, {t})' /\ u \notin Members(pushers')
        <5>1. u \in Members(toWake[t])
          BY <1>6, <2>2, <4>2, <1>3
        <5>2. u \in Threads /\ Slumbers(u, {t}) /\ u \notin Members(pushers)
          BY <1>1, <4>1, <5>1, ListTypes
        <5>3. u \notin woken'
          BY <1>6, <2>2, <4>1, <4>2, <5>2 DEF Slumbers
        <5>4. u = t => pc'[t] \in {"doze", "asleep"} /\ call'[t] = call[t]
          BY <5>2 DEF Slumbers
        <5>5. Slumbers(u, {t})'
          BY <5>2, <5>3, <5>4, StillSlumbers
        <5>6. ASSUME u \in Members(pushers') PROVE FALSE
          <6>1. Slumbers(u, {})'
            BY <1>5, <5>6
          <6> QED BY <6>1, <1>6, <2>2, <4>2 DEF Slumbers
        <5> QED BY <5>5, <5>6
      <4> QED BY <2>2, <4>1, <4>2
    <3> QED BY <3>1, <3>2
  <2> QED BY <2>1, <2>2
<1> QED BY <1>5, <1>6 DEF OneWakerEach

\* How many pushers are taken off the list, from its front.
LEMMA TakesFromTheFront ==
  ASSUME IInv, NEW t \in Threads, Clear(t) \/ SetMax(t) \/ LockList(t)
  PROVE  \E n \in Nat : n <= Len(pushers) /\ TakePushers(t, n)
<1>1. Len(pushers) \in Nat /\ \A n \in Nat : AtMost(n) \in Nat /\ AtMost(n) <= Len(pushers)
  <2>1. pushers \in Seq(Threads)
    BY DEF IInv, TypeOK
  <2> QED BY <2>1, LenProperties DEF AtMost
<1>2. CASE Clear(t)
  <2>1. Len(pushers) <= Len(pushers) /\ TakePushers(t, Len(pushers))
    BY <1>1, <1>2 DEF Clear
  <2> QED BY <1>1, <2>1
<1>3. CASE SetMax(t)
  <2>1. PICK n \in Sizes : TakePushers(t, IF n > max THEN AtMost(n - max) ELSE 0)
    BY <1>3 DEF SetMax
  <2>2. n \in Nat /\ max \in Nat
    <3>1. Sizes \subseteq Nat /\ max \in Sizes \cup {0}
      BY QueueAssumption DEF NoLimit, IInv, TypeOK
    <3> QED BY <3>1
  <2> DEFINE k == IF n > max THEN AtMost(n - max) ELSE 0
  <2>3. k \in Nat /\ k <= Len(pushers) /\ TakePushers(t, k)
    BY <1>1, <2>1, <2>2
  <2> HIDE DEF k
  <2> QED BY <2>3
<1>4. CASE LockList(t)
  <2> DEFINE k == IF call[t] = "close" THEN Len(pushers) ELSE TakeOne
  <2>1. k \in Nat /\ k <= Len(pushers) /\ TakePushers(t, k)
    <3>1. TakeOne \in Nat /\ TakeOne <= Len(pushers) /\ Len(pushers) <= Len(pushers)
      BY <1>1 DEF TakeOne
    <3>2. k \in Nat /\ k <= Len(pushers)
      BY <1>1, <3>1
    <3> HIDE DEF k
    <3>3. TakePushers(t, k)
      BY <1>4 DEF LockList, k
    <3> QED BY <3>2, <3>3
  <2> HIDE DEF k
  <2> QED BY <2>1
<1> QED BY <1>2, <1>3, <1>4

\* Who takes pushers off the list is none of them, and was not waking anybody.
LEMMA TakerIsElsewhere ==
  ASSUME IInv, WakersAreTrue, NEW t \in Threads, Clear(t) \/ SetMax(t) \/ LockList(t)
  PROVE  /\ pc[t] \in {"lock", "lock list"} /\ t \notin Members(pushers) /\ t \notin Members(waiting)
         /\ call[t] \notin Pushes /\ toWake[t] = <<>>
<1>1. call[t] \notin Pushes /\ (pc[t] = "relock" => call[t] \in Pops \cup Pushes)
  BY DEF Clear, SetMax, LockList, WakersAreTrue, Pops, Pushes, IInv, CallsAreTrue, Sleeping
<1>2. pc[t] \in {"lock", "lock list"}
  BY <1>1 DEF Clear, SetMax, LockList, Inside, Pops
<1>3. t \notin Members(pushers) /\ t \notin Members(waiting)
  BY <1>2, ListFacts DEF Sleeping
<1> QED BY <1>1, <1>2, <1>3, IdleWaker

\* Pushers taken off the list slumber on, on their way to be woken once.
LEMMA CalmTaken ==
  ASSUME IInv, WakersAreTrue, OneWakerEach, NEW t \in Threads, OthersStay(t),
         Clear(t) \/ SetMax(t) \/ LockList(t), events = "none"
  PROVE  OneWakerEach'
<1>1. PICK n \in Nat : n <= Len(pushers) /\ TakePushers(t, n)
  BY TakesFromTheFront
<1>2. /\ pc[t] \in {"lock", "lock list"} /\ t \notin Members(pushers) /\ call[t] \notin Pushes
  BY TakerIsElsewhere
<1>3. pushers \in Seq(Threads) /\ Once(pushers) /\ toWake \in [Threads -> Seq(Threads)]
  BY ListFacts DEF IInv, TypeOK
<1>4. /\ toWake'[t] = SubSeq(pushers, 1, n) /\ pushers' = SubSeq(pushers, n + 1, Len(pushers))
      /\ woken' = woken /\ call' = call
  BY <1>1, <1>3 DEF TakePushers, Remaining
<1>5. /\ Members(pushers) = Members(toWake'[t]) \cup Members(pushers')
      /\ Members(toWake'[t]) \cap Members(pushers') = {}
  BY <1>1, <1>3, <1>4, SplitMembers
<1>6. Once(toWake'[t])
  <2>1. 1 \in Nat \ {0}
    OBVIOUS
  <2> QED BY <2>1, <1>1, <1>3, <1>4, SubSeqMembers
<1>7. /\ \A u \in Members(pushers) : u \in Threads /\ Slumbers(u, {})
      /\ \A v \in Threads : call[v] \notin Pushes =>
           /\ Once(toWake[v])
           /\ \A u \in Members(toWake[v]) : u \in Threads /\ Slumbers(u, {v}) /\ u \notin Members(pushers)
  BY ListTypes DEF OneWakerEach
<1>8. ASSUME NEW u \in Threads, NEW W, NEW V, Slumbers(u, W), W \subseteq V,
             t \in V \/ u \notin Members(toWake'[t])
      PROVE  Slumbers(u, V)'
  <2>1. u # t /\ u \notin woken'
    BY <1>2, <1>4, <1>8 DEF Slumbers
  <2> QED BY <2>1, <1>8, StillSlumbers
<1>9. \A u \in Members(pushers') : Slumbers(u, {})'
  BY <1>5, <1>7, <1>8
<1>10. ASSUME NEW v \in Threads, call'[v] \notin Pushes
       PROVE  /\ Once(toWake'[v])
              /\ \A u \in Members(toWake'[v]) : Slumbers(u, {v})' /\ u \notin Members(pushers')
  <2>1. CASE v = t
    BY <1>5, <1>6, <1>7, <1>8, <2>1
  <2>2. CASE v # t
    <3>1. call[v] \notin Pushes /\ toWake'[v] = toWake[v]
      BY <1>10, <1>4, <2>2 DEF OthersStay
    <3> QED BY <3>1, <1>5, <1>7, <1>8
  <2> QED BY <2>1, <2>2
<1> QED BY <1>9, <1>10 DEF OneWakerEach

\* While no wait ends early, every step sends every wakeup once.
LEMMA CalmStep ==
  ASSUME IInv, WakersAreTrue, OneWakerEach, NEW t \in Threads, RubyCode(t) \/ Runtime(t)
  PROVE  OneWakerEach'
<1>1. OthersStay(t)
  BY OnlyOne DEF IInv
<1>2. SUFFICES ASSUME events' = "none" PROVE OneWakerEach'
  BY DEF OneWakerEach
<1>3. /\ pc \in [Threads -> Labels] /\ call \in [Threads -> Calls \cup {"none"}]
      /\ toWake \in [Threads -> Seq(Threads)] /\ waiting \in Seq(Threads) /\ pushers \in Seq(Threads)
      /\ Once(waiting) /\ Once(pushers)
      /\ Pops \cap Pushes = {} /\ Members(<<>>) = {} /\ Once(<<>>)
  BY ListFacts, ListTypes, EmptyList DEF IInv, TypeOK, Pops, Pushes, Once
<1>4. Members(Delete(pushers, t)) \subseteq Members(pushers)
  BY <1>3, DeleteMembers
<1> USE DEF Goto
<1>5. CASE \/ Shift(t) \/ PopNil(t) \/ PopRefused(t) \/ PopWaits(t) \/ PopReturns(t) \/ SeePushers(t)
           \/ PushRefused(t) \/ Close(t) \/ Drained(t) \/ Unwind(t) \/ Thrown(t) \/ End(t)
           \/ \E c \in Calls : Start(t, c)
  <2>1. /\ pc[t] \notin {"wake", "wakeup", "doze", "asleep"}
        /\ toWake' = toWake /\ woken' \subseteq woken /\ events = "none"
        /\ pushers' \in {pushers, Delete(pushers, t)}
    BY <1>2, <1>5 DEF Shift, PopNil, PopRefused, PopWaits, PopReturns, SeePushers, PushRefused,
       Close, Drained, Unwind, Thrown, End, Start, Inside, FallAsleep, Quit, OnlyPcMoves
  <2>2. toWake'[t] = <<>>
    BY <2>1, IdleWaker
  <2>3. Members(pushers') \subseteq Members(pushers)
    BY <1>4, <2>1
  <2> QED BY <1>1, <1>2, <1>3, <2>1, <2>2, <2>3, CalmKept
<1>6. CASE PushWaits(t)
  <2>1. /\ pc[t] \in {"lock", "relock"} /\ call[t] \in Pushes /\ call' = call /\ toWake' = toWake
        /\ woken' = woken \ {t} /\ pc'[t] = "doze" /\ events = "none"
        /\ pushers' = IF Fresh(t) THEN Append(pushers, t) ELSE pushers
    BY <1>2, <1>3, <1>6 DEF PushWaits, Inside, FallAsleep, Pushes
  <2>2. toWake'[t] = <<>>
    BY <2>1, IdleWaker
  <2>3. Members(pushers') \subseteq Members(pushers) \cup {t}
    BY <1>3, <2>1, AppendMembers
  <2>4. Slumbers(t, {})'
    <3>1. \A v \in Threads : call[v] \notin Pushes => t \notin Members(toWake[v])
      BY <1>2, <2>1 DEF OneWakerEach, Slumbers
    <3> QED BY <2>1, <3>1 DEF Slumbers
  <2> QED BY <1>1, <1>2, <1>3, <2>1, <2>2, <2>3, <2>4, CalmKept
<1>7. CASE Push(t)
  <2>1. /\ pc[t] \in {"lock", "relock"} /\ call'[t] \in Pushes /\ woken' = woken /\ events = "none"
        /\ pushers' = Delete(pushers, t)
    BY <1>2, <1>7 DEF Push, Inside
  <2> QED BY <1>1, <1>2, <1>3, <1>4, <2>1, CalmKept
<1>8. CASE Drain(t)
  <2>1. /\ pc[t] = "drain" /\ toWake' = toWake /\ events = "none" /\ pushers' = pushers /\ waiting # <<>>
        /\ woken' \subseteq woken \cup {Last(waiting)[1]}
    BY <1>2, <1>8 DEF Drain, Rouse
  <2>2. toWake'[t] = <<>>
    BY <2>1, IdleWaker
  <2>3. call[Last(waiting)[1]] \in Pops
    <3>1. Last(waiting)[1] \in Members(waiting)
      BY <1>3, <2>1, LastMember
    <3> QED BY <3>1 DEF IInv, NoStaleWaiters
  <2> QED BY <1>1, <1>2, <1>3, <2>1, <2>2, <2>3, CalmKept
<1>9. CASE SeeSleep(t) \/ SeeSleepElsewhere(t) \/ SeeDead(t) \/ WakeUp(t)
  <2>1. /\ pc[t] \in {"wake", "wakeup"} /\ toWake[t] # <<>> /\ call' = call
        /\ events = "none" /\ pushers' = pushers
        /\ \/ toWake' = toWake /\ woken' = woken
           \/ toWake'[t] = Tail(toWake[t]) /\ woken' \subseteq woken \cup {Head(toWake[t])}
    BY <1>2, <1>3, <1>9 DEF SeeSleep, SeeSleepElsewhere, SeeDead, WakeUp, KeepTarget, NextTarget,
                            Rouse, IInv, CallsAreTrue
  <2>2. /\ Head(toWake[t]) \in Members(toWake[t]) /\ Members(Tail(toWake[t])) \subseteq Members(toWake[t])
        /\ Once(toWake[t]) => Once(Tail(toWake[t])) /\ Head(toWake[t]) \notin Members(Tail(toWake[t]))
    BY <1>3, <2>1, HeadMember
  <2>3. call[t] \in Pushes => call[Head(toWake[t])] \in Pops
    BY <2>2 DEF WakersAreTrue
  <2> QED BY <1>1, <1>2, <1>3, <2>1, <2>2, <2>3, CalmKept
<1>10. CASE Woke(t)
  <2>1. /\ pc[t] = "wake" /\ toWake' = toWake /\ toWake[t] = <<>> /\ woken' = woken
        /\ events = "none" /\ pushers' = pushers
    BY <1>2, <1>10 DEF Woke
  <2> QED BY <1>1, <1>2, <1>3, <2>1, CalmKept
<1>11. CASE StartWait(t) \/ EndWait(t)
  <2>1. /\ pc[t] \in {"doze", "asleep"} /\ toWake' = toWake /\ woken' \subseteq woken
        /\ events = "none" /\ pushers' = pushers /\ call' = call
        /\ t \notin woken => pc'[t] = "asleep"
    BY <1>2, <1>3, <1>11 DEF StartWait, EndWait, OnlyPcMoves
  <2>2. toWake'[t] = <<>>
    BY <2>1, IdleWaker
  <2> QED BY <1>1, <1>2, <1>3, <2>1, <2>2, CalmKept
<1>12. CASE Clear(t) \/ SetMax(t) \/ LockList(t)
  <2>1. events = "none"
    BY <1>2, <1>12 DEF Clear, SetMax, LockList, TakePushers
  <2> QED BY <1>1, <1>12, <2>1, CalmTaken
<1>13. ~(EndWaitEarly(t) \/ Interrupt(t) \/ WakeUpDead(t))
  BY <1>2 DEF EndWaitEarly, Interrupt, WakeUpDead, Happens
<1> QED BY <1>5, <1>6, <1>7, <1>8, <1>9, <1>10, <1>11, <1>12, <1>13 DEF RubyCode, Runtime

-------------------------------------------------------------------------------
(* Nobody who is up falls asleep again unnoticed. *)

\* Who has been woken, or will be, is not forgotten by the step of another thread.
LEMMA StaysUp ==
  ASSUME IInv, WakersAreTrue, NEW t \in Threads, RubyCode(t) \/ Runtime(t), Undisturbed',
         NEW u \in Threads \ {t}, pc[u] \in {"doze", "asleep", "relock"}, IsUp(u)
  PROVE  IsUp(u)'
<1>1. OthersStay(t)
  BY OnlyOne DEF IInv
<1>2. pc'[u] = pc[u] /\ toWake \in [Threads -> Seq(Threads)]
  BY <1>1 DEF OthersStay, IInv, TypeOK
<1>3. woken \ {t} \subseteq woken'
  <2>1. CASE \/ Shift(t) \/ PopNil(t) \/ PopRefused(t) \/ PopWaits(t) \/ PopReturns(t) \/ SeePushers(t)
             \/ PushRefused(t) \/ PushWaits(t) \/ Push(t) \/ Close(t) \/ Drain(t) \/ Drained(t)
    BY <2>1 DEF Shift, PopNil, PopRefused, PopWaits, PopReturns, SeePushers, PushRefused, PushWaits,
       Push, Close, Drain, Drained, FallAsleep, Quit, Rouse
  <2>2. CASE \/ Clear(t) \/ SetMax(t) \/ LockList(t) \/ SeeSleep(t) \/ SeeDead(t) \/ WakeUp(t)
             \/ WakeUpDead(t) \/ Woke(t) \/ StartWait(t) \/ EndWait(t) \/ Unwind(t) \/ Thrown(t)
    BY <2>2 DEF Clear, SetMax, LockList, TakePushers, SeeSleep, SeeDead, WakeUp, WakeUpDead, Woke,
       StartWait, EndWait, Unwind, Thrown, Quit, Rouse
  <2>3. CASE RubyCode(t)
    BY <2>3 DEF RubyCode, Start, SeeSleepElsewhere, EndWaitEarly, Interrupt, End
  <2> QED BY <2>1, <2>2, <2>3 DEF Runtime
<1>4. ASSUME u \in Members(toWake[t]) PROVE IsUp(u)'
  <2>1. pc[t] \in {"wake", "wakeup"}
    BY <1>4, IdleWaker
  <2>2. toWake[t] # <<>>
    BY <1>4, ListTypes
  <2>3. \/ SeeSleep(t) \/ SeeSleepElsewhere(t) \/ SeeDead(t) \/ WakeUp(t)
        \/ WakeUpDead(t) \/ Interrupt(t)
    <3>1. ~(\/ Shift(t) \/ PopNil(t) \/ PopRefused(t) \/ PopWaits(t) \/ PopReturns(t) \/ SeePushers(t)
            \/ PushRefused(t) \/ PushWaits(t) \/ Push(t) \/ Close(t) \/ Drain(t) \/ Drained(t)
            \/ Clear(t) \/ SetMax(t) \/ LockList(t))
      BY <2>1 DEF Shift, PopNil, PopRefused, PopWaits, PopReturns, SeePushers, PushRefused, PushWaits,
         Push, Close, Drain, Drained, Clear, SetMax, LockList, Inside
    <3>2. ~(\/ Woke(t) \/ StartWait(t) \/ EndWait(t) \/ Unwind(t) \/ Thrown(t)
            \/ (\E c \in Calls : Start(t, c)) \/ EndWaitEarly(t) \/ End(t))
      BY <2>1, <2>2 DEF Woke, StartWait, EndWait, Unwind, Thrown, Start, EndWaitEarly, End
    <3> QED BY <3>1, <3>2 DEF RubyCode, Runtime
  <2>4. ~(WakeUpDead(t) \/ Interrupt(t))
    BY DEF Undisturbed, WakeUpDead, Interrupt, Happens
  <2>5. CASE SeeSleep(t) \/ SeeSleepElsewhere(t)
    <3>1. u \in Members(toWake'[t])
      BY <1>4, <2>5 DEF SeeSleep, SeeSleepElsewhere, KeepTarget
    <3> QED BY <3>1 DEF IsUp
  <2>6. CASE SeeDead(t) \/ WakeUp(t)
    <3>1. toWake'[t] = Tail(toWake[t])
      BY <1>2, <2>6 DEF SeeDead, WakeUp, NextTarget
    <3>2. u \in Members(Tail(toWake[t])) \/ u = Head(toWake[t])
      BY <1>2, <1>4, <2>2, HeadMember
    <3>3. CASE u \in Members(Tail(toWake[t]))
      BY <3>1, <3>3 DEF IsUp
    <3>4. CASE u = Head(toWake[t])
      <4>1. woken' = Rouse(u)
        BY <2>6, <3>4 DEF SeeDead, WakeUp
      <4> QED BY <1>2, <4>1 DEF Rouse, IsUp
    <3> QED BY <3>2, <3>3, <3>4
  <2> QED BY <2>3, <2>4, <2>5, <2>6
<1>5. ASSUME NEW v \in Threads \ {t}, u \in Members(toWake[v]) PROVE IsUp(u)'
  BY <1>1, <1>5 DEF OthersStay, IsUp
<1> QED BY <1>2, <1>3, <1>4, <1>5 DEF IsUp

\* A sleeper that moves stays in its sleep or comes out of it for @mutex.
LEMMA SleeperStep ==
  ASSUME IInv, WakersAreTrue, NEW t \in Threads, RubyCode(t) \/ Runtime(t), Undisturbed',
         pc[t] \in {"doze", "asleep"}
  PROVE  /\ pc'[t] \in {"asleep", "relock"} /\ UNCHANGED <<data, waiting, pushers, call, toWake>>
         /\ IsUp(t) => IsUp(t)'
<1>1. StartWait(t) \/ EndWait(t) \/ EndWaitEarly(t)
  <2>1. ~(\/ Shift(t) \/ PopNil(t) \/ PopRefused(t) \/ PopWaits(t) \/ PopReturns(t) \/ SeePushers(t)
          \/ PushRefused(t) \/ PushWaits(t) \/ Push(t) \/ Close(t) \/ Drain(t) \/ Drained(t)
          \/ Clear(t) \/ SetMax(t) \/ LockList(t))
    BY DEF Shift, PopNil, PopRefused, PopWaits, PopReturns, SeePushers, PushRefused, PushWaits,
       Push, Close, Drain, Drained, Clear, SetMax, LockList, Inside
  <2>2. ~(\/ SeeSleep(t) \/ SeeDead(t) \/ WakeUp(t) \/ WakeUpDead(t) \/ Woke(t) \/ Unwind(t) \/ Thrown(t)
          \/ (\E c \in Calls : Start(t, c)) \/ SeeSleepElsewhere(t) \/ End(t) \/ Interrupt(t))
    BY DEF SeeSleep, SeeDead, WakeUp, WakeUpDead, Woke, Unwind, Thrown, Start, SeeSleepElsewhere, End,
       Interrupt, Undisturbed, Happens
  <2> QED BY <2>1, <2>2 DEF RubyCode, Runtime
<1>2. /\ UNCHANGED <<data, waiting, pushers, call, toWake>> /\ pc'[t] \in {"asleep", "relock"}
      /\ pc'[t] = "asleep" => woken' = woken
  BY <1>1 DEF StartWait, EndWait, EndWaitEarly, OnlyPcMoves, Goto, IInv, TypeOK
<1>3. IsUp(t) => IsUp(t)'
  BY <1>2 DEF IsUp
<1> QED BY <1>2, <1>3

\* A step that takes a consumer off the list but its own.
LEMMA OffTheList ==
  ASSUME IInv, NEW t \in Threads, RubyCode(t) \/ Runtime(t), Undisturbed',
         NEW u \in Members(waiting) \ {t}, u \notin Members(waiting'), pc[u] # "unwind"
  PROVE  IsUp(u)' /\ (Push(t) \/ Drain(t)) /\ waiting # <<>> /\ u = waiting[Len(waiting)]
<1>1. /\ waiting \in Seq(Threads) /\ Once(waiting) /\ u \in Threads /\ pc[u] \in Sleeping
      /\ waiting # <<>> /\ call[u] \in Pops
  BY ListFacts, ListTypes DEF IInv, NoStaleWaiters
<1>2. OthersStay(t) /\ pc'[u] = pc[u]
  BY <1>1, OnlyOne DEF IInv, OthersStay
<1>3. u \in Members(Delete(waiting, t)) /\ u \in Members(ListConsumer(t))
  BY <1>1, DeleteMembers, AppendMembers DEF ListConsumer
<1>4. Push(t) \/ Drain(t)
  <2>1. ~(\/ Shift(t) \/ PopNil(t) \/ PopRefused(t) \/ PopWaits(t) \/ PopReturns(t) \/ SeePushers(t)
          \/ PushRefused(t) \/ PushWaits(t) \/ Close(t) \/ Drained(t)
          \/ Clear(t) \/ SetMax(t) \/ LockList(t))
    BY <1>3 DEF Shift, PopNil, PopRefused, PopWaits, PopReturns, SeePushers, PushRefused, PushWaits,
       Close, Drained, Clear, SetMax, LockList, TakePushers
  <2>2. ~(\/ SeeSleep(t) \/ SeeDead(t) \/ WakeUp(t) \/ WakeUpDead(t) \/ Woke(t) \/ Unwind(t) \/ Thrown(t)
          \/ StartWait(t) \/ EndWait(t) \/ RubyCode(t))
    BY <1>3 DEF SeeSleep, SeeDead, WakeUp, WakeUpDead, Woke, Unwind, Thrown, StartWait, EndWait, RubyCode,
       Start, SeeSleepElsewhere, EndWaitEarly, Interrupt, End, KeepTarget, NextTarget, OnlyPcMoves
  <2> QED BY <2>1, <2>2 DEF Runtime
<1>5. waiting' = Front(waiting)
  BY <1>1, <1>4 DEF Push, Drain
<1>6. u = waiting[Len(waiting)] /\ u \in Members(Last(waiting)) /\ u = Last(waiting)[1]
  BY <1>1, <1>5, LastMember
<1>7. CASE Push(t)
  <2>1. toWake'[t] = Last(waiting)
    BY <1>1, <1>7 DEF Push, IInv, TypeOK
  <2> QED BY <1>1, <1>6, <1>7, <2>1 DEF IsUp
<1>8. CASE Drain(t)
  <2>1. woken' = Rouse(u)
    BY <1>6, <1>8 DEF Drain
  <2> QED BY <1>1, <1>2, <1>6, <1>8, <2>1 DEF Rouse, IsUp, Sleeping
<1> QED BY <1>4, <1>7, <1>8

\* Only an interrupt makes a thread leave its sleep by raising.
LEMMA NobodyUnwinds ==
  ASSUME IInv, NEW t \in Threads, RubyCode(t) \/ Runtime(t), Undisturbed'
  PROVE  Undisturbed /\ (pc[t] # "unwind" => pc'[t] # "unwind")
<1>1. ~Interrupt(t) /\ ~WakeUpDead(t)
  BY DEF Undisturbed, Interrupt, WakeUpDead, Happens
<1>2. Undisturbed
  <2>1. EndWaitEarly(t) \/ events' = events
    <3>1. CASE \/ Shift(t) \/ PopNil(t) \/ PopRefused(t) \/ PopWaits(t) \/ PopReturns(t)
               \/ SeePushers(t) \/ PushRefused(t) \/ PushWaits(t) \/ Push(t) \/ Close(t) \/ Drain(t)
               \/ Drained(t)
      BY <3>1 DEF Shift, PopNil, PopRefused, PopWaits, PopReturns, SeePushers, PushRefused, PushWaits,
         Push, Close, Drain, Drained, FallAsleep, Quit
    <3>2. CASE \/ Clear(t) \/ SetMax(t) \/ LockList(t) \/ SeeSleep(t) \/ SeeDead(t) \/ WakeUp(t)
               \/ Woke(t) \/ StartWait(t) \/ EndWait(t) \/ Unwind(t) \/ Thrown(t)
      BY <3>2 DEF Clear, SetMax, LockList, TakePushers, SeeSleep, SeeDead, WakeUp, Woke,
         StartWait, EndWait, Unwind, Thrown, Quit, KeepTarget, NextTarget
    <3>3. CASE RubyCode(t)
      BY <1>1, <3>3 DEF RubyCode, Start, SeeSleepElsewhere, End, KeepTarget
    <3> QED BY <1>1, <3>1, <3>2, <3>3 DEF Runtime
  <2>2. EndWaitEarly(t) => Undisturbed
    BY DEF EndWaitEarly, Happens, Undisturbed
  <2> QED BY <2>1, <2>2 DEF Undisturbed
<1>3. pc[t] # "unwind" => pc'[t] # "unwind"
  <2>1. pc' = pc \/ \E l \in Labels \ {"unwind"} : pc' = [pc EXCEPT ![t] = l]
    <3> USE DEF Goto, Labels
    <3>1. CASE \/ Shift(t) \/ PopNil(t) \/ PopWaits(t) \/ SeePushers(t) \/ PushWaits(t) \/ Push(t)
               \/ Close(t) \/ Drain(t)
      BY <3>1 DEF Shift, PopNil, PopWaits, SeePushers, PushWaits, Push, Close, Drain, FallAsleep
    <3>2. CASE \/ PopRefused(t) \/ PopReturns(t) \/ PushRefused(t) \/ Drained(t) \/ Woke(t) \/ Unwind(t) \/ Thrown(t)
      BY <3>2 DEF PopRefused, PopReturns, PushRefused, Drained, Woke, Unwind, Thrown, Quit, Return
    <3>3. CASE \/ Clear(t) \/ SetMax(t) \/ LockList(t) \/ SeeSleep(t) \/ SeeDead(t) \/ WakeUp(t)
               \/ StartWait(t) \/ EndWait(t)
      BY <3>3 DEF Clear, SetMax, LockList, TakePushers, SeeSleep, SeeDead, WakeUp, StartWait, EndWait,
         NextTarget
    <3>4. CASE RubyCode(t)
      BY <1>1, <3>4 DEF RubyCode, Start, SeeSleepElsewhere, EndWaitEarly, End
    <3> QED BY <1>1, <3>1, <3>2, <3>3, <3>4 DEF Runtime
  <2> QED BY <2>1 DEF IInv, TypeOK
<1> QED BY <1>2, <1>3


\* A thread starts to wait in the queue on the lists, and only with its call open.
LEMMA FallsAsleep ==
  ASSUME IInv, NEW t \in Threads, RubyCode(t) \/ Runtime(t),
         pc[t] \notin {"doze", "asleep"}, pc'[t] \in {"doze", "asleep", "relock"}
  PROVE  PopWaits(t) \/ PushWaits(t)
<1>1. pc \in [Threads -> Labels]
  BY DEF IInv, TypeOK
<1> USE DEF Goto
<1>2. ~(\/ Shift(t) \/ PopNil(t) \/ PopRefused(t) \/ PopReturns(t) \/ SeePushers(t)
        \/ PushRefused(t) \/ Push(t) \/ Close(t) \/ Drain(t) \/ Drained(t))
  BY <1>1 DEF Shift, PopNil, PopRefused, PopReturns, SeePushers, PushRefused, Push, Close, Drain,
     Drained, Quit, Return
<1>3. ~(\/ Clear(t) \/ SetMax(t) \/ LockList(t) \/ SeeSleep(t) \/ SeeDead(t) \/ WakeUp(t)
        \/ WakeUpDead(t) \/ Woke(t) \/ StartWait(t) \/ EndWait(t) \/ Unwind(t) \/ Thrown(t))
  BY <1>1 DEF Clear, SetMax, LockList, TakePushers, SeeSleep, SeeDead, WakeUp, WakeUpDead, Woke,
     StartWait, EndWait, Unwind, Thrown, Quit, Return, NextTarget
<1>4. ~RubyCode(t)
  BY <1>1 DEF RubyCode, Start, SeeSleepElsewhere, EndWaitEarly, Interrupt, End, Return
<1> QED BY <1>2, <1>3, <1>4 DEF Runtime

\* Consumers that are off the list stay up.
LEMMA TakersStep ==
  ASSUME IInv, WakersAreTrue, TakersAreUp, NEW t \in Threads, RubyCode(t) \/ Runtime(t)
  PROVE  TakersAreUp'
<1>1. SUFFICES ASSUME Undisturbed'
               PROVE  /\ \A u \in Unlisted(Pops, waiting)' : IsUp(u)'
                      /\ \A u \in Threads : pc'[u] # "unwind"
  BY DEF TakersAreUp
<1>2. OthersStay(t) /\ Undisturbed /\ (pc[t] # "unwind" => pc'[t] # "unwind")
  BY <1>1, OnlyOne, NobodyUnwinds DEF IInv
<1>3. /\ \A u \in Threads : pc[u] # "unwind"
      /\ \A u \in Unlisted(Pops, waiting) : IsUp(u)
  BY <1>2 DEF TakersAreUp
<1>4. \A u \in Threads : pc'[u] # "unwind"
  BY <1>2, <1>3 DEF OthersStay
<1>5. ASSUME NEW u \in Threads, call'[u] \in Pops, pc'[u] \in Sleeping \ {"unwind"},
             u \notin Members(waiting')
      PROVE  IsUp(u)'
  <2>1. CASE u # t
    <3>1. call[u] \in Pops /\ pc[u] \in {"doze", "asleep", "relock"}
      BY <1>2, <1>5, <2>1 DEF OthersStay, Sleeping
    <3>2. CASE u \in Members(waiting)
      BY <1>1, <1>5, <2>1, <3>1, <3>2, OffTheList
    <3>3. CASE u \notin Members(waiting)
      <4>1. IsUp(u)
        BY <1>3, <3>1, <3>3 DEF Unlisted, Sleeping
      <4> QED BY <1>1, <2>1, <3>1, <4>1, StaysUp
    <3> QED BY <3>2, <3>3
  <2>2. CASE u = t
    <3>1. CASE pc[t] \in {"doze", "asleep"}
      <4>1. UNCHANGED <<waiting, call>> /\ (IsUp(t) => IsUp(t)')
        BY <1>1, <3>1, SleeperStep
      <4>2. IsUp(t)
        BY <1>3, <1>5, <2>2, <3>1, <4>1 DEF Unlisted, Sleeping
      <4> QED BY <2>2, <4>1, <4>2
    <3>2. CASE pc[t] \notin {"doze", "asleep"}
      <4>1. PopWaits(t) \/ PushWaits(t)
        BY <1>5, <2>2, <3>2, FallsAsleep DEF Sleeping
      <4>2. ~PushWaits(t)
        BY <1>5, <2>2 DEF PushWaits, FallAsleep, Pops
      <4>3. waiting' = ListConsumer(t) /\ waiting \in Seq(Threads)
        BY <4>1, <4>2 DEF PopWaits, IInv, TypeOK
      <4>4. t \in Members(waiting')
        BY <4>3, AppendMembers DEF ListConsumer
      <4> QED BY <1>5, <2>2, <4>4
    <3> QED BY <3>1, <3>2
  <2> QED BY <2>1, <2>2
<1> QED BY <1>4, <1>5 DEF Unlisted

\* Which calls list a thread, set max and close the queue.
LEMMA WhoChanges ==
  ASSUME IInv, NEW t \in Threads, RubyCode(t) \/ Runtime(t)
  PROVE  /\ waiting = <<>> /\ waiting' # <<>> => PopWaits(t)
         /\ pushers = <<>> /\ pushers' # <<>> => PushWaits(t)
         /\ max' = max \/ SetMax(t)
         /\ closed' = closed \/ Close(t)
<1>1. /\ waiting = <<>> => Delete(waiting, t) = <<>>
      /\ pushers = <<>> => Delete(pushers, t) = <<>>
  BY ListTypes DEF Delete
<1>2. CASE \/ Shift(t) \/ PopNil(t) \/ PopRefused(t) \/ PopWaits(t) \/ PopReturns(t) \/ SeePushers(t)
           \/ PushRefused(t) \/ PushWaits(t) \/ Push(t) \/ Close(t) \/ Drain(t) \/ Drained(t)
  BY <1>1, <1>2 DEF Shift, PopNil, PopRefused, PopWaits, PopReturns, SeePushers, PushRefused, PushWaits,
     Push, Close, Drain, Drained, FallAsleep, Quit, data
<1>3. CASE \/ SeeSleep(t) \/ SeeDead(t) \/ WakeUp(t) \/ WakeUpDead(t) \/ Woke(t)
           \/ StartWait(t) \/ EndWait(t) \/ Unwind(t) \/ Thrown(t)
  BY <1>1, <1>3 DEF SeeSleep, SeeDead, WakeUp, WakeUpDead, Woke, StartWait, EndWait, Unwind, Thrown, Quit,
     KeepTarget, NextTarget, OnlyPcMoves, data
<1>4. CASE RubyCode(t)
  BY <1>4 DEF RubyCode, Start, SeeSleepElsewhere, EndWaitEarly, Interrupt, End, KeepTarget,
     OnlyPcMoves, data
<1>5. CASE Clear(t) \/ SetMax(t) \/ LockList(t)
  <2>1. PICK n \in Nat : n <= Len(pushers) /\ TakePushers(t, n)
    BY <1>5, TakesFromTheFront
  <2>2. pushers = <<>> => pushers' = <<>>
    <3>1. ASSUME pushers = <<>> PROVE SubSeq(pushers, n + 1, Len(pushers)) = <<>>
      <4>1. Len(pushers) = 0
        BY <3>1, EmptySeq
      <4>2. n + 1 \in Int /\ Len(pushers) \in Int /\ Len(pushers) < n + 1
        BY <4>1
      <4> QED BY <4>2, SubSeqEmpty
    <3> QED BY <2>1, <3>1 DEF TakePushers, Remaining
  <2> QED BY <1>5, <2>1, <2>2 DEF TakePushers, Clear, SetMax, LockList
<1> QED BY <1>2, <1>3, <1>4, <1>5 DEF Runtime

\* A close goes through the lists to their ends.
LEMMA InClose ==
  ASSUME IInv, NEW t \in Threads, RubyCode(t) \/ Runtime(t)
  PROVE  /\ pc[t] = "drain" => Drain(t) \/ Drained(t)
         /\ pc[t] = "lock list" => LockList(t) \/ Interrupt(t)
<1>1. pc[t] \in {"drain", "lock list"} =>
        ~(\/ Shift(t) \/ PopNil(t) \/ PopRefused(t) \/ PopWaits(t) \/ PopReturns(t) \/ SeePushers(t)
          \/ PushRefused(t) \/ PushWaits(t) \/ Push(t) \/ Close(t) \/ Clear(t) \/ SetMax(t)
          \/ SeeSleep(t) \/ SeeDead(t) \/ WakeUp(t) \/ WakeUpDead(t) \/ Woke(t) \/ StartWait(t)
          \/ EndWait(t) \/ Unwind(t) \/ Thrown(t))
  BY DEF Shift, PopNil, PopRefused, PopWaits, PopReturns, SeePushers, PushRefused, PushWaits, Push,
     Close, Clear, SetMax, Inside, SeeSleep, SeeDead, WakeUp, WakeUpDead, Woke, StartWait, EndWait, Unwind, Thrown
<1>2. pc[t] \in {"drain", "lock list"} =>
        ~((\E c \in Calls : Start(t, c)) \/ SeeSleepElsewhere(t) \/ EndWaitEarly(t) \/ End(t))
  BY DEF Start, SeeSleepElsewhere, EndWaitEarly, End
<1>3. /\ pc[t] = "drain" => ~LockList(t) /\ ~Interrupt(t)
      /\ pc[t] = "lock list" => ~Drain(t) /\ ~Drained(t)
  BY DEF LockList, Interrupt, Drain, Drained
<1> QED BY <1>1, <1>2, <1>3 DEF RubyCode, Runtime

\* A closed queue is drained.
LEMMA DrainedStep ==
  ASSUME IInv, IInv', WakersAreTrue, ListsAreDrained, NEW t \in Threads, RubyCode(t) \/ Runtime(t)
  PROVE  ListsAreDrained'
<1>1. /\ waiting = <<>> /\ waiting' # <<>> => PopWaits(t)
      /\ pushers = <<>> /\ pushers' # <<>> => PushWaits(t)
      /\ max' = max \/ SetMax(t)
      /\ closed' = closed \/ Close(t)
  BY WhoChanges
<1>2. OthersStay(t) /\ pc \in [Threads -> Labels]
  BY OnlyOne DEF IInv, TypeOK
<1>3. pushers' # <<>> => max' # NoLimit
  <2>1. SetMax(t) => max' # NoLimit
    BY QueueAssumption DEF SetMax
  <2>2. PushWaits(t) => max # NoLimit
    BY DEF PushWaits, Full
  <2> QED BY <1>1, <2>1, <2>2 DEF ListsAreDrained
<1>4. CASE Close(t)
  <2>1. pc'[t] = "drain" /\ call'[t] = "close"
    BY <1>2, <1>4 DEF Close, Goto
  <2> QED BY <1>3, <2>1 DEF ListsAreDrained
<1>5. CASE ~Close(t)
  <2>1. closed' => closed /\ ~PopWaits(t) /\ ~PushWaits(t)
    BY <1>1, <1>5 DEF PopWaits, PushWaits
  <2>2. ASSUME closed', waiting' # <<>> PROVE \E u \in Threads : pc'[u] = "drain"
    <3>1. PICK u \in Threads : pc[u] = "drain" /\ waiting # <<>>
      BY <1>1, <2>1, <2>2 DEF ListsAreDrained
    <3>2. CASE u # t
      BY <1>2, <3>1, <3>2 DEF OthersStay
    <3>3. CASE u = t
      <4>1. Drain(t)
        BY <3>1, <3>3, InClose DEF Drained
      <4>2. pc' = pc
        BY <4>1 DEF Drain
      <4> QED BY <3>1, <4>2
    <3> QED BY <3>2, <3>3
  <2>3. ASSUME Undisturbed', closed', pushers' # <<>>
        PROVE  \E u \in Threads : call'[u] = "close" /\ pc'[u] \in {"drain", "lock list"}
    <3>1. Undisturbed /\ pushers # <<>> /\ max # NoLimit
      BY <1>1, <2>1, <2>3, NobodyUnwinds DEF ListsAreDrained
    <3>2. PICK u \in Threads : call[u] = "close" /\ pc[u] \in {"drain", "lock list"}
      BY <2>1, <2>3, <3>1 DEF ListsAreDrained
    <3>3. CASE u # t
      BY <1>2, <3>2, <3>3 DEF OthersStay
    <3>4. CASE u = t /\ pc[t] = "drain"
      <4>1. Drain(t) \/ Drained(t)
        BY <3>4, InClose
      <4>2. CASE Drain(t)
        BY <3>2, <4>2 DEF Drain
      <4>3. CASE Drained(t)
        BY <1>2, <3>1, <3>2, <3>4, <4>3 DEF Drained, Goto
      <4> QED BY <4>1, <4>2, <4>3
    <3>5. CASE u = t /\ pc[t] = "lock list"
      <4>1. LockList(t)
        BY <2>3, <3>5, InClose DEF Interrupt, Happens, Undisturbed
      <4>2. pushers' = SubSeq(pushers, Len(pushers) + 1, Len(pushers))
        BY <3>2, <3>5, <4>1 DEF LockList, TakePushers, Remaining
      <4>3. Len(pushers) \in Nat
        BY LenProperties DEF IInv, TypeOK
      <4>4. pushers' = <<>>
        BY <4>2, <4>3, SubSeqEmpty
      <4> QED BY <2>3, <4>4
    <3> QED BY <3>2, <3>3, <3>4, <3>5
  <2> QED BY <1>3, <2>2, <2>3 DEF ListsAreDrained
<1> QED BY <1>4, <1>5

-------------------------------------------------------------------------------
(* Items and takers, room and those it is offered to. *)

\* A thread comes to the lists by itself only.
LEMMA WhoJoins ==
  ASSUME IInv, NEW t \in Threads, RubyCode(t) \/ Runtime(t)
  PROVE  /\ ~PopWaits(t) => Members(waiting') \subseteq Members(waiting)
         /\ ~PushWaits(t) => Members(pushers') \subseteq Members(pushers)
<1>1. /\ waiting \in Seq(Threads) /\ pushers \in Seq(Threads) /\ Once(waiting) /\ Once(pushers)
  BY ListFacts
<1>2. /\ Members(Delete(waiting, t)) \subseteq Members(waiting)
      /\ Members(Delete(pushers, t)) \subseteq Members(pushers)
      /\ waiting # <<>> => Members(Front(waiting)) \subseteq Members(waiting)
  BY <1>1, DeleteMembers, LastMember
<1>3. CASE \/ Shift(t) \/ PopNil(t) \/ PopRefused(t) \/ PopWaits(t) \/ PopReturns(t) \/ SeePushers(t)
           \/ PushRefused(t) \/ PushWaits(t) \/ Push(t) \/ Close(t) \/ Drain(t) \/ Drained(t)
  BY <1>2, <1>3 DEF Shift, PopNil, PopRefused, PopWaits, PopReturns, SeePushers, PushRefused, PushWaits,
     Push, Close, Drain, Drained
<1>4. CASE \/ SeeSleep(t) \/ SeeDead(t) \/ WakeUp(t) \/ WakeUpDead(t) \/ Woke(t)
           \/ StartWait(t) \/ EndWait(t) \/ Unwind(t) \/ Thrown(t)
  BY <1>2, <1>4 DEF SeeSleep, SeeDead, WakeUp, WakeUpDead, Woke, StartWait, EndWait, Unwind, Thrown,
     KeepTarget, NextTarget, OnlyPcMoves
<1>5. CASE RubyCode(t)
  BY <1>5 DEF RubyCode, Start, SeeSleepElsewhere, EndWaitEarly, Interrupt, End, KeepTarget, OnlyPcMoves
<1>6. CASE Clear(t) \/ SetMax(t) \/ LockList(t)
  <2>1. PICK n \in Nat : n <= Len(pushers) /\ TakePushers(t, n)
    BY <1>6, TakesFromTheFront
  <2>2. Members(Remaining(n)) \subseteq Members(pushers)
    BY <1>1, <2>1, SplitMembers DEF Remaining
  <2> QED BY <2>1, <2>2 DEF TakePushers
<1> QED BY <1>3, <1>4, <1>5, <1>6 DEF Runtime

\* Who has taken @mutex back after its sleep goes round its loop.
LEMMA BackInTheLoop ==
  ASSUME IInv, NEW t \in Threads, RubyCode(t) \/ Runtime(t), Undisturbed', pc[t] = "relock"
  PROVE  \/ call[t] \in Pops /\ (Shift(t) \/ PopNil(t) \/ PopWaits(t))
         \/ call[t] \in Pushes /\ (PushRefused(t) \/ PushWaits(t) \/ Push(t))
<1>1. call[t] \in (Pops \cup Pushes) \ NonBlocking /\ Pops \cap Pushes = {}
  BY DEF IInv, CallsAreTrue, Sleeping, Pops, Pushes
<1>2. ~(\/ PopRefused(t) \/ Close(t) \/ Clear(t) \/ SetMax(t))
  BY <1>1 DEF PopRefused, Close, Clear, SetMax, Pops, Pushes, NonBlocking
<1>3. ~(\/ PopReturns(t) \/ SeePushers(t) \/ Drain(t) \/ Drained(t) \/ LockList(t)
        \/ SeeSleep(t) \/ SeeDead(t) \/ WakeUp(t) \/ WakeUpDead(t) \/ Woke(t) \/ StartWait(t)
        \/ EndWait(t) \/ Unwind(t) \/ Thrown(t))
  BY DEF PopReturns, SeePushers, Drain, Drained, LockList, SeeSleep, SeeDead, WakeUp, WakeUpDead,
     Woke, StartWait, EndWait, Unwind, Thrown
<1>4. ~RubyCode(t)
  BY DEF RubyCode, Start, SeeSleepElsewhere, EndWaitEarly, End, Interrupt, Happens, Undisturbed
<1>5. \/ Shift(t) \/ PopNil(t) \/ PopWaits(t) \/ PushRefused(t) \/ PushWaits(t) \/ Push(t)
  BY <1>2, <1>3, <1>4 DEF Runtime
<1> QED BY <1>5 DEF Shift, PopNil, PopWaits, PushRefused, PushWaits, Push, Pushes

\* A pop that has its answer looks at the list of pushers.
LEMMA AfterPop ==
  ASSUME IInv, NEW t \in Threads, RubyCode(t) \/ Runtime(t), pc[t] = "popped"
  PROVE  PopReturns(t) \/ SeePushers(t)
<1>1. ~(\/ Shift(t) \/ PopNil(t) \/ PopRefused(t) \/ PopWaits(t) \/ PushRefused(t) \/ PushWaits(t)
        \/ Push(t) \/ Close(t) \/ Drain(t) \/ Drained(t) \/ Clear(t) \/ SetMax(t) \/ LockList(t))
  BY DEF Shift, PopNil, PopRefused, PopWaits, PushRefused, PushWaits, Push, Close, Drain, Drained,
     Clear, SetMax, LockList, Inside
<1>2. ~(\/ SeeSleep(t) \/ SeeDead(t) \/ WakeUp(t) \/ WakeUpDead(t) \/ Woke(t) \/ StartWait(t)
        \/ EndWait(t) \/ Unwind(t) \/ Thrown(t) \/ RubyCode(t))
  BY DEF SeeSleep, SeeDead, WakeUp, WakeUpDead, Woke, StartWait, EndWait, Unwind, Thrown, RubyCode, Start,
     SeeSleepElsewhere, EndWaitEarly, Interrupt, End
<1> QED BY <1>1, <1>2 DEF Runtime

\* Sets of threads are finite, and the larger one has at least as many members.
LEMMA ThreadSets ==
  ASSUME NEW A \in SUBSET Threads
  PROVE  /\ IsFiniteSet(A) /\ Cardinality(A) \in Nat
         /\ \A B \in SUBSET A : IsFiniteSet(B) /\ Cardinality(B) \in Nat /\ Cardinality(B) <= Cardinality(A)
<1>1. IsFiniteSet(A)
  BY QueueAssumption, FS_Subset
<1> QED BY <1>1, FS_Subset, FS_CardinalityType

\* What an item more or less does to its length.
LEMMA QueueLengths ==
  ASSUME IInv, NEW t \in Threads, RubyCode(t) \/ Runtime(t)
  PROVE  /\ Len(queue) \in Nat /\ (queue = <<>> => Len(queue) = 0)
         /\ Shift(t) => Len(queue') = Len(queue) - 1
         /\ Push(t) => Len(queue') = Len(queue) + 1
         /\ ~(Shift(t) \/ Push(t) \/ Clear(t)) => queue' = queue
         /\ Clear(t) => Len(queue') = 0
<1>1. queue \in Seq(Items)
  BY DEF IInv, TypeOK
<1>2. Len(queue) \in Nat /\ Len(<<>>) = 0
  BY <1>1, LenProperties, EmptySeq
<1>3. Shift(t) => Len(queue') = Len(queue) - 1
  BY <1>1, HeadTailProperties DEF Shift
<1>4. Push(t) => Len(queue') = Len(queue) + 1
  <2>1. Push(t) => item[t] \in Items
    BY DEF Push, Inside, IInv, CallsAreTrue, Sleeping
  <2> QED BY <1>1, <2>1, AppendProperties DEF Push
<1>5. CASE \/ PopNil(t) \/ PopRefused(t) \/ PopWaits(t) \/ PopReturns(t) \/ SeePushers(t)
           \/ PushRefused(t) \/ PushWaits(t) \/ Close(t) \/ Drain(t) \/ Drained(t)
           \/ SetMax(t) \/ LockList(t)
  BY <1>2, <1>3, <1>4, <1>5 DEF PopNil, PopRefused, PopWaits, PopReturns, SeePushers, PushRefused, PushWaits,
     Close, Drain, Drained, SetMax, LockList, FallAsleep, Quit, data, Clear
<1>6. CASE \/ SeeSleep(t) \/ SeeDead(t) \/ WakeUp(t) \/ WakeUpDead(t) \/ Woke(t)
           \/ StartWait(t) \/ EndWait(t) \/ Unwind(t) \/ Thrown(t)
  BY <1>2, <1>3, <1>4, <1>6 DEF SeeSleep, SeeDead, WakeUp, WakeUpDead, Woke, StartWait, EndWait, Unwind, Thrown,
     Quit, KeepTarget, NextTarget, OnlyPcMoves, data, Clear
<1>7. CASE RubyCode(t)
  BY <1>2, <1>3, <1>4, <1>7 DEF RubyCode, Start, SeeSleepElsewhere, EndWaitEarly, Interrupt, End,
     KeepTarget, OnlyPcMoves, data, Clear
<1> QED BY <1>2, <1>3, <1>4, <1>5, <1>6, <1>7 DEF Runtime, Clear

\* While consumers are listed, as many others are on their way as there are items.
ItemsHaveTakers ==
  Undisturbed /\ waiting # <<>> => Len(queue) <= Cardinality(Unlisted(Pops, waiting))

\* Every step keeps as many takers as items.
LEMMA ItemsStep ==
  ASSUME IInv, WakersAreTrue, TakersAreUp, ItemsHaveTakers, NEW t \in Threads, RubyCode(t) \/ Runtime(t)
  PROVE  ItemsHaveTakers'
<1> DEFINE U == Unlisted(Pops, waiting)
<1>1. SUFFICES ASSUME Undisturbed', waiting' # <<>> PROVE Len(queue') <= Cardinality(U')
  BY DEF ItemsHaveTakers
<1>2. /\ OthersStay(t) /\ Undisturbed /\ \A u \in Threads : pc[u] # "unwind"
      /\ waiting \in Seq(Threads) /\ Once(waiting) /\ Pops \cap Pushes = {}
  BY <1>1, OnlyOne, NobodyUnwinds, ListFacts DEF IInv, TakersAreUp, Pops, Pushes
<1>3. /\ U \in SUBSET Threads /\ U' \in SUBSET Threads
  BY DEF Unlisted
<1>4. /\ IsFiniteSet(U) /\ IsFiniteSet(U') /\ Cardinality(U) \in Nat /\ Cardinality(U') \in Nat
      /\ \A B \in SUBSET U' : Cardinality(B) <= Cardinality(U')
  BY <1>3, ThreadSets
<1>5. ~PopWaits(t) => U \ {t} \subseteq U'
  <2>1. ASSUME ~PopWaits(t), NEW u \in U, u # t PROVE u \in U'
    BY <1>2, <2>1, WhoJoins DEF Unlisted, OthersStay
  <2> QED BY <2>1
<1>6. t \in U => \/ pc[t] \in {"doze", "asleep"} /\ U \subseteq U' /\ ~PopWaits(t)
                 \/ Shift(t) \/ PopNil(t) \/ PopWaits(t)
  <2>1. CASE pc[t] \in {"doze", "asleep"}
    <3>1. pc'[t] \in {"asleep", "relock"} /\ UNCHANGED <<waiting, call>> /\ ~PopWaits(t)
      BY <1>1, <2>1, SleeperStep DEF PopWaits, Inside
    <3>2. t \in U => t \in U'
      BY <3>1 DEF Unlisted, Sleeping
    <3> QED BY <2>1, <3>1, <3>2, <1>5
  <2>2. CASE pc[t] = "relock"
    BY <1>1, <1>2, <2>2, BackInTheLoop DEF Unlisted
  <2> QED BY <2>1, <2>2 DEF Unlisted, Sleeping
<1>7. /\ Len(queue) \in Nat /\ (queue = <<>> => Len(queue) = 0)
      /\ Shift(t) => Len(queue') = Len(queue) - 1
      /\ Push(t) => Len(queue') = Len(queue) + 1
      /\ ~(Shift(t) \/ Push(t) \/ Clear(t)) => queue' = queue
      /\ Clear(t) => Len(queue') = 0
  BY QueueLengths
<1>8. CASE PopWaits(t) \/ PopNil(t) \/ Clear(t)
  <2>1. Len(queue') = 0
    BY <1>7, <1>8 DEF PopWaits, PopNil, FallAsleep, data
  <2> QED BY <1>4, <2>1
<1>9. ~PopWaits(t) => Len(queue) <= Cardinality(U)
  BY <1>1, <1>2, WhoChanges DEF ItemsHaveTakers
<1>10. CASE Push(t)
  <2>1. waiting # <<>> /\ t \notin U /\ waiting' = Front(waiting) /\ ~PopWaits(t)
    BY <1>1, <1>2, <1>10 DEF Push, PopWaits, Pops, Pushes, Unlisted
  <2> DEFINE u == waiting[Len(waiting)]
  <2>2. u \in Members(waiting) /\ u \notin Members(waiting')
    BY <1>2, <2>1, LastMember
  <2>3. u \in Threads /\ call[u] \in Pops /\ pc[u] \in Sleeping \ {"unwind"} /\ u # t
    BY <1>2, <1>10, <2>2, ListTypes DEF IInv, NoStaleWaiters, Push
  <2>4. u \in U' /\ u \notin U
    BY <1>2, <2>2, <2>3 DEF Unlisted, OthersStay
  <2> HIDE DEF u, U
  <2>5. U \cup {u} \subseteq U' /\ Cardinality(U \cup {u}) = Cardinality(U) + 1
    BY <1>4, <1>5, <2>1, <2>4, FS_AddElement
  <2>6. Cardinality(U) + 1 <= Cardinality(U')
    BY <1>4, <2>5
  <2> QED BY <1>4, <1>7, <1>9, <1>10, <2>1, <2>6
<1>11. CASE Shift(t)
  <2>1. ~PopWaits(t) /\ U \ {t} \subseteq U'
    BY <1>5, <1>11 DEF Shift, PopWaits
  <2>2. Cardinality(U \ {t}) <= Cardinality(U') /\ Cardinality(U \ {t}) \in Nat
    BY <1>4, <1>3, <2>1, ThreadSets
  <2> HIDE DEF U
  <2>3. Cardinality(U \ {t}) = IF t \in U THEN Cardinality(U) - 1 ELSE Cardinality(U)
    BY <1>4, FS_RemoveElement
  <2> QED BY <1>4, <1>7, <1>9, <1>11, <2>1, <2>2, <2>3
<1>12. CASE ~(PopWaits(t) \/ PopNil(t) \/ Clear(t) \/ Push(t) \/ Shift(t))
  <2>1. U \subseteq U'
    BY <1>5, <1>6, <1>12
  <2> HIDE DEF U
  <2> QED BY <1>4, <1>7, <1>9, <1>12, <2>1
<1> QED BY <1>8, <1>10, <1>11, <1>12


\* Who offers room, and who comes to take it.
Offering == {u \in Threads : call[u] \in Pops /\ pc[u] \in {"popped", "lock list"}}
Coming == {u \in Unlisted(Pushes, pushers) : IsUp(u)}

\* The producers that a step takes off the list come for the room.
LEMMA TakenAreUp ==
  ASSUME IInv, NEW t \in Threads, RubyCode(t) \/ Runtime(t), \A u \in Threads : pc[u] # "unwind",
         call[t] \notin Pushes, NEW n \in Nat, n <= Len(pushers), TakePushers(t, n),
         NEW A, A \subseteq Coming, A \subseteq Coming'
  PROVE  /\ n = Len(pushers) => pushers' = <<>>
         /\ Cardinality(A) + n <= Cardinality(Coming')
<1> DEFINE T == Members(SubSeq(pushers, 1, n))
<1>1. /\ OthersStay(t) /\ pushers \in Seq(Threads) /\ Once(pushers) /\ Len(pushers) \in Nat
      /\ toWake \in [Threads -> Seq(Threads)]
  BY OnlyOne, ListFacts, LenProperties DEF IInv, TypeOK
<1>2. /\ pushers' = SubSeq(pushers, n + 1, Len(pushers)) /\ toWake'[t] = SubSeq(pushers, 1, n)
      /\ call' = call
  BY <1>1 DEF TakePushers, Remaining
<1>3. /\ Members(pushers) = T \cup Members(pushers') /\ T \cap Members(pushers') = {}
      /\ IsFiniteSet(T) /\ Cardinality(T) = n
  BY <1>1, <1>2, SplitMembers
<1>4. ASSUME NEW u \in T PROVE u \in Coming' /\ u \notin Coming
  <2>1. u \in Members(pushers) /\ u \in Threads
    BY <1>3, ListTypes
  <2>2. call[u] \in Pushes /\ pc[u] \in Sleeping \ {"unwind"} /\ u # t
    BY <2>1 DEF IInv, NoStaleWaiters
  <2>3. u \in Members(toWake'[t])
    BY <1>2, <1>4
  <2> QED BY <1>1, <1>2, <1>3, <1>4, <2>1, <2>2, <2>3 DEF Coming, Unlisted, IsUp, OthersStay
<1> HIDE DEF T
<1>5. IsFiniteSet(A) /\ Coming' \in SUBSET Threads
  <2>1. A \in SUBSET Threads
    BY DEF Coming, Unlisted
  <2> QED BY <2>1, ThreadSets DEF Coming, Unlisted
<1>6. A \cap T = {} /\ A \cup T \subseteq Coming'
  BY <1>4
<1>7. Cardinality(A \cup T) = Cardinality(A) + Cardinality(T)
  <2>1. Cardinality(A \cap T) = 0
    BY <1>6, FS_EmptySet
  <2>2. Cardinality(A) \in Nat /\ Cardinality(T) \in Nat
    BY <1>3, <1>5, FS_CardinalityType
  <2>3. Cardinality(A \cup T) = Cardinality(A) + Cardinality(T) - Cardinality(A \cap T)
    BY <1>3, <1>5, FS_Union
  <2> QED BY <2>1, <2>2, <2>3
<1>8. Cardinality(A \cup T) <= Cardinality(Coming')
  BY <1>5, <1>6, ThreadSets
<1>9. n = Len(pushers) => pushers' = <<>>
  BY <1>1, <1>2, SubSeqEmpty
<1> QED BY <1>3, <1>7, <1>8, <1>9

\* Every step keeps the room offered.
LEMMA RoomStep ==
  ASSUME IInv, IInv', WakersAreTrue, TakersAreUp, ListsAreDrained, RoomIsOffered,
         NEW t \in Threads, RubyCode(t) \/ Runtime(t)
  PROVE  RoomIsOffered'
<1>1. SUFFICES ASSUME Undisturbed', ~closed', pushers' # <<>>
               PROVE  max' <= Len(queue') + Cardinality(Offering') + Cardinality(Coming')
  BY DEF RoomIsOffered, Offering, Coming
<1>2. /\ OthersStay(t) /\ Undisturbed /\ \A u \in Threads : pc[u] # "unwind"
      /\ pushers \in Seq(Threads) /\ Once(pushers) /\ Pops \cap Pushes = {}
      /\ pc \in [Threads -> Labels] /\ ~closed
  <2>1. ~closed
    BY <1>1, WhoChanges DEF Close
  <2> QED BY <1>1, <2>1, OnlyOne, NobodyUnwinds, ListFacts DEF IInv, TypeOK, TakersAreUp, Pops, Pushes
<1>3. /\ max \in Nat /\ max' \in Nat /\ (max' = max \/ SetMax(t))
      /\ Len(queue) \in Nat /\ (queue = <<>> => Len(queue) = 0)
      /\ Shift(t) => Len(queue') = Len(queue) - 1
      /\ Push(t) => Len(queue') = Len(queue) + 1
      /\ ~(Shift(t) \/ Push(t) \/ Clear(t)) => queue' = queue
  <2>1. max \in Nat /\ max' \in Nat
    <3>1. /\ \A n \in Sizes : n \in Nat
          /\ max \in Sizes \cup {0} /\ max' \in Sizes \cup {0}
      BY QueueAssumption DEF IInv, TypeOK, NoLimit
    <3> QED BY <3>1
  <2> QED BY <2>1, QueueLengths, WhoChanges
<1>4. /\ IsFiniteSet(Offering) /\ IsFiniteSet(Coming) /\ IsFiniteSet(Offering') /\ IsFiniteSet(Coming')
      /\ Cardinality(Offering) \in Nat /\ Cardinality(Coming) \in Nat
      /\ Cardinality(Offering') \in Nat /\ Cardinality(Coming') \in Nat
      /\ \A B \in SUBSET Offering' : Cardinality(B) <= Cardinality(Offering')
      /\ \A B \in SUBSET Coming' : Cardinality(B) <= Cardinality(Coming')
  <2>1. /\ Offering \in SUBSET Threads /\ Coming \in SUBSET Threads
        /\ Offering' \in SUBSET Threads /\ Coming' \in SUBSET Threads
    BY DEF Offering, Coming, Unlisted
  <2> QED BY <2>1, ThreadSets
<1>5. CASE PushWaits(t) \/ PushRefused(t)
  <2>1. max <= Len(queue) /\ queue' = queue /\ max' = max
    BY <1>2, <1>5 DEF PushWaits, PushRefused, Full, FallAsleep, Quit, data
  <2> QED BY <1>3, <1>4, <2>1
<1>6. CASE Clear(t)
  <2>1. pushers' = SubSeq(pushers, Len(pushers) + 1, Len(pushers)) /\ Len(pushers) \in Nat
    BY <1>2, <1>6, LenProperties DEF Clear, TakePushers, Remaining
  <2> QED BY <1>1, <2>1, SubSeqEmpty
<1> SUFFICES ASSUME ~PushWaits(t), ~PushRefused(t), ~Clear(t)
             PROVE  max' <= Len(queue') + Cardinality(Offering') + Cardinality(Coming')
  BY <1>5, <1>6
<1>7. /\ pushers # <<>> /\ max # NoLimit
      /\ max <= Len(queue) + Cardinality(Offering) + Cardinality(Coming)
  <2>1. pushers # <<>>
    BY <1>1, WhoChanges
  <2> QED BY <1>2, <2>1 DEF ListsAreDrained, RoomIsOffered, Offering, Coming
<1>8. Offering \ {t} \subseteq Offering' /\ Coming \ {t} \subseteq Coming'
  <2>1. ASSUME NEW u \in Coming, u # t PROVE u \in Coming'
    <3>1. /\ u \in Threads \ {t} /\ pc[u] \in {"doze", "asleep", "relock"} /\ IsUp(u)
          /\ u \notin Members(pushers) /\ call[u] \in Pushes
      BY <2>1 DEF Coming, Unlisted, Sleeping
    <3>2. IsUp(u)' /\ u \notin Members(pushers')
      BY <1>1, <3>1, StaysUp, WhoJoins
    <3> QED BY <1>2, <3>1, <3>2 DEF Coming, Unlisted, OthersStay, Sleeping
  <2> QED BY <1>2, <2>1 DEF Offering, OthersStay
<1>9. t \in Coming => t \in Coming' \/ Push(t)
  <2>1. SUFFICES ASSUME t \in Coming, ~Push(t) PROVE t \in Coming'
    OBVIOUS
  <2>2. /\ call[t] \in Pushes /\ pc[t] \in {"doze", "asleep", "relock"} /\ IsUp(t)
        /\ t \notin Members(pushers)
    BY <2>1 DEF Coming, Unlisted, Sleeping
  <2>3. pc[t] # "relock"
    BY <1>1, <1>2, <2>1, <2>2, BackInTheLoop
  <2>4. /\ pc'[t] \in {"asleep", "relock"} /\ UNCHANGED <<pushers, call>> /\ IsUp(t)'
    BY <1>1, <2>2, <2>3, SleeperStep
  <2> QED BY <2>2, <2>4 DEF Coming, Unlisted, Sleeping
<1>10. t \in Offering => t \in Offering' \/ LockList(t)
  <2>1. SUFFICES ASSUME t \in Offering PROVE t \in Offering' \/ LockList(t)
    OBVIOUS
  <2>2. CASE pc[t] = "popped"
    <3>1. SeePushers(t)
      BY <1>7, <2>2, AfterPop DEF PopReturns
    <3> QED BY <1>2, <2>1, <3>1 DEF SeePushers, Goto, Offering
  <2>3. CASE pc[t] = "lock list"
    BY <1>1, <2>3, InClose DEF Interrupt, Happens, Undisturbed
  <2> QED BY <2>1, <2>2, <2>3 DEF Offering
<1>11. CASE Shift(t)
  <2>1. t \notin Offering /\ t \in Offering' /\ t \notin Coming
    BY <1>2, <1>11 DEF Shift, Inside, Goto, Offering, Coming, Unlisted
  <2>2. Offering \cup {t} \subseteq Offering' /\ Coming \subseteq Coming'
    BY <1>8, <2>1
  <2>3. Cardinality(Offering \cup {t}) = Cardinality(Offering) + 1
    BY <1>4, <2>1, FS_AddElement
  <2>4. /\ Cardinality(Offering) + 1 <= Cardinality(Offering') /\ Cardinality(Coming) <= Cardinality(Coming')
        /\ max' = max
    BY <1>4, <1>11, <2>2, <2>3 DEF Shift
  <2> QED BY <1>3, <1>4, <1>7, <1>11, <2>4
<1>12. CASE Push(t)
  <2>1. t \notin Offering
    BY <1>2, <1>12 DEF Push, Offering
  <2>2. Offering \subseteq Offering' /\ max' = max
    BY <1>8, <1>12, <2>1 DEF Push
  <2>3. Cardinality(Coming \ {t}) = IF t \in Coming THEN Cardinality(Coming) - 1 ELSE Cardinality(Coming)
    BY <1>4, FS_RemoveElement
  <2>4. Cardinality(Coming \ {t}) <= Cardinality(Coming') /\ Cardinality(Offering) <= Cardinality(Offering')
    BY <1>4, <1>8, <2>2
  <2> QED BY <1>3, <1>4, <1>7, <1>12, <2>2, <2>3, <2>4
<1>13. CASE LockList(t)
  <2>1. /\ call[t] \in Pops \cup {"close"} /\ call[t] \notin Pushes /\ Coming \subseteq Coming'
        /\ max' = max /\ queue' = queue
    BY <1>8, <1>13 DEF LockList, WakersAreTrue, Pops, Pushes, Coming, Unlisted
  <2> DEFINE n == IF call[t] = "close" THEN Len(pushers) ELSE TakeOne
  <2>2. Len(pushers) \in Nat \ {0}
    BY <1>2, <1>7, LenProperties, EmptySeq
  <2>3. /\ n \in Nat /\ n <= Len(pushers) /\ TakePushers(t, n)
        /\ call[t] = "close" => n = Len(pushers)
        /\ call[t] # "close" => n = 1
    <3>1. TakeOne = 1
      <4>1. TakeOne = IF 1 < Len(pushers) THEN 1 ELSE Len(pushers)
        BY DEF TakeOne, AtMost
      <4>2. ~(1 < Len(pushers)) => Len(pushers) = 1
        BY <2>2
      <4> QED BY <4>1, <4>2
    <3>2. /\ n \in Nat /\ n <= Len(pushers)
          /\ call[t] = "close" => n = Len(pushers)
          /\ call[t] # "close" => n = 1
      BY <2>2, <3>1
    <3>3. TakePushers(t, n)
      BY <1>13 DEF LockList
    <3> QED BY <3>2, <3>3
  <2> HIDE DEF n
  <2>4. /\ n = Len(pushers) => pushers' = <<>>
        /\ Cardinality(Coming) + n <= Cardinality(Coming')
    BY <1>2, <2>1, <2>3, TakenAreUp
  <2>5. n = 1
    BY <1>1, <2>3, <2>4
  <2>6. Cardinality(Offering) - 1 <= Cardinality(Offering')
    <3>1. Cardinality(Offering \ {t}) = IF t \in Offering THEN Cardinality(Offering) - 1 ELSE Cardinality(Offering)
      BY <1>4, FS_RemoveElement
    <3>2. Cardinality(Offering \ {t}) <= Cardinality(Offering')
      BY <1>4, <1>8
    <3> QED BY <1>4, <3>1, <3>2
  <2> QED BY <1>3, <1>4, <1>7, <2>1, <2>4, <2>5, <2>6
<1>14. CASE SetMax(t)
  <2>1. Coming \subseteq Coming' /\ Offering \subseteq Offering' /\ call[t] \notin Pushes /\ queue' = queue
    BY <1>8, <1>14 DEF SetMax, Inside, Pops, Pushes, Coming, Offering, Unlisted
  <2>2. Cardinality(Coming) <= Cardinality(Coming') /\ Cardinality(Offering) <= Cardinality(Offering')
    BY <1>4, <2>1
  <2>3. CASE max' <= max
    BY <1>3, <1>4, <1>7, <2>1, <2>2, <2>3
  <2>4. CASE max < max'
    <3> DEFINE n == AtMost(max' - max)
    <3>1. Len(pushers) \in Nat
      BY <1>2, LenProperties
    <3>2. TakePushers(t, n)
      BY <1>14, <2>4 DEF SetMax
    <3>3. /\ n \in Nat /\ n <= Len(pushers)
          /\ n = Len(pushers) \/ n = max' - max
      <4>1. max' - max \in Nat
        <5>1. max \in Nat /\ max' \in Nat
          BY <1>3
        <5>2. \A a, b \in Nat : a < b => b - a \in Nat
          OBVIOUS
        <5> QED BY <2>4, <5>1, <5>2
      <4>2. n = IF max' - max < Len(pushers) THEN max' - max ELSE Len(pushers)
        BY DEF AtMost
      <4> HIDE DEF n
      <4> QED BY <3>1, <4>1, <4>2
    <3> HIDE DEF n
    <3>4. /\ n = Len(pushers) => pushers' = <<>>
          /\ Cardinality(Coming) + n <= Cardinality(Coming')
      BY <1>2, <2>1, <3>2, <3>3, TakenAreUp
    <3>5. n = max' - max
      BY <1>1, <3>3, <3>4
    <3> QED BY <1>3, <1>4, <1>7, <2>1, <2>2, <3>4, <3>5
  <2> QED BY <1>3, <2>3, <2>4
<1>15. CASE ~(Shift(t) \/ Push(t) \/ LockList(t) \/ SetMax(t))
  <2>1. Offering \subseteq Offering' /\ Coming \subseteq Coming'
    BY <1>8, <1>9, <1>10, <1>15
  <2>2. max' = max /\ queue' = queue
    BY <1>3, <1>15
  <2>3. Cardinality(Coming) <= Cardinality(Coming') /\ Cardinality(Offering) <= Cardinality(Offering')
    BY <1>4, <2>1
  <2> QED BY <1>3, <1>4, <1>7, <2>2, <2>3
<1> QED BY <1>11, <1>12, <1>13, <1>14, <1>15

-------------------------------------------------------------------------------
(* The theorems. *)

\* Before any call nobody waits or wakes.
LEMMA InitWakers ==
  Init => /\ WakersAreTrue /\ OneWakerEach /\ TakersAreUp /\ ListsAreDrained
          /\ ItemsHaveTakers /\ RoomIsOffered
<1> SUFFICES ASSUME Init
             PROVE  /\ WakersAreTrue /\ OneWakerEach /\ TakersAreUp /\ ListsAreDrained
                    /\ ItemsHaveTakers /\ RoomIsOffered
  OBVIOUS
<1>1. Members(<<>>) = {} /\ \A i : i \notin DOMAIN <<>>
  BY EmptyList
<1>2. /\ waiting = <<>> /\ pushers = <<>>
      /\ \A t \in Threads : toWake[t] = <<>> /\ call[t] = "none" /\ pc[t] = "user"
  BY DEF Init
<1>3. WakersAreTrue /\ TakersAreUp
  BY <1>1, <1>2 DEF WakersAreTrue, TakersAreUp, Unlisted, Sleeping
<1>4. OneWakerEach
  BY <1>1, <1>2 DEF OneWakerEach, Once
<1>5. ListsAreDrained /\ ItemsHaveTakers /\ RoomIsOffered
  BY <1>2 DEF ListsAreDrained, ItemsHaveTakers, RoomIsOffered
<1> QED BY <1>3, <1>4, <1>5

\* The invariants of the lists and of those who wake, together.
Wakers == WInv /\ ItemsHaveTakers /\ RoomIsOffered

\* Every step keeps them.
LEMMA WakersNext == ASSUME Wakers, [Next]_vars PROVE Wakers'
<1>1. IInv'
  BY NextStep DEF Wakers, WInv
<1>2. CASE UNCHANGED vars
  <2>1. /\ queue' = queue /\ closed' = closed /\ max' = max /\ waiting' = waiting /\ pushers' = pushers
        /\ holder' = holder /\ call' = call /\ toWake' = toWake /\ woken' = woken /\ events' = events
        /\ pc' = pc
    BY <1>2 DEF vars
  <2>2. (WakersAreTrue /\ TakersAreUp /\ ListsAreDrained)'
    BY <2>1 DEF Wakers, WInv, WakersAreTrue, TakersAreUp, ListsAreDrained, Unlisted, IsUp, Undisturbed
  <2>3. OneWakerEach'
    BY <2>1 DEF Wakers, WInv, OneWakerEach, Slumbers
  <2>4. (ItemsHaveTakers /\ RoomIsOffered)'
    BY <2>1 DEF Wakers, ItemsHaveTakers, RoomIsOffered, Unlisted, IsUp, Undisturbed
  <2> QED BY <1>1, <2>2, <2>3, <2>4 DEF Wakers, WInv
<1>3. ASSUME NEW t \in Threads, RubyCode(t) \/ Runtime(t) PROVE Wakers'
  BY <1>1, <1>3, WakersStep, CalmStep, TakersStep, DrainedStep, ItemsStep, RoomStep DEF Wakers, WInv
<1> QED BY <1>2, <1>3 DEF Next

\* They hold in every state.
LEMMA AllWakers == Spec => []Wakers
<1>1. Init => Wakers
  BY InitStep, InitWakers DEF Wakers, WInv
<1>2. Wakers /\ [Next]_vars => Wakers'
  BY WakersNext
<1> QED BY <1>1, <1>2, PTL DEF Spec

\* A thread that wakes others finds them where a wakeup serves: producers asleep in the
\* queue unless a timeout or a stray wakeup has moved them, and a push that keeps @mutex
\* finds its consumer asleep or on the way there, so the two never wait for each other.
THEOREM Meet == Spec => []WakersMeetSleepers
<1>1. ASSUME Wakers PROVE WakersMeetSleepers
  <2>1. WokenPusherWaits
    BY <1>1 DEF Wakers, WInv, OneWakerEach, Slumbers, WokenPusherWaits
  <2>2. PushLetsGo
    <3>1. SUFFICES ASSUME NEW t \in Threads, holder = t, pc[t] = "wake", NEW u \in Members(toWake[t])
                   PROVE  StatusSleep(u) \/ pc[u] = "doze"
      BY DEF PushLetsGo
    <3>2. call[t] \in Pushes
      BY <1>1, <3>1, QueueAssumption DEF Wakers, WInv, IInv, TypeOK
    <3>3. pc[u] \in Sleeping
      BY <1>1, <3>1, <3>2 DEF Wakers, WInv, WakersAreTrue
    <3> QED BY <3>3 DEF Sleeping, StatusSleep
  <2> QED BY <2>1, <2>2 DEF WakersMeetSleepers
<1> QED BY <1>1, AllWakers, PTL

\* Unless a raise or kill hits the queue: once it is closed, every consumer that sleeps
\* and every listed producer is woken or has a close on its way to it.
THEOREM CloseReaches == Spec => []CloseReachesTheListed
<1>1. ASSUME Wakers PROVE CloseReachesTheListed
  <2>1. SUFFICES ASSUME Undisturbed, closed
                 PROVE  /\ \A t \in Threads : call[t] \in Pops /\ pc[t] \in {"doze", "asleep"} =>
                             \/ IsUp(t)
                             \/ t \in Members(waiting) /\ \E u \in Threads : pc[u] = "drain"
                        /\ pushers # <<>> =>
                             \E u \in Threads : call[u] = "close" /\ pc[u] \in {"drain", "lock list"}
    BY DEF CloseReachesTheListed
  <2>2. ASSUME NEW t \in Threads, call[t] \in Pops, pc[t] \in {"doze", "asleep"}
        PROVE  \/ IsUp(t)
               \/ t \in Members(waiting) /\ \E u \in Threads : pc[u] = "drain"
    <3>1. CASE t \in Members(waiting)
      <4>1. waiting # <<>>
        BY <3>1, <2>2, ListTypes, <1>1 DEF Wakers, WInv
      <4> QED BY <1>1, <2>1, <3>1, <4>1 DEF Wakers, WInv, ListsAreDrained
    <3>2. CASE t \notin Members(waiting)
      BY <1>1, <2>1, <2>2, <3>2 DEF Wakers, WInv, TakersAreUp, Unlisted, Sleeping
    <3> QED BY <3>1, <3>2
  <2> QED BY <1>1, <2>1, <2>2 DEF Wakers, WInv, ListsAreDrained
<1> QED BY <1>1, AllWakers, PTL

\* Unless a raise or kill hits the queue: while consumers are listed, every item has a
\* consumer of its own on its way to it, also when others overtake those.
THEOREM Taken == Spec => []EveryItemHasATaker
<1>1. Wakers => EveryItemHasATaker
  BY DEF Wakers, WInv, ItemsHaveTakers, TakersAreUp, EveryItemHasATaker
<1> QED BY <1>1, AllWakers, PTL

\* The same for producers: while some are listed, every free place of a SizedQueue has
\* a pop on its way to offer it or a producer on its way to take it.
THEOREM Offered == Spec => []RoomIsOffered
<1>1. Wakers => RoomIsOffered
  BY DEF Wakers
<1> QED BY <1>1, AllWakers, PTL
===============================================================================
