-------------------------- MODULE MutexObject_proofs --------------------------
(***************************************************************************)
(* For any number of threads: the variables of MutexObject keep their      *)
(* types; a mutex that only its owners unlock and sleep on excludes; and   *)
(* in every program, one that unlocks what it does not own included, the   *)
(* mutex excludes unless the process is about to abort, is never left      *)
(* taken, finds out recursion, and is given back by Mutex#sleep.           *)
(***************************************************************************)
EXTENDS MutexObject, TLAPS

\* Every operation keeps the types, and g_gc_recursive_mutex is taken and
\* released by the sections that own it, whoever calls what.
LEMMA TypeStep == ASSUME TypeOK, [Next]_vars PROVE TypeOK'
<1> USE MutexAssumption
<1>1. CASE UNCHANGED vars
  BY <1>1 DEF TypeOK, vars
<1>2. ASSUME NEW t \in Threads, RubyCode(t) PROVE TypeOK'
  BY <1>2 DEF RubyCode, TypeOK, Lock, TryLock, Synchronize, LeaveSynchronize, Unlock, IsLocked,
              Sleep, Wake, SleepInterrupted, SpinInterrupted, Die, Call, Goto, OnlyPcMoves,
              Methods, Labels
<1>3. ASSUME NEW t \in Threads, Runtime(t) PROVE TypeOK'
  <2>1. CASE \/ Take(t) \/ TryFails(t) \/ RefuseRecursion(t) \/ Spin(t) \/ RecordOwner(t)
             \/ ProbeTakes(t) \/ ProbeReleases(t) \/ ProbeFails(t) \/ UnlockMutexes(t)
    BY <2>1 DEF TypeOK, Take, TryFails, RefuseRecursion, Spin, RecordOwner, ProbeTakes,
                ProbeReleases, ProbeFails, UnlockMutexes, Goto, OnlyPcMoves, Listed, Labels
  <2>2. CASE UnlockProbe(t) \/ UnlockMutex(t) \/ AssertFails(t)
    BY <2>2 DEF TypeOK, UnlockProbe, UnlockMutex, AssertFails, Goto, OnlyPcMoves, Labels
  <2>3. CASE UnlockUnlocked(t) \/ UnlockRefused(t)
    <3>1. op' \in [Threads -> Methods]
      BY <2>3 DEF TypeOK, UnlockUnlocked, UnlockRefused, RaiseError, Methods
    <3>2. /\ pc[t] \in {"unlock_release", "unlock_check"} /\ gcLock' = Nobody
          /\ pc' \in [Threads -> Labels] /\ pc'[t] \in {"owned", "user"}
          /\ \A u \in Threads \ {t} : pc'[u] = pc[u]
      BY <2>3 DEF TypeOK, UnlockUnlocked, UnlockRefused, RaiseError, ReleaseGcLock, Goto, Labels
    <3>3. locked' \in BOOLEAN /\ UNCHANGED <<owner, listed, dead, inSync>>
      BY <2>3 DEF TypeOK, UnlockUnlocked, UnlockRefused
    <3> QED BY <3>1, <3>2, <3>3 DEF TypeOK
  <2>4. CASE UnlockClear(t)
    <3>1. AfterUnlock(t) \in {"asleep", "user"}
      BY DEF AfterUnlock
    <3> QED BY <2>4, <3>1 DEF TypeOK, UnlockClear, ReleaseGcLock, Unlisted, Goto, Labels
  <2>5. CASE OwnedProbeTakes(t) \/ OwnedProbeReleases(t)
    BY <2>5 DEF TypeOK, OwnedProbeTakes, OwnedProbeReleases, ReleaseGcLock, AfterOwned, Goto,
                Labels
  <2>6. CASE OwnedAnswers(t)
    <3>1. PICK owned \in BOOLEAN : pc' = [pc EXCEPT ![t] = AfterOwned(t, owned)]
      BY <2>6 DEF OwnedAnswers, IsOwned, Goto
    <3>2. AfterOwned(t, owned) \in {"unlock", "try", "user"}
      BY DEF AfterOwned
    <3> QED BY <2>6, <3>1, <3>2 DEF TypeOK, OwnedAnswers, OnlyPcMoves, Labels
  <2> QED BY <1>3, <2>1, <2>2, <2>3, <2>4, <2>5, <2>6 DEF Runtime
<1> QED BY <1>1, <1>2, <1>3 DEF Next

\* What unlock, sleep and their ends look at: the method is one that gets there.
LEMMA OpStep == ASSUME TypeOK, TypeOK', OpFits, NEW t \in Threads, RubyCode(t) \/ Runtime(t)
                PROVE  OpFits'
<1> USE DEF OpFits, TypeOK, Goto, OnlyPcMoves, Call
<1>1. CASE RubyCode(t)
  BY <1>1 DEF RubyCode, Lock, TryLock, Synchronize, LeaveSynchronize, Unlock, IsLocked, Sleep,
              Wake, SleepInterrupted, SpinInterrupted, Die
<1>2. CASE \/ Take(t) \/ TryFails(t) \/ RefuseRecursion(t) \/ Spin(t) \/ RecordOwner(t)
           \/ ProbeTakes(t) \/ ProbeReleases(t) \/ ProbeFails(t) \/ UnlockMutexes(t)
  BY <1>2 DEF Take, TryFails, RefuseRecursion, Spin, RecordOwner, ProbeTakes, ProbeReleases,
              ProbeFails, UnlockMutexes
<1>3. CASE UnlockProbe(t) \/ UnlockMutex(t) \/ AssertFails(t) \/ UnlockClear(t)
  BY <1>3 DEF UnlockProbe, UnlockMutex, AssertFails, UnlockClear, AfterUnlock
<1>4. CASE UnlockUnlocked(t) \/ UnlockRefused(t)
  BY <1>4 DEF UnlockUnlocked, UnlockRefused, RaiseError
<1>5. CASE OwnedProbeTakes(t) \/ OwnedProbeReleases(t)
  BY <1>5 DEF OwnedProbeTakes, OwnedProbeReleases, AfterOwned, Reacquiring
<1>6. CASE OwnedAnswers(t)
  <2>1. PICK owned \in BOOLEAN : pc' = [pc EXCEPT ![t] = AfterOwned(t, owned)]
    BY <1>6 DEF OwnedAnswers, IsOwned
  <2>2. /\ AfterOwned(t, owned) \in {"unlock", "try", "user"}
        /\ AfterOwned(t, owned) = "unlock" => op[t] = "leave"
    BY DEF AfterOwned
  <2> QED BY <1>6, <2>1, <2>2 DEF OwnedAnswers
<1> QED BY <1>1, <1>2, <1>3, <1>4, <1>5, <1>6 DEF Runtime

\* The recorded owner changes in record_owner and at the end of unlock only.
LEMMA OwnerChanges ==
  ASSUME NEW t \in Threads, RubyCode(t) \/ Runtime(t), ~RecordOwner(t), ~UnlockClear(t)
  PROVE  UNCHANGED <<owner, listed>>
BY DEF RubyCode, Lock, TryLock, Synchronize, LeaveSynchronize, Unlock, IsLocked, Sleep, Wake,
       SleepInterrupted, SpinInterrupted, Die, Call, OnlyPcMoves, Runtime, Take, TryFails,
       RefuseRecursion, Spin, ProbeTakes, ProbeReleases, ProbeFails, UnlockMutexes,
       UnlockProbe, UnlockMutex, AssertFails, UnlockUnlocked, UnlockRefused, OwnedProbeTakes,
       OwnedProbeReleases, OwnedAnswers

\* Only the thread that takes a step moves.
LEMMA OneMoves ==
  ASSUME NEW t \in Threads, RubyCode(t) \/ Runtime(t), TypeOK
  PROVE  \A u \in Threads \ {t} : pc'[u] = pc[u] /\ op'[u] = op[u]
BY DEF TypeOK, RubyCode, Lock, TryLock, Synchronize, LeaveSynchronize, Unlock, IsLocked, Sleep,
       Wake, SleepInterrupted, SpinInterrupted, Die, Call, Goto, OnlyPcMoves, Runtime, Take,
       TryFails, RefuseRecursion, Spin, RecordOwner, ProbeTakes, ProbeReleases, ProbeFails,
       UnlockMutexes, UnlockProbe, UnlockMutex, AssertFails, UnlockClear, UnlockUnlocked,
       UnlockRefused, RaiseError, OwnedProbeTakes, OwnedProbeReleases, OwnedAnswers

\* An owner is listed: record_owner does both, and unlock undoes both.
LEMMA ListedStep ==
  ASSUME TypeOK, OwnerIsListed, NEW t \in Threads, RubyCode(t) \/ Runtime(t)
  PROVE  OwnerIsListed'
<1>1. CASE RecordOwner(t)
  BY <1>1 DEF RecordOwner, OwnerIsListed, Listed
<1>2. CASE UnlockClear(t)
  BY <1>2 DEF UnlockClear, OwnerIsListed, Unlisted
<1> QED BY <1>1, <1>2, OwnerChanges DEF OwnerIsListed

\* While a thread is between the release and the end of unlock, g_gc_recursive_mutex
\* keeps everybody else from becoming the owner.
LEMMA AsserterStep ==
  ASSUME TypeOK, AsserterOwns, NEW t \in Threads, RubyCode(t) \/ Runtime(t)
  PROVE  AsserterOwns'
<1> USE MutexAssumption DEF TypeOK, Goto
<1>1. CASE RecordOwner(t)
  BY <1>1, OneMoves DEF RecordOwner, AsserterOwns
<1>2. CASE UnlockClear(t)
  BY <1>2, OneMoves DEF UnlockClear, AsserterOwns, AfterUnlock
<1>3. CASE UnlockMutex(t)
  BY <1>3, OneMoves DEF UnlockMutex, AsserterOwns
<1>4. CASE AssertFails(t)
  BY <1>4, OneMoves DEF AssertFails, AsserterOwns, OnlyPcMoves
<1>5. CASE ~RecordOwner(t) /\ ~UnlockClear(t) /\ ~UnlockMutex(t) /\ ~AssertFails(t)
  <2>1. pc'[t] \notin {"unlock_assert", "abort"}
    BY <1>5 DEF RubyCode, Lock, TryLock, Synchronize, LeaveSynchronize, Unlock, IsLocked, Sleep,
       Wake, SleepInterrupted, SpinInterrupted, Die, Call, OnlyPcMoves, Runtime, Take,
       TryFails, RefuseRecursion, Spin, ProbeTakes, ProbeReleases, ProbeFails,
       UnlockMutexes, UnlockProbe, UnlockUnlocked,
       UnlockRefused, RaiseError, OwnedProbeTakes, OwnedProbeReleases, OwnedAnswers, IsOwned,
       AfterOwned
  <2> QED BY <1>5, <2>1, OneMoves, OwnerChanges DEF AsserterOwns
<1> QED BY <1>1, <1>2, <1>3, <1>4, <1>5

\* A doomed process stays doomed.
LEMMA DoomedStep ==
  ASSUME TypeOK, Doomed, NEW t \in Threads, RubyCode(t) \/ Runtime(t)
  PROVE  Doomed'
<1> USE MutexAssumption DEF TypeOK
<1>1. PICK u \in Threads : pc[u] \in {"unlock_assert", "abort"} /\ owner = Nobody
  BY DEF Doomed
<1>2. gcLock = u
  BY <1>1
<1>3. ~RecordOwner(t) /\ ~UnlockClear(t)
  BY <1>1, <1>2 DEF RecordOwner, UnlockClear
<1>4. CASE t = u
  <2>1. AssertFails(t)
    BY <1>1, <1>3, <1>4 DEF RubyCode, Lock, TryLock, Synchronize, LeaveSynchronize, Unlock,
       IsLocked, Sleep, Wake, SleepInterrupted, SpinInterrupted, Die, Call, Runtime, Take,
       TryFails, RefuseRecursion, Spin, ProbeTakes, ProbeReleases, ProbeFails,
       UnlockMutexes, UnlockProbe, UnlockMutex, UnlockUnlocked,
       UnlockRefused, OwnedProbeTakes, OwnedProbeReleases, OwnedAnswers
  <2> QED BY <2>1, <1>1, <1>4 DEF AssertFails, Goto, OnlyPcMoves, Doomed
<1>5. CASE t # u
  BY <1>1, <1>3, <1>5, OneMoves, OwnerChanges DEF Doomed
<1> QED BY <1>4, <1>5

\* A thread that begins to sleep or to reacquire is not the owner, and it does not
\* become the owner before it takes the mutex.
LEMMA WaiterStep ==
  ASSUME TypeOK, TypeOK', OpFits, WaiterIsNotOwner, AsserterOwns, Exclusive \/ Doomed,
         NEW t \in Threads, RubyCode(t) \/ Runtime(t)
  PROVE  WaiterIsNotOwner'
<1> USE MutexAssumption DEF TypeOK, Goto
<1>1. CASE RecordOwner(t)
  BY <1>1, OneMoves DEF RecordOwner, WaiterIsNotOwner
<1>2. CASE UnlockClear(t)
  BY <1>2, OneMoves DEF UnlockClear, WaiterIsNotOwner, AfterUnlock
<1>3. CASE ~RecordOwner(t) /\ ~UnlockClear(t)
  <2>1. UNCHANGED owner
    BY <1>3, OwnerChanges
  <2>2. /\ pc'[t] \in {"asleep", "spin"} => owner # t
        /\ pc'[t] \in {"try", "check"} /\ op'[t] \in Reacquiring => owner # t
    <3>1. CASE RubyCode(t)
      BY <3>1 DEF RubyCode, Lock, TryLock, Synchronize, LeaveSynchronize, Unlock, IsLocked,
        Sleep, Wake, SleepInterrupted, SpinInterrupted, Die, Call, OnlyPcMoves, WaiterIsNotOwner,
        Reacquiring
    <3>2. CASE \/ Take(t) \/ TryFails(t) \/ RefuseRecursion(t) \/ Spin(t)
               \/ ProbeTakes(t) \/ ProbeReleases(t) \/ ProbeFails(t) \/ UnlockMutexes(t)
               \/ UnlockProbe(t) \/ UnlockMutex(t) \/ AssertFails(t)
      BY <3>2 DEF Take, TryFails, RefuseRecursion, Spin, IsOwner, ProbeTakes, ProbeReleases,
        ProbeFails, UnlockMutexes, UnlockProbe, UnlockMutex, AssertFails, OnlyPcMoves,
        WaiterIsNotOwner
    <3>3. CASE UnlockUnlocked(t) \/ UnlockRefused(t)
      BY <3>3 DEF UnlockUnlocked, UnlockRefused, RaiseError
    <3>4. CASE OwnedProbeTakes(t)
      BY <3>4 DEF OwnedProbeTakes
    <3>5. CASE OwnedProbeReleases(t)
      <4>1. owner # t
        BY <3>5 DEF OwnedProbeReleases, Exclusive, ProberIsNotOwner, Probes, Doomed
      <4> QED BY <4>1, <3>5 DEF OwnedProbeReleases, AfterOwned
    <3>6. CASE OwnedAnswers(t)
      <4>1. PICK owned \in BOOLEAN : /\ pc' = [pc EXCEPT ![t] = AfterOwned(t, owned)]
                                     /\ op[t] \in Reacquiring => (owned <=> owner = t)
        BY <3>6 DEF OwnedAnswers, IsOwned, Reacquiring
      <4>2. op' = op
        BY <3>6 DEF OwnedAnswers, OnlyPcMoves
      <4> QED BY <4>1, <4>2 DEF AfterOwned
    <3> QED BY <1>3, <3>1, <3>2, <3>3, <3>4, <3>5, <3>6 DEF Runtime
  <2> QED BY <2>1, <2>2, OneMoves DEF WaiterIsNotOwner
<1> QED BY <1>1, <1>2, <1>3

\* A step that leaves the mutex alone and is not the end of a section: who had it has it.
LEMMA QuietWitness ==
  ASSUME TypeOK, NotAbandoned, NEW t \in Threads, RubyCode(t) \/ Runtime(t),
         UNCHANGED <<locked, owner>>, pc'[t] \notin {"unlock_assert", "gone"},
         pc[t] # "record", ~Probes(t)
  PROVE  NotAbandoned'
<1>1. Holds(t) => Holds(t)'
  BY DEF Holds
<1>2. \A u \in Threads \ {t} : (Holds(u) => Holds(u)') /\ (Probes(u) => Probes(u)')
  BY OneMoves DEF Holds, Probes
<1> QED BY <1>1, <1>2 DEF NotAbandoned

\* Ruby code never takes or releases the mutex.
LEMMA RubyKeeps ==
  ASSUME NEW t \in Threads, RubyCode(t), TypeOK
  PROVE  /\ UNCHANGED <<locked, owner, listed, gcLock>>
         /\ pc[t] \in {"user", "spin", "asleep"}
         /\ pc'[t] \in {"user", "try", "unlock", "probe", "owned", "dying"}
         /\ \A u \in Threads \ {t} : pc'[u] = pc[u]
BY DEF TypeOK, RubyCode, Lock, TryLock, Synchronize, LeaveSynchronize, Unlock, IsLocked, Sleep,
       Wake, SleepInterrupted, SpinInterrupted, Die, Call, Goto, OnlyPcMoves

\* Whoever takes the mutex is there to release it, and an owner that dies has it listed.
LEMMA AbandonedStep ==
  ASSUME TypeOK, OwnerIsListed, AsserterOwns, NotAbandoned,
         NEW t \in Threads, RubyCode(t) \/ Runtime(t)
  PROVE  NotAbandoned'
<1> USE MutexAssumption DEF TypeOK, Goto
<1>1. CASE RubyCode(t)
  BY <1>1, RubyKeeps, QuietWitness DEF Probes
<1>2. CASE UnlockMutex(t) \/ UnlockUnlocked(t) \/ ProbeReleases(t) \/ OwnedProbeReleases(t)
  BY <1>2 DEF NotAbandoned, UnlockMutex, UnlockUnlocked, ProbeReleases, OwnedProbeReleases
<1>3. CASE Take(t) \/ ProbeTakes(t) \/ OwnedProbeTakes(t)
  <2>1. Holds(t)' \/ Probes(t)'
    BY <1>3 DEF Take, ProbeTakes, OwnedProbeTakes, Holds, Probes
  <2> QED BY <2>1 DEF NotAbandoned
<1>4. CASE RecordOwner(t)
  <2>1. Holds(t)'
    BY <1>4 DEF RecordOwner, Holds
  <2> QED BY <2>1 DEF NotAbandoned
<1>5. CASE UnlockProbe(t)
  <2>1. CASE locked
    BY <1>5, <2>1, QuietWitness DEF UnlockProbe, Probes
  <2>2. CASE ~locked
    <3>1. Probes(t)'
      BY <1>5, <2>2 DEF UnlockProbe, Probes
    <3> QED BY <3>1 DEF NotAbandoned
  <2> QED BY <2>1, <2>2
<1>6. CASE UnlockClear(t)
  <2>1. /\ pc[t] = "unlock_assert" /\ owner = t /\ locked' = locked
    BY <1>6 DEF UnlockClear, AsserterOwns
  <2>2. ~Holds(t) /\ ~Probes(t)
    BY <2>1 DEF Holds, Probes
  <2>3. \A u \in Threads \ {t} : (Holds(u) => Holds(u)') /\ (Probes(u) => Probes(u)')
    BY <2>1, OneMoves DEF Holds, Probes
  <2> QED BY <2>1, <2>2, <2>3 DEF NotAbandoned
<1>7. CASE UnlockMutexes(t)
  <2>1. CASE t \in listed
    BY <1>7, <2>1 DEF UnlockMutexes, NotAbandoned
  <2>2. CASE t \notin listed
    <3>1. ~Holds(t) /\ ~Probes(t) /\ locked' = locked
      BY <1>7, <2>2 DEF UnlockMutexes, Holds, Probes, OwnerIsListed
    <3>2. \A u \in Threads \ {t} : (Holds(u) => Holds(u)') /\ (Probes(u) => Probes(u)')
      BY <1>7, OneMoves DEF UnlockMutexes, Holds, Probes
    <3> QED BY <3>1, <3>2 DEF NotAbandoned
  <2> QED BY <2>1, <2>2
<1>8. CASE \/ TryFails(t) \/ RefuseRecursion(t) \/ Spin(t) \/ ProbeFails(t)
           \/ UnlockRefused(t) \/ AssertFails(t) \/ OwnedAnswers(t)
  <2>1. /\ UNCHANGED <<locked, owner>> /\ pc[t] # "record" /\ ~Probes(t)
        /\ pc'[t] \notin {"unlock_assert", "gone"}
    BY <1>8 DEF TryFails, RefuseRecursion, Spin, ProbeFails, UnlockRefused, RaiseError,
                AssertFails, OwnedAnswers, AfterOwned, OnlyPcMoves, Probes
  <2> QED BY <2>1, QuietWitness
<1> QED BY <1>1, <1>2, <1>3, <1>4, <1>5, <1>6, <1>7, <1>8 DEF Runtime

\* Ruby code calling a method, being interrupted or beginning to die takes and
\* gives nothing.
LEMMA RubyStep ==
  ASSUME TypeOK, TypeOK', Exclusive, NEW t \in Threads, RubyCode(t)
  PROVE  Exclusive'
<1>1. \A u \in Threads : (Holds(u)' <=> Holds(u)) /\ (Probes(u)' <=> Probes(u))
  BY RubyKeeps DEF Holds, Probes
<1> QED BY <1>1, RubyKeeps DEF Exclusive, MutualExclusion, ListedIsOwner, ProberIsNotOwner, TypeOK

\* A runtime step that neither takes nor releases anything: it moves t between
\* labels at which what t has depends on the owner alone.
LEMMA QuietStep ==
  ASSUME TypeOK, TypeOK', Exclusive, NEW t \in Threads, UNCHANGED <<locked, owner, listed>>,
         NEW label, pc' = [pc EXCEPT ![t] = label], pc[t] \notin {"unlock_assert", "gone", "record"},
         ~Probes(t), label \in {"user", "check", "spin", "try", "unlock", "unlock_check", "owned"}
  PROVE  Exclusive'
<1>1. \A u \in Threads : (Holds(u)' <=> Holds(u)) /\ (Probes(u)' <=> Probes(u))
  BY DEF Holds, Probes, TypeOK
<1> QED BY <1>1 DEF Exclusive, MutualExclusion, ListedIsOwner, ProberIsNotOwner, TypeOK

\* try_lock, here or in a probe, finds the mutex free, so that nobody has it or
\* probes it, and nobody else does afterwards.
LEMMA TakeStep ==
  ASSUME TypeOK, TypeOK', Exclusive, NEW t \in Threads, ~locked, locked',
         UNCHANGED <<owner, listed>>, NEW label, pc' = [pc EXCEPT ![t] = label],
         pc[t] \in {"try", "spin", "probe", "owned", "unlock"},
         label \in {"record", "probe_release", "owned_release", "unlock_release"}
  PROVE  Exclusive'
<1>1. \A u \in Threads : ~Holds(u) /\ ~Probes(u)
  BY DEF Exclusive, MutualExclusion
<1>2. \A u \in Threads \ {t} : ~Holds(u)' /\ ~Probes(u)'
  BY <1>1 DEF Holds, Probes, TypeOK
<1>3. owner # t
  BY <1>1 DEF Holds
<1> QED BY <1>2, <1>3 DEF Exclusive, MutualExclusion, ListedIsOwner, ProberIsNotOwner, Probes,
                          TypeOK

\* Whoever has the mutex, or probes it, releases it: the others had nothing.
LEMMA ReleaseStep ==
  ASSUME TypeOK, TypeOK', Exclusive, NEW t \in Threads, Holds(t) \/ Probes(t),
         UNCHANGED <<owner, listed>>, NEW label, pc' = [pc EXCEPT ![t] = label], pc[t] # "gone",
         ~Holds(t)', ~Probes(t)'
  PROVE  Exclusive'
<1>1. \A u \in Threads \ {t} : ~Holds(u) /\ ~Probes(u)
  BY DEF Exclusive, MutualExclusion
<1>2. \A u \in Threads : ~Holds(u)' /\ ~Probes(u)'
  BY <1>1 DEF Holds, Probes, TypeOK
<1> QED BY <1>2 DEF Exclusive, MutualExclusion, ListedIsOwner, ProberIsNotOwner, TypeOK

\* A step of lock, unlock, a probe or a thread's end keeps the mutex exclusive, but for
\* an unlock while the mutex has no owner, which dooms the process.
LEMMA RuntimeStep ==
  ASSUME TypeOK, TypeOK', Exclusive, AsserterOwns, NEW t \in Threads, Runtime(t)
  PROVE  Exclusive' \/ Doomed'
<1> USE MutexAssumption DEF Goto, OnlyPcMoves
<1>1. CASE Take(t)
  BY <1>1, TakeStep DEF Take
<1>2. CASE TryFails(t)
  <2>1. PICK label \in {"user", "check"} : pc' = [pc EXCEPT ![t] = label]
    BY <1>2 DEF TryFails
  <2> QED BY <1>2, <2>1, QuietStep DEF TryFails, Probes
<1>3. CASE RefuseRecursion(t)
  BY <1>3, QuietStep DEF RefuseRecursion, Probes
<1>4. CASE Spin(t)
  BY <1>4, QuietStep DEF Spin, Probes
<1>5. CASE RecordOwner(t)
  <2>1. /\ pc[t] = "record" /\ gcLock = Nobody /\ owner' = t /\ listed' = listed \cup {t}
        /\ pc' = [pc EXCEPT ![t] = "user"] /\ locked' = locked
    BY <1>5 DEF RecordOwner, Listed
  <2>2. Holds(t) /\ locked
    BY <2>1 DEF Holds, Exclusive, MutualExclusion
  <2>3. \A u \in Threads \ {t} : ~Holds(u) /\ ~Probes(u) /\ pc[u] # "unlock_assert"
    BY <2>1, <2>2 DEF Exclusive, MutualExclusion, TypeOK
  <2>4. \A u \in Threads \ {t} : ~Holds(u)' /\ ~Probes(u)' /\ pc'[u] = pc[u]
    BY <2>1, <2>3 DEF Holds, Probes, TypeOK
  <2>5. ~Probes(t)' /\ pc'[t] = "user"
    BY <2>1 DEF Probes, TypeOK
  <2>6. ListedIsOwner'
    BY <2>1, <2>3, <2>4, <2>5 DEF ListedIsOwner, Exclusive, TypeOK, Holds
  <2> QED BY <2>1, <2>2, <2>4, <2>5, <2>6 DEF Exclusive, MutualExclusion, ProberIsNotOwner
<1>6. CASE UnlockProbe(t)
  <2>1. CASE locked
    BY <1>6, <2>1, QuietStep DEF UnlockProbe, Probes
  <2>2. CASE ~locked
    BY <1>6, <2>2, TakeStep DEF UnlockProbe
  <2> QED BY <2>1, <2>2
<1>7. CASE UnlockUnlocked(t)
  <2>1. PICK label \in {"owned", "user"} : pc' = [pc EXCEPT ![t] = label]
    BY <1>7 DEF UnlockUnlocked, RaiseError
  <2>2. Probes(t) /\ ~Holds(t)' /\ ~Probes(t)'
    BY <1>7, <2>1 DEF UnlockUnlocked, Holds, Probes, Exclusive, ProberIsNotOwner, TypeOK
  <2> QED BY <1>7, <2>1, <2>2, ReleaseStep DEF UnlockUnlocked
<1>8. CASE UnlockRefused(t)
  <2>1. PICK label \in {"owned", "user"} : pc' = [pc EXCEPT ![t] = label]
    BY <1>8 DEF UnlockRefused, RaiseError
  <2> QED BY <1>8, <2>1, QuietStep DEF UnlockRefused, Probes
<1>9. CASE UnlockMutex(t)
  <2>1. pc[t] = "unlock_check" /\ pc' = [pc EXCEPT ![t] = "unlock_assert"]
        /\ UNCHANGED <<owner, listed>>
    BY <1>9 DEF UnlockMutex
  <2>2. CASE owner = t
    <3>1. Holds(t) /\ ~Holds(t)' /\ ~Probes(t)'
      BY <2>1, <2>2 DEF Holds, Probes, TypeOK
    <3> QED BY <2>1, <3>1, ReleaseStep
  <2>3. CASE owner = Nobody
    BY <2>1, <2>3 DEF Doomed, TypeOK
  <2> QED BY <1>9, <2>2, <2>3 DEF UnlockMutex
<1>10. CASE AssertFails(t)
  BY <1>10 DEF AssertFails, Doomed, TypeOK
<1>11. CASE UnlockClear(t)
  <2>1. PICK label \in {"asleep", "user"} : pc' = [pc EXCEPT ![t] = label]
    BY <1>11 DEF UnlockClear, AfterUnlock
  <2>2. /\ pc[t] = "unlock_assert" /\ owner = t /\ owner' = Nobody /\ listed' = listed \ {t}
        /\ locked' = locked
    BY <1>11 DEF UnlockClear, Unlisted, AsserterOwns
  <2>3. \A u \in Threads : (Holds(u)' => Holds(u)) /\ (Probes(u)' <=> Probes(u))
    BY <2>1, <2>2 DEF Holds, Probes, TypeOK
  <2>4. \A u \in Threads \ {t} : pc'[u] = pc[u] /\ owner # u
    BY <2>1, <2>2 DEF TypeOK
  <2>5. MutualExclusion'
    BY <2>2, <2>3 DEF Exclusive, MutualExclusion
  <2>6. ListedIsOwner'
    BY <2>2, <2>4 DEF Exclusive, ListedIsOwner, TypeOK
  <2> QED BY <2>2, <2>5, <2>6 DEF Exclusive, ProberIsNotOwner
<1>12. CASE ProbeTakes(t)
  BY <1>12, TakeStep DEF ProbeTakes
<1>13. CASE ProbeReleases(t)
  <2>1. pc[t] = "probe_release" /\ pc' = [pc EXCEPT ![t] = "user"]
    BY <1>13 DEF ProbeReleases
  <2>2. Probes(t) /\ ~Holds(t)' /\ ~Probes(t)'
    BY <1>13, <2>1 DEF ProbeReleases, Holds, Probes, Exclusive, ProberIsNotOwner, TypeOK
  <2> QED BY <1>13, <2>1, <2>2, ReleaseStep DEF ProbeReleases
<1>14. CASE ProbeFails(t)
  BY <1>14, QuietStep DEF ProbeFails, Probes
<1>15. CASE OwnedProbeTakes(t)
  BY <1>15, TakeStep DEF OwnedProbeTakes
<1>16. CASE OwnedProbeReleases(t)
  <2>1. PICK label \in {"try", "user"} : pc' = [pc EXCEPT ![t] = label]
    BY <1>16 DEF OwnedProbeReleases, AfterOwned
  <2>2. Probes(t) /\ ~Holds(t)' /\ ~Probes(t)'
    BY <1>16, <2>1 DEF OwnedProbeReleases, Holds, Probes, Exclusive, ProberIsNotOwner, TypeOK
  <2> QED BY <1>16, <2>1, <2>2, ReleaseStep DEF OwnedProbeReleases
<1>17. CASE OwnedAnswers(t)
  <2>1. PICK label \in {"unlock", "try", "user"} : pc' = [pc EXCEPT ![t] = label]
    BY <1>17 DEF OwnedAnswers, IsOwned, AfterOwned
  <2> QED BY <1>17, <2>1, QuietStep DEF OwnedAnswers, Probes
<1>18. CASE UnlockMutexes(t)
  <2>1. /\ pc[t] = "dying" /\ pc' = [pc EXCEPT ![t] = "gone"] /\ UNCHANGED <<owner, listed>>
        /\ locked' = (locked /\ t \notin listed)
    BY <1>18 DEF UnlockMutexes
  <2>2. ~Holds(t)' /\ ~Probes(t)'
    BY <2>1 DEF Holds, Probes, TypeOK
  <2>3. CASE Holds(t)
    BY <2>1, <2>2, <2>3, ReleaseStep
  <2>4. CASE ~Holds(t)
    <3>1. t \notin listed
      BY <2>1, <2>4 DEF Exclusive, ListedIsOwner, Holds
    <3>2. \A u \in Threads : (Holds(u)' <=> Holds(u)) /\ (Probes(u)' <=> Probes(u))
      BY <2>1, <2>4 DEF Holds, Probes, TypeOK
    <3> QED BY <2>1, <3>1, <3>2 DEF Exclusive, MutualExclusion, ListedIsOwner, ProberIsNotOwner,
                                    TypeOK
  <2> QED BY <2>3, <2>4
<1> QED BY <1>1, <1>2, <1>3, <1>4, <1>5, <1>6, <1>7, <1>8, <1>9, <1>10, <1>11, <1>12, <1>13,
           <1>14, <1>15, <1>16, <1>17, <1>18 DEF Runtime

\* If only owners unlock and sleep, then whoever is in unlock stays the recorded owner:
\* as long as it has the mutex nobody else comes to record_owner.
LEMMA UnlockerStep ==
  ASSUME ForeignCalls = {}, IInv, UnlockerIsOwner, NEW t \in Threads, RubyCode(t) \/ Runtime(t)
  PROVE  UnlockerIsOwner'
<1> USE MutexAssumption DEF TypeOK, Goto
<1>1. TypeOK /\ Exclusive
  BY DEF IInv, UnlockerIsOwner, Doomed
<1>2. CASE RecordOwner(t)
  <2>1. pc[t] = "record" /\ Holds(t)
    BY <1>2 DEF RecordOwner, Holds
  <2>2. \A u \in Threads \ {t} : ~Holds(u)
    BY <2>1, <1>1 DEF Exclusive, MutualExclusion
  <2>3. \A u \in Threads \ {t} : pc[u] \notin {"unlock", "unlock_check", "unlock_assert"}
    BY <1>1, <1>2, <2>2 DEF UnlockerIsOwner, Holds, RecordOwner
  <2> QED BY <1>1, <1>2, <2>3, OneMoves DEF UnlockerIsOwner, RecordOwner
<1>3. CASE UnlockClear(t)
  BY <1>1, <1>3, OneMoves DEF UnlockerIsOwner, UnlockClear, AfterUnlock
<1>4. CASE ~RecordOwner(t) /\ ~UnlockClear(t)
  <2>1. UNCHANGED owner
    BY <1>4, OwnerChanges
  <2>2. /\ pc'[t] \in {"unlock", "unlock_check", "unlock_assert"} => owner = t
        /\ pc'[t] \notin {"unlock_release", "abort"}
    <3>1. CASE RubyCode(t)
      BY <3>1, <1>1 DEF RubyCode, Lock, TryLock, Synchronize, LeaveSynchronize, Unlock, IsLocked,
        Sleep, Wake, SleepInterrupted, SpinInterrupted, Die, Call, OnlyPcMoves, MayCall
    <3>2. CASE \/ Take(t) \/ TryFails(t) \/ RefuseRecursion(t) \/ Spin(t)
               \/ ProbeTakes(t) \/ ProbeReleases(t) \/ ProbeFails(t) \/ UnlockMutexes(t)
               \/ UnlockMutex(t) \/ AssertFails(t) \/ OwnedProbeTakes(t) \/ OwnedAnswers(t)
               \/ OwnedProbeReleases(t)
      BY <3>2, <1>1 DEF Take, TryFails, RefuseRecursion, Spin, ProbeTakes, ProbeReleases,
        ProbeFails, UnlockMutexes, UnlockMutex, AssertFails, OnlyPcMoves, UnlockerIsOwner,
        OwnedProbeTakes, OwnedAnswers, IsOwned, OwnedProbeReleases, AfterOwned
    <3>3. CASE UnlockProbe(t)
      <4>1. pc[t] = "unlock" /\ owner = t
        BY <3>3 DEF UnlockProbe, UnlockerIsOwner
      <4>2. locked
        BY <4>1, <1>1 DEF Holds, Exclusive, MutualExclusion
      <4> QED BY <1>1, <3>3, <4>1, <4>2 DEF UnlockProbe
    <3>4. CASE UnlockUnlocked(t) \/ UnlockRefused(t)
      BY <3>4 DEF UnlockUnlocked, UnlockRefused, UnlockerIsOwner
    <3> QED BY <1>4, <3>1, <3>2, <3>3, <3>4 DEF Runtime
  <2> QED BY <1>1, <2>1, <2>2, OneMoves DEF UnlockerIsOwner
<1> QED BY <1>2, <1>3, <1>4

\* Initially the mutex is free and nobody is in any of its methods.
LEMMA InitStep == ASSUME Init PROVE IInv
BY MutexAssumption DEF Init, IInv, TypeOK, OpFits, OwnerIsListed, AsserterOwns, WaiterIsNotOwner,
   NotAbandoned, Exclusive, MutualExclusion, ListedIsOwner, ProberIsNotOwner, Holds, Probes,
   Methods, Labels

\* The variables of the mutex always have their types, and g_gc_recursive_mutex is
\* held in the sections of unlock and owned? that need it and nowhere else, also in
\* programs that call unlock and sleep on mutexes they do not own.
THEOREM TypeCorrect == Spec => []TypeOK
<1>1. Init => TypeOK
  BY InitStep DEF IInv
<1> QED BY <1>1, TypeStep, PTL DEF Spec

\* Every step keeps the whole invariant.
LEMMA InvariantStep == IInv /\ [Next]_vars => IInv'
<1> SUFFICES ASSUME IInv, [Next]_vars PROVE IInv'
  OBVIOUS
<1>1. TypeOK'
  BY TypeStep DEF IInv
<1>2. CASE UNCHANGED vars
  BY <1>2 DEF vars, IInv, TypeOK, OpFits, OwnerIsListed, AsserterOwns, WaiterIsNotOwner,
              NotAbandoned, Exclusive, MutualExclusion, ListedIsOwner, ProberIsNotOwner, Doomed,
              Holds, Probes
<1>3. ASSUME NEW t \in Threads, RubyCode(t) \/ Runtime(t) PROVE IInv'
  <2>1. OpFits' /\ OwnerIsListed' /\ AsserterOwns' /\ WaiterIsNotOwner' /\ NotAbandoned'
    BY <1>1, <1>3, OpStep, ListedStep, AsserterStep, WaiterStep, AbandonedStep DEF IInv
  <2>2. Exclusive' \/ Doomed'
    <3>1. CASE Doomed
      BY <1>3, <3>1, DoomedStep DEF IInv
    <3>2. CASE Exclusive
      BY <1>1, <1>3, <3>2, RubyStep, RuntimeStep DEF IInv
    <3> QED BY <3>1, <3>2 DEF IInv
  <2> QED BY <1>1, <2>1, <2>2 DEF IInv
<1> QED BY <1>2, <1>3 DEF Next

\* The invariant holds of every program, whatever it does with mutexes it does not own.
LEMMA Invariant == Spec => []IInv
BY InitStep, InvariantStep, PTL DEF Spec

\* Mutual exclusion, for any number of threads, if only the owner calls unlock and
\* sleep (an unlock by another can come between try_lock and record_owner).
THEOREM Exclusion == ASSUME ForeignCalls = {} PROVE Spec => []MutualExclusion
<1>1. Init => UnlockerIsOwner
  BY DEF Init, UnlockerIsOwner
<1>2. IInv /\ UnlockerIsOwner /\ [Next]_vars => UnlockerIsOwner'
  <2>1. ASSUME IInv, UnlockerIsOwner, UNCHANGED vars PROVE UnlockerIsOwner'
    BY <2>1 DEF UnlockerIsOwner, vars
  <2> QED BY <2>1, UnlockerStep DEF Next
<1>3. IInv /\ UnlockerIsOwner => MutualExclusion
  BY MutexAssumption DEF IInv, UnlockerIsOwner, Doomed, Exclusive
<1> QED BY <1>1, <1>2, <1>3, Invariant, PTL DEF Spec

\* Mutual exclusion in every program: foreign calls can break it only once an unlock
\* has released a mutex without an owner, and then assert(m_thread) ends the process.
THEOREM ExclusionOrAbort == Spec => [](MutualExclusion \/ Doomed)
<1>1. IInv => MutualExclusion \/ Doomed
  BY DEF IInv, Exclusive
<1> QED BY <1>1, Invariant, PTL

\* A taken mutex is somebody's to release, in every program and for any number of
\* threads: nat_thread_finish finds the mutex in the list of an owner that dies.
THEOREM NeverAbandoned == Spec => []NotAbandoned
<1>1. IInv => NotAbandoned
  BY DEF IInv
<1> QED BY <1>1, Invariant, PTL

\* No thread spins for a mutex it has, and the loops in which Mutex#sleep reacquires,
\* where recursion could not be reported, never recur, in every program.
THEOREM RecursionIsFound == Spec => []NoSelfDeadlock
<1>1. IInv => NoSelfDeadlock
  BY DEF IInv, NoSelfDeadlock, WaiterIsNotOwner, Holds
<1> QED BY <1>1, Invariant, PTL

\* A thread comes out of Mutex#sleep with the mutex, in every program: the Defer
\* locks it unless it finds out that the thread owns it.
THEOREM SleepGivesBack == Spec => SleepReacquires
<1>1. ASSUME IInv, IInv', [Next]_vars, NEW t \in Threads,
             op[t] \in Reacquiring, pc[t] # "user", pc'[t] = "user"
      PROVE  Holds(t)'
  <2> USE DEF IInv, TypeOK, Goto
  <2>1. PICK u \in Threads : RubyCode(u) \/ Runtime(u)
    BY <1>1 DEF Next, vars
  <2>2. u = t
    BY <1>1, <2>1, OneMoves
  <2>3. RecordOwner(t) \/ OwnedAnswers(t) \/ RefuseRecursion(t)
    BY <1>1, <2>1, <2>2 DEF RubyCode, Lock, TryLock, Synchronize, LeaveSynchronize, Unlock,
       IsLocked, Sleep, Wake, SleepInterrupted, SpinInterrupted, Die, Call, OnlyPcMoves, Runtime,
       Take, TryFails, Spin, ProbeTakes, ProbeReleases, ProbeFails, UnlockMutexes, UnlockProbe,
       UnlockMutex, AssertFails, UnlockClear, UnlockUnlocked, UnlockRefused,
       OwnedProbeTakes, OwnedProbeReleases, AfterOwned, Reacquiring, OpFits
  <2>4. CASE RecordOwner(t)
    BY <1>1, <2>4 DEF RecordOwner, Holds
  <2>5. CASE OwnedAnswers(t)
    BY <1>1, <2>5 DEF OwnedAnswers, IsOwned, AfterOwned, OnlyPcMoves, Holds, Reacquiring
  <2>6. CASE RefuseRecursion(t)
    BY <1>1, <2>6 DEF RefuseRecursion, IsOwner, OnlyPcMoves, Holds
  <2> QED BY <2>3, <2>4, <2>5, <2>6
<1>2. IInv /\ IInv' /\ [Next]_vars =>
        [\A t \in Threads : op[t] \in Reacquiring /\ pc[t] # "user" /\ pc'[t] = "user"
                               => Holds(t)']_vars
  BY <1>1
<1> QED BY <1>2, Invariant, PTL DEF Spec, SleepReacquires

===============================================================================
