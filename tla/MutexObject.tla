------------------------------ MODULE MutexObject -----------------------------
(***************************************************************************)
(* Thread::Mutex as src/thread/mutex_object.cpp implements it: a           *)
(* std::mutex, of which only try_lock and unlock are used, and beside it   *)
(* the owner, which is recorded after the std::mutex is taken and under    *)
(* another lock, g_gc_recursive_mutex.  locked?, owned? and unlock probe   *)
(* the std::mutex by taking and releasing it.                              *)
(*                                                                         *)
(* One mutex; every thread may call any of its methods at any time, sleep  *)
(* in it, and die holding it.  What wakes or interrupts a thread (module   *)
(* ThreadObject) may come at any time here.  Owners are threads, as lock   *)
(* and unlock see them; of the fiber, which owned? compares too, no record *)
(* is kept.                                                                *)
(***************************************************************************)
EXTENDS Naturals, FiniteSets

CONSTANTS Threads,
          Nobody,
          ForeignCalls   \* methods Ruby code calls on a mutex it does not own:
                         \* a subset of {"unlock", "sleep"}

ASSUME MutexAssumption == Nobody \notin Threads

VARIABLES
  locked,    \* is m_mutex, the std::mutex, taken
  owner,     \* m_thread
  listed,    \* threads whose m_mutexes contains the mutex
  gcLock,    \* holder of g_gc_recursive_mutex
  dead,      \* threads with m_status Dead
  inSync,    \* threads in the block of synchronize
  op,        \* the method a thread is in
  pc

vars == <<locked, owner, listed, gcLock, dead, inSync, op, pc>>

\* In "reacquire" and "refused" a thread is at the end of Mutex#sleep, after a sleep
\* or after sleep could not unlock.
Methods == {"none", "lock", "try_lock", "sync", "unlock", "sleep", "reacquire", "refused",
            "leave"}
Reacquiring == {"reacquire", "refused"}
Labels == {"user", "try", "check", "spin", "record", "unlock", "unlock_release",
           "unlock_check", "unlock_assert", "abort", "probe", "probe_release",
           "owned", "owned_release", "asleep", "dying", "gone"}

Goto(t, label) == pc' = [pc EXCEPT ![t] = label]

OnlyPcMoves == UNCHANGED <<locked, owner, listed, gcLock, dead, inSync, op>>

Init == /\ locked = FALSE /\ owner = Nobody /\ listed = {} /\ gcLock = Nobody
        /\ dead = {} /\ inSync = {}
        /\ op = [t \in Threads |-> "none"]
        /\ pc = [t \in Threads |-> "user"]

\* Ruby code in t calls a method that starts at label.
Call(t, method, label) ==
  /\ pc[t] = "user"
  /\ op' = [op EXCEPT ![t] = method]
  /\ Goto(t, label)
  /\ UNCHANGED <<locked, owner, listed, gcLock, dead>>

-------------------------------------------------------------------------------
(* lock, try_lock, and the lock at the head of synchronize. *)

Lock(t) == Call(t, "lock", "try") /\ UNCHANGED inSync

TryLock(t) == Call(t, "try_lock", "try") /\ UNCHANGED inSync

Synchronize(t) == Call(t, "sync", "try") /\ t \notin inSync /\ UNCHANGED inSync

\* m_mutex.try_lock() succeeds, at once or in the spin loop.
Take(t) ==
  /\ pc[t] \in {"try", "spin"}
  /\ ~locked
  /\ locked' = TRUE
  /\ Goto(t, "record")
  /\ UNCHANGED <<owner, listed, gcLock, dead, inSync, op>>

TryFails(t) ==
  /\ pc[t] = "try" /\ locked
  /\ Goto(t, IF op[t] = "try_lock" THEN "user" ELSE "check")
  /\ OnlyPcMoves

OwnerIgnored(t) == FALSE    \* mutant of IsOwner: no check for recursive locking
IsOwner(t) == owner = t

\* ThreadError: deadlock; recursive locking.
RefuseRecursion(t) ==
  /\ pc[t] = "check" /\ IsOwner(t)
  /\ Goto(t, "user")
  /\ OnlyPcMoves

Spin(t) ==
  /\ pc[t] = "check" /\ ~IsOwner(t)
  /\ Goto(t, "spin")
  /\ OnlyPcMoves

\* deliver_pending throws out of the loop, unless the loop reacquires.
SpinInterrupted(t) ==
  /\ pc[t] = "spin" /\ op[t] \notin Reacquiring
  /\ Goto(t, "user")
  /\ OnlyPcMoves

NotListed(t) == listed    \* mutant of Listed: record_owner forgets add_mutex
Listed(t) == listed \cup {t}

\* record_owner, a while after the std::mutex was taken.
RecordOwner(t) ==
  /\ pc[t] = "record"
  /\ gcLock = Nobody
  /\ owner' = t
  /\ listed' = Listed(t)
  /\ inSync' = IF op[t] = "sync" THEN inSync \cup {t} ELSE inSync
  /\ Goto(t, "user")
  /\ UNCHANGED <<locked, gcLock, dead, op>>

-------------------------------------------------------------------------------
(* unlock, all of it under g_gc_recursive_mutex. *)

\* The mutex is t's, or the program is one that calls method without owning it.
MayCall(t, method) == owner = t \/ method \in ForeignCalls

Unlock(t) == MayCall(t, "unlock") /\ Call(t, "unlock", "unlock") /\ UNCHANGED inSync

ReleaseGcLock == gcLock' = Nobody

\* A ThreadError leaves unlock; from Mutex#sleep it runs the Defer that reacquires.
RaiseError(t) ==
  /\ op' = [op EXCEPT ![t] = IF @ = "sleep" THEN "refused" ELSE @]
  /\ Goto(t, IF op[t] = "sleep" THEN "owned" ELSE "user")

\* is_locked: the probe takes a free mutex, and gives it back: not locked.
UnlockProbe(t) ==
  /\ pc[t] = "unlock" /\ gcLock = Nobody
  /\ gcLock' = t
  /\ locked' = TRUE
  /\ Goto(t, IF locked THEN "unlock_check" ELSE "unlock_release")
  /\ UNCHANGED <<owner, listed, dead, inSync, op>>

UnlockUnlocked(t) ==
  /\ pc[t] = "unlock_release"
  /\ locked' = FALSE
  /\ ReleaseGcLock
  /\ RaiseError(t)
  /\ UNCHANGED <<owner, listed, dead, inSync>>

\* Owned by a dead thread or by another one: ThreadError.
UnlockRefused(t) ==
  /\ pc[t] = "unlock_check"
  /\ owner \notin {t, Nobody}
  /\ ReleaseGcLock
  /\ RaiseError(t)
  /\ UNCHANGED <<locked, owner, listed, dead, inSync>>

UnlockMutex(t) ==
  /\ pc[t] = "unlock_check"
  /\ owner \in {t, Nobody}
  /\ locked' = FALSE
  /\ Goto(t, "unlock_assert")
  /\ UNCHANGED <<owner, listed, gcLock, dead, inSync, op>>

\* assert(m_thread) fails and the process aborts.
AssertFails(t) ==
  /\ pc[t] = "unlock_assert" /\ owner = Nobody
  /\ Goto(t, "abort")
  /\ OnlyPcMoves

StillListed(t) == listed    \* mutant of Unlisted: unlock forgets remove_mutex
Unlisted(t) == listed \ {t}

AfterUnlock(t) == IF op[t] = "sleep" THEN "asleep" ELSE "user"

UnlockClear(t) ==
  /\ pc[t] = "unlock_assert" /\ owner # Nobody
  /\ listed' = Unlisted(owner)
  /\ owner' = Nobody
  /\ ReleaseGcLock
  /\ Goto(t, AfterUnlock(t))
  /\ UNCHANGED <<locked, dead, inSync, op>>

-------------------------------------------------------------------------------
(* locked? probes without g_gc_recursive_mutex, owned? probes under it. *)

IsLocked(t) == Call(t, "none", "probe") /\ UNCHANGED inSync

ProbeTakes(t) ==
  /\ pc[t] = "probe" /\ ~locked
  /\ locked' = TRUE
  /\ Goto(t, "probe_release")
  /\ UNCHANGED <<owner, listed, gcLock, dead, inSync, op>>

ProbeReleases(t) ==
  /\ pc[t] = "probe_release"
  /\ locked' = FALSE
  /\ Goto(t, "user")
  /\ UNCHANGED <<owner, listed, gcLock, dead, inSync, op>>

\* locked? answers true.
ProbeFails(t) ==
  /\ pc[t] = "probe" /\ locked
  /\ Goto(t, "user")
  /\ OnlyPcMoves

\* mutant of AfterOwned: no Defer in Mutex#sleep
AfterOwnedNoDefer(t, owned) == IF op[t] = "leave" /\ owned THEN "unlock" ELSE "user"

\* What follows is_owned: the end of synchronize unlocks what is owned, the
\* Defer in Mutex#sleep locks what is not.
AfterOwned(t, owned) ==
  CASE op[t] = "leave" /\ owned -> "unlock"
    [] op[t] \in Reacquiring /\ ~owned -> "try"
    [] OTHER -> "user"

OwnedProbeTakes(t) ==
  /\ pc[t] = "owned" /\ gcLock = Nobody /\ ~locked
  /\ gcLock' = t
  /\ locked' = TRUE
  /\ Goto(t, "owned_release")
  /\ UNCHANGED <<owner, listed, dead, inSync, op>>

OwnedProbeReleases(t) ==
  /\ pc[t] = "owned_release"
  /\ locked' = FALSE
  /\ ReleaseGcLock
  /\ Goto(t, AfterOwned(t, FALSE))
  /\ UNCHANGED <<owner, listed, dead, inSync, op>>

\* What is_owned may answer of a taken mutex.  Fibers of t may have unlocked and locked
\* it during synchronize, so that m_fiber is another one at its end.  Mutex#sleep asks in
\* the fiber that unlocked and, if anyone in t did, locked.
IsOwned(t) == {owner = t} \cup (IF op[t] = "leave" THEN {FALSE} ELSE {})

OwnedAnswers(t) ==
  /\ pc[t] = "owned" /\ gcLock = Nobody /\ locked
  /\ \E owned \in IsOwned(t) : Goto(t, AfterOwned(t, owned))
  /\ OnlyPcMoves

\* The block of synchronize returns or throws: its Defer runs.
LeaveSynchronize(t) ==
  /\ t \in inSync
  /\ inSync' = inSync \ {t}
  /\ Call(t, "leave", "owned")

-------------------------------------------------------------------------------
(* Mutex#sleep: ThreadObject::sleep unlocks and waits; lock(env, false).     *)

Sleep(t) == MayCall(t, "sleep") /\ Call(t, "sleep", "unlock") /\ UNCHANGED inSync

\* Woken up or timed out.
Wake(t) ==
  /\ pc[t] = "asleep"
  /\ op' = [op EXCEPT ![t] = "reacquire"]
  /\ Goto(t, "try")
  /\ UNCHANGED <<locked, owner, listed, gcLock, dead, inSync>>

\* An exception is thrown in ThreadObject::sleep: the Defer reacquires.
SleepInterrupted(t) ==
  /\ pc[t] = "asleep"
  /\ op' = [op EXCEPT ![t] = "reacquire"]
  /\ Goto(t, "owned")
  /\ UNCHANGED <<locked, owner, listed, gcLock, dead, inSync>>

-------------------------------------------------------------------------------
(* nat_thread_finish: Dead first, then every listed mutex is unlocked; the   *)
(* owner is not cleared.                                                     *)

Die(t) ==
  /\ pc[t] = "user" /\ t \notin inSync
  /\ dead' = dead \cup {t}
  /\ Goto(t, "dying")
  /\ UNCHANGED <<locked, owner, listed, gcLock, inSync, op>>

UnlockMutexes(t) ==
  /\ pc[t] = "dying"
  /\ gcLock = Nobody
  /\ locked' = (locked /\ t \notin listed)
  /\ Goto(t, "gone")
  /\ UNCHANGED <<owner, listed, gcLock, dead, inSync, op>>

-------------------------------------------------------------------------------
RubyCode(t) ==
  \/ Lock(t) \/ TryLock(t) \/ Synchronize(t) \/ LeaveSynchronize(t) \/ Unlock(t)
  \/ IsLocked(t) \/ Sleep(t) \/ Wake(t) \/ SleepInterrupted(t) \/ SpinInterrupted(t) \/ Die(t)

Runtime(t) ==
  \/ Take(t) \/ TryFails(t) \/ RefuseRecursion(t) \/ Spin(t) \/ RecordOwner(t)
  \/ UnlockProbe(t) \/ UnlockUnlocked(t) \/ UnlockRefused(t) \/ UnlockMutex(t)
  \/ AssertFails(t) \/ UnlockClear(t)
  \/ ProbeTakes(t) \/ ProbeReleases(t) \/ ProbeFails(t)
  \/ OwnedProbeTakes(t) \/ OwnedProbeReleases(t) \/ OwnedAnswers(t)
  \/ UnlockMutexes(t)

\* A failed assertion ends the process.
Next == /\ \A t \in Threads : pc[t] # "abort"
        /\ \E t \in Threads : RubyCode(t) \/ Runtime(t)

Spec == Init /\ [][Next]_vars

\* The OS runs every thread.  A spinning thread may find the mutex taken whenever it
\* tries: nothing in the code makes the lock fair.
Fairness == \A t \in Threads : WF_vars(Runtime(t))

FairSpec == Spec /\ Fairness

-------------------------------------------------------------------------------
\* t has the mutex: from try_lock on, until its unlock or its death gives it back.
Holds(t) ==
  \/ pc[t] = "record"
  \/ owner = t /\ pc[t] \notin {"unlock_assert", "gone"}

\* t has taken the std::mutex only to see whether it could.
Probes(t) == pc[t] \in {"probe_release", "unlock_release", "owned_release"}

\* Every variable holds a value the code can give it, and g_gc_recursive_mutex is
\* held exactly in the sections of unlock and owned? that need it.
TypeOK ==
  /\ locked \in BOOLEAN
  /\ owner \in Threads \cup {Nobody}
  /\ listed \subseteq Threads /\ dead \subseteq Threads /\ inSync \subseteq Threads
  /\ gcLock \in Threads \cup {Nobody}
  /\ op \in [Threads -> Methods]
  /\ pc \in [Threads -> Labels]
  /\ \A t \in Threads : gcLock = t <=>
       pc[t] \in {"unlock_release", "unlock_check", "unlock_assert", "owned_release", "abort"}

\* Two threads never have the mutex at once, counting a thread from its try_lock
\* on (before its ownership is recorded), and nobody has it while a probe of
\* locked?, owned? or unlock does; whoever has it, the std::mutex is taken.
MutualExclusion ==
  /\ \A t, u \in Threads : (Holds(t) \/ Probes(t)) /\ (Holds(u) \/ Probes(u)) => t = u
  /\ \A t \in Threads : Holds(t) \/ Probes(t) => locked

\* The mutex is never taken with nobody to release it: in particular a thread
\* that died with the mutex, in whatever way it got it, does not keep it.
NotAbandoned == locked => \E t \in Threads : Holds(t) \/ Probes(t)

\* A thread never spins for a mutex it has: recursion is found out, and the
\* reacquiring loops in Mutex#sleep, where it could not be reported, never recur.
NoSelfDeadlock ==
  \A t \in Threads : /\ pc[t] = "spin" => ~Holds(t)
                     /\ pc[t] = "check" /\ op[t] \in Reacquiring => owner # t

\* Mutex#sleep gives the mutex back to its caller, whatever ended the sleep: the
\* code after it runs with the mutex.
SleepReacquires ==
  [][\A t \in Threads : op[t] \in Reacquiring /\ pc[t] # "user" /\ pc'[t] = "user"
                          => Holds(t)']_vars

\* When a thread dies with a mutex that others are spinning for, one of the others
\* gets it, unless interrupts take them all out of their loops first.
DeathReleases ==
  \A t \in Threads :
    pc[t] = "dying" /\ owner = t /\ (\E u \in Threads : pc[u] = "spin")
      ~> \/ \E u \in Threads \ {t} : Holds(u)
         \/ \A u \in Threads : pc[u] # "spin"

-------------------------------------------------------------------------------
(* What makes the invariants inductive, whoever calls unlock and sleep.      *)

\* A thread has released a mutex without an owner and is about to fail assert(m_thread):
\* g_gc_recursive_mutex stays taken until the process has aborted.
Doomed == \E t \in Threads : pc[t] \in {"unlock_assert", "abort"} /\ owner = Nobody

\* A live thread that lists the mutex is its recorded owner.
ListedIsOwner == \A t \in listed : pc[t] # "gone" => owner = t

\* A thread that probes is not the recorded owner.
ProberIsNotOwner == \A t \in Threads : Probes(t) => owner # t

Exclusive == MutualExclusion /\ ListedIsOwner /\ ProberIsNotOwner

OwnerIsListed == owner # Nobody => owner \in listed

\* What unlock released was its caller's or nobody's.
AsserterOwns ==
  \A t \in Threads : /\ pc[t] = "unlock_assert" => owner \in {t, Nobody}
                     /\ pc[t] = "abort" => owner = Nobody

\* The method a thread is in, where AfterUnlock, AfterOwned and RaiseError look at it.
OpFits ==
  \A t \in Threads :
    /\ pc[t] \in {"unlock", "unlock_release", "unlock_check", "unlock_assert", "abort"}
         => op[t] \in {"unlock", "sleep", "leave"}
    /\ pc[t] \in {"probe", "probe_release"} => op[t] = "none"

\* Who sleeps, spins, or tries again after a sleep is not the recorded owner.
WaiterIsNotOwner ==
  \A t \in Threads :
    /\ pc[t] \in {"asleep", "spin"} => owner # t
    /\ pc[t] \in {"try", "check"} /\ op[t] \in Reacquiring => owner # t

IInv == /\ TypeOK /\ OpFits /\ OwnerIsListed /\ AsserterOwns /\ WaiterIsNotOwner /\ NotAbandoned
        /\ Exclusive \/ Doomed

\* Where only owners unlock and sleep: unlock runs only in the thread that is recorded
\* as owner, and nothing is doomed.
UnlockerIsOwner ==
  \A t \in Threads : /\ pc[t] \in {"unlock", "unlock_check", "unlock_assert"} => owner = t
                     /\ pc[t] \notin {"unlock_release", "abort"}

===============================================================================
