----------------------------- MODULE StopTheWorld ----------------------------
(***************************************************************************)
(* How the garbage collector stops and resumes the threads: the list of    *)
(* threads, g_gc_recursive_mutex, the signals SIGUSR1 (stop) and SIGUSR2   *)
(* (resume) with their handler, and m_suspend_status, which is all the     *)
(* collecting main thread sees of the others.                              *)
(*                                                                         *)
(* Any thread may create threads, take g_gc_recursive_mutex (an allocation *)
(* does), and end.  The handler runs on top of whatever the thread does:   *)
(* while handler[t] is not "none" the thread itself stands still.  What    *)
(* marking and sweeping do is left to module Heap.  Linux only: on macOS   *)
(* threads are suspended without signals.                                  *)
(***************************************************************************)
EXTENDS Naturals, FiniteSets

CONSTANTS Threads,         \* the threads other than the main one
          Main, Nobody,
          MaxCollections   \* bound: collections of a behaviour

ASSUME WorldAssumption == Main \notin Threads /\ Nobody \notin Threads \cup {Main}
ASSUME BoundAssumption == MaxCollections \in Nat

VARIABLES
  list,         \* s_list, without the main thread
  suspend,      \* m_suspend_status
  pc,           \* what a thread does, the main one included
  creating,     \* the thread it is about to start, or Nobody
  handler,      \* where in the handler of SIGUSR1 a thread is
  usr1, usr2,   \* threads with the signal pending
  covered,      \* m_end_of_stack is below everything on the stack
  gcLock,       \* holder of g_gc_recursive_mutex
  toSignal,     \* threads the collector has yet to send a signal to
  collections   \* collections begun

threadVars == <<list, pc, creating>>
signalVars == <<suspend, handler, usr1, usr2, covered>>
collectorVars == <<toSignal, collections>>
vars == <<threadVars, signalVars, gcLock, collectorVars>>

Everyone == Threads \cup {Main}
Collecting == {"launch_wait", "send_stop", "stop_wait", "mark", "send_resume", "resume_wait",
               "sweep"}
Labels == {"unborn", "starting", "user", "locked", "exit", "left", "gone"} \cup Collecting

Init ==
  /\ list = {}
  /\ suspend = [t \in Threads |-> "Launching"]
  /\ pc = [a \in Everyone |-> IF a = Main THEN "user" ELSE "unborn"]
  /\ creating = [a \in Everyone |-> Nobody]
  /\ handler = [t \in Threads |-> "none"]
  /\ usr1 = {} /\ usr2 = {}
  /\ covered = [t \in Threads |-> TRUE]    \* at first, down to the end of the stack's memory
  /\ gcLock = Nobody
  /\ toSignal = {} /\ collections = 0

Goto(a, label) == pc' = [pc EXCEPT ![a] = label]

\* a is at label, and no signal handler runs on top of it.
At(a, label) == pc[a] = label /\ (a # Main => handler[a] = "none")

-------------------------------------------------------------------------------
(* Threads. *)

\* Thread.new, first half: add_to_list.
AddToList(a, t) ==
  /\ At(a, "user") /\ creating[a] = Nobody
  /\ pc[t] = "unborn" /\ t \notin list
  /\ gcLock = Nobody
  /\ list' = list \cup {t}
  /\ creating' = [creating EXCEPT ![a] = t]
  /\ UNCHANGED <<pc, signalVars, gcLock, collectorVars>>

AllocatingInTheDangerZone(a) == gcLock = Nobody    \* mutant of DangerZone
DangerZone(a) == TRUE

\* Second half, the DANGER ZONE: the OS thread is made without any allocation.
StartThread(a) ==
  /\ At(a, "user") /\ creating[a] # Nobody
  /\ DangerZone(a)
  /\ Goto(creating[a], "starting")
  /\ creating' = [creating EXCEPT ![a] = Nobody]
  /\ UNCHANGED <<list, signalVars, gcLock, collectorVars>>

\* nat_create_thread: from now on the thread can be signalled.
Launch(t) ==
  /\ At(t, "starting")
  /\ suspend' = [suspend EXCEPT ![t] = "Running"]
  /\ Goto(t, "user")
  /\ UNCHANGED <<list, creating, handler, usr1, usr2, covered, gcLock, collectorVars>>

\* An allocation, or anything else under g_gc_recursive_mutex.
Lock(a) ==
  /\ At(a, "user") /\ creating[a] = Nobody
  /\ gcLock = Nobody
  /\ gcLock' = a
  /\ Goto(a, "locked")
  /\ UNCHANGED <<list, creating, signalVars, collectorVars>>

Unlock(a) ==
  /\ At(a, "locked")
  /\ gcLock' = Nobody
  /\ Goto(a, "user")
  /\ UNCHANGED <<list, creating, signalVars, collectorVars>>

Exit(t) ==
  /\ At(t, "user") /\ creating[t] = Nobody
  /\ Goto(t, "exit")
  /\ UNCHANGED <<list, creating, signalVars, gcLock, collectorVars>>

Unlocked(t) == TRUE    \* mutant of ListFree: remove_from_list without the lock
ListFree(t) == gcLock = Nobody

\* nat_thread_finish: remove_from_list ...
LeaveList(t) ==
  /\ At(t, "exit")
  /\ ListFree(t)
  /\ list' = list \ {t}
  /\ Goto(t, "left")
  /\ UNCHANGED <<creating, signalVars, gcLock, collectorVars>>

\* ... and unlock_mutexes, after which the OS thread is no more.
Finish(t) ==
  /\ At(t, "left")
  /\ gcLock = Nobody
  /\ Goto(t, "gone")
  /\ UNCHANGED <<list, creating, signalVars, gcLock, collectorVars>>

-------------------------------------------------------------------------------
(* gc_signal_handler.  SIGUSR1 is blocked in its own handler, SIGUSR2 is not. *)

HandleStop(t) ==
  /\ t \in usr1 /\ handler[t] = "none"
  /\ usr1' = usr1 \ {t}
  /\ handler' = [handler EXCEPT ![t] = "save"]
  /\ UNCHANGED <<threadVars, suspend, usr2, covered, gcLock, collectorVars>>

\* The context is saved before Suspended is announced.
Announce(t) ==
  /\ handler[t] = "save"
  /\ suspend' = [suspend EXCEPT ![t] = "Suspended"]
  /\ handler' = [handler EXCEPT ![t] = "announced"]
  /\ UNCHANGED <<threadVars, usr1, usr2, covered, gcLock, collectorVars>>

\* mutant of RecordStack: m_end_of_stack keeps the value of the collection before
RecordNothing(t) ==
  /\ handler[t] = "announced"
  /\ handler' = [handler EXCEPT ![t] = "recorded"]
  /\ UNCHANGED <<threadVars, suspend, usr1, usr2, covered, gcLock, collectorVars>>

\* Only now the end of the stack is recorded (x86-64; elsewhere the whole stack is scanned).
RecordStack(t) ==
  /\ handler[t] = "announced"
  /\ covered' = [covered EXCEPT ![t] = TRUE]
  /\ handler' = [handler EXCEPT ![t] = "recorded"]
  /\ UNCHANGED <<threadVars, suspend, usr1, usr2, gcLock, collectorVars>>

Pause(t) ==
  /\ handler[t] = "recorded"
  /\ handler' = [handler EXCEPT ![t] = "paused"]
  /\ UNCHANGED <<threadVars, suspend, usr1, usr2, covered, gcLock, collectorVars>>

\* The handler of SIGUSR2; pause() returns if the thread is already in it.
HandleResume(t) ==
  /\ t \in usr2
  /\ usr2' = usr2 \ {t}
  /\ suspend' = [suspend EXCEPT ![t] = "Running"]
  /\ handler' = [handler EXCEPT ![t] = IF @ = "paused" THEN "resumed" ELSE @]
  /\ UNCHANGED <<threadVars, usr1, covered, gcLock, collectorVars>>

\* Once the thread goes on it may call deeper than where it was stopped.
LeaveHandler(t) ==
  /\ handler[t] = "resumed"
  /\ \E deeper \in BOOLEAN : covered' = [covered EXCEPT ![t] = @ /\ ~ deeper]
  /\ suspend' = [suspend EXCEPT ![t] = "Running"]
  /\ handler' = [handler EXCEPT ![t] = "none"]
  /\ UNCHANGED <<threadVars, usr1, usr2, gcLock, collectorVars>>

-------------------------------------------------------------------------------
(* Heap::collect, in the main thread only. *)

Collect ==
  /\ pc[Main] \in {"user", "locked"} /\ creating[Main] = Nobody
  /\ collections < MaxCollections
  /\ gcLock \in {Nobody, Main}
  /\ gcLock' = Main
  /\ collections' = collections + 1
  /\ Goto(Main, "launch_wait")
  /\ UNCHANGED <<list, creating, signalVars, toSignal>>

AllLaunched ==
  /\ pc[Main] = "launch_wait"
  /\ \A t \in list : suspend[t] # "Launching"
  /\ toSignal' = list
  /\ Goto(Main, "send_stop")
  /\ UNCHANGED <<list, creating, signalVars, gcLock, collections>>

SendStop(t) ==
  /\ pc[Main] = "send_stop" /\ t \in toSignal
  /\ toSignal' = toSignal \ {t}
  /\ usr1' = usr1 \cup {t}
  /\ UNCHANGED <<threadVars, suspend, handler, usr2, covered, gcLock, collections>>

StopsSent ==
  /\ pc[Main] = "send_stop" /\ toSignal = {}
  /\ Goto(Main, "stop_wait")
  /\ UNCHANGED <<list, creating, signalVars, gcLock, collectorVars>>

AnySuspended == \E t \in list : suspend[t] = "Suspended"    \* mutant of all_suspended
all_suspended == \A t \in list : suspend[t] = "Suspended"

AllSuspended ==
  /\ pc[Main] = "stop_wait"
  /\ all_suspended
  /\ Goto(Main, "mark")
  /\ UNCHANGED <<list, creating, signalVars, gcLock, collectorVars>>

Mark ==
  /\ pc[Main] = "mark"
  /\ toSignal' = list
  /\ Goto(Main, "send_resume")
  /\ UNCHANGED <<list, creating, signalVars, gcLock, collections>>

SendResume(t) ==
  /\ pc[Main] = "send_resume" /\ t \in toSignal
  /\ toSignal' = toSignal \ {t}
  /\ usr2' = usr2 \cup {t}
  /\ UNCHANGED <<threadVars, suspend, handler, usr1, covered, gcLock, collections>>

ResumesSent ==
  /\ pc[Main] = "send_resume" /\ toSignal = {}
  /\ Goto(Main, "resume_wait")
  /\ UNCHANGED <<list, creating, signalVars, gcLock, collectorVars>>

AllRunning ==
  /\ pc[Main] = "resume_wait"
  /\ \A t \in list : suspend[t] = "Running"
  /\ Goto(Main, "sweep")
  /\ UNCHANGED <<list, creating, signalVars, gcLock, collectorVars>>

\* The lock may have been the allocation's that called collect.
Sweep ==
  /\ pc[Main] = "sweep"
  /\ gcLock' = Nobody
  /\ Goto(Main, "user")
  /\ UNCHANGED <<list, creating, signalVars, collectorVars>>

-------------------------------------------------------------------------------
RubyCode(a) == Lock(a) \/ \E t \in Threads : AddToList(a, t)

ThreadStep(t) ==
  \/ Launch(t) \/ LeaveList(t) \/ Finish(t)
  \/ HandleStop(t) \/ Announce(t) \/ RecordStack(t) \/ Pause(t) \/ HandleResume(t) \/ LeaveHandler(t)

Collector ==
  \/ AllLaunched \/ StopsSent \/ AllSuspended \/ Mark \/ ResumesSent \/ AllRunning \/ Sweep
  \/ \E t \in Threads : SendStop(t) \/ SendResume(t)

Next ==
  \/ \E a \in Everyone : RubyCode(a) \/ StartThread(a) \/ Unlock(a)
  \/ \E t \in Threads : ThreadStep(t) \/ Exit(t)
  \/ Collect \/ Collector

Spec == Init /\ [][Next]_vars

\* The OS runs every thread and delivers every signal.
Fairness ==
  /\ WF_vars(Collector)
  /\ \A a \in Everyone : WF_vars(StartThread(a)) /\ WF_vars(Unlock(a))
  /\ \A t \in Threads : WF_vars(ThreadStep(t))

FairSpec == Spec /\ Fairness

-------------------------------------------------------------------------------
Suspending == {"announced", "recorded", "paused"}
InHandler == Suspending \cup {"save", "resumed"}

\* Every variable holds a value the code can give it; g_gc_recursive_mutex is held by
\* a thread exactly while it allocates or collects.
TypeOK ==
  /\ list \subseteq Threads
  /\ suspend \in [Threads -> {"Launching", "Running", "Suspended"}]
  /\ pc \in [Everyone -> Labels]
  /\ creating \in [Everyone -> Threads \cup {Nobody}]
  /\ handler \in [Threads -> InHandler \cup {"none"}]
  /\ usr1 \subseteq Threads /\ usr2 \subseteq Threads
  /\ covered \in [Threads -> BOOLEAN]
  /\ toSignal \subseteq Threads
  /\ collections \in 0..MaxCollections
  /\ gcLock \in Everyone \cup {Nobody}
  /\ \A a \in Everyone : gcLock = a <=> pc[a] \in Collecting \cup {"locked"}
  /\ \A t \in Threads : pc[t] \notin Collecting

\* The OS thread exists and knows its ThreadObject.
Alive(t) == pc[t] \notin {"unborn", "starting", "gone"}

\* While the collector marks, the world stands still: every thread that has code left
\* to run is in the signal handler with its context saved, except threads that have
\* left the list and wait for the lock to give up their mutexes.
WorldIsStopped ==
  pc[Main] = "mark" =>
    \A t \in Threads : Alive(t) =>
      \/ t \in list /\ handler[t] \in Suspending
      \/ pc[t] = "left"

\* pthread_kill is only ever called with the handle of a thread that exists.
SignalsReachTheLiving == \A t \in usr1 \cup usr2 : Alive(t)

\* The resume came before pause(): t pauses for ever, and is not stopped again.
ResumeIsLost(t) == handler[t] \in Suspending /\ suspend[t] = "Running"

\* A collection ends, if no thread has lost a resume: the collector does not wait for a
\* thread that waits for it, neither for one being launched nor for one that wants
\* the lock.
CollectionEnds ==
  pc[Main] \in Collecting ~> pc[Main] = "user" \/ \E t \in Threads : ResumeIsLost(t)

\* The collector scans the stack of a stopped thread to its very end, whatever the
\* thread called since earlier collections.  Only for a thread that has announced
\* itself and not come to record its end yet this does not hold.
StacksAreCovered ==
  pc[Main] = "mark" => \A t \in list : handler[t] # "announced" => covered[t]

-------------------------------------------------------------------------------
(* What makes SignalsReachTheLiving and WorldIsStopped inductive.            *)

\* A thread is on the list from its creation on until it leaves it, and it is
\* launching exactly until its OS thread has come up.
ListInv ==
  /\ \A t \in Threads :
       /\ pc[t] \in {"starting", "user", "locked", "exit"} => t \in list
       /\ pc[t] \in {"left", "gone"} => t \notin list
       /\ pc[t] \in {"unborn", "starting"} <=> suspend[t] = "Launching"
  /\ \A a \in Everyone : creating[a] # Nobody => /\ pc[creating[a]] = "unborn"
                                                /\ creating[a] \in list
  /\ \A a, b \in Everyone : creating[a] = creating[b] /\ creating[a] # Nobody => a = b

Stopping == {"send_stop", "stop_wait"}
Resuming == {"send_resume", "resume_wait"}

\* From the first signal on, no thread on the list is launching, and those still to
\* be stopped run, those still to be resumed are suspended.
PhaseInv ==
  /\ pc[Main] \in Stopping \cup {"mark", "sweep"} \cup Resuming =>
       \A t \in list : suspend[t] # "Launching"
  /\ toSignal \subseteq list
  /\ toSignal # {} => pc[Main] \in {"send_stop", "send_resume"}
  /\ pc[Main] = "mark" => \A t \in list : suspend[t] = "Suspended"
  /\ pc[Main] = "send_resume" => \A t \in toSignal : suspend[t] = "Suspended"

\* A thread that stops, or is suspended, or has a signal coming, is on the list and
\* in the phase of the collection in which that happens.
StopInv ==
  \A t \in Threads :
    /\ handler[t] # "none" => t \in list /\ pc[t] \notin {"unborn", "starting"}
    /\ t \in usr1 \/ handler[t] = "save" =>
         /\ pc[Main] \in Stopping /\ t \in list /\ suspend[t] = "Running"
         /\ pc[Main] = "send_stop" => t \notin toSignal
    /\ t \in usr1 => handler[t] # "save"
    /\ suspend[t] = "Suspended" =>
         /\ pc[Main] \in Stopping \cup {"mark"} \cup Resuming /\ t \in list
         /\ handler[t] \in Suspending
         /\ pc[Main] = "send_stop" => t \notin toSignal
    /\ t \in usr2 =>
         /\ pc[Main] \in Resuming /\ t \in list /\ suspend[t] = "Suspended"
         /\ pc[Main] = "send_resume" => t \notin toSignal

IInv == TypeOK /\ ListInv /\ PhaseInv /\ StopInv

\* From the recording of its end until the thread runs again, nothing is called on its stack.
RecordedInv == \A t \in Threads : handler[t] \in {"recorded", "paused", "resumed"} => covered[t]

===============================================================================
