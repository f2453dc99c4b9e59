----------------------------- MODULE ThreadObject -----------------------------
(***************************************************************************)
(* Ruby threads as src/thread_object.cpp implements them: creation, the    *)
(* body of the OS thread, Thread#raise / #kill / #wakeup / #join, sleep,   *)
(* interrupt masks, and the checkpoints that deliver pending exceptions.   *)
(*                                                                         *)
(* Every thread is an actor.  At pc "user" it runs Ruby code and may call  *)
(* any operation Calls allows it; the other values of pc are the places    *)
(* inside the runtime where another thread may run in between.  A section  *)
(* under m_interrupt_lock takes no other lock, so it is one step; the      *)
(* section under m_sleep_lock spans steps and has its holder in sleepLock. *)
(*                                                                         *)
(* Left out: at the head of every call the allocation of the exception     *)
(* object (it may run Ruby code), logging, the wake pipe, and the mutexes  *)
(* a dead thread still holds (module MutexObject).  Ruby code is taken not *)
(* to raise the ThreadKillError it may see in $!; the cause of an ordinary *)
(* exception matters to nothing here and is not kept.                      *)
(***************************************************************************)
EXTENDS Naturals, Sequences, FiniteSets, SequencesExt

CONSTANTS Threads,      \* ThreadObjects, the main one included
          Main,         \* ThreadObject::s_main
          Exceptions,   \* exception objects Ruby code raises
          Ancestors,    \* [Exceptions -> Seq(class)], the class itself first
          Frames,       \* masks handle_interrupt may be given: class |-> timing
          Calls,        \* <<caller, operation, thread>> Ruby code may perform
          AbortOnException,  \* threads with abort_on_exception set
          MaxMasks,     \* bound: nesting of handle_interrupt blocks
          MaxHandlers,  \* bound: nesting of rescue and ensure bodies
          MaxCauses,    \* bound: causes behind a kill whose unwinding enters an ensure body
          None, ThreadError, Nobody

ASSUME MainAssumption == Main \in Threads
ASSUME NobodyAssumption == Nobody \notin Threads
ASSUME ExceptionAssumption == /\ ThreadError \in Exceptions /\ None \notin Exceptions
                              /\ Threads \cap Exceptions = {}
ASSUME BoundAssumption == MaxMasks \in Nat /\ MaxHandlers \in Nat /\ MaxCauses \in Nat

\* An exception has the ancestors of its class.
ASSUME AncestorsAssumption ==
  /\ \A e \in Exceptions : /\ Len(Ancestors[e]) \in Nat \ {0}
                           /\ DOMAIN Ancestors[e] = 1..Len(Ancestors[e])
  /\ \A e, f \in Exceptions : Ancestors[e][1] = Ancestors[f][1] => Ancestors[e] = Ancestors[f]

\* The ThreadKillError made by kill: whose death it asks for, its cause, the cause of
\* that, and so on; a thread stands for the ThreadKillError that kills it, and an
\* ordinary exception ends the chain.
KillError(t, c) == [kills |-> t, causes |-> c]
KillErrors == [kills : Threads, causes : Seq(Threads \cup Exceptions)]
IsKill(x) == x \in KillErrors

ASSUME KillAssumption == \A x \in Exceptions \cup {None} : ~IsKill(x)

VARIABLES
  process,    \* "running", or how the OS process ended
  list,       \* s_list
  status,     \* m_status
  terminal,   \* m_terminal_exception
  value,      \* is m_value set
  joined,     \* m_joined
  osJoin,     \* pthread_join on the OS thread: "free", "busy", "done"
  pending,    \* m_pending_exceptions
  masks,      \* m_interrupt_mask_stack
  wakeup,     \* m_wakeup
  sleeping,   \* m_sleeping
  sleepLock,  \* holder of m_sleep_lock
  asleep,     \* waits on m_sleep_cond, not notified
  pc,         \* where the thread is
  target,     \* the thread its current operation is about
  exc,        \* the exception object its current operation carries
  inflight,   \* the C++ exception propagating in the thread
  checkpoint, \* the place that called deliver_pending
  handlers,   \* the rescue and ensure bodies the thread is in, with $! and Len(masks)
  late        \* history: threads a kill was parked in that no longer look for one

joinVars == <<value, joined, osJoin>>
lifeVars == <<list, status, terminal, joinVars>>
interruptVars == <<pending, masks>>
sleepVars == <<wakeup, sleeping, sleepLock, asleep>>
callVars == <<target, exc, checkpoint>>
throwVars == <<inflight, handlers, late>>
vars == <<process, lifeVars, interruptVars, sleepVars, pc, callVars, throwVars>>

Statuses == {"Created", "Active", "Aborting", "Dead"}
Checkpoints == {"pass", "mask_push", "mask_pop", "pre_sleep", "post_sleep"}
Labels == {"unborn", "launch", "user", "throw", "returned", "store", "exit",
           "finish", "gone", "kill_mark", "kill_drain", "kill_park", "wakeup",
           "notify_wakeup", "raise_push", "notify", "sleep_lock", "deliver_kill",
           "deliver_queue", "sleep_check", "waiting", "join", "os_join",
           "joining", "join_mark"}

\* The step moves pc and nothing else.
OnlyPcMoves == UNCHANGED <<process, lifeVars, interruptVars, sleepVars, callVars, throwVars>>

Goto(a, label) == pc' = [pc EXCEPT ![a] = label]

\* Ruby code running in a may perform op on t.
May(a, op, t) == /\ process = "running"
                 /\ pc[a] = "user"
                 /\ pc[t] # "unborn"
                 /\ <<a, op, t>> \in Calls

\* A runtime step of a at label.
At(a, label) == process = "running" /\ pc[a] = label

\* $!: what propagates through a, or what the body a is in has caught.
ErrInfo(a) == IF inflight[a] # None THEN inflight[a]
              ELSE IF handlers[a] = <<>> THEN None ELSE Last(handlers[a]).exc

\* An exception as the cause of a kill, its own causes behind it.
Chain(x) == IF x = None THEN <<>> ELSE IF IsKill(x) THEN <<x.kills>> \o x.causes ELSE <<x>>

\* An exception without a cause gets $! for one when it is raised.
Caused(a, x) == IF IsKill(x) /\ x.causes = <<>> THEN KillError(x.kills, Chain(ErrInfo(a))) ELSE x

\* env->raise_exception: x starts to propagate in a.
Throw(a, x) == /\ inflight' = [inflight EXCEPT ![a] = Caused(a, x)]
               /\ UNCHANGED <<handlers, late>>
               /\ Goto(a, "throw")

-------------------------------------------------------------------------------
(* Interrupt timing: the innermost mask that names an ancestor decides, and *)
(* in it the most specific ancestor.                                        *)

Names(frame, e) == {k \in DOMAIN Ancestors[e] : Ancestors[e][k] \in DOMAIN frame}

First(S) == CHOOSE i \in S : \A j \in S : i <= j
OutermostFrame(S) == First(S)    \* mutant of Innermost: walks the stack upwards
Innermost(S) == CHOOSE i \in S : \A j \in S : j <= i

Timing(stack, e) ==
  LET naming == {i \in DOMAIN stack : Names(stack[i], e) # {}}
      frame == stack[Innermost(naming)]
  IN  IF naming = {} THEN "immediate" ELSE frame[Ancestors[e][First(Names(frame, e))]]

Kind(place) == IF place = "pass" THEN "NonBlocking" ELSE "Blocking"

Deliverable(stack, kind, e) ==
  \/ Timing(stack, e) = "immediate"
  \/ kind = "Blocking" /\ Timing(stack, e) = "on_blocking"

-------------------------------------------------------------------------------
(* Creation and the body of the OS thread. *)

RescueAnything(x) == TRUE    \* mutant of Rescuable: ThreadKillError is an Exception
Rescuable(x) == ~IsKill(x)

\* What the handler at the top of a thread leaves for join, value and status.
CauseOf(k) == IF k.causes = <<>> THEN None
              ELSE IF Head(k.causes) \in Exceptions THEN Head(k.causes)
              ELSE KillError(Head(k.causes), Tail(k.causes))

ForgetException(x) == IF IsKill(x) THEN CauseOf(x) ELSE None    \* mutant of Outcome
Outcome(x) == IF IsKill(x) THEN CauseOf(x) ELSE x

\* t has left its block: nothing looks for a kill in its terminal slot any more.
OutOfBlock(t) == \/ pc[t] \in {"store", "exit", "finish", "gone"}
                 \/ pc[t] \in {"raise_push", "notify"} /\ inflight[t] # None

Init ==
  /\ process = "running"
  /\ list = {Main}
  /\ status = [t \in Threads |-> IF t = Main THEN "Active" ELSE "Created"]
  /\ terminal = [t \in Threads |-> None]
  /\ value = [t \in Threads |-> FALSE]
  /\ joined = [t \in Threads |-> FALSE]
  /\ osJoin = [t \in Threads |-> "free"]
  /\ pending = [t \in Threads |-> <<>>]
  /\ masks = [t \in Threads |-> <<>>]
  /\ wakeup = [t \in Threads |-> FALSE]
  /\ sleeping = [t \in Threads |-> FALSE]
  /\ sleepLock = [t \in Threads |-> Nobody]
  /\ asleep = [t \in Threads |-> FALSE]
  /\ pc = [t \in Threads |-> IF t = Main THEN "user" ELSE "unborn"]
  /\ target = [t \in Threads |-> t]
  /\ exc = [t \in Threads |-> None]
  /\ inflight = [t \in Threads |-> None]
  /\ checkpoint = [t \in Threads |-> "pass"]
  /\ handlers = [t \in Threads |-> <<>>]
  /\ late = {}

\* Thread.new: on the list before the OS thread exists.
Initialize(a, t) ==
  /\ At(a, "user") /\ <<a, "new", t>> \in Calls
  /\ pc[t] = "unborn"
  /\ list' = list \cup {t}
  /\ Goto(t, "launch")
  /\ UNCHANGED <<process, status, terminal, joinVars, interruptVars, sleepVars, callVars, throwVars>>

\* nat_create_thread up to the call of the block.
Launch(t) ==
  /\ At(t, "launch")
  /\ status' = [status EXCEPT ![t] = "Active"]
  /\ Goto(t, "user")
  /\ UNCHANGED <<process, list, terminal, joinVars, interruptVars, sleepVars, callVars, throwVars>>

\* The block returns.
Return(t) ==
  /\ May(t, "return", t)
  /\ t # Main /\ masks[t] = <<>> /\ handlers[t] = <<>>
  /\ Goto(t, "returned")
  /\ OnlyPcMoves

\* The main program ends, or an exception leaves it: the process exits.
EndProgram(t) ==
  /\ May(t, "return", t) \/ At(t, "throw")
  /\ t = Main /\ masks[t] = <<>> /\ handlers[t] = <<>>
  /\ process' = "exited"
  /\ UNCHANGED <<lifeVars, interruptVars, sleepVars, pc, callVars, throwVars>>

KeepKill(x) == x    \* mutant of Dropped
Dropped(x) == IF IsKill(x) THEN None ELSE x
\* A kill no checkpoint delivered is dropped ...
DropUndeliveredKill(t) ==
  /\ At(t, "returned")
  /\ terminal' = [terminal EXCEPT ![t] = Dropped(@)]
  /\ Goto(t, "store")
  /\ UNCHANGED <<process, list, status, joinVars, interruptVars, sleepVars, callVars, throwVars>>

\* ... before the value is stored and pthread_exit called.
StoreValue(t) ==
  /\ At(t, "store")
  /\ value' = [value EXCEPT ![t] = TRUE]
  /\ Goto(t, "exit")
  /\ UNCHANGED <<process, list, status, terminal, joined, osJoin, interruptVars, sleepVars,
                 callVars, throwVars>>

\* Ruby code in t is outside of the handle_interrupt blocks of the body it is in.
AtBody(t) == /\ handlers[t] # <<>>
             /\ Len(masks[t]) = Last(handlers[t]).depth

EnterBody(t, kind) ==
  /\ At(t, "throw") /\ <<t, kind, t>> \in Calls
  /\ Len(handlers[t]) < MaxHandlers
  /\ handlers' = [handlers EXCEPT ![t] =
                    Append(@, [kind |-> kind, exc |-> inflight[t], depth |-> Len(masks[t])])]
  /\ inflight' = [inflight EXCEPT ![t] = None]
  /\ Goto(t, "user")
  /\ UNCHANGED <<process, lifeVars, interruptVars, sleepVars, callVars, late>>

\* Ruby code rescues the exception in flight; a ThreadKillError has no class
\* a rescue clause can name.
Rescue(t) == Rescuable(inflight[t]) /\ EnterBody(t, "rescue")

\* An ensure body runs on the way of any exception.
EnterEnsure(t) ==
  /\ IsKill(inflight[t]) => Len(inflight[t].causes) <= MaxCauses
  /\ EnterBody(t, "ensure")

LeaveHandler(t) ==
  /\ handlers' = [handlers EXCEPT ![t] = Front(@)]
  /\ UNCHANGED <<process, lifeVars, interruptVars, sleepVars, callVars, late>>

\* A rescue body comes to its end, and an ensure body: what it interrupted goes on.
EndRescue(t) ==
  /\ At(t, "user") /\ AtBody(t) /\ Last(handlers[t]).kind = "rescue"
  /\ LeaveHandler(t)
  /\ UNCHANGED <<inflight, pc>>

EndEnsure(t) ==
  /\ At(t, "user") /\ AtBody(t) /\ Last(handlers[t]).kind = "ensure"
  /\ inflight' = [inflight EXCEPT ![t] = Last(handlers[t]).exc]
  /\ Goto(t, "throw")
  /\ LeaveHandler(t)

\* return or break out of an ensure body: what it interrupted is dropped.
Jump(t) ==
  /\ May(t, "jump", t) /\ AtBody(t) /\ Last(handlers[t]).kind = "ensure"
  /\ LeaveHandler(t)
  /\ UNCHANGED <<inflight, pc>>

\* An exception leaves a body and replaces what the body has caught.
LeaveBody(t) ==
  /\ At(t, "throw") /\ AtBody(t)
  /\ LeaveHandler(t)
  /\ UNCHANGED <<inflight, pc>>

\* The exception leaves the outermost block and its outcome is parked ...
CatchTop(t) ==
  /\ At(t, "throw") /\ masks[t] = <<>> /\ handlers[t] = <<>> /\ t # Main
  /\ IsKill(inflight[t]) \/ t \notin AbortOnException
  /\ terminal' = [terminal EXCEPT ![t] = Outcome(inflight[t])]
  /\ Goto(t, "exit")
  /\ UNCHANGED <<process, list, status, joinVars, interruptVars, sleepVars, callVars, throwVars>>

\* ... and abort_on_exception raises it in the main thread as well.
CatchAndAbort(t) ==
  /\ At(t, "throw") /\ masks[t] = <<>> /\ handlers[t] = <<>> /\ t # Main
  /\ ~IsKill(inflight[t]) /\ t \in AbortOnException
  /\ terminal' = [terminal EXCEPT ![t] = Outcome(inflight[t])]
  /\ target' = [target EXCEPT ![t] = Main]
  /\ exc' = [exc EXCEPT ![t] = inflight[t]]
  /\ Goto(t, "raise_push")
  /\ UNCHANGED <<process, list, status, joinVars, interruptVars, sleepVars, checkpoint, throwVars>>

\* nat_thread_finish, run by pthread_exit.
MarkDead(t) ==
  /\ At(t, "exit")
  /\ status' = [status EXCEPT ![t] = "Dead"]
  /\ Goto(t, "finish")
  /\ UNCHANGED <<process, list, terminal, joinVars, interruptVars, sleepVars, callVars, throwVars>>

LeaveList(t) ==
  /\ At(t, "finish")
  /\ list' = list \ {t}
  /\ Goto(t, "gone")
  /\ UNCHANGED <<process, status, terminal, joinVars, interruptVars, sleepVars, callVars, throwVars>>

-------------------------------------------------------------------------------
(* deliver_pending: the kill parked in the terminal slot first, else the     *)
(* first deliverable pending exception.  A throw under m_sleep_lock unwinds  *)
(* its guard.                                                                *)

\* The rest of a call that is over, or of the exit of a dying thread.
Resume(a) == IF inflight[a] = None THEN "user" ELSE "exit"

\* mutant of AfterCheckpoint: the ensure clause swallows what passes through it
SwallowingCheckpoint(a) == IF checkpoint[a] = "pre_sleep" THEN "sleep_check" ELSE "user"

\* Where a goes on when its checkpoint delivers nothing.
AfterCheckpoint(a) ==
  CASE checkpoint[a] = "pre_sleep" -> "sleep_check"
    [] checkpoint[a] = "mask_pop" /\ inflight[a] # None -> "throw"
    [] OTHER -> "user"

EnterCheckpoint(a, place) ==
  /\ checkpoint' = [checkpoint EXCEPT ![a] = place]
  /\ Goto(a, "deliver_kill")

ReleaseIfHeld(a) ==
  sleepLock' = [sleepLock EXCEPT ![a] = IF @ = a THEN Nobody ELSE @]

TakeKill(a) ==
  /\ At(a, "deliver_kill") /\ IsKill(terminal[a])
  /\ terminal' = [terminal EXCEPT ![a] = None]
  /\ Throw(a, terminal[a])
  /\ ReleaseIfHeld(a)
  /\ UNCHANGED <<process, list, status, joinVars, interruptVars, wakeup, sleeping, asleep, callVars>>

NoKill(a) ==
  /\ At(a, "deliver_kill") /\ ~IsKill(terminal[a])
  /\ Goto(a, "deliver_queue")
  /\ OnlyPcMoves

Ready(a) == {i \in DOMAIN pending[a] :
               Deliverable(masks[a], Kind(checkpoint[a]), pending[a][i])}

DeliverLast(ready) == Innermost(ready)    \* mutant of NextDelivered: a stack
NextDelivered(ready) == First(ready)

TakePending(a) ==
  /\ At(a, "deliver_queue") /\ Ready(a) # {}
  /\ pending' = [pending EXCEPT ![a] = RemoveAt(@, NextDelivered(Ready(a)))]
  /\ Throw(a, pending[a][NextDelivered(Ready(a))])
  /\ ReleaseIfHeld(a)
  /\ UNCHANGED <<process, lifeVars, masks, wakeup, sleeping, asleep, callVars>>

NothingPending(a) ==
  /\ At(a, "deliver_queue") /\ Ready(a) = {}
  /\ Goto(a, AfterCheckpoint(a))
  /\ OnlyPcMoves

Pass(a) ==
  /\ May(a, "pass", a)
  /\ EnterCheckpoint(a, "pass")
  /\ UNCHANGED <<process, lifeVars, interruptVars, sleepVars, target, exc, throwVars>>

\* Thread.handle_interrupt: push the mask and drain; its ensure clause pops it
\* and drains again, also when an exception passes through.
PushMask(a, frame) ==
  /\ May(a, "mask", a)
  /\ Len(masks[a]) < MaxMasks
  /\ masks' = [masks EXCEPT ![a] = Append(@, frame)]
  /\ EnterCheckpoint(a, "mask_push")
  /\ UNCHANGED <<process, lifeVars, pending, sleepVars, target, exc, throwVars>>

PopMask(a) ==
  /\ At(a, "user") \/ At(a, "throw")
  /\ masks[a] # <<>> /\ ~AtBody(a)
  /\ masks' = [masks EXCEPT ![a] = Front(@)]
  /\ EnterCheckpoint(a, "mask_pop")
  /\ UNCHANGED <<process, lifeVars, pending, sleepVars, target, exc, throwVars>>

-------------------------------------------------------------------------------
(* Thread#kill, #wakeup, #raise. *)

\* A dead target: nothing to do.
Kill(a, t) ==
  /\ May(a, "kill", t)
  /\ t # Main /\ status[t] # "Dead"
  /\ target' = [target EXCEPT ![a] = t]
  /\ Goto(a, "kill_mark")
  /\ UNCHANGED <<process, lifeVars, interruptVars, sleepVars, exc, checkpoint, throwVars>>

\* Killing the main thread is exit(0).
KillMain(a) ==
  /\ May(a, "kill", Main)
  /\ process' = "exited"
  /\ UNCHANGED <<lifeVars, interruptVars, sleepVars, pc, callVars, throwVars>>

\* After wait_until_running; the status read by Kill may be stale here.
KillMark(a) ==
  /\ At(a, "kill_mark")
  /\ status[target[a]] # "Created"
  /\ status' = [status EXCEPT ![target[a]] = "Aborting"]
  /\ Goto(a, "kill_drain")
  /\ UNCHANGED <<process, list, terminal, joinVars, interruptVars, sleepVars, callVars, throwVars>>

\* The last pending exception becomes the cause, the queue is cleared; then a
\* thread that kills itself throws, another one parks the kill.
KillOf(t) == KillError(t, IF pending[t] = <<>> THEN <<>> ELSE <<Last(pending[t])>>)

KillSelf(a) ==
  /\ At(a, "kill_drain") /\ target[a] = a
  /\ pending' = [pending EXCEPT ![a] = <<>>]
  /\ Throw(a, KillOf(a))
  /\ UNCHANGED <<process, lifeVars, masks, sleepVars, callVars>>

KillDrain(a) ==
  /\ At(a, "kill_drain") /\ target[a] # a
  /\ pending' = [pending EXCEPT ![target[a]] = <<>>]
  /\ exc' = [exc EXCEPT ![a] = KillOf(target[a])]
  /\ Goto(a, "kill_park")
  /\ UNCHANGED <<process, lifeVars, masks, sleepVars, target, checkpoint, throwVars>>

KillPark(a) ==
  /\ At(a, "kill_park")
  /\ terminal' = [terminal EXCEPT ![target[a]] = exc[a]]
  /\ late' = IF OutOfBlock(target[a]) THEN late \cup {target[a]} ELSE late
  /\ Goto(a, "wakeup")
  /\ UNCHANGED <<process, list, status, joinVars, interruptVars, sleepVars, callVars, inflight, handlers>>

NoLock(t) == TRUE    \* mutant of SleepLockFree: notify without the lock
SleepLockFree(t) == sleepLock[t] = Nobody

Wakeup(a, t) ==
  /\ May(a, "wakeup", t)
  /\ target' = [target EXCEPT ![a] = t]
  /\ Goto(a, "wakeup")
  /\ UNCHANGED <<process, lifeVars, interruptVars, sleepVars, exc, checkpoint, throwVars>>

\* wakeup of a dead thread raises; this may hit Thread#kill as well.
WakeupDead(a) ==
  /\ At(a, "wakeup")
  /\ status[target[a]] = "Dead"
  /\ Throw(a, ThreadError)
  /\ UNCHANGED <<process, lifeVars, interruptVars, sleepVars, callVars>>

WakeupAlive(a) ==
  /\ At(a, "wakeup")
  /\ status[target[a]] \notin {"Created", "Dead"}
  /\ Goto(a, "notify_wakeup")
  /\ OnlyPcMoves

\* Under m_sleep_lock: m_wakeup = true, then notify_one.
NotifyWakeup(a) ==
  /\ At(a, "notify_wakeup")
  /\ SleepLockFree(target[a])
  /\ wakeup' = [wakeup EXCEPT ![target[a]] = TRUE]
  /\ asleep' = [asleep EXCEPT ![target[a]] = FALSE]
  /\ Goto(a, Resume(a))
  /\ UNCHANGED <<process, lifeVars, interruptVars, sleeping, sleepLock, callVars, throwVars>>

\* On itself a thread throws at once unless its mask defers the exception.
RaiseNow(a, e) ==
  /\ May(a, "raise", a)
  /\ Timing(masks[a], e) = "immediate"
  /\ Throw(a, e)
  /\ UNCHANGED <<process, lifeVars, interruptVars, sleepVars, callVars>>

RaiseDeferred(a, e) ==
  /\ May(a, "raise", a)
  /\ Timing(masks[a], e) # "immediate"
  /\ pending' = [pending EXCEPT ![a] = Append(@, e)]
  /\ UNCHANGED <<process, lifeVars, masks, sleepVars, pc, callVars, throwVars>>

\* raise on a dead thread does nothing.
Raise(a, t, e) ==
  /\ May(a, "raise", t) /\ a # t
  /\ status[t] # "Dead"
  /\ target' = [target EXCEPT ![a] = t]
  /\ exc' = [exc EXCEPT ![a] = e]
  /\ Goto(a, "raise_push")
  /\ UNCHANGED <<process, lifeVars, interruptVars, sleepVars, checkpoint, throwVars>>

RaisePush(a) ==
  /\ At(a, "raise_push")
  /\ pending' = [pending EXCEPT ![target[a]] = Append(@, exc[a])]
  /\ Goto(a, "notify")
  /\ UNCHANGED <<process, lifeVars, masks, sleepVars, callVars, throwVars>>

\* Under m_sleep_lock: notify_one, m_wakeup stays.
Notify(a) ==
  /\ At(a, "notify")
  /\ SleepLockFree(target[a])
  /\ asleep' = [asleep EXCEPT ![target[a]] = FALSE]
  /\ Goto(a, Resume(a))
  /\ UNCHANGED <<process, lifeVars, interruptVars, wakeup, sleeping, sleepLock, callVars, throwVars>>

-------------------------------------------------------------------------------
(* Kernel#sleep, Thread.stop and the sleep inside Mutex#sleep. *)

Sleep(a) ==
  /\ May(a, "sleep", a)
  /\ wakeup' = [wakeup EXCEPT ![a] = FALSE]
  /\ Goto(a, "sleep_lock")
  /\ UNCHANGED <<process, lifeVars, interruptVars, sleeping, sleepLock, asleep, callVars, throwVars>>

LockSleep(a) ==
  /\ At(a, "sleep_lock")
  /\ SleepLockFree(a)
  /\ sleepLock' = [sleepLock EXCEPT ![a] = a]
  /\ EnterCheckpoint(a, "pre_sleep")
  /\ UNCHANGED <<process, lifeVars, interruptVars, wakeup, sleeping, asleep, target, exc, throwVars>>

\* Still under m_sleep_lock: skip the wait, or wait and release the lock.
SkipWait(a) ==
  /\ At(a, "sleep_check")
  /\ wakeup[a]
  /\ wakeup' = [wakeup EXCEPT ![a] = FALSE]
  /\ sleepLock' = [sleepLock EXCEPT ![a] = Nobody]
  /\ EnterCheckpoint(a, "post_sleep")
  /\ UNCHANGED <<process, lifeVars, interruptVars, sleeping, asleep, target, exc, throwVars>>

StartWait(a) ==
  /\ At(a, "sleep_check")
  /\ ~wakeup[a]
  /\ sleeping' = [sleeping EXCEPT ![a] = TRUE]
  /\ asleep' = [asleep EXCEPT ![a] = TRUE]
  /\ sleepLock' = [sleepLock EXCEPT ![a] = Nobody]
  /\ Goto(a, "waiting")
  /\ UNCHANGED <<process, lifeVars, interruptVars, wakeup, callVars, throwVars>>

\* wait_for times out, or the condition variable wakes up spuriously.
EndWaitUnnotified(a) ==
  /\ At(a, "waiting") /\ asleep[a]
  /\ asleep' = [asleep EXCEPT ![a] = FALSE]
  /\ UNCHANGED <<process, lifeVars, interruptVars, wakeup, sleeping, sleepLock, pc, callVars, throwVars>>

\* Notified: take m_sleep_lock back, reset both flags, release it.
EndWait(a) ==
  /\ At(a, "waiting") /\ ~asleep[a]
  /\ SleepLockFree(a)
  /\ sleeping' = [sleeping EXCEPT ![a] = FALSE]
  /\ wakeup' = [wakeup EXCEPT ![a] = FALSE]
  /\ EnterCheckpoint(a, "post_sleep")
  /\ UNCHANGED <<process, lifeVars, interruptVars, sleepLock, asleep, target, exc, throwVars>>

-------------------------------------------------------------------------------
(* Thread#join (and #value, which joins first). *)

Join(a, t) ==
  /\ May(a, "join", t)
  /\ t \notin {a, Main}
  /\ target' = [target EXCEPT ![a] = t]
  /\ Goto(a, "join")
  /\ UNCHANGED <<process, lifeVars, interruptVars, sleepVars, exc, checkpoint, throwVars>>

JoinRefused(a, t) ==
  /\ May(a, "join", t)
  /\ t \in {a, Main}
  /\ Throw(a, ThreadError)
  /\ UNCHANGED <<process, lifeVars, interruptVars, sleepVars, callVars>>

CheckJoined(a) ==
  /\ At(a, "join")
  /\ status[target[a]] # "Created"
  /\ Goto(a, IF joined[target[a]] THEN "user" ELSE "os_join")
  /\ OnlyPcMoves

\* pthread_join.  EINVAL when another thread joins already, or has: go on.
\* EDEADLK when two threads join each other: abort().
OsJoin(a) ==
  /\ At(a, "os_join")
  /\ osJoin[target[a]] = "free"
  /\ pc[target[a]] = "joining" => target[target[a]] # a
  /\ osJoin' = [osJoin EXCEPT ![target[a]] = "busy"]
  /\ Goto(a, "joining")
  /\ UNCHANGED <<process, list, status, terminal, value, joined, interruptVars, sleepVars, callVars, throwVars>>

OsJoinInvalid(a) ==
  /\ At(a, "os_join")
  /\ osJoin[target[a]] # "free"
  /\ Goto(a, "join_mark")
  /\ OnlyPcMoves

OsJoinDeadlock(a) ==
  /\ At(a, "os_join")
  /\ osJoin[target[a]] = "free"
  /\ pc[target[a]] = "joining" /\ target[target[a]] = a
  /\ process' = "aborted"
  /\ UNCHANGED <<lifeVars, interruptVars, sleepVars, pc, callVars, throwVars>>

OsJoined(a) ==
  /\ At(a, "joining")
  /\ pc[target[a]] = "gone"
  /\ osJoin' = [osJoin EXCEPT ![target[a]] = "done"]
  /\ Goto(a, "join_mark")
  /\ UNCHANGED <<process, list, status, terminal, value, joined, interruptVars, sleepVars, callVars, throwVars>>

\* m_joined is set and the exception parked in t, if any, raised in a: the same object.
JoinReturns(a) ==
  /\ At(a, "join_mark")
  /\ terminal[target[a]] = None
  /\ joined' = [joined EXCEPT ![target[a]] = TRUE]
  /\ Goto(a, "user")
  /\ UNCHANGED <<process, list, status, terminal, value, osJoin, interruptVars, sleepVars, callVars, throwVars>>

JoinRaises(a) ==
  /\ At(a, "join_mark")
  /\ terminal[target[a]] # None
  /\ joined' = [joined EXCEPT ![target[a]] = TRUE]
  /\ Throw(a, terminal[target[a]])
  /\ terminal' = [terminal EXCEPT ![target[a]] = Caused(a, @)]
  /\ UNCHANGED <<process, list, status, value, osJoin, interruptVars, sleepVars, callVars>>

-------------------------------------------------------------------------------
\* What Ruby code decides to do next: never forced to happen.  Bound: it raises
\* no exception object that is pending on the same thread already.
RubyCode(a) ==
  \/ Return(a) \/ Pass(a) \/ Sleep(a) \/ KillMain(a)
  \/ EndRescue(a) \/ EndEnsure(a) \/ Jump(a)
  \/ PopMask(a) /\ pc[a] = "user"
  \/ EndProgram(a) /\ pc[a] = "user"
  \/ \E frame \in Frames : PushMask(a, frame)
  \/ \E e \in Exceptions \ ({ThreadError} \cup Range(pending[a])) :
       RaiseNow(a, e) \/ RaiseDeferred(a, e)
  \/ \E t \in Threads :
       \/ Initialize(a, t) \/ Kill(a, t) \/ Wakeup(a, t) \/ Join(a, t) \/ JoinRefused(a, t)
       \/ \E e \in Exceptions \ ({ThreadError} \cup Range(pending[t])) : Raise(a, t, e)

\* What becomes of an exception in flight.
Unwind(a) ==
  \/ Rescue(a) \/ EnterEnsure(a) \/ LeaveBody(a) \/ CatchTop(a) \/ CatchAndAbort(a)
  \/ PopMask(a) /\ pc[a] = "throw"
  \/ EndProgram(a) /\ pc[a] = "throw"

\* What the runtime does once it is called.
Runtime(a) ==
  \/ Launch(a) \/ DropUndeliveredKill(a) \/ StoreValue(a) \/ MarkDead(a) \/ LeaveList(a)
  \/ TakeKill(a) \/ NoKill(a) \/ TakePending(a) \/ NothingPending(a)
  \/ KillMark(a) \/ KillSelf(a) \/ KillDrain(a) \/ KillPark(a)
  \/ WakeupDead(a) \/ WakeupAlive(a) \/ NotifyWakeup(a) \/ RaisePush(a) \/ Notify(a)
  \/ LockSleep(a) \/ SkipWait(a) \/ StartWait(a) \/ EndWait(a)
  \/ CheckJoined(a) \/ OsJoin(a) \/ OsJoinInvalid(a) \/ OsJoinDeadlock(a) \/ OsJoined(a)
  \/ JoinReturns(a) \/ JoinRaises(a)

Next == \E a \in Threads : RubyCode(a) \/ Unwind(a) \/ Runtime(a) \/ EndWaitUnnotified(a)

Spec == Init /\ [][Next]_vars

\* The OS schedules every thread, and an exception in flight is handled.
Fairness == \A a \in Threads : WF_vars(Runtime(a)) /\ WF_vars(Unwind(a))

FairSpec == Spec /\ Fairness

-------------------------------------------------------------------------------
\* Threads between taking m_sleep_lock in sleep and waiting, or leaving by a throw.
InSleepSection(t) ==
  \/ pc[t] \in {"deliver_kill", "deliver_queue"} /\ checkpoint[t] = "pre_sleep"
  \/ pc[t] = "sleep_check"

\* The rescue and ensure bodies.
Bodies == [kind : {"rescue", "ensure"}, exc : Exceptions \cup KillErrors, depth : Nat]

\* Every variable holds a value the code can give it; m_sleep_lock is held by its
\* own thread, exactly in the section of sleep that needs it.
TypeOK ==
  /\ process \in {"running", "exited", "aborted"}
  /\ list \subseteq Threads
  /\ status \in [Threads -> Statuses]
  /\ terminal \in [Threads -> Exceptions \cup KillErrors \cup {None}]
  /\ value \in [Threads -> BOOLEAN]
  /\ joined \in [Threads -> BOOLEAN]
  /\ osJoin \in [Threads -> {"free", "busy", "done"}]
  /\ pending \in [Threads -> Seq(Exceptions)]
  /\ masks \in [Threads -> Seq(Frames)]
  /\ wakeup \in [Threads -> BOOLEAN]
  /\ sleeping \in [Threads -> BOOLEAN]
  /\ sleepLock = [t \in Threads |-> IF InSleepSection(t) THEN t ELSE Nobody]
  /\ asleep \in [Threads -> BOOLEAN]
  /\ pc \in [Threads -> Labels]
  /\ target \in [Threads -> Threads]
  /\ exc \in [Threads -> Exceptions \cup KillErrors \cup {None}]
  /\ inflight \in [Threads -> Exceptions \cup KillErrors \cup {None}]
  /\ checkpoint \in [Threads -> Checkpoints]
  /\ handlers \in [Threads -> Seq(Bodies)]
  /\ late \subseteq Threads

\* A blocking checkpoint of t would throw.
Interruptible(t) ==
  \/ IsKill(terminal[t])
  \/ \E i \in DOMAIN pending[t] : Deliverable(masks[t], "Blocking", pending[t][i])

Notifying == {"wakeup", "notify_wakeup", "notify"}

NotifierComing(t) == \E a \in Threads : target[a] = t /\ pc[a] \in Notifying

\* No lost wakeup: a thread waits on m_sleep_cond with a kill or a deliverable
\* exception posted to it only while the poster still has to notify it.  This is
\* why sleep drains under m_sleep_lock and raise notifies under it.
NoLostInterrupt ==
  \A t \in Threads : pc[t] = "waiting" /\ asleep[t] /\ Interruptible(t) => NotifierComing(t)

\* The strengthening that makes NoLostInterrupt inductive: an operation carries
\* the exception its next step needs, a dead thread has left its code, and the
\* wait is protected from the first drain under m_sleep_lock on.
CarriesException ==
  \A a \in Threads :
    /\ pc[a] = "raise_push" => exc[a] \in Exceptions
    /\ pc[a] = "kill_park" => exc[a] \in KillErrors /\ exc[a].kills = target[a]
    /\ pc[a] = "throw" => inflight[a] # None

DeadHasLeft == \A t \in Threads : status[t] = "Dead" => pc[t] \in {"finish", "gone"}

Protected(t) ==
  /\ pc[t] = "sleep_check" \/ (pc[t] = "waiting" /\ asleep[t]) =>
       (Interruptible(t) => NotifierComing(t))
  /\ pc[t] = "deliver_queue" /\ checkpoint[t] = "pre_sleep" =>
       (IsKill(terminal[t]) => NotifierComing(t))

WaitProtected == \A t \in Threads : Protected(t)

IInv == TypeOK /\ CarriesException /\ DeadHasLeft /\ WaitProtected

\* A thread asleep when an interrupt is posted does not stay asleep: raise and
\* kill get a thread out of an untimed sleep without any further call.
InterruptEndsSleep ==
  \A t \in Threads : pc[t] = "waiting" /\ Interruptible(t)
                       ~> pc[t] # "waiting" \/ process # "running"

\* An exception that the innermost handle_interrupt block declares :never for
\* its very class is not delivered inside that block.
NeverIsHonoured ==
  [][\A t \in Threads : At(t, "deliver_queue") /\ pending'[t] # pending[t] /\ pc'[t] = "throw" =>
        ~ /\ masks[t] # <<>>
          /\ Ancestors[inflight'[t]][1] \in DOMAIN Last(masks[t])
          /\ Last(masks[t])[Ancestors[inflight'[t]][1]] = "never"]_vars

\* A thread killed while it sleeps dies, whatever masks it holds: the kill
\* unwinds every handle_interrupt block and no rescue stops it.
KilledSleeperDies ==
  \A t \in Threads : pc[t] = "waiting" /\ IsKill(terminal[t])
                       ~> pc[t] = "gone" \/ process # "running"

\* Thread#join goes past the OS-level join only when the thread is gone, with a
\* value stored, an exception parked, or a kill thrown to explain its absence.
JoinSeesOutcome ==
  \A a \in Threads : pc[a] = "join_mark" /\ process = "running" =>
     LET t == target[a]
     IN  pc[t] = "gone" /\ (value[t] \/ terminal[t] # None \/ IsKill(inflight[t]))

SameException(x, y) == x = y \/ (IsKill(x) /\ IsKill(y) /\ x.kills = y.kills)

\* What a thread that has left its block keeps for join and value is what ended it:
\* nothing if it returned, the exception, or what was behind the kill.  A kill parked for
\* it before is gone; one that comes later is that kill of this thread, and in its place.
JoinRaisesWhatEnded ==
  \A t \in Threads : OutOfBlock(t) =>
     \/ SameException(terminal[t], Outcome(inflight[t]))
     \/ t \in late /\ IsKill(terminal[t]) /\ terminal[t].kills = t

\* raise, kill and the checkpoints implement a mailbox per thread: every post is
\* taken at most once, one class in order of posting, and only by a thread awake.
Mailbox == INSTANCE InterruptMailbox WITH
  Class <- [e \in Exceptions |-> Ancestors[e][1]],
  mailbox <- pending,
  doomed <- [t \in Threads |-> IsKill(terminal[t])]

ImplementsMailbox == Mailbox!Spec

\* A kill propagates in t, or waits for an ensure body it runs to end.
Dying(t) ==
  \/ IsKill(inflight[t])
  \/ \E i \in DOMAIN handlers[t] : handlers[t][i].kind = "ensure" /\ IsKill(handlers[t][i].exc)

\* A kill is not rescued: it goes on, ensure bodies and masks notwithstanding, unless
\* another exception takes its place or Ruby code jumps out of an ensure body it runs.
KillIsNotRescued ==
  [][\A t \in Threads : Dying(t) => Dying(t)' \/ inflight'[t] # None \/ Jump(t)]_vars

-------------------------------------------------------------------------------
(* What makes the properties inductive, and the programs they hold of.       *)

\* What propagates in a thread stays with it while it unwinds and, if it has left the
\* outermost block, while the thread ends.
Unwinds(t) ==
  /\ inflight[t] # None =>
       pc[t] \in {"throw", "deliver_kill", "deliver_queue", "raise_push", "notify",
                  "exit", "finish", "gone"}
  /\ inflight[t] # None /\ pc[t] \in {"deliver_kill", "deliver_queue"} => checkpoint[t] = "mask_pop"

InFlightUnwinds == \A t \in Threads : Unwinds(t)

\* A thread is to be notified on m_sleep_cond in its wait only.
SleepsInWait(t) == asleep[t] => pc[t] = "waiting"

AsleepWaits == \A t \in Threads : SleepsInWait(t)

HasOutcome(t) == value[t] \/ terminal[t] # None \/ IsKill(inflight[t])

\* A thread that has left its block, by whatever way, leaves an outcome.
LeavesOutcome(t) ==
  /\ pc[t] \in {"exit", "finish", "gone"} => HasOutcome(t)
  /\ pc[t] \in {"raise_push", "notify"} /\ inflight[t] # None => terminal[t] # None

OutcomeIsLeft == \A t \in Threads : LeavesOutcome(t)

FlowInv == InFlightUnwinds /\ AsleepWaits /\ OutcomeIsLeft

\* Programs in which no two threads join the same one.
OneJoiner ==
  \A a, b, t \in Threads : {<<a, "join", t>>, <<b, "join", t>>} \subseteq Calls => a = b

Joining == {"join", "os_join", "joining", "join_mark"}

\* The OS thread is taken by the thread that joins it, or has been joined.
JoinIsFirst ==
  /\ \A a \in Threads :
       /\ pc[a] \in Joining => <<a, "join", target[a]>> \in Calls
       /\ pc[a] = "os_join" => osJoin[target[a]] = "free"
       /\ pc[a] = "join_mark" => pc[target[a]] = "gone"
  /\ \A t \in Threads : osJoin[t] # "free" =>
       joined[t] \/ \E a \in Threads : target[a] = t /\ pc[a] \in {"joining", "join_mark"}

\* Inside its block the terminal slot of a thread holds nothing but a kill.
KillsInBlock ==
  \A t \in Threads : ~OutOfBlock(t) => terminal[t] = None \/ IsKill(terminal[t])

===============================================================================
