----------------------------- MODULE FiberObject -----------------------------
(***************************************************************************)
(* Fibers (src/fiber_object.cpp): which fiber of a thread runs, which ones *)
(* wait for it to come back, what they hand to each other, and what of     *)
(* their stacks the garbage collector walks.                               *)
(*                                                                         *)
(* Three records of the running fiber have to agree: m_current_fiber and   *)
(* m_start_of_stack of the thread, the chain of m_previous_fiber, and the  *)
(* coroutine that minicoro executes.  The first two change in a section    *)
(* under g_gc_recursive_mutex, the third after it: the collector may stop  *)
(* a thread in between.  Fibers hold each other through what Ruby code     *)
(* knows; that they are visited at all is taken for granted.  Refused      *)
(* calls raise a FiberError and change nothing.  Storage, scheduler and    *)
(* blocking? are left out.                                                 *)
(***************************************************************************)
EXTENDS Naturals, Sequences, SequencesExt

CONSTANTS Threads, Main,   \* a thread also stands for its main fiber
          Fibers,          \* the other fibers
          Values,          \* what resume, yield and a block hand over
          Errors,          \* exceptions that leave a block
          None

ASSUME FiberAssumption ==
  /\ Main \in Threads /\ Threads \cap Fibers = {}
  /\ None \notin Threads \cup Fibers \cup Values \cup Errors
  /\ Values \cap Errors = {}

Everyone == Threads \cup Fibers

VARIABLES
  home,       \* m_thread
  status,     \* m_status
  previous,   \* m_previous_fiber
  args,       \* m_args
  error,      \* m_error
  parked,     \* fibers whose m_end_of_stack is below all of their frames
  current,    \* m_current_fiber of a thread
  base,       \* the fiber at whose stack m_start_of_stack of a thread points
  nest,       \* coroutines of a thread that minicoro runs, the running one last
  callee,     \* this, in the frame of resume on the stack of a fiber
  result,     \* what the block of a fiber that ends has returned or raised
  pc,         \* where in the switching code a thread is
  given       \* history: what the resume, yield or end underway was given, or None

fiberVars == <<home, status, previous, args, error, parked>>
threadVars == <<current, base>>
nativeVars == <<nest, callee, result, pc>>
vars == <<fiberVars, threadVars, nativeVars, given>>

Init ==
  /\ home = [f \in Fibers |-> None]
  /\ status = [f \in Fibers |-> "Created"]
  /\ previous = [f \in Everyone |-> None]
  /\ args = [f \in Everyone |-> None]
  /\ error = [f \in Fibers |-> None]
  /\ parked = Fibers    \* at first, down to the end of the stack's memory
  /\ current = [t \in Threads |-> t]
  /\ base = [t \in Threads |-> t]
  /\ nest = [t \in Threads |-> <<t>>]
  /\ callee = [f \in Everyone |-> None]
  /\ result = [t \in Threads |-> None]
  /\ pc = [t \in Threads |-> "user"]
  /\ given = [t \in Threads |-> None]

Goto(t, label) == pc' = [pc EXCEPT ![t] = label]

\* The fiber whose frames t executes.
Running(t) == Last(nest[t])

-------------------------------------------------------------------------------
\* Fiber.new.
Initialize(t, f) ==
  /\ pc[t] = "user" /\ home[f] = None
  /\ home' = [home EXCEPT ![f] = t]
  /\ UNCHANGED <<status, previous, args, error, parked, threadVars, nativeVars, given>>

\* mutant of CanResume: a fiber that waits for another one is not refused
ResumeResuming(t, f) == home[f] = t /\ status[f] # "Terminated"
CanResume(t, f) == home[f] = t /\ status[f] # "Terminated" /\ previous[f] = None

Unparked(f) == parked    \* mutant of Park: the end of the stack is not recorded
Park(f) == parked \cup {f}

\* mutant of MakeCurrent: m_start_of_stack stays where it was
KeepBase(t, f) ==
  /\ current' = [current EXCEPT ![t] = f]
  /\ UNCHANGED base
\* What swap_to_previous and resume do to the thread.
MakeCurrent(t, f) ==
  /\ current' = [current EXCEPT ![t] = f]
  /\ base' = [base EXCEPT ![t] = f]

\* resume, up to the end of the section under the lock.
Resume(t, f, v) ==
  /\ pc[t] = "user" /\ CanResume(t, f)
  /\ previous' = [previous EXCEPT ![f] = current[t]]
  /\ callee' = [callee EXCEPT ![current[t]] = f]
  /\ args' = [args EXCEPT ![f] = v]
  /\ MakeCurrent(t, f)
  /\ parked' = Park(current[t])
  /\ Goto(t, "switch_in")
  /\ given' = [given EXCEPT ![t] = v]
  /\ UNCHANGED <<home, status, error, nest, result>>

\* mco_resume.
SwitchIn(t) ==
  /\ pc[t] = "switch_in"
  /\ LET f == callee[Running(t)]
     IN  /\ nest' = [nest EXCEPT ![t] = Append(@, f)]
         /\ parked' = parked \ {f}
         /\ Goto(t, IF status[f] = "Created" THEN "enter" ELSE "arrive")
  /\ UNCHANGED <<home, status, previous, args, error, threadVars, callee, result, given>>

\* fiber_wrapper_func: the block starts.
Enter(t) ==
  /\ pc[t] = "enter"
  /\ status' = [status EXCEPT ![Running(t)] = "Resumed"]
  /\ base' = [base EXCEPT ![t] = Running(t)]
  /\ Goto(t, "user")
  /\ given' = [given EXCEPT ![t] = None]
  /\ UNCHANGED <<home, previous, args, error, parked, current, nest, callee, result>>

\* mutant of Receiver: the values stay with the fiber that gives them
Giver(f) == f
Receiver(f) == previous[f]

SwapToPrevious(t, f, v) ==
  /\ args' = [args EXCEPT ![Receiver(f)] = v]
  /\ MakeCurrent(t, previous[f])
  /\ previous' = [previous EXCEPT ![f] = None]
  /\ Goto(t, "switch_back")

CanYield(t) == previous[current[t]] # None

\* yield, up to the end of the section.
Yield(t, v) ==
  /\ pc[t] = "user" /\ CanYield(t)
  /\ status' = [f \in Fibers |-> IF f = current[t] THEN "Suspended" ELSE status[f]]
  /\ parked' = Park(current[t])
  /\ SwapToPrevious(t, current[t], v)
  /\ given' = [given EXCEPT ![t] = v]
  /\ UNCHANGED <<home, error, nest, callee, result>>

\* The end of fiber_wrapper_func: the block has returned, or raised, r.
End(t, r) ==
  /\ pc[t] = "user" /\ Running(t) \in Fibers
  /\ error' = IF r \in Errors THEN [error EXCEPT ![Running(t)] = r] ELSE error
  /\ status' = [status EXCEPT ![Running(t)] = "Terminated"]
  /\ parked' = Park(Running(t))
  /\ result' = [result EXCEPT ![t] = r]
  /\ Goto(t, "ended")
  /\ given' = [given EXCEPT ![t] = r]
  /\ UNCHANGED <<home, previous, args, threadVars, nest, callee>>

\* An exception is not handed over: resume finds it in m_error.
SwapAtEnd(t) ==
  /\ pc[t] = "ended"
  /\ SwapToPrevious(t, Running(t), IF result[t] \in Errors THEN None ELSE result[t])
  /\ result' = [result EXCEPT ![t] = None]
  /\ UNCHANGED <<home, status, error, parked, nest, callee, given>>

\* mco_yield, and what minicoro does when the wrapper returns.
SwitchBack(t) ==
  /\ pc[t] = "switch_back"
  /\ nest' = [nest EXCEPT ![t] = Front(@)]
  /\ parked' = parked \ {Running(t)'}
  /\ Goto(t, "arrive")
  /\ UNCHANGED <<home, status, previous, args, error, threadVars, callee, result, given>>

\* Where resume and yield go on in the fiber that has got control: resume raises
\* m_error of the fiber it resumed, otherwise both return the arguments.
Received(t) ==
  LET f == Running(t)
  IN  IF callee[f] # None /\ error[callee[f]] # None THEN error[callee[f]] ELSE args[f]

Arrive(t) ==
  /\ pc[t] = "arrive"
  /\ callee' = [callee EXCEPT ![Running(t)] = None]
  /\ Goto(t, "user")
  /\ given' = [given EXCEPT ![t] = None]
  /\ UNCHANGED <<fiberVars, threadVars, nest, result>>

Next == \E t \in Threads :
  \/ SwitchIn(t) \/ Enter(t) \/ SwapAtEnd(t) \/ SwitchBack(t) \/ Arrive(t)
  \/ \E f \in Fibers : Initialize(t, f)
  \/ \E f \in Fibers, v \in Values : Resume(t, f, v)
  \/ \E v \in Values : Yield(t, v)
  \/ \E r \in Values \cup Errors : End(t, r)

Spec == Init /\ [][Next]_vars

-------------------------------------------------------------------------------
Statuses == {"Created", "Resumed", "Suspended", "Terminated"}
Labels == {"user", "switch_in", "enter", "arrive", "ended", "switch_back"}

\* Every variable holds a value the code can give it.
TypeOK ==
  /\ home \in [Fibers -> Threads \cup {None}]
  /\ status \in [Fibers -> Statuses]
  /\ previous \in [Everyone -> Everyone \cup {None}]
  /\ args \in [Everyone -> Values \cup {None}]
  /\ error \in [Fibers -> Errors \cup {None}]
  /\ parked \subseteq Everyone
  /\ current \in [Threads -> Everyone] /\ base \in [Threads -> Everyone]
  /\ nest \in [Threads -> Seq(Everyone)]
  /\ callee \in [Everyone -> Fibers \cup {None}]
  /\ result \in [Threads -> Values \cup Errors \cup {None}]
  /\ pc \in [Threads -> Labels]
  /\ given \in [Threads -> Values \cup Errors \cup {None}]

\* No stack is executed twice at a time: a fiber is in one place of one thread, and
\* minicoro is never asked to run one that runs, waits for another or has ended.
OneActivation ==
  \A t \in Threads :
    /\ IsInjective(nest[t])
    /\ pc[t] = "switch_in" =>
         LET f == callee[Running(t)]
         IN  /\ \A u \in Threads : f \notin Range(nest[u])
             /\ status[f] # "Terminated"
    /\ \A u \in Threads \ {t} : Range(nest[t]) \cap Range(nest[u]) = {}

\* What ThreadObject and FiberObject walk of the stacks when the other threads are
\* stopped: a thread, from its stack pointer to m_start_of_stack; a fiber, from
\* m_end_of_stack on, unless it is current or has ended.
WalkedByThread(t) == IF base[t] = Running(t) THEN {base[t]} ELSE {}

Home(f) == IF f \in Threads THEN f ELSE home[f]
Terminated(f) == f \in Fibers /\ status[f] = "Terminated"
WalkedByFiber(f) == f # current[Home(f)] /\ ~Terminated(f) /\ f \in parked

\* The main thread allocates, and may collect.
Collecting == pc[Main] \in {"user", "arrive"}

\* Every stack that is not the current one of its thread and will be used again, by
\* a fiber that yielded or waits in resume, is walked down to its last frame.
SleepingStacksAreWalked ==
  Collecting =>
    \A f \in Everyone :
      Home(f) # None /\ f # current[Home(f)] /\ ~Terminated(f) => WalkedByFiber(f)

\* The current stack of a thread, once it has been used, is walked by the thread,
\* unless it is stopped on its way from one stack to the other.
CurrentStackIsWalked ==
  Collecting =>
    \A t \in Threads :
      \/ pc[t] \in {"switch_in", "switch_back"}
      \/ current[t] \in Fibers /\ status[current[t]] = "Created"
      \/ current[t] \in WalkedByThread(t)

\* What a thread has called, the switch that is underway included.
Active(t) ==
  IF pc[t] = "switch_in" THEN Append(nest[t], callee[Running(t)])
  ELSE IF pc[t] \in {"ended", "switch_back"} THEN Front(nest[t]) ELSE nest[t]

\* Fibers are coroutines: control goes where resume and yield send it, and the fiber
\* that gets it receives the very value resume, yield or the block was given, or the
\* exception that has ended the fiber it resumed: what m_args and m_error hold when
\* they are read is what was passed when the switch began.
Coroutine == INSTANCE Coroutines WITH
  active <- [t \in Threads |-> Active(t)],
  over <- {f \in Fibers : Terminated(f)},
  handed <- [t \in Threads |-> IF pc[t] \in {"enter", "arrive"} THEN Received(t) ELSE None]

ImplementsCoroutines == Coroutine!Spec

-------------------------------------------------------------------------------
(* What makes OneActivation and SleepingStacksAreWalked inductive.           *)

\* The coroutines of a thread start with its main fiber, belong to it, and are linked
\* by m_previous_fiber; only the last one can have ended, and be unlinked.
Chained(t) ==
  LET s == nest[t]
  IN  /\ Len(s) > 0 /\ s[1] = t
      /\ \A i, j \in 1..Len(s) : s[i] = s[j] => i = j
      /\ \A i \in 2..Len(s) :
           /\ s[i] \in Fibers /\ home[s[i]] = t
           /\ previous[s[i]] = s[i - 1] \/ (i = Len(s) /\ pc[t] = "switch_back")
           /\ status[s[i]] = "Terminated" => i = Len(s) /\ pc[t] \in {"ended", "switch_back"}

\* Where the three records of the running fiber agree, and what a switch goes to.
Focused(t) ==
  /\ current[t] = base[t]
  /\ pc[t] \notin {"switch_in", "switch_back"} => current[t] = Running(t)
  /\ pc[t] \in {"enter", "ended"} => Running(t) \in Fibers
  /\ pc[t] = "ended" => Running(t) \in parked
  /\ pc[t] = "switch_back" =>
       /\ Len(nest[t]) > 1 /\ current[t] = nest[t][Len(nest[t]) - 1]
       /\ previous[Running(t)] = None /\ Running(t) \in parked
  /\ pc[t] = "switch_in" =>
       /\ current[t] \in Fibers /\ home[current[t]] = t /\ status[current[t]] # "Terminated"
       /\ \A i \in 1..Len(nest[t]) : nest[t][i] # current[t]
       /\ previous[current[t]] = Running(t) /\ callee[Running(t)] = current[t]
       /\ Running(t) \in parked

\* A fiber has a previous one only while it is active or about to be.
Linked(f) ==
  /\ home[f] \in Threads
  /\ \/ \E i \in 1..Len(nest[home[f]]) : nest[home[f]][i] = f
     \/ pc[home[f]] = "switch_in" /\ current[home[f]] = f

Unlinked ==
  /\ \A t \in Threads : previous[t] = None
  /\ \A f \in Fibers : previous[f] # None => Linked(f)

\* What does not run is parked.
Sleeping ==
  /\ \A t \in Threads : t # Running(t) => t \in parked
  /\ \A f \in Fibers : home[f] = None \/ f # Running(home[f]) => f \in parked

IInv == TypeOK /\ (\A t \in Threads : Chained(t) /\ Focused(t)) /\ Unlinked /\ Sleeping

-------------------------------------------------------------------------------
(* What makes ImplementsCoroutines hold step by step: who waits for whom, and *)
(* what is on its way.                                                       *)

\* Each coroutine of a thread waits in resume for the one above it, and the one on top
\* for none, unless it is about to switch or has just got control back.
Waiting(t) ==
  /\ \A i \in 2..Len(nest[t]) : callee[nest[t][i - 1]] = nest[t][i]
  /\ pc[t] \notin {"switch_in", "arrive"} => callee[Running(t)] = None

\* Who is in resume is active, and has called a fiber of its own thread.
Caller(g) ==
  callee[g] # None =>
    /\ Home(g) \in Threads /\ home[callee[g]] = Home(g)
    /\ \E i \in 1..Len(nest[Home(g)]) : nest[Home(g)][i] = g

\* A switch carries what it was given, in m_args of who gets control or in m_error of
\* the fiber that has ended.
Carrying(t) ==
  /\ pc[t] = "user" <=> given[t] = None
  /\ pc[t] = "switch_in" => args[current[t]] = given[t] /\ given[t] \in Values
  /\ pc[t] = "ended" =>
       /\ result[t] = given[t] /\ status[Running(t)] = "Terminated"
       /\ error[Running(t)] = IF result[t] \in Errors THEN result[t] ELSE None
  /\ pc[t] = "switch_back" =>
       given[t] = IF error[Running(t)] # None THEN error[Running(t)] ELSE args[current[t]]
  /\ pc[t] \in {"enter", "arrive"} => Received(t) = given[t]

ErrorsEnd == \A f \in Fibers : error[f] # None => status[f] = "Terminated"

HandOver == /\ \A t \in Threads : Waiting(t) /\ Carrying(t)
            /\ \A g \in Everyone : Caller(g)
            /\ ErrorsEnd

===============================================================================
