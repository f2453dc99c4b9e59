-------------------------- MODULE FiberObject_proofs --------------------------
(***************************************************************************)
(* For any number of threads and fibers: no stack is executed twice at a   *)
(* time, every stack that sleeps or is in use is walked by the collector,  *)
(* and the fibers implement the coroutines of module Coroutines.           *)
(***************************************************************************)
EXTENDS FiberObject, TLAPS

-------------------------------------------------------------------------------
(* Sequences. *)

\* The running coroutine is the last of its thread's.
LEMMA LastOf ==
  ASSUME NEW S, NEW s \in Seq(S), Len(s) > 0
  PROVE Last(s) = s[Len(s)] /\ Last(s) \in S
BY DEF Last

\* Going back takes the last coroutine off and leaves the others where they are.
LEMMA FrontOf ==
  ASSUME NEW S, NEW s \in Seq(S), Len(s) > 1
  PROVE /\ Front(s) \in Seq(S) /\ Len(Front(s)) = Len(s) - 1
        /\ \A i \in 1..(Len(s) - 1) : Front(s)[i] = s[i]
BY DEF Front

-------------------------------------------------------------------------------
(* The inductive invariant, by the conjuncts a step can disturb. *)

\* Where a thread is, everything it runs is its own.
LEMMA OfThread ==
  ASSUME IInv, NEW t \in Threads
  PROVE /\ Len(nest[t]) \in Nat /\ Len(nest[t]) > 0
        /\ Running(t) = nest[t][Len(nest[t])]
        /\ \A i \in 1..Len(nest[t]) : nest[t][i] \in Everyone /\ Home(nest[t][i]) = t
        /\ Running(t) \in Everyone /\ Home(Running(t)) = t
        /\ Running(t) \in Fibers => Len(nest[t]) > 1
        /\ current[t] \in Everyone /\ Home(current[t]) = t
<1>1. Len(nest[t]) \in Nat /\ Len(nest[t]) > 0 /\ nest[t] \in Seq(Everyone)
  BY DEF IInv, TypeOK, Chained
<1>2. Running(t) = nest[t][Len(nest[t])] /\ Running(t) \in Everyone
  BY <1>1, LastOf DEF Running
<1>3. \A i \in 1..Len(nest[t]) : nest[t][i] \in Everyone /\ Home(nest[t][i]) = t
  <2> SUFFICES ASSUME NEW i \in 1..Len(nest[t])
               PROVE nest[t][i] \in Everyone /\ Home(nest[t][i]) = t
    OBVIOUS
  <2>1. CASE i = 1
    BY <1>1, <2>1 DEF IInv, Chained, Home, Everyone
  <2>2. CASE i # 1
    <3>1. i \in 2..Len(nest[t])
      BY <1>1, <2>2
    <3>2. nest[t][i] \in Fibers /\ home[nest[t][i]] = t
      BY <3>1 DEF IInv, Chained
    <3> QED BY <3>2, FiberAssumption DEF Home, Everyone
  <2> QED BY <2>1, <2>2
<1>4. Running(t) \in Fibers => Len(nest[t]) > 1
  <2>1. CASE Len(nest[t]) = 1
    BY <2>1, <1>2, FiberAssumption DEF IInv, Chained
  <2>2. Len(nest[t]) \in Nat /\ Len(nest[t]) > 0
    BY <1>1
  <2>3. \A n \in Nat : n > 0 => n = 1 \/ n > 1
    OBVIOUS
  <2> QED BY <2>1, <2>2, <2>3
<1>5. Home(Running(t)) = t
  BY <1>1, <1>2, <1>3
<1>6. current[t] \in Everyone /\ Home(current[t]) = t
  <2>1. CASE pc[t] \notin {"switch_in", "switch_back"}
    BY <2>1, <1>2, <1>5 DEF IInv, Focused
  <2>2. CASE pc[t] = "switch_in"
    BY <2>2, FiberAssumption DEF IInv, Focused, Home, Everyone
  <2>3. CASE pc[t] = "switch_back"
    <3>1. Len(nest[t]) - 1 \in 1..Len(nest[t]) /\ current[t] = nest[t][Len(nest[t]) - 1]
      BY <1>1, <2>3 DEF IInv, Focused
    <3> QED BY <3>1, <1>3
  <2> QED BY <2>1, <2>2, <2>3
<1> QED BY <1>1, <1>2, <1>3, <1>4, <1>5, <1>6

\* A fiber that gives control back is the last of its thread and was resumed by the
\* one before it.
LEMMA Returning ==
  ASSUME IInv, NEW t \in Threads, pc[t] \in {"user", "ended"}, Running(t) \in Fibers
  PROVE /\ current[t] = Running(t) /\ home[Running(t)] = t /\ Len(nest[t]) > 1
        /\ previous[Running(t)] = nest[t][Len(nest[t]) - 1]
        /\ previous[Running(t)] \in Everyone /\ Home(previous[Running(t)]) = t
<1>1. current[t] = Running(t) /\ Len(nest[t]) > 1
  BY OfThread DEF IInv, Focused
<1>2. Len(nest[t]) \in 2..Len(nest[t]) /\ Len(nest[t]) - 1 \in 1..Len(nest[t])
  BY <1>1, OfThread
<1>3. home[Running(t)] = t /\ previous[Running(t)] = nest[t][Len(nest[t]) - 1]
  BY <1>2, OfThread DEF IInv, Chained
<1> QED BY <1>1, <1>2, <1>3, OfThread

\* What a step leaves alone of another thread.
OthersAlone(t) ==
  /\ \A u \in Threads \ {t} : /\ nest'[u] = nest[u] /\ pc'[u] = pc[u]
                              /\ current'[u] = current[u] /\ base'[u] = base[u]
  /\ \A g \in Fibers : home[g] \in Threads \ {t} =>
       home'[g] = home[g] /\ status'[g] = status[g]
  /\ \A g \in Everyone : Home(g) # t => /\ previous'[g] = previous[g] /\ callee'[g] = callee[g]
                                        /\ g \in parked <=> g \in parked'

\* A step of one thread keeps what the invariant says of another.
LEMMA OthersKeep ==
  ASSUME IInv, NEW t \in Threads, NEW u \in Threads, u # t, OthersAlone(t)
  PROVE Chained(u)' /\ Focused(u)'
<1>1. /\ nest'[u] = nest[u] /\ pc'[u] = pc[u] /\ current'[u] = current[u] /\ base'[u] = base[u]
      /\ Running(u)' = Running(u)
  BY DEF OthersAlone, Running
<1>2. \A g \in Everyone : Home(g) = u =>
        previous'[g] = previous[g] /\ callee'[g] = callee[g] /\ (g \in parked <=> g \in parked')
  BY DEF OthersAlone
<1>3. \A g \in Fibers : home[g] = u => home'[g] = u /\ status'[g] = status[g] /\ Home(g) = u
  BY FiberAssumption DEF OthersAlone, Home
<1>4. Chained(u)'
  BY <1>1, <1>2, <1>3, OfThread DEF IInv, Chained, Everyone
<1>5. Focused(u)'
  <2>1. pc[u] = "switch_in" => current[u] \in Fibers /\ home[current[u]] = u
    BY DEF IInv, Focused
  <2> QED BY <2>1, <1>1, <1>2, <1>3, OfThread DEF IInv, Focused, Everyone
<1> QED BY <1>4, <1>5

\* A new fiber is linked to nothing.
LEMMA InitializePreserves ==
  ASSUME IInv, NEW t \in Threads, NEW f \in Fibers, Initialize(t, f)
  PROVE IInv'
<1> USE DEF Initialize, fiberVars, threadVars, nativeVars
<1>t. TypeOK'
  BY OfThread, Returning DEF IInv, TypeOK, Everyone, Statuses, Labels
<1>o. OthersAlone(t)
  BY OfThread, Returning, FiberAssumption DEF IInv, TypeOK, OthersAlone, Home, Everyone
<1>c. Chained(t)'
  BY OfThread, Returning DEF IInv, TypeOK, Chained, Focused, Unlinked, Linked, Running, Everyone
<1>f. Focused(t)'
  BY OfThread, Returning DEF IInv, TypeOK, Chained, Focused, Unlinked, Running, Everyone
<1>u. Unlinked'
  BY OfThread, Returning, FiberAssumption DEF IInv, TypeOK, Unlinked, Linked, Chained, Focused, Home, Everyone
<1>s. Sleeping'
  BY OfThread, Returning, FiberAssumption DEF IInv, TypeOK, Sleeping, Running, Home, Everyone
<1> QED BY <1>t, <1>o, <1>c, <1>f, <1>u, <1>s, OthersKeep DEF IInv

\* The resumed fiber was nowhere: what is linked behind another has a previous fiber.
LEMMA ResumePreserves ==
  ASSUME IInv, NEW t \in Threads, NEW f \in Fibers, NEW v \in Values, Resume(t, f, v)
  PROVE IInv'
<1> USE DEF Resume, CanResume, MakeCurrent, Park, Goto, fiberVars, threadVars, nativeVars
<1>1. \A i \in 1..Len(nest[t]) : nest[t][i] # f
  <2> SUFFICES ASSUME NEW i \in 1..Len(nest[t]) PROVE nest[t][i] # f
    OBVIOUS
  <2>1. CASE i = 1
    BY <2>1, FiberAssumption DEF IInv, Chained
  <2>2. CASE i # 1
    <3>1. i \in 2..Len(nest[t]) /\ i - 1 \in 1..Len(nest[t])
      BY <2>2, OfThread
    <3>2. previous[nest[t][i]] = nest[t][i - 1] /\ nest[t][i - 1] \in Everyone
      BY <3>1, OfThread DEF IInv, Chained
    <3> QED BY <3>2, FiberAssumption DEF Everyone
  <2> QED BY <2>1, <2>2
<1>2. current[t] = Running(t) /\ Running(t)' = Running(t) /\ Running(t) \in Everyone
  BY OfThread DEF IInv, Focused, Running
<1>t. TypeOK'
  BY OfThread, Returning DEF IInv, TypeOK, Everyone, Statuses, Labels
<1>o. OthersAlone(t)
  BY OfThread, Returning, FiberAssumption DEF IInv, TypeOK, OthersAlone, Home, Everyone
<1>c. Chained(t)'
  BY <1>1, OfThread DEF IInv, TypeOK, Chained, Everyone
<1>f. Focused(t)'
  BY <1>1, <1>2, OfThread DEF IInv, TypeOK, Focused, Everyone
<1>u. Unlinked'
  BY OfThread, Returning, FiberAssumption DEF IInv, TypeOK, Unlinked, Linked, Chained, Focused, Home, Everyone
<1>s. Sleeping'
  BY OfThread, Returning, FiberAssumption DEF IInv, TypeOK, Sleeping, Running, Home, Everyone
<1> QED BY <1>t, <1>o, <1>c, <1>f, <1>u, <1>s, OthersKeep DEF IInv

\* minicoro runs the fiber that the thread already calls current.
LEMMA SwitchInPreserves ==
  ASSUME IInv, NEW t \in Threads, SwitchIn(t)
  PROVE IInv'
<1> USE DEF SwitchIn, Goto, fiberVars, threadVars, nativeVars
<1>1. /\ current[t] \in Fibers /\ callee[Running(t)] = current[t] /\ home[current[t]] = t
      /\ Running(t) \in parked /\ base[t] = current[t]
  BY DEF IInv, Focused
<1>2. /\ nest' = [nest EXCEPT ![t] = Append(@, current[t])]
      /\ nest[t] \in Seq(Everyone) /\ current[t] \in Everyone
  BY <1>1 DEF IInv, TypeOK, Everyone
<1>3. nest'[t] = Append(nest[t], current[t]) /\ nest'[t] \in Seq(Everyone)
  BY <1>2 DEF IInv, TypeOK
<1>4. Running(t)' = current[t]
  <2>1. Len(nest'[t]) > 0 /\ nest'[t][Len(nest'[t])] = current[t]
    BY <1>2, <1>3
  <2> QED BY <2>1, <1>3, LastOf DEF Running
<1>5. \A u \in Threads \ {t} : Running(u)' = Running(u)
  BY <1>2 DEF Running, IInv, TypeOK
<1>t. TypeOK'
  BY <1>1, <1>2 DEF IInv, TypeOK, Labels
<1>o. OthersAlone(t)
  BY <1>1, <1>2, FiberAssumption DEF IInv, TypeOK, OthersAlone, Home, Everyone
<1>c. Chained(t)'
  <2>1. /\ Len(nest'[t]) = Len(nest[t]) + 1 /\ Len(nest[t]) \in Nat /\ Len(nest[t]) > 0
        /\ nest'[t][Len(nest[t]) + 1] = current[t]
        /\ \A i \in 1..Len(nest[t]) : nest'[t][i] = nest[t][i]
    BY <1>2, <1>3, OfThread
  <2>2. /\ \A i \in 1..Len(nest[t]) : nest[t][i] # current[t]
        /\ previous[current[t]] = nest[t][Len(nest[t])] /\ status[current[t]] # "Terminated"
    BY OfThread DEF IInv, Focused
  <2>3. /\ nest[t][1] = t
        /\ \A i, j \in 1..Len(nest[t]) : nest[t][i] = nest[t][j] => i = j
    BY DEF IInv, Chained
  <2>4. ASSUME NEW i \in 2..Len(nest[t])
        PROVE /\ nest[t][i] \in Fibers /\ home[nest[t][i]] = t
              /\ previous[nest[t][i]] = nest[t][i - 1] /\ status[nest[t][i]] # "Terminated"
    BY DEF IInv, Chained
  <2>5. \A i, j \in 1..Len(nest'[t]) : nest'[t][i] = nest'[t][j] => i = j
    BY <2>1, <2>2, <2>3
  <2>6. ASSUME NEW i \in 2..Len(nest'[t])
        PROVE /\ nest'[t][i] \in Fibers /\ home[nest'[t][i]] = t
              /\ previous[nest'[t][i]] = nest'[t][i - 1] /\ status[nest'[t][i]] # "Terminated"
    <3>1. CASE i \in 2..Len(nest[t])
      <4>1. nest'[t][i] = nest[t][i] /\ nest'[t][i - 1] = nest[t][i - 1]
        BY <2>1, <3>1
      <4> QED BY <4>1, <2>4, <3>1
    <3>2. CASE i = Len(nest[t]) + 1
      <4>1. nest'[t][i] = current[t] /\ nest'[t][i - 1] = nest[t][Len(nest[t])]
        BY <2>1, <3>2
      <4> QED BY <4>1, <2>2, <1>1
    <3> QED BY <2>1, <3>1, <3>2
  <2>7. nest'[t][1] = t /\ Len(nest'[t]) > 0
    BY <2>1, <2>3
  <2> QED BY <2>5, <2>6, <2>7 DEF Chained
<1>f. Focused(t)'
  BY <1>1, <1>4 DEF IInv, TypeOK, Focused
<1>u. Unlinked'
  <2>1. /\ current[t] = nest'[t][Len(nest'[t])] /\ Len(nest'[t]) \in 1..Len(nest'[t])
        /\ \A i \in 1..Len(nest[t]) : i \in 1..Len(nest'[t]) /\ nest'[t][i] = nest[t][i]
    BY <1>2, <1>3, OfThread
  <2>2. ASSUME NEW f \in Fibers, previous[f] # None PROVE Linked(f)'
    <3>1. Linked(f)
      BY <2>2 DEF IInv, Unlinked
    <3>2. CASE home[f] = t
      BY <2>1, <3>1, <3>2 DEF Linked
    <3>3. CASE home[f] # t
      <4>1. home[f] \in Threads /\ nest'[home[f]] = nest[home[f]] /\ pc'[home[f]] = pc[home[f]]
        BY <1>2, <3>1, <3>3 DEF Linked, IInv, TypeOK
      <4> QED BY <3>1, <4>1 DEF Linked
    <3> QED BY <3>2, <3>3
  <2> QED BY <2>2 DEF IInv, Unlinked
<1>s. Sleeping'
  <2>1. \A g \in Everyone : g # current[t] => (g \in parked <=> g \in parked')
    BY <1>1
  <2>2. current[t] \notin Threads
    BY <1>1, FiberAssumption
  <2>3. \A u \in Threads : u # Running(u)' => u \in parked'
    BY <1>1, <1>4, <1>5, <2>1, <2>2 DEF IInv, Sleeping, Everyone
  <2>4. ASSUME NEW g \in Fibers, home[g] = None \/ g # Running(home[g])' PROVE g \in parked'
    <3>1. CASE home[g] = t
      BY <1>1, <1>4, <2>1, <2>4, <3>1, FiberAssumption DEF IInv, Sleeping, Everyone
    <3>2. CASE home[g] # t
      BY <1>1, <1>5, <2>1, <2>4, <3>2, FiberAssumption DEF IInv, TypeOK, Sleeping, Everyone
    <3> QED BY <3>1, <3>2
  <2> QED BY <2>3, <2>4 DEF Sleeping
<1> QED BY <1>t, <1>o, <1>c, <1>f, <1>u, <1>s, OthersKeep DEF IInv

\* The block of a fiber starts.
LEMMA EnterPreserves ==
  ASSUME IInv, NEW t \in Threads, Enter(t)
  PROVE IInv'
<1> USE DEF Enter, Goto, fiberVars, threadVars, nativeVars
<1>t. TypeOK'
  BY OfThread, Returning DEF IInv, TypeOK, Everyone, Statuses, Labels
<1>o. OthersAlone(t)
  BY OfThread, Returning, FiberAssumption DEF IInv, TypeOK, OthersAlone, Home, Everyone
<1>c. Chained(t)'
  BY OfThread, Returning DEF IInv, TypeOK, Chained, Focused, Unlinked, Linked, Running, Everyone
<1>f. Focused(t)'
  BY OfThread, Returning DEF IInv, TypeOK, Chained, Focused, Unlinked, Running, Everyone
<1>u. Unlinked'
  BY OfThread, Returning, FiberAssumption DEF IInv, TypeOK, Unlinked, Linked, Chained, Focused, Home, Everyone
<1>s. Sleeping'
  BY OfThread, Returning, FiberAssumption DEF IInv, TypeOK, Sleeping, Running, Home, Everyone
<1> QED BY <1>t, <1>o, <1>c, <1>f, <1>u, <1>s, OthersKeep DEF IInv

\* The fiber that yields is unlinked before minicoro leaves it.
LEMMA YieldPreserves ==
  ASSUME IInv, NEW t \in Threads, NEW v \in Values, Yield(t, v)
  PROVE IInv'
<1> USE DEF Yield, CanYield, SwapToPrevious, Receiver, MakeCurrent, Park, Goto, fiberVars, threadVars, nativeVars
<1>t. TypeOK'
  BY OfThread, Returning DEF IInv, TypeOK, Everyone, Statuses, Labels
<1>o. OthersAlone(t)
  BY OfThread, Returning, FiberAssumption DEF IInv, TypeOK, OthersAlone, Home, Everyone
<1>c. Chained(t)'
  BY OfThread, Returning DEF IInv, TypeOK, Chained, Focused, Unlinked, Linked, Running, Everyone
<1>f. Focused(t)'
  BY OfThread, Returning DEF IInv, TypeOK, Chained, Focused, Unlinked, Running, Everyone
<1>u. Unlinked'
  BY OfThread, Returning, FiberAssumption DEF IInv, TypeOK, Unlinked, Linked, Chained, Focused, Home, Everyone
<1>s. Sleeping'
  BY OfThread, Returning, FiberAssumption DEF IInv, TypeOK, Sleeping, Running, Home, Everyone
<1> QED BY <1>t, <1>o, <1>c, <1>f, <1>u, <1>s, OthersKeep DEF IInv

\* A fiber ends on top of its thread.
LEMMA EndPreserves ==
  ASSUME IInv, NEW t \in Threads, NEW r \in Values \cup Errors, End(t, r)
  PROVE IInv'
<1> USE DEF End, Park, Goto, fiberVars, threadVars, nativeVars
<1>t. TypeOK'
  BY OfThread, Returning DEF IInv, TypeOK, Everyone, Statuses, Labels
<1>o. OthersAlone(t)
  BY OfThread, Returning, FiberAssumption DEF IInv, TypeOK, OthersAlone, Home, Everyone
<1>c. Chained(t)'
  BY OfThread, Returning DEF IInv, TypeOK, Chained, Focused, Unlinked, Linked, Running, Everyone
<1>f. Focused(t)'
  BY OfThread, Returning DEF IInv, TypeOK, Chained, Focused, Unlinked, Running, Everyone
<1>u. Unlinked'
  BY OfThread, Returning, FiberAssumption DEF IInv, TypeOK, Unlinked, Linked, Chained, Focused, Home, Everyone
<1>s. Sleeping'
  BY OfThread, Returning, FiberAssumption DEF IInv, TypeOK, Sleeping, Running, Home, Everyone
<1> QED BY <1>t, <1>o, <1>c, <1>f, <1>u, <1>s, OthersKeep DEF IInv

\* The fiber that has ended is unlinked before minicoro leaves it.
LEMMA SwapAtEndPreserves ==
  ASSUME IInv, NEW t \in Threads, SwapAtEnd(t)
  PROVE IInv'
<1> USE DEF SwapAtEnd, SwapToPrevious, Receiver, MakeCurrent, Goto, fiberVars, threadVars, nativeVars
<1>1. Running(t) \in Fibers /\ Running(t)' = Running(t)
  BY DEF IInv, Focused, Running
<1>2. /\ current[t] = Running(t) /\ home[Running(t)] = t /\ Len(nest[t]) > 1
      /\ previous[Running(t)] = nest[t][Len(nest[t]) - 1]
      /\ previous[Running(t)] \in Everyone /\ Home(previous[Running(t)]) = t
  BY <1>1, Returning
<1>3. Running(t) \in parked
  BY <1>1 DEF IInv, Focused
<1>t. TypeOK'
  BY <1>1, <1>2 DEF IInv, TypeOK, Everyone, Labels
<1>o. OthersAlone(t)
  BY OfThread, Returning, FiberAssumption DEF IInv, TypeOK, OthersAlone, Home, Everyone
<1>c. Chained(t)'
  <2>1. /\ \A f \in Fibers : f # Running(t) => previous'[f] = previous[f]
        /\ nest' = nest /\ status' = status /\ home' = home /\ pc'[t] = "switch_back"
    BY <1>2 DEF IInv, TypeOK, Everyone
  <2>2. \A i \in 2..Len(nest[t]) : i # Len(nest[t]) => nest[t][i] # Running(t)
    BY OfThread DEF IInv, Chained
  <2> QED BY <2>1, <2>2 DEF IInv, Chained
<1>f. Focused(t)'
  BY <1>1, <1>2, <1>3 DEF IInv, TypeOK, Focused, Everyone
<1>u. Unlinked'
  BY OfThread, Returning, FiberAssumption DEF IInv, TypeOK, Unlinked, Linked, Chained, Focused, Home, Everyone
<1>s. Sleeping'
  BY OfThread, Returning, FiberAssumption DEF IInv, TypeOK, Sleeping, Running, Home, Everyone
<1> QED BY <1>t, <1>o, <1>c, <1>f, <1>u, <1>s, OthersKeep DEF IInv

\* minicoro runs the fiber that the thread already calls current, below the one that is left.
LEMMA SwitchBackPreserves ==
  ASSUME IInv, NEW t \in Threads, SwitchBack(t)
  PROVE IInv'
<1> USE DEF SwitchBack, Goto, fiberVars, threadVars, nativeVars
<1>1. /\ Len(nest[t]) > 1 /\ current[t] = nest[t][Len(nest[t]) - 1] /\ base[t] = current[t]
      /\ previous[Running(t)] = None /\ Running(t) \in parked
  BY DEF IInv, Focused
<1>2. nest[t] \in Seq(Everyone) /\ nest'[t] = Front(nest[t])
  BY DEF IInv, TypeOK
<1>3. /\ nest'[t] \in Seq(Everyone) /\ Len(nest'[t]) = Len(nest[t]) - 1
      /\ \A i \in 1..(Len(nest[t]) - 1) : nest'[t][i] = nest[t][i]
  BY <1>1, <1>2, FrontOf
<1>4. Len(nest[t]) \in Nat /\ Running(t) = nest[t][Len(nest[t])]
  BY OfThread
<1>5. Running(t)' = current[t] /\ current[t] \in Everyone /\ Home(current[t]) = t
  <2>1. Last(nest'[t]) = nest'[t][Len(nest'[t])]
    BY <1>1, <1>3, <1>4, LastOf
  <2>2. Len(nest[t]) - 1 \in 1..(Len(nest[t]) - 1)
    BY <1>1, <1>4
  <2> QED BY <2>1, <2>2, <1>1, <1>3, OfThread DEF Running
<1>6. parked' = parked \ {current[t]}
  BY <1>5
<1>7. \A u \in Threads \ {t} : nest'[u] = nest[u] /\ Running(u)' = Running(u)
  BY DEF Running, IInv, TypeOK
<1>t. TypeOK'
  <2>1. nest' \in [Threads -> Seq(Everyone)]
    BY <1>3, <1>7 DEF IInv, TypeOK
  <2> QED BY <2>1, <1>6 DEF IInv, TypeOK, Labels
<1>o. OthersAlone(t)
  BY <1>5, <1>6, <1>7 DEF IInv, TypeOK, OthersAlone
<1>c. Chained(t)'
  <2>1. pc'[t] = "arrive"
    BY DEF IInv, TypeOK
  <2>2. \A i \in 2..Len(nest'[t]) : /\ i \in 2..Len(nest[t]) /\ i # Len(nest[t])
                                  /\ i - 1 \in 1..(Len(nest[t]) - 1)
                                  /\ nest'[t][i] = nest[t][i] /\ nest'[t][i - 1] = nest[t][i - 1]
    BY <1>3, <1>4
  <2>3. /\ nest[t][1] = t
        /\ \A i, j \in 1..Len(nest[t]) : nest[t][i] = nest[t][j] => i = j
    BY DEF IInv, Chained
  <2>4. ASSUME NEW i \in 1..Len(nest'[t]), NEW j \in 1..Len(nest'[t]), nest'[t][i] = nest'[t][j]
        PROVE i = j
    <3>1. /\ i \in 1..(Len(nest[t]) - 1) /\ j \in 1..(Len(nest[t]) - 1)
          /\ i \in 1..Len(nest[t]) /\ j \in 1..Len(nest[t])
      BY <1>3, <1>4
    <3>2. nest[t][i] = nest[t][j]
      BY <3>1, <2>4, <1>3
    <3> QED BY <3>1, <3>2, <2>3
  <2>5. Len(nest'[t]) > 0 /\ nest'[t][1] = t
    BY <2>3, <1>1, <1>3, <1>4
  <2>6. ASSUME NEW i \in 2..Len(nest[t]), i # Len(nest[t])
        PROVE /\ nest[t][i] \in Fibers /\ home[nest[t][i]] = t
              /\ previous[nest[t][i]] = nest[t][i - 1] /\ status[nest[t][i]] # "Terminated"
    BY <2>6 DEF IInv, Chained
  <2> QED BY <2>1, <2>2, <2>4, <2>5, <2>6 DEF Chained
<1>f. Focused(t)'
  BY <1>1, <1>5 DEF IInv, TypeOK, Focused
<1>u. Unlinked'
  <2>1. ASSUME NEW f \in Fibers, previous[f] # None PROVE Linked(f)'
    <3>1. Linked(f)
      BY <2>1 DEF IInv, Unlinked
    <3>2. CASE home[f] = t
      <4>1. PICK i \in 1..Len(nest[t]) : nest[t][i] = f
        BY <3>1, <3>2 DEF Linked
      <4>2. i # Len(nest[t])
        BY <4>1, <1>1, <1>4, <2>1
      <4>3. i \in 1..Len(nest'[t]) /\ nest'[t][i] = f
        BY <4>1, <4>2, <1>3, <1>4
      <4> QED BY <4>3, <3>2 DEF Linked
    <3>3. CASE home[f] # t
      BY <3>1, <3>3, <1>7 DEF IInv, TypeOK, Linked
    <3> QED BY <3>2, <3>3
  <2> QED BY <2>1 DEF IInv, Unlinked
<1>s. Sleeping'
  <2>1. \A g \in Everyone : g # current[t] => (g \in parked <=> g \in parked')
    BY <1>6
  <2>2. ASSUME NEW u \in Threads, u # Running(u)' PROVE u \in parked'
    <3>1. CASE u = t
      BY <1>1, <1>5, <2>1, <2>2, <3>1 DEF IInv, Sleeping, Everyone
    <3>2. CASE u # t
      BY <1>5, <1>7, <2>1, <2>2, <3>2 DEF IInv, Sleeping, Everyone, Home
    <3> QED BY <3>1, <3>2
  <2>3. ASSUME NEW g \in Fibers, home[g] = None \/ g # Running(home[g])' PROVE g \in parked'
    <3>1. g # current[t]
      BY <1>5, <2>3, FiberAssumption DEF Home
    <3>2. CASE home[g] = t
      BY <1>1, <2>1, <3>1, <3>2, FiberAssumption DEF IInv, Sleeping, Everyone
    <3>3. CASE home[g] # t
      BY <1>7, <2>1, <2>3, <3>1, <3>3, FiberAssumption DEF IInv, TypeOK, Sleeping, Everyone
    <3> QED BY <3>2, <3>3
  <2> QED BY <2>2, <2>3 DEF Sleeping
<1> QED BY <1>t, <1>o, <1>c, <1>f, <1>u, <1>s, OthersKeep DEF IInv

\* Control has arrived.
LEMMA ArrivePreserves ==
  ASSUME IInv, NEW t \in Threads, Arrive(t)
  PROVE IInv'
<1> USE DEF Arrive, Goto, fiberVars, threadVars, nativeVars
<1>t. TypeOK'
  BY OfThread, Returning DEF IInv, TypeOK, Everyone, Statuses, Labels
<1>o. OthersAlone(t)
  BY OfThread, Returning, FiberAssumption DEF IInv, TypeOK, OthersAlone, Home, Everyone
<1>c. Chained(t)'
  BY OfThread, Returning DEF IInv, TypeOK, Chained, Focused, Unlinked, Linked, Running, Everyone
<1>f. Focused(t)'
  BY OfThread, Returning DEF IInv, TypeOK, Chained, Focused, Unlinked, Running, Everyone
<1>u. Unlinked'
  BY OfThread, Returning, FiberAssumption DEF IInv, TypeOK, Unlinked, Linked, Chained, Focused, Home, Everyone
<1>s. Sleeping'
  BY OfThread, Returning, FiberAssumption DEF IInv, TypeOK, Sleeping, Running, Home, Everyone
<1> QED BY <1>t, <1>o, <1>c, <1>f, <1>u, <1>s, OthersKeep DEF IInv

-------------------------------------------------------------------------------
(* The theorems. *)

\* The inductive invariant holds in every reachable state.
THEOREM Invariance == Spec => []IInv
<1>1. Init => IInv
  <2> SUFFICES ASSUME Init PROVE IInv
    OBVIOUS
  <2>1. \A t \in Threads : Running(t) = t
    BY DEF Init, Running, Last
  <2>2. TypeOK
    BY DEF Init, TypeOK, Everyone, Statuses, Labels
  <2>3. \A t \in Threads : Chained(t) /\ Focused(t)
    BY <2>1 DEF Init, Chained, Focused
  <2>4. Unlinked /\ Sleeping
    BY <2>1, FiberAssumption DEF Init, Unlinked, Sleeping, Everyone
  <2> QED BY <2>2, <2>3, <2>4 DEF IInv
<1>2. IInv /\ [Next]_vars => IInv'
  <2> SUFFICES ASSUME IInv, [Next]_vars PROVE IInv'
    OBVIOUS
  <2>1. CASE UNCHANGED vars
    BY <2>1 DEF vars, fiberVars, threadVars, nativeVars, IInv, TypeOK, Chained, Focused, Unlinked,
                Linked, Sleeping, Running
  <2>2. CASE Next
    <3> PICK t \in Threads :
          \/ SwitchIn(t) \/ Enter(t) \/ SwapAtEnd(t) \/ SwitchBack(t) \/ Arrive(t)
          \/ \E f \in Fibers : Initialize(t, f)
          \/ \E f \in Fibers, v \in Values : Resume(t, f, v)
          \/ \E v \in Values : Yield(t, v)
          \/ \E r \in Values \cup Errors : End(t, r)
      BY <2>2 DEF Next
    <3> QED BY InitializePreserves, ResumePreserves, SwitchInPreserves, EnterPreserves,
               YieldPreserves, EndPreserves, SwapAtEndPreserves, SwitchBackPreserves, ArrivePreserves
  <2> QED BY <2>1, <2>2
<1> QED BY <1>1, <1>2, PTL DEF Spec

\* Every variable keeps its type; only a fiber that was resumed can yield.
THEOREM TypeCorrect == Spec => []TypeOK
<1>1. IInv => TypeOK
  BY DEF IInv
<1> QED BY <1>1, Invariance, PTL

\* resume refuses what is active already: no stack is ever executed twice.
THEOREM StacksRunOnce == Spec => []OneActivation
<1>1. ASSUME IInv PROVE OneActivation
  <2> SUFFICES ASSUME NEW t \in Threads
               PROVE /\ IsInjective(nest[t])
                     /\ pc[t] = "switch_in" =>
                          /\ \A u \in Threads : callee[Running(t)] \notin Range(nest[u])
                          /\ status[callee[Running(t)]] # "Terminated"
                     /\ \A u \in Threads \ {t} : Range(nest[t]) \cap Range(nest[u]) = {}
    BY DEF OneActivation
  <2>1. \A u \in Threads : DOMAIN nest[u] = 1..Len(nest[u])
    BY <1>1 DEF IInv, TypeOK
  <2>2. \A u \in Threads : \A f \in Range(nest[u]) :
          Home(f) = u /\ \E i \in 1..Len(nest[u]) : nest[u][i] = f
    BY <1>1, <2>1, OfThread DEF Range
  <2>3. IsInjective(nest[t])
    BY <1>1, <2>1 DEF IInv, Chained, IsInjective
  <2>4. ASSUME pc[t] = "switch_in"
        PROVE /\ \A u \in Threads : callee[Running(t)] \notin Range(nest[u])
              /\ status[callee[Running(t)]] # "Terminated"
    <3>1. /\ callee[Running(t)] = current[t] /\ status[current[t]] # "Terminated"
          /\ \A i \in 1..Len(nest[t]) : nest[t][i] # current[t]
      BY <1>1, <2>4 DEF IInv, Focused
    <3>2. Home(current[t]) = t
      BY <1>1, OfThread
    <3> QED BY <3>1, <3>2, <2>2
  <2> QED BY <2>2, <2>3, <2>4
<1> QED BY <1>1, Invariance, PTL

\* Whenever the main thread may collect, the stacks that sleep are walked.
THEOREM SleepersAreWalked == Spec => []SleepingStacksAreWalked
<1>1. ASSUME IInv PROVE SleepingStacksAreWalked
  <2> SUFFICES ASSUME NEW f \in Everyone, Home(f) # None, f # current[Home(f)]
               PROVE f \in parked
    BY DEF SleepingStacksAreWalked, WalkedByFiber
  <2>1. Home(f) \in Threads
    BY <1>1 DEF IInv, TypeOK, Home, Everyone
  <2>2. CASE f # Running(Home(f))
    BY <1>1, <2>1, <2>2 DEF IInv, Sleeping, Home, Everyone
  <2>3. CASE f = Running(Home(f))
    BY <1>1, <2>1, <2>3 DEF IInv, Focused
  <2> QED BY <2>2, <2>3
<1> QED BY <1>1, Invariance, PTL

-------------------------------------------------------------------------------
(* Who waits for whom, and what is on its way. *)

\* What a step of t leaves alone of what other threads hand over.
Untouched(t) ==
  /\ \A u \in Threads \ {t} : /\ nest'[u] = nest[u] /\ pc'[u] = pc[u]
                              /\ current'[u] = current[u] /\ result'[u] = result[u]
                              /\ given'[u] = given[u]
  /\ \A g \in Everyone : Home(g) \in Threads \ {t} =>
       args'[g] = args[g] /\ callee'[g] = callee[g] /\ Home(g)' = Home(g)
  /\ \A f \in Fibers : home[f] \in Threads \ {t} =>
       error'[f] = error[f] /\ status'[f] = status[f] /\ home'[f] = home[f]

\* What resume or yield is about to return in t, or None if t is elsewhere.
HandedTo(t) == IF pc[t] \in {"enter", "arrive"} THEN Received(t) ELSE None

\* A fiber that is in resume has called one of its own thread.
LEMMA CalleeOf ==
  ASSUME IInv, HandOver, NEW g \in Everyone, callee[g] # None
  PROVE callee[g] \in Fibers /\ Home(g) \in Threads /\ home[callee[g]] = Home(g)
BY DEF IInv, TypeOK, HandOver, Caller

\* A step of one thread keeps what another hands over.
LEMMA OthersHandOver ==
  ASSUME IInv, HandOver, NEW t \in Threads, NEW u \in Threads, u # t, Untouched(t)
  PROVE /\ Waiting(u)' /\ Carrying(u)'
        /\ HandedTo(u)' = HandedTo(u) /\ Active(u)' = Active(u)
<1>1. /\ nest'[u] = nest[u] /\ pc'[u] = pc[u] /\ current'[u] = current[u] /\ result'[u] = result[u]
      /\ given'[u] = given[u] /\ Running(u)' = Running(u)
  BY DEF Untouched, Running
<1>2. \A g \in Everyone : Home(g) = u => args'[g] = args[g] /\ callee'[g] = callee[g]
  BY DEF Untouched
<1>3. \A f \in Fibers : home[f] = u => error'[f] = error[f] /\ status'[f] = status[f]
  BY DEF Untouched
<1>4. Running(u) \in Everyone /\ Home(Running(u)) = u /\ current[u] \in Everyone /\ Home(current[u]) = u
  BY OfThread
<1>5. Received(u)' = Received(u)
  <2>1. callee[Running(u)] # None => callee[Running(u)] \in Fibers /\ home[callee[Running(u)]] = u
    BY <1>4, CalleeOf
  <2> QED BY <1>1, <1>2, <1>3, <1>4, <2>1 DEF Received
<1>6. Waiting(u)'
  <2>1. \A i \in 2..Len(nest[u]) : nest[u][i - 1] \in Everyone /\ Home(nest[u][i - 1]) = u
    BY OfThread
  <2> QED BY <1>1, <1>2, <1>4, <2>1 DEF HandOver, Waiting
<1>7. Carrying(u)'
  <2>1. pc[u] \in {"ended", "switch_back"} => Running(u) \in Fibers /\ home[Running(u)] = u
    <3>1. CASE pc[u] = "ended"
      BY <3>1, <1>4, FiberAssumption DEF IInv, Focused, Home
    <3>2. CASE pc[u] = "switch_back"
      <4>1. Len(nest[u]) \in 2..Len(nest[u]) /\ Running(u) = nest[u][Len(nest[u])]
        BY <3>2, OfThread DEF IInv, Focused
      <4> QED BY <4>1 DEF IInv, Chained
    <3> QED BY <3>1, <3>2
  <2> QED BY <1>1, <1>2, <1>3, <1>4, <1>5, <2>1 DEF HandOver, Carrying
<1>8. Active(u)' = Active(u)
  BY <1>1, <1>2, <1>4 DEF Active
<1> QED BY <1>1, <1>5, <1>6, <1>7, <1>8 DEF HandedTo

\* A step of one thread keeps the callers of the others.
LEMMA OtherCallers ==
  ASSUME IInv, HandOver, NEW t \in Threads, NEW g \in Everyone, Untouched(t), Home(g) \in Threads \ {t}
  PROVE Caller(g)'
<1>1. /\ callee'[g] = callee[g] /\ Home(g)' = Home(g) /\ nest'[Home(g)] = nest[Home(g)]
  BY DEF Untouched
<1>2. callee[g] # None => home'[callee[g]] = home[callee[g]]
  BY CalleeOf DEF Untouched
<1> QED BY <1>1, <1>2 DEF HandOver, Caller

\* Other threads call and are handed what they were before the step of t.
Elsewhere(t) ==
  \A u \in Threads \ {t} : HandedTo(u)' = HandedTo(u) /\ Active(u)' = Active(u)

\* What is left to show of a step of t.
LEMMA StepOf ==
  ASSUME IInv, HandOver, NEW t \in Threads, Untouched(t), Waiting(t)', Carrying(t)', ErrorsEnd',
         \A g \in Everyone : Home(g) \notin Threads \ {t} => Caller(g)'
  PROVE HandOver' /\ Elsewhere(t)
<1>1. \A u \in Threads \ {t} :
         Waiting(u)' /\ Carrying(u)' /\ HandedTo(u)' = HandedTo(u) /\ Active(u)' = Active(u)
  BY OthersHandOver
<1>2. \A g \in Everyone : Caller(g)'
  BY OtherCallers
<1> QED BY <1>1, <1>2 DEF HandOver, Elsewhere

\* The fibers that are over: their block has ended.
Over == {f \in Fibers : Terminated(f)}

\* Coroutines do not notice a step that neither gives, hands nor receives anything.
LEMMA Silent ==
  ASSUME NEW t \in Threads, Elsewhere(t), HandedTo(t)' = HandedTo(t), Active(t)' = Active(t),
         home' = home, status' = status, given' = given
  PROVE UNCHANGED Coroutine!vars
<1>1. \A u \in Threads : HandedTo(u)' = HandedTo(u) /\ Active(u)' = Active(u)
  BY DEF Elsewhere
<1> QED BY <1>1 DEF Coroutine!vars, HandedTo, Terminated

\* What runs is active.
LEMMA RunningIsActive ==
  ASSUME IInv, NEW t \in Threads
  PROVE Running(t) \in Range(nest[t])
<1>1. Len(nest[t]) \in DOMAIN nest[t]
  BY OfThread DEF IInv, TypeOK
<1> QED BY <1>1, OfThread DEF Range

\* The block of the running fiber has not ended, unless the thread is about to leave it.
LEMMA NotEnded ==
  ASSUME IInv, HandOver, NEW t \in Threads, pc[t] \notin {"ended", "switch_back"}, Running(t) \in Fibers
  PROVE status[Running(t)] # "Terminated" /\ error[Running(t)] = None
<1>1. Len(nest[t]) \in 2..Len(nest[t]) /\ Running(t) = nest[t][Len(nest[t])]
  BY OfThread
<1>2. status[Running(t)] # "Terminated"
  BY <1>1 DEF IInv, Chained
<1> QED BY <1>2 DEF HandOver, ErrorsEnd

\* A switch that is over hands what was given to the fiber that has control now.
LEMMA HandMaps ==
  ASSUME HandOver, HandOver', NEW t \in Threads, Elsewhere(t),
         pc[t] \in {"switch_in", "switch_back"}, pc'[t] \in {"enter", "arrive"},
         Active(t)' = Active(t), home' = home, status' = status, given' = given
  PROVE Coroutine!Next
<1>1. given[t] # None /\ HandedTo(t) = None /\ HandedTo(t)' = given[t]
  BY DEF HandOver, Carrying, HandedTo
<1>2. [u \in Threads |-> HandedTo(u)]' = [[u \in Threads |-> HandedTo(u)] EXCEPT ![t] = given[t]]
  BY <1>1 DEF Elsewhere
<1>3. [u \in Threads |-> Active(u)]' = [u \in Threads |-> Active(u)]
  BY DEF Elsewhere
<1>4. Coroutine!Hand(t)
  BY <1>1, <1>2, <1>3 DEF Coroutine!Hand, HandedTo, Terminated
<1> QED BY <1>4 DEF Coroutine!Next

\* A fiber that goes on has received what it was handed.
LEMMA ReceiveMaps ==
  ASSUME HandOver, NEW t \in Threads, Elsewhere(t),
         pc[t] \in {"enter", "arrive"}, pc'[t] = "user",
         nest' = nest, home' = home, Over' = Over, given' = [given EXCEPT ![t] = None]
  PROVE Coroutine!Next
<1>1. HandedTo(t) # None /\ HandedTo(t)' = None /\ Active(t)' = Active(t)
  BY DEF HandOver, Carrying, HandedTo, Active
<1>2. [u \in Threads |-> HandedTo(u)]' = [[u \in Threads |-> HandedTo(u)] EXCEPT ![t] = None]
  <2>1. \A u \in Threads : HandedTo(u)' = IF u = t THEN None ELSE HandedTo(u)
    BY <1>1 DEF Elsewhere
  <2> QED BY <2>1
<1>3. [u \in Threads |-> Active(u)]' = [u \in Threads |-> Active(u)]
  BY <1>1 DEF Elsewhere
<1>4. Coroutine!Receive(t)
  BY <1>1, <1>2, <1>3 DEF Coroutine!Receive, HandedTo, Over
<1> QED BY <1>4 DEF Coroutine!Next

\* Fiber.new hands nothing over.
LEMMA InitializeMaps ==
  ASSUME IInv, HandOver, IInv', NEW t \in Threads, NEW f \in Fibers, Initialize(t, f)
  PROVE HandOver' /\ Coroutine!Next
<1> USE DEF Initialize, fiberVars, threadVars, nativeVars
<1>1. /\ pc[t] = "user" /\ home[f] = None /\ home' = [home EXCEPT ![f] = t]
      /\ \A u \in Threads : Running(u)' = Running(u) /\ Received(u)' = Received(u)
      /\ Home(f) = None /\ None \notin Threads
  BY FiberAssumption DEF Running, Received, Home
<1>2. callee[f] = None /\ \A g \in Everyone : callee[g] # f
  BY <1>1, CalleeOf, FiberAssumption DEF Everyone
<1>3. Untouched(t)
  BY <1>1, FiberAssumption DEF IInv, TypeOK, Untouched, Home, Everyone
<1>4. Waiting(t)' /\ Carrying(t)' /\ ErrorsEnd'
  BY <1>1 DEF HandOver, Waiting, Carrying, ErrorsEnd
<1>5. ASSUME NEW g \in Everyone, Home(g) \notin Threads \ {t} PROVE Caller(g)'
  <2>1. CASE g = f
    BY <1>2, <2>1 DEF Caller
  <2>2. CASE g # f
    <3>1. Home(g)' = Home(g)
      BY <2>2 DEF Home, Everyone, IInv, TypeOK
    <3>2. callee[g] # None => home'[callee[g]] = home[callee[g]]
      BY <1>2, CalleeOf DEF IInv, TypeOK
    <3> QED BY <3>1, <3>2 DEF HandOver, Caller
  <2> QED BY <2>1, <2>2
<1>6. HandOver'
  BY <1>3, <1>4, <1>5, StepOf
<1>7. \A u \in Threads : HandedTo(u)' = HandedTo(u) /\ Active(u)' = Active(u)
  BY <1>1 DEF HandedTo, Active
<1>8. given[t] = None
  BY <1>1 DEF HandOver, Carrying
<1>9. /\ [u \in Threads |-> HandedTo(u)]' = [u \in Threads |-> HandedTo(u)]
      /\ [u \in Threads |-> Active(u)]' = [u \in Threads |-> Active(u)]
  BY <1>7
<1>10. Coroutine!Create(t, f)
  BY <1>1, <1>8, <1>9 DEF Coroutine!Create, HandedTo, Terminated
<1> QED BY <1>6, <1>10 DEF Coroutine!Next

\* A fiber that has no previous one is not active, and may be called.
LEMMA MayBeCalled ==
  ASSUME IInv, NEW t \in Threads, pc[t] = "user", NEW f \in Fibers, CanResume(t, f)
  PROVE f \notin Range(nest[t])
<1> SUFFICES ASSUME f \in Range(nest[t]) PROVE FALSE
  OBVIOUS
<1>1. PICK i \in 1..Len(nest[t]) : nest[t][i] = f
  BY DEF IInv, TypeOK, Range
<1>2. i # 1 /\ Len(nest[t]) \in Nat
  BY <1>1, OfThread, FiberAssumption DEF IInv, Chained
<1>3. i \in 2..Len(nest[t]) /\ i - 1 \in 1..Len(nest[t])
  BY <1>1, <1>2
<1>4. previous[f] = nest[t][i - 1] /\ nest[t][i - 1] \in Everyone
  BY <1>1, <1>3, OfThread DEF IInv, Chained
<1> QED BY <1>4, FiberAssumption DEF CanResume, Everyone

\* resume calls a fiber and gives it the arguments.
LEMMA ResumeMaps ==
  ASSUME IInv, HandOver, IInv', NEW t \in Threads, NEW f \in Fibers, NEW v \in Values, Resume(t, f, v)
  PROVE HandOver' /\ Coroutine!Next
<1> USE DEF Resume, CanResume, MakeCurrent, Goto, fiberVars, threadVars, nativeVars
<1>1. /\ pc[t] = "user" /\ pc'[t] = "switch_in" /\ home[f] = t /\ current'[t] = f /\ args'[f] = v
      /\ current[t] = Running(t) /\ Running(t)' = Running(t) /\ nest' = nest
      /\ callee' = [callee EXCEPT ![Running(t)] = f]
  BY OfThread DEF IInv, TypeOK, Focused, Running, Everyone
<1>2. Running(t) \in Everyone /\ Home(Running(t)) = t /\ Home(f) = t /\ f \in Everyone
  BY <1>1, OfThread, FiberAssumption DEF Home, Everyone
<1>g. given'[t] = v
  BY DEF IInv, TypeOK
<1>3. Untouched(t)
  BY <1>1, <1>2 DEF IInv, TypeOK, Untouched, Home
<1>4. Waiting(t)'
  <2>1. \A i \in 2..Len(nest[t]) : nest[t][i - 1] \in Everyone /\ nest[t][i - 1] # Running(t)
    BY OfThread DEF IInv, Chained
  <2>2. \A i \in 2..Len(nest[t]) : callee'[nest[t][i - 1]] = nest[t][i]
    BY <1>1, <2>1 DEF HandOver, Waiting, IInv, TypeOK
  <2> QED BY <1>1, <2>2 DEF Waiting
<1>5. Carrying(t)' /\ ErrorsEnd'
  BY <1>1, <1>g, FiberAssumption DEF Carrying, HandOver, ErrorsEnd
<1>6. ASSUME NEW g \in Everyone, Home(g) \notin Threads \ {t} PROVE Caller(g)'
  <2>1. CASE g = Running(t)
    <3>1. callee'[g] = f /\ Home(g)' = t /\ nest'[t][Len(nest[t])] = g /\ Len(nest[t]) \in 1..Len(nest'[t])
      BY <1>1, <1>2, <2>1, OfThread DEF IInv, TypeOK, Home
    <3> QED BY <1>1, <3>1 DEF Caller
  <2>2. CASE g # Running(t)
    <3>1. callee'[g] = callee[g] /\ Home(g)' = Home(g) /\ home' = home
      BY <1>1, <2>2 DEF Home, IInv, TypeOK
    <3> QED BY <1>1, <3>1 DEF HandOver, Caller
  <2> QED BY <2>1, <2>2
<1>7. HandOver' /\ Elsewhere(t)
  BY <1>3, <1>4, <1>5, <1>6, StepOf
<1>8. /\ HandedTo(t) = None /\ HandedTo(t)' = None /\ given[t] = None
      /\ Active(t) = nest[t] /\ Active(t)' = Append(nest[t], f)
  <2>1. callee'[Running(t)] = f
    BY <1>1, <1>2 DEF IInv, TypeOK
  <2> QED BY <1>1, <2>1 DEF HandedTo, Active, HandOver, Carrying
<1>9. /\ [u \in Threads |-> HandedTo(u)]' = [u \in Threads |-> HandedTo(u)]
      /\ [u \in Threads |-> Active(u)]' = [[u \in Threads |-> Active(u)] EXCEPT ![t] = Append(@, f)]
  BY <1>7, <1>8 DEF Elsewhere
<1>10. f \notin Over /\ Over' = Over
  BY DEF Over, Terminated
<1>11. Coroutine!Call(t, f, v)
  <2>1. f \notin Coroutine!Range(nest[t])
    BY <1>1, MayBeCalled DEF Range, Coroutine!Range
  <2> QED BY <1>1, <1>8, <1>9, <1>10, <2>1 DEF Coroutine!Call, HandedTo, Over
<1> QED BY <1>7, <1>11 DEF Coroutine!Next

\* The block starts with the arguments of resume.
LEMMA EnterMaps ==
  ASSUME IInv, HandOver, IInv', NEW t \in Threads, Enter(t)
  PROVE HandOver' /\ Coroutine!Next
<1> USE DEF Enter, Goto, fiberVars, threadVars, nativeVars
<1>1. /\ pc[t] = "enter" /\ pc'[t] = "user" /\ Running(t) \in Fibers /\ home[Running(t)] = t
      /\ Running(t)' = Running(t)
  <2>1. Running(t) \in Fibers /\ Home(Running(t)) = t
    BY OfThread DEF IInv, Focused
  <2> QED BY <2>1, FiberAssumption DEF IInv, TypeOK, Running, Home
<1>2. Untouched(t)
  BY <1>1 DEF IInv, TypeOK, Untouched, Home
<1>3. Waiting(t)' /\ Carrying(t)'
  BY <1>1 DEF HandOver, Waiting, Carrying, IInv, TypeOK
<1>4. ErrorsEnd'
  BY <1>1, NotEnded DEF HandOver, ErrorsEnd, IInv, TypeOK
<1>5. \A g \in Everyone : Home(g) \notin Threads \ {t} => Caller(g)'
  BY DEF HandOver, Caller, Home
<1>6. HandOver' /\ Elsewhere(t)
  BY <1>2, <1>3, <1>4, <1>5, StepOf
<1>7. Over' = Over
  BY <1>1, NotEnded DEF Over, Terminated, IInv, TypeOK
<1> QED BY <1>1, <1>6, <1>7, ReceiveMaps

\* A fiber that gives up control gives it to the one that has called it.
LEMMA GiveBackMaps ==
  ASSUME IInv, HandOver, HandOver', NEW t \in Threads, Elsewhere(t), NEW v,
         pc[t] = "user", pc'[t] \in {"ended", "switch_back"}, Running(t) \in Fibers,
         nest' = nest, home' = home, given' = [given EXCEPT ![t] = v]
  PROVE Coroutine!GiveBack(t, v)
<1>1. /\ HandedTo(t) = None /\ HandedTo(t)' = None /\ given[t] = None
      /\ Active(t) = nest[t] /\ Active(t)' = Front(nest[t])
  BY DEF HandedTo, Active, HandOver, Carrying
<1>2. Len(nest[t]) > 1
  BY OfThread
<1>3. Coroutine!Front(nest[t]) = Front(nest[t])
  BY DEF Front, Coroutine!Front
<1>4. /\ [u \in Threads |-> HandedTo(u)]' = [u \in Threads |-> HandedTo(u)]
      /\ [u \in Threads |-> Active(u)]'
           = [[u \in Threads |-> Active(u)] EXCEPT ![t] = Coroutine!Front(@)]
  BY <1>1, <1>3 DEF Elsewhere
<1> QED BY <1>1, <1>2, <1>4 DEF Coroutine!GiveBack, HandedTo

\* yield gives the value to the fiber below.
LEMMA YieldMaps ==
  ASSUME IInv, HandOver, IInv', NEW t \in Threads, NEW v \in Values, Yield(t, v)
  PROVE HandOver' /\ Coroutine!Next
<1> USE DEF Yield, CanYield, SwapToPrevious, Receiver, MakeCurrent, Goto, fiberVars, threadVars, nativeVars
<1>1. pc[t] = "user" /\ pc'[t] = "switch_back" /\ current[t] = Running(t) /\ Running(t)' = Running(t)
  <2>1. pc[t] = "user" /\ pc'[t] = "switch_back" /\ Running(t)' = Running(t)
    BY DEF IInv, TypeOK, Running
  <2> QED BY <2>1 DEF IInv, Focused
<1>2. Running(t) \in Fibers
  BY <1>1, OfThread DEF IInv, Unlinked, Everyone
<1>3. /\ previous[Running(t)] \in Everyone /\ Home(previous[Running(t)]) = t /\ home[Running(t)] = t
      /\ args'[current'[t]] = v /\ error' = error /\ callee' = callee /\ nest' = nest
      /\ given'[t] = v /\ given' = [given EXCEPT ![t] = v]
  BY <1>1, <1>2, Returning DEF IInv, TypeOK
<1>4. Untouched(t)
  BY <1>1, <1>3 DEF IInv, TypeOK, Untouched, Home
<1>5. Waiting(t)' /\ Carrying(t)'
  <2>1. error'[Running(t)] = None
    BY <1>1, <1>2, <1>3, NotEnded
  <2> QED BY <1>1, <1>3, <2>1, FiberAssumption DEF HandOver, Waiting, Carrying
<1>6. ErrorsEnd'
  BY <1>1, <1>2, NotEnded DEF HandOver, ErrorsEnd
<1>7. \A g \in Everyone : Caller(g)'
  BY DEF HandOver, Caller, Home
<1>8. HandOver' /\ Elsewhere(t)
  BY <1>4, <1>5, <1>6, <1>7, StepOf
<1>9. Over' = Over
  BY <1>1, <1>2, NotEnded DEF Over, Terminated
<1>10. Coroutine!PauseWith(t, v)
  BY <1>1, <1>2, <1>3, <1>8, <1>9, GiveBackMaps DEF Coroutine!PauseWith, Over
<1> QED BY <1>8, <1>10 DEF Coroutine!Next

\* A block that has ended gives what it returned, or raised, and is over.
LEMMA EndMaps ==
  ASSUME IInv, HandOver, IInv', NEW t \in Threads, NEW r \in Values \cup Errors, End(t, r)
  PROVE HandOver' /\ Coroutine!Next
<1> USE DEF End, Goto, fiberVars, threadVars, nativeVars
<1>1. /\ pc[t] = "user" /\ pc'[t] = "ended" /\ Running(t)' = Running(t) /\ Running(t) \in Fibers
      /\ home[Running(t)] = t /\ result'[t] = r /\ given'[t] = r
  BY Returning DEF IInv, TypeOK, Running
<1>2. status'[Running(t)] = "Terminated" /\ error'[Running(t)] = IF r \in Errors THEN r ELSE None
  BY <1>1, NotEnded DEF IInv, TypeOK
<1>3. Untouched(t)
  BY <1>1 DEF IInv, TypeOK, Untouched, Home
<1>4. Waiting(t)' /\ Carrying(t)'
  BY <1>1, <1>2, FiberAssumption DEF HandOver, Waiting, Carrying
<1>5. ErrorsEnd'
  BY <1>1, <1>2 DEF HandOver, ErrorsEnd, IInv, TypeOK
<1>6. \A g \in Everyone : Caller(g)'
  BY DEF HandOver, Caller, Home
<1>7. HandOver' /\ Elsewhere(t)
  BY <1>3, <1>4, <1>5, <1>6, StepOf
<1>8. Over' = Over \cup {Running(t)}
  BY <1>1, <1>2 DEF Over, Terminated, IInv, TypeOK
<1>9. Coroutine!Last(Active(t)) = Running(t)
  BY <1>1 DEF Active, Running, Last, Coroutine!Last
<1>10. Coroutine!EndWith(t, r)
  BY <1>1, <1>7, <1>8, <1>9, GiveBackMaps DEF Coroutine!EndWith, Over
<1> QED BY <1>7, <1>10 DEF Coroutine!Next

\* What the block returned waits for the fiber below; an error stays where it is.
LEMMA SwapAtEndMaps ==
  ASSUME IInv, HandOver, IInv', NEW t \in Threads, SwapAtEnd(t)
  PROVE HandOver' /\ UNCHANGED Coroutine!vars
<1> USE DEF SwapAtEnd, SwapToPrevious, Receiver, MakeCurrent, Goto, fiberVars, threadVars, nativeVars
<1>1. /\ pc[t] = "ended" /\ pc'[t] = "switch_back" /\ Running(t)' = Running(t) /\ Running(t) \in Fibers
  BY DEF IInv, TypeOK, Focused, Running
<1>2. /\ previous[Running(t)] \in Everyone /\ Home(previous[Running(t)]) = t /\ home[Running(t)] = t
      /\ current'[t] = previous[Running(t)] /\ error' = error /\ callee' = callee /\ nest' = nest
      /\ args'[current'[t]] = IF result[t] \in Errors THEN None ELSE result[t]
  BY <1>1, Returning DEF IInv, TypeOK
<1>3. given'[t] = IF error[Running(t)] # None THEN error[Running(t)] ELSE args'[current'[t]]
  BY <1>1, <1>2, FiberAssumption DEF HandOver, Carrying
<1>4. Untouched(t)
  BY <1>1, <1>2 DEF IInv, TypeOK, Untouched, Home
<1>5. Waiting(t)' /\ Carrying(t)'
  BY <1>1, <1>2, <1>3 DEF HandOver, Waiting, Carrying
<1>6. ErrorsEnd' /\ \A g \in Everyone : Caller(g)'
  BY DEF HandOver, ErrorsEnd, Caller, Home
<1>7. HandOver' /\ Elsewhere(t)
  BY <1>4, <1>5, <1>6, StepOf
<1>8. HandedTo(t)' = HandedTo(t) /\ Active(t)' = Active(t)
  BY <1>1 DEF HandedTo, Active
<1> QED BY <1>7, <1>8, Silent

\* Control has arrived, with what was handed over.
LEMMA ArriveMaps ==
  ASSUME IInv, HandOver, IInv', NEW t \in Threads, Arrive(t)
  PROVE HandOver' /\ Coroutine!Next
<1> USE DEF Arrive, Goto, fiberVars, threadVars, nativeVars
<1>1. /\ pc[t] = "arrive" /\ pc'[t] = "user" /\ Running(t)' = Running(t)
      /\ Running(t) \in Everyone /\ Home(Running(t)) = t
      /\ callee'[Running(t)] = None /\ \A g \in Everyone \ {Running(t)} : callee'[g] = callee[g]
  BY OfThread DEF IInv, TypeOK, Running
<1>2. Untouched(t)
  BY <1>1 DEF IInv, TypeOK, Untouched, Home
<1>3. Waiting(t)'
  <2>1. \A i \in 2..Len(nest[t]) : nest[t][i - 1] \in Everyone /\ nest[t][i - 1] # Running(t)
    BY OfThread DEF IInv, Chained
  <2> QED BY <1>1, <2>1 DEF HandOver, Waiting
<1>4. Carrying(t)' /\ ErrorsEnd'
  BY <1>1 DEF HandOver, Carrying, ErrorsEnd, IInv, TypeOK
<1>5. \A g \in Everyone : Caller(g)'
  BY <1>1 DEF HandOver, Caller, Home
<1>6. HandOver' /\ Elsewhere(t)
  BY <1>2, <1>4, <1>3, <1>5, StepOf
<1>7. Over' = Over
  BY DEF Over, Terminated
<1> QED BY <1>1, <1>6, <1>7, ReceiveMaps

\* minicoro goes up to the fiber that resume calls.
LEMMA SwitchInMaps ==
  ASSUME IInv, HandOver, IInv', NEW t \in Threads, SwitchIn(t)
  PROVE HandOver' /\ Coroutine!Next
<1> USE DEF SwitchIn, Goto, fiberVars, threadVars, nativeVars
<1> DEFINE f == current[t]
<1>1. /\ pc[t] = "switch_in" /\ f \in Fibers /\ home[f] = t /\ status[f] # "Terminated"
      /\ callee[Running(t)] = f /\ f # Running(t)
      /\ \A i \in 1..Len(nest[t]) : nest[t][i] # f
  BY OfThread DEF IInv, Focused
<1>2. /\ nest' = [nest EXCEPT ![t] = Append(@, f)] /\ nest[t] \in Seq(Everyone) /\ f \in Everyone
      /\ pc'[t] \in {"enter", "arrive"}
  BY <1>1 DEF IInv, TypeOK, Everyone
<1>3. /\ nest'[t] = Append(nest[t], f) /\ Len(nest'[t]) = Len(nest[t]) + 1 /\ nest'[t] \in Seq(Everyone)
      /\ nest'[t][Len(nest[t]) + 1] = f /\ \A i \in 1..Len(nest[t]) : nest'[t][i] = nest[t][i]
  BY <1>2 DEF IInv, TypeOK
<1>4. Running(t)' = f
  <2>1. Len(nest'[t]) > 0 /\ nest'[t][Len(nest'[t])] = f
    BY <1>2, <1>3
  <2> QED BY <2>1, <1>3, LastOf DEF Running
<1>5. Home(f) = t /\ callee[f] = None /\ args[f] = given[t]
  <2>1. Home(f) = t
    BY <1>1, FiberAssumption DEF Home
  <2> QED BY <2>1, <1>1, <1>2 DEF HandOver, Caller, Carrying
<1>6. Received(t)' = args[f]
  BY <1>4, <1>5 DEF Received
<1>7. Untouched(t)
  BY <1>2 DEF IInv, TypeOK, Untouched, Home
<1>8. Waiting(t)'
  <2>1. nest[t][Len(nest[t])] = Running(t) /\ Len(nest[t]) \in Nat
    BY OfThread
  <2>2. ASSUME NEW i \in 2..Len(nest'[t]) PROVE callee'[nest'[t][i - 1]] = nest'[t][i]
    <3>1. CASE i = Len(nest[t]) + 1
      <4>1. i - 1 = Len(nest[t]) /\ i - 1 \in 1..Len(nest[t])
        BY <2>1, <3>1
      <4>2. nest'[t][i - 1] = Running(t) /\ nest'[t][i] = f
        BY <2>1, <3>1, <4>1, <1>3
      <4> QED BY <4>2, <1>1
    <3>2. CASE i # Len(nest[t]) + 1
      <4>1. i \in 2..Len(nest[t]) /\ i \in 1..Len(nest[t]) /\ i - 1 \in 1..Len(nest[t])
        BY <2>1, <3>2, <1>3
      <4>2. nest'[t][i - 1] = nest[t][i - 1] /\ nest'[t][i] = nest[t][i]
        BY <4>1, <1>3
      <4> QED BY <4>1, <4>2 DEF HandOver, Waiting
    <3> QED BY <3>1, <3>2
  <2> QED BY <2>2, <1>4, <1>5 DEF Waiting
<1>9. Carrying(t)' /\ ErrorsEnd'
  BY <1>1, <1>2, <1>5, <1>6, FiberAssumption DEF Carrying, HandOver, ErrorsEnd
<1>10. ASSUME NEW g \in Everyone, Home(g) \notin Threads \ {t} PROVE Caller(g)'
  <2>1. CASE Home(g) = t /\ callee[g] # None
    <3>1. home[callee[g]] = t
      BY <2>1 DEF HandOver, Caller
    <3>2. PICK i \in 1..Len(nest[t]) : nest[t][i] = g
      BY <2>1 DEF HandOver, Caller
    <3>3. i \in 1..Len(nest'[t]) /\ nest'[t][i] = g
      BY <3>2, <1>3, OfThread
    <3> QED BY <2>1, <3>1, <3>3 DEF Caller, Home
  <2>2. CASE Home(g) # t \/ callee[g] = None
    BY <2>2, <1>10 DEF HandOver, Caller
  <2> QED BY <2>1, <2>2
<1>11. HandOver' /\ Elsewhere(t)
  BY <1>7, <1>8, <1>9, <1>10, StepOf
<1>12. Active(t)' = Active(t)
  BY <1>1, <1>2, <1>3 DEF Active
<1> QED BY <1>1, <1>2, <1>11, <1>12, HandMaps

\* minicoro goes back to the fiber that waits in resume.
LEMMA SwitchBackMaps ==
  ASSUME IInv, HandOver, IInv', NEW t \in Threads, SwitchBack(t)
  PROVE HandOver' /\ Coroutine!Next
<1> USE DEF SwitchBack, Goto, fiberVars, threadVars, nativeVars
<1> DEFINE g == current[t]
           f == Running(t)
           v == IF error[f] # None THEN error[f] ELSE args[g]
<1>1. /\ pc[t] = "switch_back" /\ Len(nest[t]) > 1 /\ g = nest[t][Len(nest[t]) - 1]
      /\ Len(nest[t]) \in Nat /\ f = nest[t][Len(nest[t])]
      /\ nest[t] \in Seq(Everyone) /\ nest'[t] = Front(nest[t]) /\ pc'[t] = "arrive"
  BY OfThread DEF IInv, TypeOK, Focused
<1>2. /\ nest'[t] \in Seq(Everyone) /\ Len(nest'[t]) = Len(nest[t]) - 1
      /\ \A i \in 1..(Len(nest[t]) - 1) : nest'[t][i] = nest[t][i]
  BY <1>1, FrontOf
<1>3. Running(t)' = g
  <2>1. Last(nest'[t]) = nest'[t][Len(nest'[t])]
    BY <1>1, <1>2, LastOf
  <2>2. Len(nest[t]) - 1 \in 1..(Len(nest[t]) - 1)
    BY <1>1
  <2> QED BY <2>1, <2>2, <1>1, <1>2 DEF Running
<1>4. f \in Fibers /\ home[f] = t /\ callee[g] = f /\ callee[f] = None
  <2>1. Len(nest[t]) \in 2..Len(nest[t])
    BY <1>1
  <2> QED BY <1>1, <2>1 DEF IInv, Chained, HandOver, Waiting
<1>5. Received(t)' = given[t] /\ given'[t] = given[t]
  <2>1. Received(t)' = v
    BY <1>3, <1>4, FiberAssumption DEF Received
  <2> QED BY <1>1, <2>1 DEF HandOver, Carrying
<1>6. Untouched(t)
  BY DEF IInv, TypeOK, Untouched, Home
<1>7. Waiting(t)'
  <2>1. ASSUME NEW i \in 2..Len(nest'[t]) PROVE callee'[nest'[t][i - 1]] = nest'[t][i]
    <3>1. /\ i \in 2..Len(nest[t]) /\ i \in 1..(Len(nest[t]) - 1) /\ i - 1 \in 1..(Len(nest[t]) - 1)
      BY <1>1, <1>2
    <3>2. nest'[t][i - 1] = nest[t][i - 1] /\ nest'[t][i] = nest[t][i]
      BY <3>1, <1>2
    <3> QED BY <3>1, <3>2 DEF HandOver, Waiting
  <2> QED BY <2>1, <1>1 DEF Waiting
<1>8. Carrying(t)' /\ ErrorsEnd'
  BY <1>1, <1>5 DEF Carrying, HandOver, ErrorsEnd
<1>9. ASSUME NEW h \in Everyone, Home(h) \notin Threads \ {t} PROVE Caller(h)'
  <2>1. CASE Home(h) = t /\ callee[h] # None
    <3>1. home[callee[h]] = t
      BY <2>1 DEF HandOver, Caller
    <3>2. PICK i \in 1..Len(nest[t]) : nest[t][i] = h
      BY <2>1 DEF HandOver, Caller
    <3>3. i # Len(nest[t])
      BY <2>1, <3>2, <1>1, <1>4
    <3>4. i \in 1..Len(nest'[t]) /\ nest'[t][i] = h
      BY <3>2, <3>3, <1>1, <1>2
    <3> QED BY <2>1, <3>1, <3>4 DEF Caller, Home
  <2>2. CASE Home(h) # t \/ callee[h] = None
    BY <2>2, <1>9 DEF HandOver, Caller
  <2> QED BY <2>1, <2>2
<1>10. HandOver' /\ Elsewhere(t)
  BY <1>6, <1>7, <1>8, <1>9, StepOf
<1>11. Active(t)' = Active(t)
  BY <1>1 DEF Active
<1> QED BY <1>1, <1>10, <1>11, HandMaps

\* Every step of a fiber is a step of a coroutine, or hands nothing over.
LEMMA StepMaps ==
  ASSUME IInv, HandOver, IInv', [Next]_vars
  PROVE HandOver' /\ [Coroutine!Next]_(Coroutine!vars)
<1>1. CASE UNCHANGED vars
  BY <1>1 DEF vars, fiberVars, threadVars, nativeVars, HandOver, Waiting, Carrying, Caller, ErrorsEnd,
              Running, Received, Active, Home, Terminated, Coroutine!vars
<1>2. CASE Next
  <2> PICK t \in Threads :
        \/ SwitchIn(t) \/ Enter(t) \/ SwapAtEnd(t) \/ SwitchBack(t) \/ Arrive(t)
        \/ \E f \in Fibers : Initialize(t, f)
        \/ \E f \in Fibers, v \in Values : Resume(t, f, v)
        \/ \E v \in Values : Yield(t, v)
        \/ \E r \in Values \cup Errors : End(t, r)
    BY <1>2 DEF Next
  <2> QED BY InitializeMaps, ResumeMaps, SwitchInMaps, EnterMaps, YieldMaps, EndMaps, SwapAtEndMaps,
             SwitchBackMaps, ArriveMaps
<1> QED BY <1>1, <1>2

\* At first every thread runs its main fiber, and nothing is on its way.
LEMMA InitMaps ==
  ASSUME Init
  PROVE HandOver /\ Coroutine!Init
<1>1. \A t \in Threads : Waiting(t) /\ Carrying(t)
  BY DEF Init, Waiting, Carrying, Running, Last, Everyone
<1>2. (\A g \in Everyone : Caller(g)) /\ ErrorsEnd
  BY DEF Init, Caller, ErrorsEnd
<1>3. Coroutine!Init
  BY DEF Init, Coroutine!Init, Terminated, Active
<1> QED BY <1>1, <1>2, <1>3 DEF HandOver

\* Fibers are coroutines: the fiber that resume or yield gives control to receives the
\* very value they were given, and the one that resumed a fiber receives what its block
\* returned, or the exception that has ended it.
THEOREM Refines == Spec => ImplementsCoroutines
<1>1. Init => HandOver /\ Coroutine!Init
  BY InitMaps
<1>2. IInv /\ IInv' /\ HandOver /\ [Next]_vars => HandOver' /\ [Coroutine!Next]_(Coroutine!vars)
  BY StepMaps
<1> QED BY <1>1, <1>2, Invariance, PTL DEF Spec, ImplementsCoroutines, Coroutine!Spec

\* Whenever the main thread may collect, a stack that is in use is walked by the thread
\* that uses it, from its stack pointer to m_start_of_stack.
THEOREM UserIsWalked == Spec => []CurrentStackIsWalked
<1>1. IInv => CurrentStackIsWalked
  BY DEF IInv, Focused, CurrentStackIsWalked, WalkedByThread
<1> QED BY <1>1, Invariance, PTL

===============================================================================
