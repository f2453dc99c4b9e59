-------------------------------- MODULE Timeout -------------------------------
(***************************************************************************)
(* Timeout.timeout (lib/timeout.rb): calls that nest in the threads of a   *)
(* program, and the one thread that watches their deadlines.  A request    *)
(* goes through @queue to the watcher, which raises an exception in the    *)
(* thread of a request that is due and not done; the thread receives it at *)
(* a checkpoint, of which Mutex#synchronize is one.  ThreadQueue and       *)
(* Monitor model the queue and the condition variable used here.           *)
(***************************************************************************)
EXTENDS Naturals, Sequences, FiniteSets

CONSTANTS Threads,
          Requests,     \* as many as may be in use at a time
          None,
          Error,        \* a Timeout::Error
          MaxNesting    \* bound on the calls of a thread inside each other

ASSUME TimeoutAssumption == None \notin Threads \cup Requests /\ Error \notin Requests

VARIABLES
  frames,    \* [Threads -> the requests of the calls a thread is in, the innermost last]
  target,    \* [Requests -> @thread]
  due, done, \* requests whose deadline is over; whose @done is set
  pending,   \* [Threads -> the requests whose exceptions were raised in a thread]
  thrown,    \* [Threads -> the exception that unwinds it: of a request, or Error]
  pc,
  adder,     \* who has @queue_mutex in add_request
  queue,     \* @queue
  requests,  \* requests of the watcher
  expired,   \* those with a deadline before its now
  todo,      \* those it still has to look at
  current,   \* the one it has in hand
  wpc,       \* where the watcher is
  watchers,  \* history: how many watchers were created
  missed     \* history: a call was left without finished

vars == <<frames, target, due, done, pending, thrown, pc, adder, queue, requests, expired,
          todo, current, wpc, watchers, missed>>
calls == <<frames, target, missed>>
watcher == <<requests, expired, todo, current, wpc, watchers>>

Labels == {"user", "ensure", "create", "add", "signal", "finish"}
WatcherLabels == {"none", "pop", "done?", "check", "waiting", "scan", "mark"}

Members(s) == {s[i] : i \in DOMAIN s}
Front(s) == SubSeq(s, 1, Len(s) - 1)
Innermost(t) == frames[t][Len(frames[t])]
Goto(t, label) == pc' = [pc EXCEPT ![t] = label]
WatcherGoes(label) == wpc' = label /\ UNCHANGED watchers

\* The object of r is garbage.
Free(r) == /\ r \notin requests \cup Members(queue) \cup {current}
           /\ \A t \in Threads : r \notin Members(frames[t]) \cup Members(pending[t]) \cup {thrown[t]}

Init == /\ frames = [t \in Threads |-> <<>>]
        /\ target = [r \in Requests |-> None]
        /\ due = {} /\ done = {}
        /\ pending = [t \in Threads |-> <<>>]
        /\ thrown = [t \in Threads |-> None]
        /\ pc = [t \in Threads |-> "user"]
        /\ adder = None /\ queue = <<>>
        /\ requests = {} /\ expired = {} /\ todo = {} /\ current = None
        /\ wpc = "none" /\ watchers = 0 /\ missed = FALSE

\* The deadline of r passes.
Expire(r) == /\ ~Free(r) /\ r \notin due
             /\ due' = due \cup {r}
             /\ UNCHANGED <<calls, done, pending, thrown, pc, adder, queue, watcher>>

-------------------------------------------------------------------------------
(* timeout, up to its block                                                  *)

Timeout(t) == /\ pc[t] = "user" /\ thrown[t] = None /\ Len(frames[t]) < MaxNesting
              /\ Goto(t, "ensure")
              /\ UNCHANGED <<calls, due, done, pending, thrown, adder, queue, watcher>>

\* ensure_timeout_thread_created, first without @timeout_thread_mutex.
LookForWatcher(t) ==
  /\ pc[t] = "ensure"
  /\ Goto(t, IF wpc = "none" THEN "create" ELSE "add")
  /\ UNCHANGED <<calls, due, done, pending, thrown, adder, queue, watcher>>

NotLookedAgain == TRUE    \* mutant of StillNone: no second look under the mutex
StillNone == wpc = "none"

CreateWatcher(t) ==
  /\ pc[t] = "create"
  /\ IF StillNone THEN wpc' = "pop" /\ watchers' = watchers + 1
     ELSE UNCHANGED <<wpc, watchers>>
  /\ Goto(t, "add")
  /\ UNCHANGED <<calls, due, done, pending, thrown, adder, queue, requests, expired, todo, current>>

\* Request.new, and add_request up to the signal.
AddRequest(t) ==
  /\ pc[t] = "add" /\ adder = None
  /\ \E r \in Requests : Free(r)
  /\ LET r == CHOOSE r \in Requests : Free(r) IN
       /\ target' = [target EXCEPT ![r] = t]
       /\ frames' = [frames EXCEPT ![t] = Append(@, r)]
       /\ queue' = Append(queue, r)
       /\ due' = due \ {r} /\ done' = done \ {r}
  /\ adder' = t
  /\ Goto(t, "signal")
  /\ UNCHANGED <<pending, thrown, missed, watcher>>

Unlock == adder' = None

NoSignal == wpc    \* mutant of Signalled: no signal
Signalled == IF wpc = "waiting" THEN "check" ELSE wpc

\* The block begins.
Signal(t) ==
  /\ pc[t] = "signal"
  /\ WatcherGoes(Signalled)
  /\ Unlock
  /\ Goto(t, "user")
  /\ UNCHANGED <<calls, due, done, pending, thrown, queue, requests, expired, todo, current>>

\* t throws the first of its pending exceptions.
Throw(t) == /\ pending[t] # <<>>
            /\ thrown' = [thrown EXCEPT ![t] = Head(pending[t])]
            /\ pending' = [pending EXCEPT ![t] = Tail(@)]

\* A checkpoint in ensure_timeout_thread_created or add_request, which are before the
\* begin of the ensure clause: a request that has been added stays.
AddInterrupted(t) ==
  /\ pc[t] \in {"create", "add", "signal"}
  /\ Throw(t)
  /\ IF pc[t] = "signal"
     THEN Unlock /\ missed' = TRUE /\ frames' = [frames EXCEPT ![t] = Front(@)]
     ELSE UNCHANGED <<adder, missed, frames>>
  /\ Goto(t, "user")
  /\ UNCHANGED <<target, due, done, queue, watcher>>

-------------------------------------------------------------------------------
(* Ruby code between calls and in their blocks                               *)

Checkpoint(t) ==
  /\ pc[t] = "user" /\ thrown[t] = None
  /\ Throw(t)
  /\ UNCHANGED <<calls, due, done, pc, adder, queue, watcher>>

\* A Timeout::Error may be rescued anywhere.  An ExitException is rescued by none of the
\* blocks, and by whatever is outside of all calls.
Rescue(t) ==
  /\ pc[t] = "user"
  /\ thrown[t] # None /\ (thrown[t] = Error \/ frames[t] = <<>>)
  /\ thrown' = [thrown EXCEPT ![t] = None]
  /\ UNCHANGED <<calls, due, done, pending, pc, adder, queue, watcher>>

\* The block returns or throws: its ensure clause calls finished.
BlockEnds(t) ==
  /\ pc[t] = "user" /\ frames[t] # <<>>
  /\ Goto(t, "finish")
  /\ UNCHANGED <<calls, due, done, pending, thrown, adder, queue, watcher>>

\* timeout returns or throws; handle_timeout translates its own exception.
LeaveCall(t) == /\ frames' = [frames EXCEPT ![t] = Front(@)]
                /\ Goto(t, "user")
                /\ UNCHANGED <<target, due, adder, queue, watcher>>
Translated(t, e) == [thrown EXCEPT ![t] = IF e = Innermost(t) THEN Error ELSE e]

DoneAtOnce(t) == TRUE    \* mutant of Clear: synchronize has no checkpoint
Clear(t) == pending[t] = <<>>

\* The checkpoint of synchronize finds nothing, the mutex of the request is free.
Finished(t) ==
  /\ pc[t] = "finish" /\ Clear(t)
  /\ ~(wpc = "mark" /\ current = Innermost(t))
  /\ done' = done \cup {Innermost(t)}
  /\ thrown' = Translated(t, thrown[t])
  /\ LeaveCall(t)
  /\ UNCHANGED <<pending, missed>>

\* The checkpoint of synchronize, or of the lock that spins, throws: @done is not set.
FinishedInterrupted(t) ==
  /\ pc[t] = "finish" /\ pending[t] # <<>>
  /\ thrown' = Translated(t, Head(pending[t]))
  /\ pending' = [pending EXCEPT ![t] = Tail(@)]
  /\ missed' = (missed \/ Head(pending[t]) # Innermost(t))
  /\ LeaveCall(t)
  /\ UNCHANGED done

-------------------------------------------------------------------------------
(* The watcher                                                               *)

CallersUnchanged == UNCHANGED <<calls, due, thrown, pc, adder>>

Pop == /\ wpc = "pop" /\ queue # <<>>
       /\ current' = Head(queue) /\ queue' = Tail(queue)
       /\ WatcherGoes("done?")
       /\ UNCHANGED <<done, pending, requests, expired, todo>> /\ CallersUnchanged

KeepIfNotDone == /\ wpc = "done?"
                 /\ requests' = IF current \in done THEN requests ELSE requests \cup {current}
                 /\ current' = None
                 /\ WatcherGoes("pop")
                 /\ UNCHANGED <<done, pending, queue, expired, todo>> /\ CallersUnchanged

HaveAll == /\ wpc = "pop" /\ queue = <<>> /\ requests # {}
           /\ WatcherGoes("check")
           /\ UNCHANGED <<done, pending, queue, requests, expired, todo, current>>
           /\ CallersUnchanged

\* With @queue_mutex: no deadline is over and nothing is queued.
Wait == /\ wpc = "check" /\ adder = None
        /\ requests \cap due = {} /\ queue = <<>>
        /\ WatcherGoes("waiting")
        /\ UNCHANGED <<done, pending, queue, requests, expired, todo, current>>
        /\ CallersUnchanged

\* The closest deadline is over.
WaitEnds == /\ wpc = "waiting" /\ requests \cap due # {}
            /\ WatcherGoes("check")
            /\ UNCHANGED <<done, pending, queue, requests, expired, todo, current>>
            /\ CallersUnchanged

Scan == /\ wpc = "check" /\ adder = None
        /\ requests \cap due # {} \/ queue # <<>>
        /\ expired' = due \cap requests /\ todo' = requests
        /\ WatcherGoes("scan")
        /\ UNCHANGED <<done, pending, queue, requests, current>> /\ CallersUnchanged

MayInterrupt(r) == r \in expired /\ r \notin done

\* interrupt, with the mutex of the request: raise, and then @done.
Interrupt(r) ==
  /\ wpc = "scan" /\ r \in todo /\ MayInterrupt(r)
  /\ pending' = [pending EXCEPT ![target[r]] = Append(@, r)]
  /\ current' = r
  /\ WatcherGoes("mark")
  /\ UNCHANGED <<done, queue, requests, expired, todo>> /\ CallersUnchanged

Marked == done \cup {current}

Mark == /\ wpc = "mark"
        /\ done' = Marked /\ todo' = todo \ {current}
        /\ current' = None
        /\ WatcherGoes("scan")
        /\ UNCHANGED <<pending, queue, requests, expired>> /\ CallersUnchanged

Skip(r) == /\ wpc = "scan" /\ r \in todo /\ ~MayInterrupt(r)
           /\ todo' = todo \ {r}
           /\ WatcherGoes("scan")
           /\ UNCHANGED <<done, pending, queue, requests, expired, current>> /\ CallersUnchanged

Reject == /\ wpc = "scan" /\ todo = {}
          /\ requests' = requests \ done /\ expired' = {}
          /\ WatcherGoes("pop")
          /\ UNCHANGED <<done, pending, queue, todo, current>> /\ CallersUnchanged

-------------------------------------------------------------------------------
Watch == \/ Pop \/ KeepIfNotDone \/ HaveAll \/ Wait \/ WaitEnds \/ Scan \/ Mark \/ Reject
         \/ \E r \in Requests : Interrupt(r) \/ Skip(r)

Runtime(t) == \/ LookForWatcher(t) \/ CreateWatcher(t) \/ AddRequest(t) \/ Signal(t)
              \/ Finished(t) \/ FinishedInterrupted(t)

Next == \/ Watch
        \/ \E r \in Requests : Expire(r)
        \/ \E t \in Threads : \/ Timeout(t) \/ AddInterrupted(t) \/ Checkpoint(t)
                              \/ Rescue(t) \/ BlockEnds(t) \/ Runtime(t)

Spec == Init /\ [][Next]_vars

\* The watcher runs, and threads leave the sections it waits for.
FairSpec == Spec /\ WF_vars(Watch) /\ \A t \in Threads : WF_vars(Runtime(t))

-------------------------------------------------------------------------------
\* Every variable has its type; the watcher has a request in hand exactly between
\* two steps of the code that handles it.
TypeOK ==
  /\ frames \in [Threads -> Seq(Requests)] /\ pending \in [Threads -> Seq(Requests)]
  /\ target \in [Requests -> Threads \cup {None}]
  /\ due \subseteq Requests /\ done \subseteq Requests
  /\ thrown \in [Threads -> Requests \cup {None, Error}]
  /\ pc \in [Threads -> Labels]
  /\ adder \in Threads \cup {None}
  /\ \A t \in Threads : adder = t <=> pc[t] = "signal"
  /\ queue \in Seq(Requests)
  /\ requests \subseteq Requests /\ expired \subseteq requests /\ todo \subseteq requests
  /\ current \in Requests \cup {None} /\ (current # None <=> wpc \in {"done?", "mark"})
  /\ wpc \in WatcherLabels /\ missed \in BOOLEAN

\* The exception of a call is pending or thrown in its thread only while the call is
\* on: none comes after timeout has returned, and outside of the call it is a
\* Timeout::Error.  This holds as long as no call is left without finished.
ExpiryStaysInCall ==
  ~missed => \A t \in Threads : \A r \in Requests :
               r \in Members(pending[t]) \cup {thrown[t]} => r \in Members(frames[t])

\* A request interrupts its thread once: no exception of it is raised or delivered
\* while another one is.
RaisedOnce ==
  \A t \in Threads : \A i, j \in DOMAIN pending[t] :
    /\ pending[t][i] = pending[t][j] => i = j
    /\ thrown[t] # pending[t][i]

\* The state is well-formed, and expiries hit the call they are of, once.
ExpiriesHitTheirCall == TypeOK /\ ExpiryStaysInCall /\ RaisedOnce

\* However many threads begin to use Timeout at once, one watcher is created.
OneWatcher == watchers <= 1

\* The watcher again and again finds @queue empty and gets @queue_mutex.  Threads
\* that never stop making requests can keep it from that.
WatcherKeepsUp == []<>(wpc \in {"waiting", "scan"})

\* Every call whose deadline is over while it is on has its exception raised, or ends,
\* if the watcher keeps up: it misses none, whether it waits for a later deadline,
\* sleeps in its queue or is busy with others.
ExpiryIsRaised ==
  WatcherKeepsUp => \A r \in Requests :
    r \in due \ done /\ (\E t \in Threads : r \in Members(frames[t]))
      ~> r \in done \/ \A t \in Threads : r \notin Members(frames[t])

-------------------------------------------------------------------------------
(* What makes the properties inductive.                                      *)

Raised(t) == Members(pending[t]) \cup {thrown[t]}
Watched == requests \cup Members(queue) \cup {current}
InHand(r) == wpc = "mark" /\ current = r

\* An exception is raised in the thread of its request, which is done or becomes it next.
RaisedIsDone ==
  \A t \in Threads : \A r \in Requests :
    r \in Raised(t) => target[r] = t /\ (r \in done \/ InHand(r))

\* What the watcher has or gets is of a call that is on, if it is not done.
WatchedIsOn ==
  \A r \in Requests : r \in Watched =>
    /\ target[r] \in Threads
    /\ ~missed /\ r \notin done /\ ~InHand(r) => r \in Members(frames[target[r]])

\* A thread between add_request and finished is in a call.
CallIsOn == \A t \in Threads : pc[t] \in {"signal", "finish"} => frames[t] # <<>>

\* A watcher was created if there is one.
WatcherCounted == watchers = IF wpc = "none" THEN 0 ELSE 1

IInv == /\ TypeOK /\ ExpiryStaysInCall /\ RaisedOnce
        /\ RaisedIsDone /\ WatchedIsOn /\ CallIsOn /\ WatcherCounted

===============================================================================
