-------------------------- MODULE StopTheWorld_proofs -------------------------
(***************************************************************************)
(* For any number of threads and collections: nothing runs while the       *)
(* collector marks, and signals are sent to living threads only.           *)
(***************************************************************************)
EXTENDS StopTheWorld, TLAPS

\* Every step keeps the types, and the lock with those who are where it is needed.
LEMMA TypeStep == ASSUME TypeOK, ListInv, Next PROVE TypeOK'
<1> USE WorldAssumption, BoundAssumption DEF At, Goto, threadVars, signalVars, collectorVars
<1>1. ASSUME NEW a \in Everyone, NEW t \in Threads, AddToList(a, t) PROVE TypeOK'
  BY <1>1 DEF AddToList, TypeOK, ListInv, Labels, Collecting, InHandler, Suspending, Everyone
<1>2. ASSUME NEW a \in Everyone, Lock(a) PROVE TypeOK'
  BY <1>2 DEF Lock, TypeOK, ListInv, Labels, Collecting, InHandler, Suspending, Everyone
<1>3. ASSUME NEW a \in Everyone, StartThread(a) PROVE TypeOK'
  BY <1>3 DEF StartThread, DangerZone, TypeOK, ListInv, Labels, Collecting, InHandler, Suspending, Everyone
<1>4. ASSUME NEW a \in Everyone, Unlock(a) PROVE TypeOK'
  BY <1>4 DEF Unlock, TypeOK, ListInv, Labels, Collecting, InHandler, Suspending, Everyone
<1>5. ASSUME NEW t \in Threads, Launch(t) PROVE TypeOK'
  BY <1>5 DEF Launch, TypeOK, ListInv, Labels, Collecting, InHandler, Suspending, Everyone
<1>6. ASSUME NEW t \in Threads, Exit(t) PROVE TypeOK'
  BY <1>6 DEF Exit, TypeOK, ListInv, Labels, Collecting, InHandler, Suspending, Everyone
<1>7. ASSUME NEW t \in Threads, LeaveList(t) PROVE TypeOK'
  BY <1>7 DEF LeaveList, ListFree, TypeOK, ListInv, Labels, Collecting, InHandler, Suspending, Everyone
<1>8. ASSUME NEW t \in Threads, Finish(t) PROVE TypeOK'
  BY <1>8 DEF Finish, TypeOK, ListInv, Labels, Collecting, InHandler, Suspending, Everyone
<1>9. ASSUME NEW t \in Threads, HandleStop(t) PROVE TypeOK'
  BY <1>9 DEF HandleStop, TypeOK, ListInv, Labels, Collecting, InHandler, Suspending, Everyone
<1>10. ASSUME NEW t \in Threads, Announce(t) PROVE TypeOK'
  BY <1>10 DEF Announce, TypeOK, ListInv, Labels, Collecting, InHandler, Suspending, Everyone
<1>rec. ASSUME NEW t \in Threads, RecordStack(t) PROVE TypeOK'
  BY <1>rec DEF RecordStack, TypeOK, ListInv, Labels, Collecting, InHandler, Suspending, Everyone
<1>11. ASSUME NEW t \in Threads, Pause(t) PROVE TypeOK'
  BY <1>11 DEF Pause, TypeOK, ListInv, Labels, Collecting, InHandler, Suspending, Everyone
<1>12. ASSUME NEW t \in Threads, HandleResume(t) PROVE TypeOK'
  BY <1>12 DEF HandleResume, TypeOK, ListInv, Labels, Collecting, InHandler, Suspending, Everyone
<1>13. ASSUME NEW t \in Threads, LeaveHandler(t) PROVE TypeOK'
  BY <1>13 DEF LeaveHandler, TypeOK, ListInv, Labels, Collecting, InHandler, Suspending, Everyone
<1>14. CASE Collect
  BY <1>14 DEF Collect, TypeOK, ListInv, Labels, Collecting, InHandler, Suspending, Everyone
<1>15. CASE AllLaunched
  BY <1>15 DEF AllLaunched, TypeOK, ListInv, Labels, Collecting, InHandler, Suspending, Everyone
<1>16. CASE StopsSent
  BY <1>16 DEF StopsSent, TypeOK, ListInv, Labels, Collecting, InHandler, Suspending, Everyone
<1>17. CASE AllSuspended
  BY <1>17 DEF AllSuspended, all_suspended, TypeOK, ListInv, Labels, Collecting,
         InHandler, Suspending, Everyone
<1>18. CASE Mark
  BY <1>18 DEF Mark, TypeOK, ListInv, Labels, Collecting, InHandler, Suspending, Everyone
<1>19. CASE ResumesSent
  BY <1>19 DEF ResumesSent, TypeOK, ListInv, Labels, Collecting, InHandler, Suspending, Everyone
<1>20. CASE AllRunning
  BY <1>20 DEF AllRunning, TypeOK, ListInv, Labels, Collecting, InHandler, Suspending, Everyone
<1>21. CASE Sweep
  BY <1>21 DEF Sweep, TypeOK, ListInv, Labels, Collecting, InHandler, Suspending, Everyone
<1>22. ASSUME NEW t \in Threads, SendStop(t) PROVE TypeOK'
  BY <1>22 DEF SendStop, TypeOK, ListInv, Labels, Collecting, InHandler, Suspending, Everyone
<1>23. ASSUME NEW t \in Threads, SendResume(t) PROVE TypeOK'
  BY <1>23 DEF SendResume, TypeOK, ListInv, Labels, Collecting, InHandler, Suspending, Everyone
<1> QED BY <1>1, <1>2, <1>3, <1>4, <1>5, <1>6, <1>7, <1>8, <1>9, <1>10, <1>rec, <1>11, <1>12, <1>13,
       <1>14, <1>15, <1>16, <1>17, <1>18, <1>19, <1>20, <1>21, <1>22, <1>23
       DEF Next, RubyCode, ThreadStep, Collector

\* Threads join the list before they exist and leave it before they end, all under the
\* lock.
LEMMA ListStep == ASSUME TypeOK, ListInv, StopInv, Next PROVE ListInv'
<1> USE WorldAssumption, BoundAssumption DEF At, Goto, threadVars, signalVars, collectorVars
<1>1. ASSUME NEW a \in Everyone, NEW t \in Threads, AddToList(a, t) PROVE ListInv'
  BY <1>1 DEF AddToList, ListInv, StopInv, TypeOK, Everyone, Collecting, InHandler, Suspending
<1>2. ASSUME NEW a \in Everyone, Lock(a) PROVE ListInv'
  BY <1>2 DEF Lock, ListInv, StopInv, TypeOK, Everyone, Collecting, InHandler, Suspending
<1>3. ASSUME NEW a \in Everyone, StartThread(a) PROVE ListInv'
  BY <1>3 DEF StartThread, DangerZone, ListInv, StopInv, TypeOK, Everyone, Collecting, InHandler, Suspending
<1>4. ASSUME NEW a \in Everyone, Unlock(a) PROVE ListInv'
  BY <1>4 DEF Unlock, ListInv, StopInv, TypeOK, Everyone, Collecting, InHandler, Suspending
<1>5. ASSUME NEW t \in Threads, Launch(t) PROVE ListInv'
  BY <1>5 DEF Launch, ListInv, StopInv, TypeOK, Everyone, Collecting, InHandler, Suspending
<1>6. ASSUME NEW t \in Threads, Exit(t) PROVE ListInv'
  BY <1>6 DEF Exit, ListInv, StopInv, TypeOK, Everyone, Collecting, InHandler, Suspending
<1>7. ASSUME NEW t \in Threads, LeaveList(t) PROVE ListInv'
  BY <1>7 DEF LeaveList, ListFree, ListInv, StopInv, TypeOK, Everyone, Collecting, InHandler, Suspending
<1>8. ASSUME NEW t \in Threads, Finish(t) PROVE ListInv'
  BY <1>8 DEF Finish, ListInv, StopInv, TypeOK, Everyone, Collecting, InHandler, Suspending
<1>9. ASSUME NEW t \in Threads, HandleStop(t) PROVE ListInv'
  BY <1>9 DEF HandleStop, ListInv, StopInv, TypeOK, Everyone, Collecting, InHandler, Suspending
<1>10. ASSUME NEW t \in Threads, Announce(t) PROVE ListInv'
  BY <1>10 DEF Announce, ListInv, StopInv, TypeOK, Everyone, Collecting, InHandler, Suspending
<1>rec. ASSUME NEW t \in Threads, RecordStack(t) PROVE ListInv'
  BY <1>rec DEF RecordStack, ListInv, StopInv, TypeOK, Everyone, Collecting, InHandler, Suspending
<1>11. ASSUME NEW t \in Threads, Pause(t) PROVE ListInv'
  BY <1>11 DEF Pause, ListInv, StopInv, TypeOK, Everyone, Collecting, InHandler, Suspending
<1>12. ASSUME NEW t \in Threads, HandleResume(t) PROVE ListInv'
  BY <1>12 DEF HandleResume, ListInv, StopInv, TypeOK, Everyone, Collecting, InHandler, Suspending
<1>13. ASSUME NEW t \in Threads, LeaveHandler(t) PROVE ListInv'
  BY <1>13 DEF LeaveHandler, ListInv, StopInv, TypeOK, Everyone, Collecting, InHandler, Suspending
<1>14. CASE Collect
  BY <1>14 DEF Collect, ListInv, StopInv, TypeOK, Everyone, Collecting, InHandler, Suspending
<1>15. CASE AllLaunched
  BY <1>15 DEF AllLaunched, ListInv, StopInv, TypeOK, Everyone, Collecting, InHandler, Suspending
<1>16. CASE StopsSent
  BY <1>16 DEF StopsSent, ListInv, StopInv, TypeOK, Everyone, Collecting, InHandler, Suspending
<1>17. CASE AllSuspended
  BY <1>17 DEF AllSuspended, all_suspended, ListInv, StopInv, TypeOK, Everyone,
         Collecting, InHandler, Suspending
<1>18. CASE Mark
  BY <1>18 DEF Mark, ListInv, StopInv, TypeOK, Everyone, Collecting, InHandler, Suspending
<1>19. CASE ResumesSent
  BY <1>19 DEF ResumesSent, ListInv, StopInv, TypeOK, Everyone, Collecting, InHandler, Suspending
<1>20. CASE AllRunning
  BY <1>20 DEF AllRunning, ListInv, StopInv, TypeOK, Everyone, Collecting, InHandler, Suspending
<1>21. CASE Sweep
  BY <1>21 DEF Sweep, ListInv, StopInv, TypeOK, Everyone, Collecting, InHandler, Suspending
<1>22. ASSUME NEW t \in Threads, SendStop(t) PROVE ListInv'
  BY <1>22 DEF SendStop, ListInv, StopInv, TypeOK, Everyone, Collecting, InHandler, Suspending
<1>23. ASSUME NEW t \in Threads, SendResume(t) PROVE ListInv'
  BY <1>23 DEF SendResume, ListInv, StopInv, TypeOK, Everyone, Collecting, InHandler, Suspending
<1> QED BY <1>1, <1>2, <1>3, <1>4, <1>5, <1>6, <1>7, <1>8, <1>9, <1>10, <1>rec, <1>11, <1>12, <1>13,
       <1>14, <1>15, <1>16, <1>17, <1>18, <1>19, <1>20, <1>21, <1>22, <1>23
       DEF Next, RubyCode, ThreadStep, Collector

\* Once all threads are launched the lock keeps the list as it is, and the waits for
\* all_suspended and all_running establish what the next phase relies on.
LEMMA PhaseStep == ASSUME TypeOK, ListInv, PhaseInv, StopInv, Next PROVE PhaseInv'
<1> USE WorldAssumption, BoundAssumption DEF At, Goto, threadVars, signalVars, collectorVars
<1>1. ASSUME NEW a \in Everyone, NEW t \in Threads, AddToList(a, t) PROVE PhaseInv'
  BY <1>1 DEF AddToList, PhaseInv, TypeOK, ListInv, StopInv, Stopping, Resuming, Everyone,
         Collecting
<1>2. ASSUME NEW a \in Everyone, Lock(a) PROVE PhaseInv'
  BY <1>2 DEF Lock, PhaseInv, TypeOK, ListInv, StopInv, Stopping, Resuming, Everyone, Collecting
<1>3. ASSUME NEW a \in Everyone, StartThread(a) PROVE PhaseInv'
  BY <1>3 DEF StartThread, DangerZone, PhaseInv, TypeOK, ListInv, StopInv, Stopping,
         Resuming, Everyone, Collecting
<1>4. ASSUME NEW a \in Everyone, Unlock(a) PROVE PhaseInv'
  BY <1>4 DEF Unlock, PhaseInv, TypeOK, ListInv, StopInv, Stopping, Resuming, Everyone,
         Collecting
<1>5. ASSUME NEW t \in Threads, Launch(t) PROVE PhaseInv'
  BY <1>5 DEF Launch, PhaseInv, TypeOK, ListInv, StopInv, Stopping, Resuming, Everyone,
         Collecting
<1>6. ASSUME NEW t \in Threads, Exit(t) PROVE PhaseInv'
  BY <1>6 DEF Exit, PhaseInv, TypeOK, ListInv, StopInv, Stopping, Resuming, Everyone, Collecting
<1>7. ASSUME NEW t \in Threads, LeaveList(t) PROVE PhaseInv'
  BY <1>7 DEF LeaveList, ListFree, PhaseInv, TypeOK, ListInv, StopInv, Stopping, Resuming,
         Everyone, Collecting
<1>8. ASSUME NEW t \in Threads, Finish(t) PROVE PhaseInv'
  BY <1>8 DEF Finish, PhaseInv, TypeOK, ListInv, StopInv, Stopping, Resuming, Everyone,
         Collecting
<1>9. ASSUME NEW t \in Threads, HandleStop(t) PROVE PhaseInv'
  BY <1>9 DEF HandleStop, PhaseInv, TypeOK, ListInv, StopInv, Stopping, Resuming,
         Everyone, Collecting
<1>10. ASSUME NEW t \in Threads, Announce(t) PROVE PhaseInv'
  BY <1>10 DEF Announce, PhaseInv, TypeOK, ListInv, StopInv, Stopping, Resuming, Everyone,
         Collecting
<1>rec. ASSUME NEW t \in Threads, RecordStack(t) PROVE PhaseInv'
  BY <1>rec DEF RecordStack, PhaseInv, TypeOK, ListInv, StopInv, Stopping, Resuming, Everyone,
         Collecting
<1>11. ASSUME NEW t \in Threads, Pause(t) PROVE PhaseInv'
  BY <1>11 DEF Pause, PhaseInv, TypeOK, ListInv, StopInv, Stopping, Resuming, Everyone,
         Collecting
<1>12. ASSUME NEW t \in Threads, HandleResume(t) PROVE PhaseInv'
  BY <1>12 DEF HandleResume, PhaseInv, TypeOK, ListInv, StopInv, Stopping, Resuming,
         Everyone, Collecting
<1>13. ASSUME NEW t \in Threads, LeaveHandler(t) PROVE PhaseInv'
  <2>1. /\ suspend' = [suspend EXCEPT ![t] = "Running"] /\ handler[t] = "resumed"
        /\ UNCHANGED <<threadVars, usr1, usr2, gcLock, collectorVars>>
    BY <1>13 DEF LeaveHandler
  <2>2. suspend[t] # "Suspended"
    BY <2>1 DEF StopInv, Suspending
  <2>3. \A u \in Threads : suspend'[u] = IF u = t THEN "Running" ELSE suspend[u]
    BY <2>1 DEF TypeOK
  <2>4. pc' = pc /\ list' = list /\ toSignal' = toSignal
    BY <2>1 DEF threadVars, collectorVars
  <2>5. list \subseteq Threads /\ toSignal \subseteq Threads
    BY DEF TypeOK
  <2> QED BY <2>2, <2>3, <2>4, <2>5 DEF PhaseInv
<1>14. CASE Collect
  BY <1>14 DEF Collect, PhaseInv, TypeOK, ListInv, StopInv, Stopping, Resuming, Everyone,
         Collecting
<1>15. CASE AllLaunched
  BY <1>15 DEF AllLaunched, PhaseInv, TypeOK, ListInv, StopInv, Stopping, Resuming,
         Everyone, Collecting
<1>16. CASE StopsSent
  BY <1>16 DEF StopsSent, PhaseInv, TypeOK, ListInv, StopInv, Stopping, Resuming,
         Everyone, Collecting
<1>17. CASE AllSuspended
  BY <1>17 DEF AllSuspended, all_suspended, PhaseInv, TypeOK, ListInv, StopInv, Stopping,
         Resuming, Everyone, Collecting
<1>18. CASE Mark
  BY <1>18 DEF Mark, PhaseInv, TypeOK, ListInv, StopInv, Stopping, Resuming, Everyone,
         Collecting
<1>19. CASE ResumesSent
  BY <1>19 DEF ResumesSent, PhaseInv, TypeOK, ListInv, StopInv, Stopping, Resuming,
         Everyone, Collecting
<1>20. CASE AllRunning
  BY <1>20 DEF AllRunning, PhaseInv, TypeOK, ListInv, StopInv, Stopping, Resuming,
         Everyone, Collecting
<1>21. CASE Sweep
  BY <1>21 DEF Sweep, PhaseInv, TypeOK, ListInv, StopInv, Stopping, Resuming, Everyone,
         Collecting
<1>22. ASSUME NEW t \in Threads, SendStop(t) PROVE PhaseInv'
  BY <1>22 DEF SendStop, PhaseInv, TypeOK, ListInv, StopInv, Stopping, Resuming, Everyone,
         Collecting
<1>23. ASSUME NEW t \in Threads, SendResume(t) PROVE PhaseInv'
  BY <1>23 DEF SendResume, PhaseInv, TypeOK, ListInv, StopInv, Stopping, Resuming,
         Everyone, Collecting
<1> QED BY <1>1, <1>2, <1>3, <1>4, <1>5, <1>6, <1>7, <1>8, <1>9, <1>10, <1>rec, <1>11, <1>12, <1>13,
       <1>14, <1>15, <1>16, <1>17, <1>18, <1>19, <1>20, <1>21, <1>22, <1>23
       DEF Next, RubyCode, ThreadStep, Collector

\* A thread gets from one stage of its stop to the next only in the phase meant for it.
LEMMA StopStep == ASSUME TypeOK, ListInv, PhaseInv, StopInv, Next PROVE StopInv'
<1> USE WorldAssumption, BoundAssumption DEF At, Goto, threadVars, signalVars, collectorVars
<1>1. ASSUME NEW a \in Everyone, NEW t \in Threads, AddToList(a, t) PROVE StopInv'
  BY <1>1 DEF AddToList, StopInv, PhaseInv, TypeOK, ListInv, Stopping, Resuming, Everyone,
         Collecting, InHandler, Suspending
<1>2. ASSUME NEW a \in Everyone, Lock(a) PROVE StopInv'
  BY <1>2 DEF Lock, StopInv, PhaseInv, TypeOK, ListInv, Stopping, Resuming, Everyone,
         Collecting, InHandler, Suspending
<1>3. ASSUME NEW a \in Everyone, StartThread(a) PROVE StopInv'
  BY <1>3 DEF StartThread, DangerZone, StopInv, PhaseInv, TypeOK, ListInv, Stopping,
         Resuming, Everyone, Collecting, InHandler, Suspending
<1>4. ASSUME NEW a \in Everyone, Unlock(a) PROVE StopInv'
  BY <1>4 DEF Unlock, StopInv, PhaseInv, TypeOK, ListInv, Stopping, Resuming, Everyone,
         Collecting, InHandler, Suspending
<1>5. ASSUME NEW t \in Threads, Launch(t) PROVE StopInv'
  BY <1>5 DEF Launch, StopInv, PhaseInv, TypeOK, ListInv, Stopping, Resuming, Everyone,
         Collecting, InHandler, Suspending
<1>6. ASSUME NEW t \in Threads, Exit(t) PROVE StopInv'
  BY <1>6 DEF Exit, StopInv, PhaseInv, TypeOK, ListInv, Stopping, Resuming, Everyone,
         Collecting, InHandler, Suspending
<1>7. ASSUME NEW t \in Threads, LeaveList(t) PROVE StopInv'
  BY <1>7 DEF LeaveList, ListFree, StopInv, PhaseInv, TypeOK, ListInv, Stopping, Resuming,
         Everyone, Collecting, InHandler, Suspending
<1>8. ASSUME NEW t \in Threads, Finish(t) PROVE StopInv'
  BY <1>8 DEF Finish, StopInv, PhaseInv, TypeOK, ListInv, Stopping, Resuming, Everyone,
         Collecting, InHandler, Suspending
<1>9. ASSUME NEW t \in Threads, HandleStop(t) PROVE StopInv'
  BY <1>9 DEF HandleStop, StopInv, PhaseInv, TypeOK, ListInv, Stopping, Resuming,
         Everyone, Collecting, InHandler, Suspending
<1>10. ASSUME NEW t \in Threads, Announce(t) PROVE StopInv'
  BY <1>10 DEF Announce, StopInv, PhaseInv, TypeOK, ListInv, Stopping, Resuming, Everyone,
         Collecting, InHandler, Suspending
<1>rec. ASSUME NEW t \in Threads, RecordStack(t) PROVE StopInv'
  BY <1>rec DEF RecordStack, StopInv, PhaseInv, TypeOK, ListInv, Stopping, Resuming, Everyone,
         Collecting, InHandler, Suspending
<1>11. ASSUME NEW t \in Threads, Pause(t) PROVE StopInv'
  BY <1>11 DEF Pause, StopInv, PhaseInv, TypeOK, ListInv, Stopping, Resuming, Everyone,
         Collecting, InHandler, Suspending
<1>12. ASSUME NEW t \in Threads, HandleResume(t) PROVE StopInv'
  BY <1>12 DEF HandleResume, StopInv, PhaseInv, TypeOK, ListInv, Stopping, Resuming,
         Everyone, Collecting, InHandler, Suspending
<1>13. ASSUME NEW t \in Threads, LeaveHandler(t) PROVE StopInv'
  BY <1>13 DEF LeaveHandler, StopInv, PhaseInv, TypeOK, ListInv, Stopping, Resuming,
         Everyone, Collecting, InHandler, Suspending
<1>14. CASE Collect
  BY <1>14 DEF Collect, StopInv, PhaseInv, TypeOK, ListInv, Stopping, Resuming, Everyone,
         Collecting, InHandler, Suspending
<1>15. CASE AllLaunched
  BY <1>15 DEF AllLaunched, StopInv, PhaseInv, TypeOK, ListInv, Stopping, Resuming,
         Everyone, Collecting, InHandler, Suspending
<1>16. CASE StopsSent
  BY <1>16 DEF StopsSent, StopInv, PhaseInv, TypeOK, ListInv, Stopping, Resuming,
         Everyone, Collecting, InHandler, Suspending
<1>17. CASE AllSuspended
  BY <1>17 DEF AllSuspended, all_suspended, StopInv, PhaseInv, TypeOK, ListInv, Stopping,
         Resuming, Everyone, Collecting, InHandler, Suspending
<1>18. CASE Mark
  BY <1>18 DEF Mark, StopInv, PhaseInv, TypeOK, ListInv, Stopping, Resuming, Everyone,
         Collecting, InHandler, Suspending
<1>19. CASE ResumesSent
  BY <1>19 DEF ResumesSent, StopInv, PhaseInv, TypeOK, ListInv, Stopping, Resuming,
         Everyone, Collecting, InHandler, Suspending
<1>20. CASE AllRunning
  BY <1>20 DEF AllRunning, StopInv, PhaseInv, TypeOK, ListInv, Stopping, Resuming,
         Everyone, Collecting, InHandler, Suspending
<1>21. CASE Sweep
  BY <1>21 DEF Sweep, StopInv, PhaseInv, TypeOK, ListInv, Stopping, Resuming, Everyone,
         Collecting, InHandler, Suspending
<1>22. ASSUME NEW t \in Threads, SendStop(t) PROVE StopInv'
  BY <1>22 DEF SendStop, StopInv, PhaseInv, TypeOK, ListInv, Stopping, Resuming, Everyone,
         Collecting, InHandler, Suspending
<1>23. ASSUME NEW t \in Threads, SendResume(t) PROVE StopInv'
  BY <1>23 DEF SendResume, StopInv, PhaseInv, TypeOK, ListInv, Stopping, Resuming,
         Everyone, Collecting, InHandler, Suspending
<1> QED BY <1>1, <1>2, <1>3, <1>4, <1>5, <1>6, <1>7, <1>8, <1>9, <1>10, <1>rec, <1>11, <1>12, <1>13,
       <1>14, <1>15, <1>16, <1>17, <1>18, <1>19, <1>20, <1>21, <1>22, <1>23
       DEF Next, RubyCode, ThreadStep, Collector

\* Initially only the main thread exists.
LEMMA InitStep == ASSUME Init PROVE IInv
BY WorldAssumption, BoundAssumption DEF Init, IInv, TypeOK, ListInv, PhaseInv, StopInv, Everyone,
   Labels, Collecting, InHandler, Suspending, Stopping, Resuming

\* A step that changes nothing keeps everything.
LEMMA StutterStep == ASSUME IInv, UNCHANGED vars PROVE IInv'
BY DEF IInv, vars, threadVars, signalVars, collectorVars, TypeOK, ListInv, PhaseInv, StopInv

\* The invariant holds in every reachable state, for any number of threads.
THEOREM Invariance == Spec => []IInv
<1>1. IInv /\ [Next]_vars => IInv'
  <2> SUFFICES ASSUME IInv, [Next]_vars PROVE IInv'
    OBVIOUS
  <2>1. CASE Next
    BY <2>1, TypeStep, ListStep, PhaseStep, StopStep DEF IInv
  <2>2. CASE UNCHANGED vars
    BY <2>2, StutterStep
  <2> QED BY <2>1, <2>2
<1> QED BY <1>1, InitStep, PTL DEF Spec

\* The types, and with them the discipline of g_gc_recursive_mutex.
THEOREM TypeCorrect == Spec => []TypeOK
<1>1. IInv => TypeOK
  BY DEF IInv
<1> QED BY <1>1, Invariance, PTL

\* pthread_kill is only called for threads that exist.
THEOREM SignalsAreSafe == Spec => []SignalsReachTheLiving
<1>1. IInv => SignalsReachTheLiving
  <2> SUFFICES ASSUME IInv, NEW t \in usr1 \cup usr2 PROVE Alive(t)
    BY DEF SignalsReachTheLiving
  <2>1. t \in Threads /\ t \in list /\ suspend[t] # "Launching"
    BY DEF IInv, TypeOK, StopInv
  <2> QED BY <2>1 DEF IInv, ListInv, Alive
<1> QED BY <1>1, Invariance, PTL

\* While the collector marks, no thread runs code that could touch the heap.
THEOREM WorldStops == Spec => []WorldIsStopped
<1>1. IInv => WorldIsStopped
  <2> SUFFICES ASSUME IInv, pc[Main] = "mark", NEW t \in Threads, Alive(t)
               PROVE  (t \in list /\ handler[t] \in Suspending) \/ pc[t] = "left"
    BY DEF WorldIsStopped
  <2>1. CASE t \in list
    BY <2>1 DEF IInv, PhaseInv, StopInv
  <2>2. CASE t \notin list
    <3>1. pc[t] \in Labels /\ pc[t] \notin Collecting /\ t # Main
      BY WorldAssumption DEF IInv, TypeOK, Everyone
    <3> QED BY <2>2, <3>1 DEF IInv, ListInv, Alive, Labels, Collecting
  <2> QED BY <2>1, <2>2
<1> QED BY <1>1, Invariance, PTL

\* Only the handler records the end of a stack, and only a thread that runs moves it.
LEMMA RecordedStep == ASSUME TypeOK, RecordedInv, [Next]_vars PROVE RecordedInv'
<1> USE DEF TypeOK, RecordedInv
<1>1. ASSUME UNCHANGED <<handler, covered>> PROVE RecordedInv'
  BY <1>1
<1>2. ASSUME NEW t \in Threads,
             \/ HandleStop(t) \/ Announce(t) \/ RecordStack(t) \/ Pause(t) \/ HandleResume(t)
      PROVE  RecordedInv'
  BY <1>2 DEF HandleStop, Announce, RecordStack, Pause, HandleResume
<1>3. ASSUME NEW t \in Threads, LeaveHandler(t) PROVE RecordedInv'
  BY <1>3 DEF LeaveHandler
<1>4. CASE \/ UNCHANGED vars
           \/ \E a \in Everyone : RubyCode(a) \/ StartThread(a) \/ Unlock(a)
           \/ \E t \in Threads : Launch(t) \/ LeaveList(t) \/ Finish(t) \/ Exit(t)
           \/ Collect \/ Collector
  <2>1. UNCHANGED <<handler, covered>>
    BY <1>4 DEF vars, signalVars, RubyCode, Lock, AddToList, StartThread, Unlock, Launch, LeaveList,
         Finish, Exit, Collect, Collector, AllLaunched, StopsSent, AllSuspended, Mark, ResumesSent,
         AllRunning, Sweep, SendStop, SendResume
  <2> QED BY <2>1, <1>1
<1> QED BY <1>2, <1>3, <1>4 DEF Next, ThreadStep

\* What the collector scans of a stopped thread's stack goes to its very end, whatever
\* was called since earlier collections, but for threads between announcing themselves
\* and recording their end.
THEOREM StacksCovered == Spec => []StacksAreCovered
<1>1. Init => RecordedInv
  BY DEF Init, RecordedInv
<1>2. IInv /\ RecordedInv /\ [Next]_vars => RecordedInv'
  BY RecordedStep DEF IInv
<1>3. IInv /\ RecordedInv => StacksAreCovered
  BY DEF IInv, RecordedInv, StacksAreCovered, PhaseInv, StopInv, Suspending, TypeOK
<1> QED BY <1>1, <1>2, <1>3, Invariance, PTL DEF Spec

===============================================================================
