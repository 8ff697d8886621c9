--------------------- MODULE SessionManagerWithMap_proofs ---------------------
(****************************************************************************)
(* Machine-checked safety of SessionManagerWithMap, for any numbers of      *)
(* sessions, workers and pool threads: the typing first, then an inductive  *)
(* invariant about who owns what, and its consequences.                     *)
(****************************************************************************)
EXTENDS SessionManagerWithMap, TLAPS

(****************************************************************************)
(* The inductive invariant.                                                 *)
(****************************************************************************)

\* Threads work for sessions, and only workers run the accept handler.
Placed ==
    \A t \in Threads :
        /\ pc[t] \in SessionPcs => of[t] \in Sessions
        /\ pc[t] \in AcceptPcs => t \in Workers

\* Between two steps only startSession owns the mutex; a thread that destroys a
\* Payload with it is the one that has locked itself up.
LockedByStart ==
    \A t \in Threads : mutex = t => t \in Workers /\ pc[t] \in {"run", "unlink"}

\* One accept handler per session.
InAccept(t) == pc[t] \in AcceptPcs \/ (pc[t] = "unlink" /\ mutex = t)

AcceptIsUnique ==
    \A t, u \in Workers : InAccept(t) /\ InAccept(u) /\ of[t] = of[u] => t = u

\* Before startSession nobody but the accept handler knows the session.
FreshIsUnknown ==
    \A w \in Workers : pc[w] = "startSession" =>
        /\ ~KeptByPayload(of[w])
        /\ of[w] \notin ioConnections \cup removed

\* ~Server goes member by member, and every stage leaves less behind.
ShutdownOrder ==
    /\ pc[Main] = "managerDtor" => server # "serving"
    /\ \A w \in Workers :
         /\ server # "serving" => pc[w] = "exited"
         /\ pc[w] = "exited" => stopped
    /\ ~managerPtr => server # "serving" /\ ioConnections = {}
    /\ server \in {"dtorTasks", "dtorIo", "destroyed"} /\ ~accepting
         => ~managerPtr \/ pc[Main] = "managerDtor"
    /\ server \in {"dtorIo", "destroyed"} =>
         /\ \A s \in Sessions : tasks[s] = 0
         /\ \A p \in PoolThreads : pc[p] = "idle"
    /\ server = "destroyed" => pc[Main] = "idle" /\ pending = {} /\ ~accepting

\* While the server serves a session is marked only after its Payload is gone
\* for good.
MarkedIsOver ==
    /\ \A s \in removed : object[s] # "unborn"
    /\ server = "serving" => \A s \in removed : ~PayloadExists(s)

IInv ==
    /\ TypeOK
    /\ Placed
    /\ LockedByStart
    /\ AcceptIsUnique
    /\ FreshIsUnknown
    /\ OwnedSessionIsAlive
    /\ ArmedTimerHasSession
    /\ NoOrphan
    /\ LastHolderIsAlone
    /\ MapIsExact
    /\ ShutdownOrder
    /\ MarkedIsOver

(****************************************************************************)
(* Typing.                                                                  *)
(****************************************************************************)

\* TypeOK is inductive once the places of the threads are known.
LEMMA TypingInit == Init => TypeOK /\ Placed
<1> SUFFICES ASSUME Init PROVE TypeOK /\ Placed
  OBVIOUS
<1> USE ThreadsAssumption, SessionsAssumption, MaxTasksAssumption
    DEF Init, Threads, SessionPcs, PayloadPcs, ExitPcs,
      AcceptPcs, RestPcs
<1>1. tasks \in [Sessions -> 0 .. MaxTasks]
  OBVIOUS
<1>2. Placed
  BY DEF Placed
<1> QED
  BY <1>1, <1>2 DEF TypeOK

LEMMA TypingStep == TypeOK /\ Placed /\ [Next]_vars => TypeOK' /\ Placed'
<1> SUFFICES ASSUME TypeOK, Placed, [Next]_vars
             PROVE  TypeOK' /\ Placed'
  OBVIOUS
<1> USE ThreadsAssumption, SessionsAssumption, MaxTasksAssumption
    DEF TypeOK, Placed, Threads, SessionPcs, PayloadPcs, ExitPcs, AcceptPcs,
        RestPcs, Goto, Rest, CanDispatch, DropRef, Destroy, FirstRead, Arm, timers, Unlock,
        TakeTask, Erase, WorkersGone
<1>1. ASSUME NEW w \in Workers, NEW s \in Sessions, AcceptSucceeds(w, s)
      PROVE  TypeOK' /\ Placed'
  BY <1>1 DEF AcceptSucceeds
<1>11. ASSUME NEW w \in Workers, NEW s \in Sessions, Expire(w, s) \/ RunTimer(w, s)
       PROVE  TypeOK' /\ Placed'
  BY <1>11 DEF Expire, RunTimer
<1>12. ASSUME NEW w \in Workers, TimerReturns(w)
       PROVE  TypeOK' /\ Placed'
  BY <1>12 DEF TimerReturns
<1>2. ASSUME NEW w \in Workers, NEW s \in Sessions, Dispatch(w, s)
      PROVE  TypeOK' /\ Placed'
  BY <1>2 DEF Dispatch
<1>3. ASSUME NEW w \in Workers, AcceptStep(w)
      PROVE  TypeOK' /\ Placed'
  <2>1. CASE StartSession(w)
    BY <2>1 DEF StartSession
  <2>2. CASE RunReturns(w)
    BY <2>2 DEF RunReturns
  <2>3. CASE AcceptAgain(w)
    BY <2>3 DEF AcceptAgain
  <2>4. CASE DropSession(w)
    BY <2>4 DEF DropSession
  <2> QED
    BY <1>3, <2>1, <2>2, <2>3, <2>4 DEF AcceptStep
<1>4. ASSUME NEW w \in Workers, ScheduleRequest(w)
      PROVE  TypeOK' /\ Placed'
  BY <1>4 DEF ScheduleRequest
<1>5. ASSUME NEW w \in Workers, Continue(w) \/ GiveUp(w)
      PROVE  TypeOK' /\ Placed'
  BY <1>5 DEF Continue, GiveUp
<1>6. ASSUME NEW w \in Workers, AcceptFails(w) \/ Interrupt(w) \/ ExitRun(w)
      PROVE  TypeOK' /\ Placed'
  <2>1. CASE AcceptFails(w)
    BY <2>1 DEF AcceptFails
  <2>2. CASE Interrupt(w)
    BY <2>2 DEF Interrupt
  <2>3. CASE ExitRun(w)
    BY <2>3 DEF ExitRun
  <2> QED
    BY <1>6, <2>1, <2>2, <2>3
<1>7. ASSUME NEW p \in PoolThreads, NEW s \in Sessions, RunTask(p, s)
      PROVE  TypeOK' /\ Placed'
  BY <1>7 DEF RunTask
<1>8. ASSUME NEW t \in Threads, ExitStep(t)
      PROVE  TypeOK' /\ Placed'
  <2>1. CASE Leave(t)
    BY <2>1 DEF Leave
  <2>2. CASE Unlink(t)
    BY <2>2 DEF Unlink
  <2>3. CASE Release(t)
    BY <2>3 DEF Release
  <2> QED
    BY <1>8, <2>1, <2>2, <2>3 DEF ExitStep
<1>9. CASE MainStep
  <2>1. CASE Join \/ DropManagerRef \/ JoinPool
    BY <2>1 DEF Join, DropManagerRef, JoinPool
  <2>2. CASE DestroyAccept
    BY <2>2 DEF DestroyAccept
  <2>3. CASE ServerDestroyed
    BY <2>3 DEF ServerDestroyed
  <2>4. CASE ManagerDtor
    BY <2>4 DEF ManagerDtor
  <2>5. ASSUME NEW s \in Sessions, DiscardTask(s)
        PROVE  TypeOK' /\ Placed'
    BY <2>5 DEF DiscardTask
  <2>6. ASSUME NEW s \in Sessions, DestroyOperation(s)
        PROVE  TypeOK' /\ Placed'
    BY <2>6 DEF DestroyOperation
  <2> QED
    BY <1>9, <2>1, <2>2, <2>3, <2>4, <2>5, <2>6 DEF MainStep
<1>10. CASE Terminated \/ UNCHANGED vars
  BY <1>10 DEF Terminated, vars
<1> QED
  BY <1>1, <1>2, <1>3, <1>4, <1>5, <1>6, <1>7, <1>8, <1>9, <1>10, <1>11,
     <1>12
  DEF Next

\* Every variable keeps its type.
THEOREM TypeCorrect == Spec => []TypeOK
<1>1. TypeOK /\ Placed /\ [Next]_vars => (TypeOK /\ Placed)'
  BY TypingStep
<1> QED
  BY <1>1, TypingInit, PTL DEF Spec

(****************************************************************************)
(* Ownership.                                                               *)
(****************************************************************************)

LEMMA InvInit == Init => IInv
<1> SUFFICES ASSUME Init PROVE IInv
  OBVIOUS
<1>1. TypeOK /\ Placed
  BY TypingInit
<1> USE <1>1, ThreadsAssumption
    DEF Init, Threads, PayloadPcs, ExitPcs, AcceptPcs, KeptByPayload,
        KeptByAccept, PayloadExists, InAccept
<1>2. LockedByStart /\ AcceptIsUnique /\ FreshIsUnknown
  BY DEF LockedByStart, AcceptIsUnique, FreshIsUnknown
<1>3. /\ OwnedSessionIsAlive /\ ArmedTimerHasSession
      /\ NoOrphan /\ LastHolderIsAlone /\ MapIsExact
  BY DEF OwnedSessionIsAlive, ArmedTimerHasSession, NoOrphan, LastHolderIsAlone,
     MapIsExact
<1>4. ShutdownOrder /\ MarkedIsOver
  BY DEF ShutdownOrder, MarkedIsOver
<1> QED
  BY <1>1, <1>2, <1>3, <1>4 DEF IInv

\* One step per action.  The step that needs the whole invariant is Leave: the
\* frame that finds no other reference becomes the only one that unlinks.
LEMMA InvStep == IInv /\ [Next]_vars => IInv'
<1> SUFFICES ASSUME IInv, [Next]_vars
             PROVE  IInv'
  OBVIOUS
<1>0. TypeOK' /\ Placed'
  BY TypingStep DEF IInv
<1> USE ThreadsAssumption, WorkersAssumption, SessionsAssumption,
        MaxTasksAssumption, <1>0
    DEF TypeOK, Placed, Threads, SessionPcs, PayloadPcs, ExitPcs, AcceptPcs,
        RestPcs, Goto, Rest, CanDispatch, DropRef, Destroy, FirstRead, Arm, timers, Unlock,
        TakeTask, Erase, WorkersGone, IInv, LockedByStart, AcceptIsUnique,
        FreshIsUnknown, OwnedSessionIsAlive, ArmedTimerHasSession, NoOrphan, LastHolderIsAlone,
        MapIsExact, ShutdownOrder, MarkedIsOver, InAccept, KeptByPayload,
        KeptByAccept, PayloadExists, PayloadElsewhere
<1>1. ASSUME NEW w \in Workers, NEW s \in Sessions, AcceptSucceeds(w, s)
      PROVE  IInv'
  BY <1>1 DEF AcceptSucceeds
<1>11. ASSUME NEW w \in Workers, NEW s \in Sessions, Expire(w, s) \/ RunTimer(w, s)
       PROVE  IInv'
  <2>1. CASE Expire(w, s)
    BY <2>1 DEF Expire
  <2>2. CASE RunTimer(w, s)
    BY <2>2 DEF RunTimer
  <2> QED
    BY <1>11, <2>1, <2>2
<1>12. ASSUME NEW w \in Workers, TimerReturns(w)
       PROVE  IInv'
  BY <1>12 DEF TimerReturns
<1>2. ASSUME NEW w \in Workers, NEW s \in Sessions, Dispatch(w, s)
      PROVE  IInv'
  BY <1>2 DEF Dispatch
<1>3. ASSUME NEW w \in Workers, AcceptStep(w)
      PROVE  IInv'
  <2>1. CASE StartSession(w)
    BY <2>1 DEF StartSession
  <2>2. CASE RunReturns(w)
    BY <2>2 DEF RunReturns
  <2>3. CASE AcceptAgain(w)
    BY <2>3 DEF AcceptAgain
  <2>4. CASE DropSession(w)
    BY <2>4 DEF DropSession
  <2> QED
    BY <1>3, <2>1, <2>2, <2>3, <2>4 DEF AcceptStep
<1>4. ASSUME NEW w \in Workers, ScheduleRequest(w)
      PROVE  IInv'
  BY <1>4 DEF ScheduleRequest
<1>5. ASSUME NEW w \in Workers, Continue(w) \/ GiveUp(w)
      PROVE  IInv'
  BY <1>5 DEF Continue, GiveUp
<1>6. ASSUME NEW w \in Workers, AcceptFails(w) \/ Interrupt(w) \/ ExitRun(w)
      PROVE  IInv'
  BY <1>6 DEF AcceptFails, Interrupt, ExitRun
<1>7. ASSUME NEW p \in PoolThreads, NEW s \in Sessions, RunTask(p, s)
      PROVE  IInv'
  BY <1>7 DEF RunTask
<1>8. ASSUME NEW t \in Threads, ExitStep(t)
      PROVE  IInv'
  <2>1. CASE Leave(t)
    <3>1. CASE PayloadElsewhere(t, of[t])
      BY <2>1, <3>1 DEF Leave
    <3>2. CASE ~PayloadElsewhere(t, of[t])
      BY <2>1, <3>2 DEF Leave
    <3> QED
      BY <3>1, <3>2
  <2>2. CASE Unlink(t)
    BY <2>2 DEF Unlink
  <2>3. CASE Release(t)
    BY <2>3 DEF Release
  <2> QED
    BY <1>8, <2>1, <2>2, <2>3 DEF ExitStep
<1>9. CASE MainStep
  <2>1. CASE Join \/ DropManagerRef \/ JoinPool \/ DestroyAccept \/ ServerDestroyed
    BY <2>1 DEF Join, DropManagerRef, JoinPool, DestroyAccept, ServerDestroyed
  <2>2. CASE ManagerDtor
    BY <2>2 DEF ManagerDtor
  <2>3. ASSUME NEW s \in Sessions, DiscardTask(s)
        PROVE  IInv'
    BY <2>3 DEF DiscardTask
  <2>4. ASSUME NEW s \in Sessions, DestroyOperation(s)
        PROVE  IInv'
    BY <2>4 DEF DestroyOperation
  <2> QED
    BY <1>9, <2>1, <2>2, <2>3, <2>4 DEF MainStep
<1>10. CASE Terminated \/ UNCHANGED vars
  BY <1>10 DEF Terminated, vars
<1> QED
  BY <1>1, <1>2, <1>3, <1>4, <1>5, <1>6, <1>7, <1>8, <1>9, <1>10, <1>11,
     <1>12
  DEF Next

LEMMA Invariance == Spec => []IInv
  BY InvInit, InvStep, PTL DEF Spec

\* Operations of the chain, queued requests, frames, newSession and the map keep
\* their session; the handler of the timer is none of them.
THEOREM OwnersKeepSession == Spec => []OwnedSessionIsAlive
<1>1. IInv => OwnedSessionIsAlive
  BY DEF IInv
<1> QED
  BY <1>1, Invariance, PTL

\* A wait that has not expired is cancelled before its session goes.
THEOREM TimerIsCancelled == Spec => []ArmedTimerHasSession
<1>1. IInv => ArmedTimerHasSession
  BY DEF IInv
<1> QED
  BY <1>1, Invariance, PTL

\* A living session has an owner.
THEOREM NoLeak == Spec => []NoOrphan
<1>1. IInv => NoOrphan
  BY DEF IInv
<1> QED
  BY <1>1, Invariance, PTL

\* A Payload is destroyed by one thread, after everything that referred to it.
THEOREM OneEnd == Spec => []LastHolderIsAlone
<1>1. IInv => LastHolderIsAlone
  BY DEF IInv
<1> QED
  BY <1>1, Invariance, PTL

\* The map of a manager that is not destroyed holds the running sessions.
THEOREM ExactMap == Spec => []MapIsExact
<1>1. IInv => MapIsExact
  BY DEF IInv
<1> QED
  BY <1>1, Invariance, PTL

\* The sessionWasRemoved() checks never fire.
THEOREM RemovalUnseen == Spec => []RemovalIsNeverObserved
<1>1. IInv => RemovalIsNeverObserved
  <2> SUFFICES ASSUME IInv, NEW w \in Workers,
                      pc[w] \in {"handler", "scheduled"}, of[w] \in removed
               PROVE  FALSE
    BY DEF RemovalIsNeverObserved
  <2>1. server = "serving"
    BY DEF IInv, ShutdownOrder
  <2>2. PayloadExists(of[w])
    BY DEF PayloadExists, PayloadPcs, Threads
  <2> QED
    BY <2>1, <2>2 DEF IInv, MarkedIsOver
<1> QED
  BY <1>1, Invariance, PTL

(****************************************************************************)
(* The self-lock of startSession needs a second worker.                     *)
(****************************************************************************)

OneWorker == \A v, w \in Workers : v = w

\* While run() is returning on the only worker nobody can take the first read
\* out of ioService, so that the chain keeps its reference.
RunIsWatched ==
    /\ \A w \in Workers : pc[w] = "run" => of[w] \in pending
    /\ ExitDetectorNeverRelocks

LEMMA WatchedStep ==
    ASSUME OneWorker, IInv, RunIsWatched, [Next]_vars
    PROVE  RunIsWatched'
<1> USE ThreadsAssumption, SessionsAssumption
    DEF OneWorker, RunIsWatched, ExitDetectorNeverRelocks, TypeOK, Threads, Goto,
        Rest, CanDispatch
<1>0. TypeOK /\ Placed /\ LockedByStart /\ ShutdownOrder
  BY DEF IInv
<1>1. ASSUME NEW w \in Workers, NEW s \in Sessions,
             AcceptSucceeds(w, s) \/ Dispatch(w, s)
      PROVE  RunIsWatched'
  BY <1>0, <1>1 DEF AcceptSucceeds, Dispatch
<1>10. ASSUME NEW w \in Workers, NEW s \in Sessions, Expire(w, s) \/ RunTimer(w, s)
       PROVE  RunIsWatched'
  BY <1>0, <1>10 DEF Expire, RunTimer, LockedByStart
<1>11. ASSUME NEW w \in Workers, TimerReturns(w)
       PROVE  RunIsWatched'
  BY <1>0, <1>11 DEF TimerReturns, LockedByStart
<1>2. ASSUME NEW w \in Workers, StartSession(w)
      PROVE  RunIsWatched'
  BY <1>0, <1>2 DEF StartSession, FirstRead, LockedByStart
<1>3. ASSUME NEW w \in Workers, RunReturns(w)
      PROVE  RunIsWatched'
  <2>1. PayloadElsewhere(w, of[w])
    BY <1>3 DEF RunReturns, PayloadElsewhere
  <2> QED
    BY <1>0, <1>3, <2>1 DEF RunReturns, Unlock
<1>4. ASSUME NEW w \in Workers,
             \/ AcceptAgain(w) \/ DropSession(w) \/ ScheduleRequest(w)
             \/ Continue(w) \/ GiveUp(w) \/ AcceptFails(w) \/ Interrupt(w)
             \/ ExitRun(w)
      PROVE  RunIsWatched'
  BY <1>0, <1>4
  DEF AcceptAgain, DropSession, ScheduleRequest, Continue, GiveUp, AcceptFails,
      Interrupt, ExitRun
<1>5. ASSUME NEW p \in PoolThreads, NEW s \in Sessions, RunTask(p, s)
      PROVE  RunIsWatched'
  BY <1>0, <1>5 DEF RunTask
\* Whoever comes to destroy a Payload was not in startSession.
<1>6. ASSUME NEW t \in Threads, Leave(t)
      PROVE  RunIsWatched'
  BY <1>0, <1>6 DEF Leave, LockedByStart
<1>7. ASSUME NEW t \in Threads, Unlink(t) \/ Release(t)
      PROVE  RunIsWatched'
  BY <1>0, <1>7 DEF Unlink, Release
\* ~io_service takes the pending operations away after the worker has gone.
<1>8. CASE MainStep
  <2>1. CASE \/ Join \/ DropManagerRef \/ ManagerDtor \/ JoinPool
             \/ DestroyAccept \/ ServerDestroyed
    BY <1>0, <2>1
    DEF Join, DropManagerRef, ManagerDtor, JoinPool, DestroyAccept,
        ServerDestroyed
  <2>2. ASSUME NEW s \in Sessions, DiscardTask(s) \/ DestroyOperation(s)
        PROVE  RunIsWatched'
    BY <1>0, <2>2 DEF DiscardTask, DestroyOperation, ShutdownOrder
  <2> QED
    BY <1>8, <2>1, <2>2 DEF MainStep
<1>9. CASE Terminated \/ UNCHANGED vars
  BY <1>9 DEF Terminated, vars
<1> QED
  BY <1>1, <1>2, <1>3, <1>4, <1>5, <1>6, <1>7, <1>8, <1>9, <1>10, <1>11
  DEF Next, AcceptStep, ExitStep

\* With a single worker no ExitDetector runs under the lock of startSession, and
\* the comment there is right; ManagerRelock.cfg shows that two workers are enough
\* for it to be wrong.
THEOREM OneWorkerNeverRelocks ==
    ASSUME OneWorker
    PROVE  Spec => []ExitDetectorNeverRelocks
<1>1. Init => RunIsWatched
  BY DEF Init, RunIsWatched, ExitDetectorNeverRelocks, Threads
<1>2. IInv /\ RunIsWatched /\ [Next]_vars => RunIsWatched'
  BY WatchedStep
<1>3. RunIsWatched => ExitDetectorNeverRelocks
  BY DEF RunIsWatched
<1> QED
  BY <1>1, <1>2, <1>3, Invariance, PTL DEF Spec

(****************************************************************************)
(* The manager implements SessionLifetime.                                  *)
(****************************************************************************)

LEMMA LifetimeInit == Init => Lifetime!Init
  BY DEF Init, Lifetime!Init, lifeOf, phaseOf

\* A step that leaves these three alone is a stutter of SessionLifetime.
LEMMA LifetimeStutter ==
    UNCHANGED << object, stopped, server >> => UNCHANGED Lifetime!vars
  BY DEF Lifetime!vars, lifeOf, phaseOf

\* Only these steps touch the objects, stop the server or finish it.
LEMMA LifetimeStep == IInv /\ [Next]_vars => [Lifetime!Next]_(Lifetime!vars)
<1> SUFFICES ASSUME IInv, [Next]_vars
             PROVE  Lifetime!Next \/ UNCHANGED Lifetime!vars
  OBVIOUS
<1>0. /\ TypeOK /\ Placed /\ ShutdownOrder /\ AcceptIsUnique
      /\ OwnedSessionIsAlive /\ NoOrphan /\ LastHolderIsAlone /\ MapIsExact
  BY DEF IInv
\* A thread inside a handler or a Payload sees a server that is not destroyed.
<1>live. ASSUME NEW t \in Threads, pc[t] \notin {"idle", "exited"}
         PROVE  server # "destroyed"
  BY <1>live, <1>0, ThreadsAssumption DEF ShutdownOrder, Threads
<1>close. ASSUME NEW s \in Sessions, object[s] = "alive", Destroy({s}),
                 UNCHANGED << stopped, server >>, server # "destroyed"
          PROVE  Lifetime!Next
  <2>1. Lifetime!Close(s)
    BY <1>close, <1>0 DEF Destroy, Lifetime!Close, lifeOf, phaseOf, TypeOK
  <2> QED
    BY <2>1 DEF Lifetime!Next
<1>none. ASSUME Destroy({}), UNCHANGED << stopped, server >>
         PROVE  UNCHANGED Lifetime!vars
  BY <1>none, <1>0, LifetimeStutter DEF Destroy, TypeOK
<1>1. ASSUME NEW w \in Workers, NEW s \in Sessions, AcceptSucceeds(w, s)
      PROVE  Lifetime!Next
  <2>1. server # "destroyed"
    BY <1>1, <1>0 DEF AcceptSucceeds, CanDispatch, ShutdownOrder
  <2>2. Lifetime!Open(s)
    BY <1>1, <1>0, <2>1 DEF AcceptSucceeds, CanDispatch, Lifetime!Open, lifeOf,
       phaseOf, TypeOK
  <2> QED
    BY <2>2 DEF Lifetime!Next
<1>2. ASSUME NEW w \in Workers, AcceptFails(w) \/ Interrupt(w)
      PROVE  Lifetime!Next
  <2>1. server # "destroyed"
    BY <1>2, <1>0 DEF AcceptFails, Interrupt, CanDispatch, ShutdownOrder
  <2>2. UNCHANGED << object, server >>
    BY <1>2 DEF AcceptFails, Interrupt
  <2>3. phaseOf = "up" /\ phaseOf' = "stopping"
    BY <1>2, <2>1 DEF AcceptFails, Interrupt, CanDispatch, phaseOf
  <2>4. Lifetime!Stop
    BY <2>2, <2>3 DEF Lifetime!Stop, lifeOf
  <2> QED
    BY <2>4 DEF Lifetime!Next
<1>3. ASSUME NEW w \in Workers, DropSession(w)
      PROVE  Lifetime!Next \/ UNCHANGED Lifetime!vars
  <2>1. CASE of[w] \in ioConnections \/ KeptByPayload(of[w])
    BY <1>3, <2>1, <1>none DEF DropSession, DropRef
  <2>2. CASE ~(of[w] \in ioConnections \/ KeptByPayload(of[w]))
    <3>1. of[w] \in Sessions /\ object[of[w]] = "alive"
      BY <1>3, <1>0 DEF DropSession, Placed, OwnedSessionIsAlive, KeptByAccept,
         SessionPcs, AcceptPcs, Threads
    <3>2. server # "destroyed"
      BY <1>3, <1>live DEF DropSession, Threads
    <3> QED
      BY <1>3, <2>2, <3>1, <3>2, <1>close DEF DropSession, DropRef
  <2> QED
    BY <2>1, <2>2
<1>4. ASSUME NEW t \in Threads, Release(t)
      PROVE  Lifetime!Next \/ UNCHANGED Lifetime!vars
  <2>1. CASE of[t] \in ioConnections \/ KeptByAccept(of[t])
    BY <1>4, <2>1, <1>none DEF Release, DropRef
  <2>2. CASE ~(of[t] \in ioConnections \/ KeptByAccept(of[t]))
    <3>1. of[t] \in Sessions /\ object[of[t]] = "alive"
      BY <1>4, <1>0 DEF Release, Placed, OwnedSessionIsAlive, KeptByPayload,
         SessionPcs, ExitPcs, Threads
    <3>2. server # "destroyed"
      BY <1>4, <1>live DEF Release
    <3> QED
      BY <1>4, <2>2, <3>1, <3>2, <1>close DEF Release, DropRef
  <2> QED
    BY <2>1, <2>2
\* The map's references are never the last: clearing it destroys nothing.
<1>5. CASE ManagerDtor
  <2>1. \A s \in ioConnections : managerPtr /\ KeptByPayload(s)
    BY <1>0 DEF ShutdownOrder, MapIsExact, KeptByPayload, ExitPcs, TypeOK
  <2>2. {s \in ioConnections : ~KeptByPayload(s) /\ ~KeptByAccept(s)} = {}
    BY <2>1
  <2>3. Destroy({}) /\ UNCHANGED << stopped, server >>
    BY <1>5, <2>2 DEF ManagerDtor
  <2> QED
    BY <2>3, <1>none
<1>6. CASE ServerDestroyed
  <2>1. \A s \in Sessions : ~KeptByPayload(s) /\ ~KeptByAccept(s)
    BY <1>6, <1>0 DEF ServerDestroyed, ShutdownOrder, KeptByPayload, KeptByAccept,
       PayloadExists, Threads, PayloadPcs, ExitPcs, AcceptPcs
  <2>2. ioConnections = {}
    BY <1>6, <1>0 DEF ServerDestroyed, ShutdownOrder
  <2>3. \A s \in Sessions : lifeOf[s] # "open"
    BY <1>0, <2>1, <2>2 DEF NoOrphan, lifeOf, TypeOK
  <2>4. stopped
    BY <1>6, <1>0, WorkersAssumption DEF ServerDestroyed, ShutdownOrder
  <2>5. UNCHANGED lifeOf
    BY <1>6 DEF ServerDestroyed, lifeOf
  <2>6. phaseOf = "stopping" /\ phaseOf' = "gone"
    BY <1>6, <2>4 DEF ServerDestroyed, phaseOf
  <2>7. Lifetime!Vanish
    BY <2>3, <2>5, <2>6 DEF Lifetime!Vanish
  <2> QED
    BY <2>7 DEF Lifetime!Next
<1>7. CASE Join \/ DropManagerRef \/ JoinPool
  <2>1. UNCHANGED << object, stopped >> /\ server # "destroyed" /\ server' # "destroyed"
    BY <1>7 DEF Join, DropManagerRef, JoinPool
  <2> QED
    BY <2>1 DEF Lifetime!vars, lifeOf, phaseOf
\* Every other action leaves the three variables alone.
<1>8. ASSUME NEW w \in Workers,
             \/ StartSession(w) \/ RunReturns(w) \/ AcceptAgain(w)
             \/ ScheduleRequest(w) \/ Continue(w) \/ GiveUp(w) \/ ExitRun(w)
             \/ TimerReturns(w)
             \/ \E s \in Sessions :
                  Dispatch(w, s) \/ Expire(w, s) \/ RunTimer(w, s)
      PROVE  UNCHANGED Lifetime!vars
  BY <1>8, LifetimeStutter
  DEF StartSession, RunReturns, AcceptAgain, ScheduleRequest, Continue, GiveUp,
      ExitRun, Dispatch, TimerReturns, Expire, RunTimer
<1>9. ASSUME NEW t \in Threads, Leave(t) \/ Unlink(t)
      PROVE  UNCHANGED Lifetime!vars
  BY <1>9, LifetimeStutter DEF Leave, Unlink
<1>10. CASE \/ DestroyAccept
            \/ \E s \in Sessions : DiscardTask(s) \/ DestroyOperation(s)
            \/ \E p \in PoolThreads, s \in Sessions : RunTask(p, s)
            \/ Terminated \/ UNCHANGED vars
  BY <1>10, LifetimeStutter
  DEF DestroyAccept, DiscardTask, DestroyOperation, RunTask, Terminated, vars
<1> QED
  BY <1>1, <1>2, <1>3, <1>4, <1>5, <1>6, <1>7, <1>8, <1>9, <1>10
  DEF Next, AcceptStep, ExitStep, MainStep

\* The manager's steps are steps of SessionLifetime.
THEOREM LifetimeImplemented == Spec => ImplementsLifetime
<1>1. Init => Lifetime!Init
  BY LifetimeInit
<1> QED
  BY <1>1, LifetimeStep, Invariance, PTL DEF Spec, ImplementsLifetime, Lifetime!Spec
===============================================================================
