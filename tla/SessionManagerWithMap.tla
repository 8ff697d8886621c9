------------------------ MODULE SessionManagerWithMap ------------------------
(****************************************************************************)
(* Who owns a session, from the accepted connection to the destruction of   *)
(* the server.  A Session object is kept alive by three kinds of owner:     *)
(*   - the ioConnections map of the session manager,                        *)
(*   - the newSession variable of the accept handler that created it,       *)
(*   - the Payload (an ExitDetector and the user's function), itself shared *)
(*     by the chain of asynchronous calls, by the requests queued in the    *)
(*     session thread pool and by the frames that are running either.       *)
(* When the last reference to a Payload goes, on whatever thread, its       *)
(* ExitDetector unlinks the session from the map under the manager's mutex. *)
(* The handler of the reading timer is not an owner: it captures a bare     *)
(* `this', and the session's destructor cancels only a wait that has not    *)
(* expired yet.                                                             *)
(*                                                                          *)
(* Threads: the workers run io_service::run, the pool threads run requests  *)
(* (SessionThreadPoolIs; none in the default configuration), and Main       *)
(* waits in Server::accept and then runs ~Server.  What a session says on   *)
(* its socket is not modelled here: a handler either goes on or gives up.   *)
(****************************************************************************)
EXTENDS Naturals, FiniteSets

CONSTANTS
    Sessions,     \* the Session objects that can ever be created
    Workers,      \* threads of ServerThreadPool: each runs ioService.run()
    PoolThreads,  \* threads of TaskManager; {} for SessionThreadPoolIs<NullType>
    Main,         \* the thread that constructs and destroys the Server
    NoThread,     \* the owner of a free mutex
    NoSession,    \* what an idle thread is working for
    MaxTasks      \* bound: requests of one session waiting in the pool

ASSUME ThreadsAssumption ==
    /\ Workers \cap PoolThreads = {}
    /\ Main \notin Workers \cup PoolThreads
    /\ NoThread \notin Workers \cup PoolThreads \cup {Main}
\* getNumOfThreads replaces 0 by std::thread::hardware_concurrency().
ASSUME WorkersAssumption == Workers # {}
ASSUME SessionsAssumption == NoSession \notin Sessions
ASSUME MaxTasksAssumption == MaxTasks \in Nat

VARIABLES
    mutex,          \* ExitDispatcher::locker
    managerPtr,     \* ExitDispatcher::sessionManagerPtr is not null
    ioConnections,  \* the sessions remembered by the map
    removed,        \* the sessions whose Reference is marked wasRemoved
    object,         \* the life of each Session object
    pending,        \* sessions with an asynchronous operation in ioService
    tasks,          \* requests of each session queued in the session pool
    waiting,        \* sessions whose RequestTimeout waits to expire
    expired,        \* sessions with the handler of an expired wait in ioService
    accepting,      \* async_accept is pending; it holds sessionManagerPtr
    stopped,        \* ioService.stop() was called
    server,         \* how far Server::accept and ~Server are
    pc,             \* where each thread is
    of              \* the session each thread is working for

vars == << mutex, managerPtr, ioConnections, removed, object, pending, tasks,
           waiting, expired, accepting, stopped, server, pc, of >>

\* Most steps are not about the reading timers.
timers == << waiting, expired >>

Threads == Workers \cup PoolThreads \cup {Main}

\* A frame at one of these places owns a reference to the session's Payload...
PayloadPcs == {"run", "handler", "scheduled", "payload", "leaving"}
\* ...at one of these it is destroying the Payload, whose ExitDetector still
\* holds the sessionKeeper...
ExitPcs == {"unlink", "release"}
\* ...and at one of these it is the accept handler, with its newSession.
AcceptPcs == {"startSession", "run", "accepted", "dropSession"}

\* The handler of the reading timer owns nothing.
SessionPcs == PayloadPcs \cup ExitPcs \cup AcceptPcs \cup {"timer"}
RestPcs == {"idle", "exited", "managerDtor"}

TypeOK ==
    /\ mutex \in Threads \cup {NoThread}
    /\ managerPtr \in BOOLEAN
    /\ ioConnections \subseteq Sessions
    /\ removed \subseteq Sessions
    /\ object \in [Sessions -> {"unborn", "alive", "destroyed"}]
    /\ pending \subseteq Sessions
    /\ tasks \in [Sessions -> 0 .. MaxTasks]
    /\ waiting \subseteq Sessions
    /\ expired \subseteq Sessions
    /\ accepting \in BOOLEAN
    /\ stopped \in BOOLEAN
    /\ server \in {"serving", "dtorManager", "dtorTasks", "dtorIo", "destroyed"}
    /\ pc \in [Threads -> SessionPcs \cup RestPcs]
    /\ of \in [Threads -> Sessions \cup {NoSession}]

----------------------------------------------------------------------------
(* Owners.                                                                  *)

\* Two ways to lose a reference, for the mutants of this module (each definition
\* whose name says "Mutant" is a plausible bug, and is not part of Spec): a queued
\* request or a pending operation that captures `this' without the Payload.
MutantPoolHoldsNothing(t, s) ==
    s \in pending \/ \E u \in Threads \ {t} : of[u] = s /\ pc[u] \in PayloadPcs

MutantChainHoldsNothing(t, s) ==
    tasks[s] > 0 \/ \E u \in Threads \ {t} : of[u] = s /\ pc[u] \in PayloadPcs

\* A reference to s's Payload held anywhere but by the running frame of t.
PayloadElsewhere(t, s) ==
    \/ s \in pending
    \/ tasks[s] > 0
    \/ \E u \in Threads \ {t} : of[u] = s /\ pc[u] \in PayloadPcs

PayloadExists(s) ==
    \/ s \in pending
    \/ tasks[s] > 0
    \/ \E u \in Threads : of[u] = s /\ pc[u] \in PayloadPcs

\* The Payload's ExitDetector holds the session (ExitDetectorBase).
KeptByPayload(s) ==
    PayloadExists(s) \/ \E u \in Threads : of[u] = s /\ pc[u] \in ExitPcs

\* So does the newSession variable of the accept handler, unlike any other frame.
KeptByAccept(s) ==
    \E u \in Workers : of[u] = s /\ (pc[u] \in AcceptPcs \/ (pc[u] = "unlink" /\ mutex = u))

MutantNoCancel(dead) ==
    /\ object' = [s \in Sessions |-> IF s \in dead THEN "destroyed" ELSE object[s]]
    /\ UNCHANGED timers

\* ~Session: ~RequestTimeout cancels the wait.  A handler that was aborted looks
\* only at its error code, one that is queued already stays in ioService.
Destroy(dead) ==
    /\ object' = [s \in Sessions |-> IF s \in dead THEN "destroyed" ELSE object[s]]
    /\ waiting' = waiting \ dead
    /\ UNCHANGED expired

\* An owner of s other than the map drops its reference; `kept' says whether the
\* owners of the other kind remain.
MutantOwnersCycle(s, kept) == UNCHANGED << object, timers >>

DropRef(s, kept) ==
    Destroy(IF kept \/ s \in ioConnections THEN {} ELSE {s})

----------------------------------------------------------------------------
(* The server comes up: accept() has made the manager, armed async_accept   *)
(* and put ioService.run() on every worker; Main is in workingThreads.wait. *)

Init ==
    /\ mutex = NoThread
    /\ managerPtr = TRUE
    /\ ioConnections = {}
    /\ removed = {}
    /\ object = [s \in Sessions |-> "unborn"]
    /\ pending = {}
    /\ tasks = [s \in Sessions |-> 0]
    /\ waiting = {}
    /\ expired = {}
    /\ accepting = TRUE
    /\ stopped = FALSE
    /\ server = "serving"
    /\ pc = [t \in Threads |-> "idle"]
    /\ of = [t \in Threads |-> NoSession]

Goto(t, place) == pc' = [pc EXCEPT ![t] = place]

Rest(t) ==
    /\ Goto(t, "idle")
    /\ of' = [of EXCEPT ![t] = NoSession]

\* A worker inside ioService.run() that can take a completed operation.
CanDispatch(w) == pc[w] = "idle" /\ ~stopped

----------------------------------------------------------------------------
(* The accept handler.                                                      *)

AcceptSucceeds(w, s) ==
    /\ CanDispatch(w)
    /\ accepting
    /\ object[s] = "unborn"
    /\ accepting' = FALSE
    /\ object' = [object EXCEPT ![s] = "alive"]
    /\ Goto(w, "startSession")
    /\ of' = [of EXCEPT ![w] = s]
    /\ UNCHANGED << mutex, managerPtr, ioConnections, removed, pending, tasks,
                    timers, stopped, server >>

AcceptFails(w) ==
    /\ CanDispatch(w)
    /\ accepting
    /\ accepting' = FALSE
    /\ stopped' = TRUE
    /\ UNCHANGED << mutex, managerPtr, ioConnections, removed, object, pending,
                    tasks, timers, server, pc, of >>

\* Session::run starts the first read, which completes later, in a handler.
FirstRead(s) == pending' = pending \cup {s}

\* Starting an operation may arm the wait (setTimer, before every request), leave
\* it, or cancel it (cancelTimer, once a request is complete); a configuration
\* without a timeout never arms it.
Arm(s) ==
    /\ \E armed \in BOOLEAN : waiting' = IF armed THEN waiting \cup {s} ELSE waiting \ {s}
    /\ UNCHANGED expired

\* startSession takes the mutex, inserts the session and calls Session::run,
\* which makes the Payload and starts the first read; the mutex stays locked
\* while run() returns.
StartSession(w) ==
    /\ pc[w] = "startSession"
    /\ mutex = NoThread
    /\ mutex' = w
    /\ ioConnections' = ioConnections \cup {of[w]}
    /\ FirstRead(of[w])
    /\ Arm(of[w])
    /\ Goto(w, "run")
    /\ UNCHANGED << managerPtr, removed, object, tasks, accepting, stopped,
                    server, of >>

MutantNoUnlock == UNCHANGED mutex

Unlock == mutex' = NoThread

\* run() drops its reference to the Payload.  It is usually not the last one;
\* when it is, the ExitDetector runs here, with the mutex still locked.
RunReturns(w) ==
    /\ pc[w] = "run"
    /\ IF PayloadElsewhere(w, of[w])
         THEN Unlock /\ Goto(w, "accepted")
         ELSE UNCHANGED mutex /\ Goto(w, "unlink")
    /\ UNCHANGED << managerPtr, ioConnections, removed, object, pending, tasks,
                    timers, accepting, stopped, server, of >>

MutantAcceptOnce(w) ==
    /\ pc[w] = "accepted"
    /\ Goto(w, "dropSession")
    /\ UNCHANGED << mutex, managerPtr, ioConnections, removed, object, pending,
                    tasks, timers, accepting, stopped, server, of >>

AcceptAgain(w) ==
    /\ pc[w] = "accepted"
    /\ accepting' = TRUE
    /\ Goto(w, "dropSession")
    /\ UNCHANGED << mutex, managerPtr, ioConnections, removed, object, pending,
                    tasks, timers, stopped, server, of >>

\* The handler returns: newSession goes, and with it the session if the chain
\* of calls is already over.
DropSession(w) ==
    /\ pc[w] = "dropSession"
    /\ DropRef(of[w], KeptByPayload(of[w]))
    /\ Rest(w)
    /\ UNCHANGED << mutex, managerPtr, ioConnections, removed, pending, tasks,
                    accepting, stopped, server >>

----------------------------------------------------------------------------
(* The chain of calls of a session.                                         *)

\* A worker takes the completed operation of s, and its reference, out of
\* ioService.
Dispatch(w, s) ==
    /\ CanDispatch(w)
    /\ s \in pending
    /\ pending' = pending \ {s}
    /\ Goto(w, "handler")
    /\ of' = [of EXCEPT ![w] = s]
    /\ UNCHANGED << mutex, managerPtr, ioConnections, removed, object, tasks,
                    timers, accepting, stopped, server >>

\* processRequest with a session pool: the request is queued with a reference
\* of its own, and the same frame goes on reading.
ScheduleRequest(w) ==
    /\ pc[w] \in {"handler", "scheduled"}
    /\ PoolThreads # {}
    /\ of[w] \notin removed
    /\ tasks[of[w]] < MaxTasks
    /\ tasks' = [tasks EXCEPT ![of[w]] = @ + 1]
    /\ waiting' = waiting \ {of[w]}
    /\ Goto(w, "scheduled")
    /\ UNCHANGED << mutex, managerPtr, ioConnections, removed, object, pending,
                    expired, accepting, stopped, server, of >>

\* The handler passes its reference on to the next operation, unless the
\* session was removed.
Continue(w) ==
    /\ pc[w] \in {"handler", "scheduled"}
    /\ IF of[w] \in removed
         THEN UNCHANGED << pending, timers >>
         ELSE pending' = pending \cup {of[w]} /\ Arm(of[w])
    /\ Goto(w, "leaving")
    /\ UNCHANGED << mutex, managerPtr, ioConnections, removed, object, tasks,
                    accepting, stopped, server, of >>

\* An error code: the handler returns and the chain ends.
GiveUp(w) ==
    /\ pc[w] = "handler"
    /\ Goto(w, "leaving")
    /\ UNCHANGED << mutex, managerPtr, ioConnections, removed, object, pending,
                    tasks, timers, accepting, stopped, server, of >>

\* The wait of s is over: a worker queues its handler.  Two handlers of one
\* session that are queued together count as one here.
Expire(w, s) ==
    /\ CanDispatch(w)
    /\ s \in waiting
    /\ waiting' = waiting \ {s}
    /\ expired' = expired \cup {s}
    /\ UNCHANGED << mutex, managerPtr, ioConnections, removed, object, pending,
                    tasks, accepting, stopped, server, pc, of >>

\* The handler shuts the session's socket down, through `this'.
RunTimer(w, s) ==
    /\ CanDispatch(w)
    /\ s \in expired
    /\ expired' = expired \ {s}
    /\ Goto(w, "timer")
    /\ of' = [of EXCEPT ![w] = s]
    /\ UNCHANGED << mutex, managerPtr, ioConnections, removed, object, pending,
                    tasks, waiting, accepting, stopped, server >>

TimerReturns(w) ==
    /\ pc[w] = "timer"
    /\ Rest(w)
    /\ UNCHANGED << mutex, managerPtr, ioConnections, removed, object, pending,
                    tasks, timers, accepting, stopped, server >>

MutantTakeUnchecked(s) == tasks' = [tasks EXCEPT ![s] = @ - 1]

TakeTask(s) ==
    /\ tasks[s] > 0
    /\ tasks' = [tasks EXCEPT ![s] = @ - 1]

RunTask(p, s) ==
    /\ pc[p] = "idle"
    /\ TakeTask(s)
    /\ Goto(p, "payload")
    /\ of' = [of EXCEPT ![p] = s]
    /\ UNCHANGED << mutex, managerPtr, ioConnections, removed, object, pending,
                    timers, accepting, stopped, server >>

----------------------------------------------------------------------------
(* The end of a Payload, on the thread that drops the last reference.       *)

Leave(t) ==
    /\ pc[t] \in {"leaving", "payload"}
    /\ IF PayloadElsewhere(t, of[t])
         THEN Rest(t)
         ELSE Goto(t, "unlink") /\ UNCHANGED of
    /\ UNCHANGED << mutex, managerPtr, ioConnections, removed, object, pending,
                    tasks, timers, accepting, stopped, server >>

\* Erasing the map's SessionPtr marks the session's Reference.
MutantMarkOnly(s) ==
    /\ removed' = removed \cup (ioConnections \cap {s})
    /\ UNCHANGED ioConnections

Erase(s) ==
    /\ ioConnections' = ioConnections \ {s}
    /\ removed' = removed \cup (ioConnections \cap {s})

\* ExitDispatcher::unlink.
Unlink(t) ==
    /\ pc[t] = "unlink"
    /\ mutex = NoThread
    /\ IF managerPtr
         THEN Erase(of[t])
         ELSE UNCHANGED << ioConnections, removed >>
    /\ Goto(t, "release")
    /\ UNCHANGED << mutex, managerPtr, object, pending, tasks, timers,
                    accepting, stopped, server, of >>

\* ~ExitDetectorBase drops the sessionKeeper.
Release(t) ==
    /\ pc[t] = "release"
    /\ DropRef(of[t], KeptByAccept(of[t]))
    /\ Rest(t)
    /\ UNCHANGED << mutex, managerPtr, ioConnections, removed, pending, tasks,
                    accepting, stopped, server >>

----------------------------------------------------------------------------
(* The server stops and is destroyed, member by member.                     *)

\* The SIGINT/SIGTERM handler of StopServerOnSigint, run by a worker.
Interrupt(w) ==
    /\ CanDispatch(w)
    /\ stopped' = TRUE
    /\ UNCHANGED << mutex, managerPtr, ioConnections, removed, object, pending,
                    tasks, timers, accepting, server, pc, of >>

ExitRun(w) ==
    /\ pc[w] = "idle"
    /\ stopped
    /\ Goto(w, "exited")
    /\ UNCHANGED << mutex, managerPtr, ioConnections, removed, object, pending,
                    tasks, timers, accepting, stopped, server, of >>

MutantWaitForOne == \E w \in Workers : pc[w] = "exited"

WorkersGone == \A w \in Workers : pc[w] = "exited"

\* workingThreads.wait() returns, and with it the constructor; ~Server begins.
Join ==
    /\ server = "serving"
    /\ WorkersGone
    /\ server' = "dtorManager"
    /\ UNCHANGED << mutex, managerPtr, ioConnections, removed, object, pending,
                    tasks, timers, accepting, stopped, pc, of >>

\* ~Server drops its sessionManagerPtr.  The pending async_accept, if there is
\* one, has the other reference and the manager outlives this step.
DropManagerRef ==
    /\ server = "dtorManager"
    /\ pc[Main] = "idle"
    /\ server' = "dtorTasks"
    /\ IF accepting THEN UNCHANGED pc ELSE Goto(Main, "managerDtor")
    /\ UNCHANGED << mutex, managerPtr, ioConnections, removed, object, pending,
                    tasks, timers, accepting, stopped, of >>

\* ~Itself: under the mutex, switch the dispatcher off and clear the map.
ManagerDtor ==
    /\ pc[Main] = "managerDtor"
    /\ mutex = NoThread
    /\ managerPtr' = FALSE
    /\ removed' = removed \cup ioConnections
    /\ ioConnections' = {}
    /\ Destroy({s \in ioConnections : ~KeptByPayload(s) /\ ~KeptByAccept(s)})
    /\ Goto(Main, "idle")
    /\ UNCHANGED << mutex, pending, tasks, accepting, stopped, server, of >>

\* The session pool is destroyed: its threads may still run what is queued, or
\* Main may throw it away (the pool class is not part of this repository).
DiscardTask(s) ==
    /\ server = "dtorTasks"
    /\ pc[Main] = "idle"
    /\ TakeTask(s)
    /\ Goto(Main, "leaving")
    /\ of' = [of EXCEPT ![Main] = s]
    /\ UNCHANGED << mutex, managerPtr, ioConnections, removed, object, pending,
                    timers, accepting, stopped, server >>

JoinPool ==
    /\ server = "dtorTasks"
    /\ pc[Main] = "idle"
    /\ \A s \in Sessions : tasks[s] = 0
    /\ \A p \in PoolThreads : pc[p] = "idle"
    /\ server' = "dtorIo"
    /\ UNCHANGED << mutex, managerPtr, ioConnections, removed, object, pending,
                    tasks, timers, accepting, stopped, pc, of >>

\* ~io_service destroys the operations that never completed, in any order,
\* with the references their handlers hold.
DestroyOperation(s) ==
    /\ server = "dtorIo"
    /\ pc[Main] = "idle"
    /\ s \in pending
    /\ pending' = pending \ {s}
    /\ Goto(Main, "leaving")
    /\ of' = [of EXCEPT ![Main] = s]
    /\ UNCHANGED << mutex, managerPtr, ioConnections, removed, object, tasks,
                    timers, accepting, stopped, server >>

DestroyAccept ==
    /\ server = "dtorIo"
    /\ pc[Main] = "idle"
    /\ accepting
    /\ accepting' = FALSE
    /\ Goto(Main, "managerDtor")
    /\ UNCHANGED << mutex, managerPtr, ioConnections, removed, object, pending,
                    tasks, timers, stopped, server, of >>

ServerDestroyed ==
    /\ server = "dtorIo"
    /\ pc[Main] = "idle"
    /\ pending = {}
    /\ ~accepting
    /\ server' = "destroyed"
    /\ expired' = {}
    /\ UNCHANGED << mutex, managerPtr, ioConnections, removed, object, pending,
                    tasks, waiting, accepting, stopped, pc, of >>

\* Nothing is left to do: not a deadlock.
Terminated == server = "destroyed" /\ UNCHANGED vars

----------------------------------------------------------------------------
AcceptStep(w) ==
    StartSession(w) \/ RunReturns(w) \/ AcceptAgain(w) \/ DropSession(w)

ExitStep(t) == Leave(t) \/ Unlink(t) \/ Release(t)

MainStep ==
    \/ Join \/ DropManagerRef \/ ManagerDtor \/ JoinPool
    \/ DestroyAccept \/ ServerDestroyed
    \/ \E s \in Sessions : DiscardTask(s) \/ DestroyOperation(s)

Next ==
    \/ \E w \in Workers :
         \/ \E s \in Sessions :
              \/ AcceptSucceeds(w, s) \/ Dispatch(w, s)
              \/ Expire(w, s) \/ RunTimer(w, s)
         \/ TimerReturns(w)
         \/ AcceptFails(w) \/ AcceptStep(w)
         \/ ScheduleRequest(w) \/ Continue(w) \/ GiveUp(w)
         \/ Interrupt(w) \/ ExitRun(w)
    \/ \E p \in PoolThreads, s \in Sessions : RunTask(p, s)
    \/ \E t \in Threads : ExitStep(t)
    \/ MainStep
    \/ Terminated

Spec == Init /\ [][Next]_vars

\* Every thread keeps running what it started: handlers and the user's code
\* return, a queued request is run, a stopped worker leaves run(), Main goes
\* on.  Nothing is assumed of the peers, the network or signals.
Fairness ==
    /\ \A w \in Workers :
         /\ WF_vars(AcceptStep(w))
         /\ WF_vars(Continue(w) \/ GiveUp(w) \/ TimerReturns(w))
         /\ WF_vars(ExitRun(w))
    /\ \A p \in PoolThreads : WF_vars(\E s \in Sessions : RunTask(p, s))
    /\ \A t \in Threads : WF_vars(ExitStep(t))
    /\ WF_vars(MainStep)

FairSpec == Spec /\ Fairness
----------------------------------------------------------------------------
(* Safety.                                                                  *)

\* Every owner keeps its session: an operation of the chain in ioService, a queued
\* request, a frame of any thread that has a Payload or a newSession, and the map
\* all find the object alive, although handlers capture a bare `this' and rely on
\* the Payload next to it.  The handler of the timer, with no Payload next to its
\* `this', is not an owner: see TimerFindsSession.
OwnedSessionIsAlive ==
    \A s \in Sessions :
        KeptByPayload(s) \/ KeptByAccept(s) \/ s \in ioConnections
            => object[s] = "alive"

\* ~RequestTimeout cancels the wait, so a timer that has not expired when its
\* session is destroyed never runs on the destroyed session.
ArmedTimerHasSession == \A s \in waiting : object[s] = "alive"

\* The comment on Payload in Session.hpp calls it the "session keeper (shared-
\* pointer-based exit detector)" that is passed "from one phase to another until
\* one of the phases will return", and ~RequestTimeout cancels the timer: the
\* reading timer's handler, which shuts the socket down through `this', is never
\* at work on a session that is destroyed.
TimerFindsSession ==
    \A w \in Workers : pc[w] = "timer" => object[of[w]] = "alive"

\* No leak: an object that lives has an owner, so the owners' reference counts
\* will destroy it.
NoOrphan ==
    \A s \in Sessions : object[s] = "alive" =>
        KeptByPayload(s) \/ KeptByAccept(s) \/ s \in ioConnections

\* The last reference to a Payload is the last: once a thread is destroying the
\* Payload of a session, no operation, request or frame of the session is left,
\* and no second thread destroys it too.
LastHolderIsAlone ==
    \A t \in Threads :
        pc[t] \in ExitPcs =>
            /\ ~PayloadExists(of[t])
            /\ \A u \in Threads \ {t} : pc[u] \in ExitPcs => of[u] # of[t]

\* The map "remembers all the sessions": while there is a manager it contains
\* a session exactly as long as the session's Payload exists or waits to be
\* unlinked, so it neither leaks a finished session nor forgets a running one.
MapIsExact ==
    managerPtr => \A s \in Sessions :
        s \in ioConnections <=>
            PayloadExists(s) \/ \E t \in Threads : of[t] = s /\ pc[t] = "unlink"

\* No handler ever finds its session removed: the sessionWasRemoved() returns
\* of Session.tcc are never taken, because the map is cleared only after the
\* workers are gone.  Sessions end with ioService, not by the mark.
RemovalIsNeverObserved ==
    \A w \in Workers :
        pc[w] \in {"handler", "scheduled"} => of[w] \notin removed

\* The comment of startSession ("now the pointer to a session is shared between
\* an 'ioConnections' map... ...and a chain of async-calls") takes the chain for
\* still existing when run() returns, so that no ExitDetector runs under the
\* lock: no thread comes to lock the mutex it already owns.
ExitDetectorNeverRelocks ==
    \A t \in Threads : pc[t] = "unlink" => mutex # t

----------------------------------------------------------------------------
(* What the manager promises: see SessionLifetime.                          *)

lifeOf ==
    [s \in Sessions |->
        CASE object[s] = "unborn" -> "unborn"
          [] object[s] = "alive" -> "open"
          [] object[s] = "destroyed" -> "closed"]

phaseOf ==
    IF server = "destroyed" THEN "gone" ELSE IF stopped THEN "stopping" ELSE "up"

Lifetime == INSTANCE SessionLifetime WITH session <- lifeOf, phase <- phaseOf

\* The manager implements SessionLifetime: every Session object is created once,
\* by a server that has not been stopped, destroyed once, and none is left, on
\* any thread, when ~Server has returned.
ImplementsLifetime == Lifetime!Spec

----------------------------------------------------------------------------
(* Liveness, up to the self-lock that ExitDetectorNeverRelocks is about: a    *)
(* worker that waits for the mutex it owns stops whoever needs the mutex.      *)

SelfLocked == \E t \in Threads : pc[t] = "unlink" /\ mutex = t

\* A session whose chain of calls is over is freed.
EndedSessionIsFreed ==
    \A s \in Sessions :
        (s \in ioConnections /\ ~PayloadExists(s))
            ~> (object[s] = "destroyed" \/ SelfLocked)

\* After a connection was accepted the server accepts again, or is stopping.
AcceptorRearms == ~accepting ~> (accepting \/ stopped \/ SelfLocked)

\* A stopped server is destroyed in the end, whatever its sessions, their queued
\* requests and their timers were doing.
ShutdownCompletes == stopped ~> (server = "destroyed" \/ SelfLocked)
=============================================================================
