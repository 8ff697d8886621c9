-------------------------- MODULE ParallelRequests --------------------------
(****************************************************************************)
(* Requests that run in parallel: a server without answers, whose sessions  *)
(* hand every request with a private copy of its buffers to one pool of     *)
(* threads (SessionThreadPoolIs) and read the next one meanwhile.  The      *)
(* sessions are started by EmptyManager, which keeps nothing: a session     *)
(* lives by the shared pointers of its operations and tasks alone.          *)
(* A RequestContext is a cell of memory: `context[s][0]' is the one of the  *)
(* session, `context[s][k]' the one allocated for its k-th request.         *)
(****************************************************************************)
EXTENDS Naturals, FiniteSets, Functions

CONSTANTS
    Sessions,     \* the connections, in any order
    PoolThreads,  \* threads for session pools
    Pools,        \* bound: the session pools considered
    MaxRequests,  \* bound: requests a peer sends
    MaxSent       \* bound: requests of all the peers together

ASSUME MaxRequestsAssumption == MaxRequests \in Nat /\ MaxSent \in Nat
ASSUME PoolsAssumption ==
    IsFiniteSet(PoolThreads) /\ Pools \subseteq (SUBSET PoolThreads) \ {{}}

Requests == 1 .. MaxRequests

VARIABLES
    completion,  \* the proto has a completion function instead of a request header
    pool,        \* the threads of the session pool
    server,      \* "up", "stopped", "joining" its pool, "dying" or "gone"
    accepting,   \* the sessions to which a handler of startAccepting still points
    starting,    \* of these, the one whose handler has not accepted again yet
    sent,        \* requests the peer has sent
    peer,        \* "open" or "gone"
    shut,        \* the sessions whose sockets were shut down for receiving
    refused,     \* the sessions of which a payload has returned 0
    chain,       \* the operation a session waits for, "call" of processRequest, ...
    read,        \* the request that is in the session's own context, or was last
    held,        \* requests in dataRest
    context,     \* the RequestContexts: which request's header and data are inside
    queue,       \* tasks that wait for a thread
    running,     \* payloads that run: thread, task, and the sessionSpecific it took
    specific,    \* sessionSpecific, counting the session's requests
    done,        \* the requests whose payload has returned
    owners       \* use count of a session's shared pointers

vars == << completion, pool, server, accepting, starting, sent, peer, shut, refused, chain, read,
           held, context, queue, running, specific, done, owners >>

Task == [of : Sessions, request : Requests, buffers : 0 .. MaxRequests]
Run == [thread : PoolThreads, task : Task, loaded : Nat]
Context == [hdr : 0 .. MaxRequests, data : 0 .. MaxRequests]
EmptyContext == [hdr |-> 0, data |-> 0]

Reads == {"requestHdr", "requestData", "request"}
Active == Reads \cup {"call"}

TypeOK ==
    /\ completion \in BOOLEAN
    /\ pool \in Pools
    /\ server \in {"up", "stopped", "joining", "dying", "gone"}
    /\ accepting \subseteq Sessions /\ starting \subseteq accepting
    /\ shut \subseteq Sessions /\ refused \subseteq Sessions
    /\ sent \in [Sessions -> 0 .. MaxRequests]
    /\ peer \in [Sessions -> {"open", "gone"}]
    /\ chain \in [Sessions -> Active \cup {"unborn", "over"}]
    /\ read \in [Sessions -> 0 .. MaxRequests]
    /\ held \in [Sessions -> 0 .. MaxRequests]
    /\ context \in [Sessions -> [0 .. MaxRequests -> Context]]
    /\ queue \subseteq Task
    /\ running \subseteq Run
    /\ specific \in [Sessions -> Nat]
    /\ done \in [Sessions -> SUBSET Requests]
    /\ owners \in [Sessions -> Nat]

\* Server's constructor: getNumOfThreads(numOfRequestsPerSession) threads for all
\* the sessions together.
Init ==
    /\ completion \in BOOLEAN
    /\ pool \in Pools
    /\ server = "up"
    /\ accepting = {} /\ starting = {}
    /\ shut = {} /\ refused = {}
    /\ sent = [s \in Sessions |-> 0]
    /\ peer = [s \in Sessions |-> "open"]
    /\ chain = [s \in Sessions |-> "unborn"]
    /\ read = [s \in Sessions |-> 0]
    /\ held = [s \in Sessions |-> 0]
    /\ context = [s \in Sessions |-> [a \in 0 .. MaxRequests |-> EmptyContext]]
    /\ queue = {}
    /\ running = {}
    /\ specific = [s \in Sessions |-> 0]
    /\ done = [s \in Sessions |-> {}]
    /\ owners = [s \in Sessions |-> 0]

----------------------------------------------------------------------------
(* Accepting and reading, on the server's workers.                          *)

FirstRead == IF completion THEN "request" ELSE "requestHdr"

\* EmptyManager: run the session and forget it.  The Payload that the first read
\* holds is one owner, the accepting handler's newSession another.
Accept(s) ==
    /\ server = "up"
    /\ starting = {}
    /\ chain[s] = "unborn"
    /\ chain' = [chain EXCEPT ![s] = FirstRead]
    /\ owners' = [owners EXCEPT ![s] = 2]
    /\ accepting' = accepting \cup {s}
    /\ starting' = {s}
    /\ UNCHANGED << completion, pool, server, sent, peer, shut, refused, read, held,
                    context, queue, running, specific, done >>

\* The handler accepts again: from now on another worker may take the next session ...
AcceptAgain(s) ==
    /\ s \in starting
    /\ starting' = {}
    /\ UNCHANGED << completion, pool, server, accepting, sent, peer, shut, refused, chain,
                    read, held, context, queue, running, specific, done, owners >>

\* ... while newSession goes out of scope here.
DropSession(s) ==
    /\ s \in accepting \ starting
    /\ accepting' = accepting \ {s}
    /\ owners' = [owners EXCEPT ![s] = @ - 1]
    /\ UNCHANGED << completion, pool, server, starting, sent, peer, shut, refused, chain,
                    read, held, context, queue, running, specific, done >>

\* async_read of a request header into the session's context, ...
ReadRequestHdr(s) ==
    /\ server = "up"
    /\ chain[s] = "requestHdr"
    /\ read[s] < sent[s]
    /\ context' = [context EXCEPT ![s][0].hdr = read[s] + 1]
    /\ chain' = [chain EXCEPT ![s] = "requestData"]
    /\ UNCHANGED << completion, pool, server, accepting, starting, sent, peer, shut,
                    refused, read, held, queue, running, specific, done, owners >>

Received(s) ==
    /\ read' = [read EXCEPT ![s] = @ + 1]
    /\ context' = [context EXCEPT ![s][0].data = read[s] + 1]
    /\ chain' = [chain EXCEPT ![s] = "call"]

\* ... of its data, ...
ReadRequestData(s) ==
    /\ server = "up"
    /\ chain[s] = "requestData"
    /\ Received(s)
    /\ UNCHANGED << completion, pool, server, accepting, starting, sent, peer, shut,
                    refused, held, queue, running, specific, done, owners >>

\* ... or ReadingManager::get receiving n requests, of which all but one are rest.
ReceiveRequests(s, n) ==
    /\ server = "up"
    /\ chain[s] = "request"
    /\ read[s] + n <= sent[s]
    /\ Received(s)
    /\ held' = [held EXCEPT ![s] = n - 1]
    /\ UNCHANGED << completion, pool, server, accepting, starting, sent, peer, shut,
                    refused, queue, running, specific, done, owners >>

\* An error, or the end of the stream: the peer is gone, or shutdown_receive has
\* its effect.  The handler returns and releases its Payload.
ReadFails(s) ==
    /\ server = "up"
    /\ chain[s] \in Reads
    /\ \/ peer[s] = "gone"
       \/ s \in shut /\ read[s] = sent[s]
    /\ chain' = [chain EXCEPT ![s] = "over"]
    /\ owners' = [owners EXCEPT ![s] = @ - 1]
    /\ UNCHANGED << completion, pool, server, accepting, starting, sent, peer, shut,
                    refused, read, held, context, queue, running, specific, done >>

----------------------------------------------------------------------------
(* From the chain to the pool.                                              *)

\* RequestContext::Swap for `never': the header is copied, the data swapped.
Swap(own, private) ==
    << [own EXCEPT !.data = private.data], own >>

\* TaskManager::getPrivate: a new RequestContext, and the session's after the swap.
\* (MutantShared is what the TaskManager without threads does.)
MutantShared(s) == [buffers |-> 0, memory |-> context[s]]

GetPrivate(s) ==
    LET swapped == Swap(context[s][0], EmptyContext)
    IN  [ buffers |-> read[s],
          memory  |-> [context[s] EXCEPT ![0] = swapped[1], ![read[s]] = swapped[2]] ]

MutantScheduleIfIdle(s, buffers) ==
    IF Cardinality(running) < Cardinality(pool)
      THEN /\ queue' = queue \cup {[of |-> s, request |-> read[s], buffers |-> buffers]}
           /\ owners' = [owners EXCEPT ![s] = @ + 1]
      ELSE UNCHANGED << queue, owners >>

\* A closure with a copy of the PayloadPtr goes into the pool's queue.
MutantScheduleByReference(s, buffers) ==
    /\ queue' = queue \cup {[of |-> s, request |-> read[s], buffers |-> buffers]}
    /\ UNCHANGED owners

Schedule(s, buffers) ==
    /\ queue' = queue \cup {[of |-> s, request |-> read[s], buffers |-> buffers]}
    /\ owners' = [owners EXCEPT ![s] = @ + 1]

\* readRequestSw, at once as there is no answer: ReadingManager::get finds a
\* request in dataRest and calls processRequest itself, or starts to receive.
MutantNeverReceives(s, memory) ==
    /\ context' = [context EXCEPT ![s] = [memory EXCEPT ![0].data = read[s] + 1]]
    /\ read' = [read EXCEPT ![s] = @ + 1]
    /\ UNCHANGED << chain, held >>

MutantRestAgain(s, memory) ==
    IF held[s] > 0
      THEN /\ context' = [context EXCEPT ![s] = [memory EXCEPT ![0].data = read[s]]]
           /\ held' = [held EXCEPT ![s] = @ - 1]
           /\ UNCHANGED << chain, read >>
      ELSE /\ context' = [context EXCEPT ![s] = memory]
           /\ chain' = [chain EXCEPT ![s] = FirstRead]
           /\ UNCHANGED << held, read >>

ReadRequest(s, memory) ==
    IF held[s] > 0
      THEN /\ context' = [context EXCEPT ![s] = [memory EXCEPT ![0].data = read[s] + 1]]
           /\ read' = [read EXCEPT ![s] = @ + 1]
           /\ held' = [held EXCEPT ![s] = @ - 1]
           /\ UNCHANGED chain
      ELSE /\ context' = [context EXCEPT ![s] = memory]
           /\ chain' = [chain EXCEPT ![s] = FirstRead]
           /\ UNCHANGED << held, read >>

ProcessRequest(s) ==
    /\ chain[s] = "call"
    /\ LET private == GetPrivate(s)
       IN  Schedule(s, private.buffers) /\ ReadRequest(s, private.memory)
    /\ UNCHANGED << completion, pool, server, accepting, starting, sent, peer, shut,
                    refused, running, specific, done >>

----------------------------------------------------------------------------
(* Payloads, on the threads of the pool: tasks are taken in any order.      *)

\* (Mutant: a pool that has one more thread than it should.)
MutantOneMore(p) == Cardinality({r \in running : r.thread = p}) <= 1

ThreadIsFree(p) == \A r \in running : r.thread # p

\* The payload takes sessionSpecific from memory, ...
StartPayload(p, t) ==
    /\ p \in pool
    /\ ThreadIsFree(p)
    /\ t \in queue
    /\ queue' = queue \ {t}
    /\ running' = running \cup {[thread |-> p, task |-> t, loaded |-> specific[t.of]]}
    /\ UNCHANGED << completion, pool, server, accepting, starting, sent, peer, shut,
                    refused, chain, read, held, context, specific, done, owners >>

\* doSomething of withoutAnswer: 0 when the request is "terminate".
Results == {0, 1}

MutantShutdownForgotten(s, retCode) == UNCHANGED shut

ShutDownIfZero(s, retCode) == shut' = IF retCode = 0 THEN shut \cup {s} ELSE shut

\* ... stores it again some time later, and returns.  Then the task releases its
\* PayloadPtr.
FinishPayload(r, retCode) ==
    /\ r \in running
    /\ running' = running \ {r}
    /\ specific' = [specific EXCEPT ![r.task.of] = r.loaded + 1]
    /\ done' = [done EXCEPT ![r.task.of] = @ \cup {r.task.request}]
    /\ owners' = [owners EXCEPT ![r.task.of] = @ - 1]
    /\ ShutDownIfZero(r.task.of, retCode)
    /\ refused' = IF retCode = 0 THEN refused \cup {r.task.of} ELSE refused
    /\ UNCHANGED << completion, pool, server, accepting, starting, sent, peer, chain,
                    read, held, context, queue >>

----------------------------------------------------------------------------
(* The end of the server.                                                   *)

\* By a signal, by an error of accept, or by the user.
Stop ==
    /\ server = "up"
    /\ server' = "stopped"
    /\ UNCHANGED << completion, pool, accepting, starting, sent, peer, shut, refused,
                    chain, read, held, context, queue, running, specific, done, owners
                    >>

\* workingThreads.wait() returns when every worker has come to the end of its
\* handler; ~Server begins with the session pool.
WorkersGone ==
    /\ server = "stopped"
    /\ accepting = {}
    /\ \A s \in Sessions : chain[s] # "call"
    /\ server' = "joining"
    /\ UNCHANGED << completion, pool, accepting, starting, sent, peer, shut, refused,
                    chain, read, held, context, queue, running, specific, done, owners
                    >>

\* The pool's policy decides whether what is queued still runs.
DiscardTask(t) ==
    /\ server = "joining"
    /\ t \in queue
    /\ queue' = queue \ {t}
    /\ owners' = [owners EXCEPT ![t.of] = @ - 1]
    /\ UNCHANGED << completion, pool, server, accepting, starting, sent, peer, shut,
                    refused, chain, read, held, context, running, specific, done >>

MutantNotJoined == queue = {}

PoolIsDone == queue = {} /\ running = {}

JoinPool ==
    /\ server = "joining"
    /\ PoolIsDone
    /\ server' = "dying"
    /\ UNCHANGED << completion, pool, accepting, starting, sent, peer, shut, refused,
                    chain, read, held, context, queue, running, specific, done, owners
                    >>

\* ~io_service destroys the operations that were pending, with their Payloads.
DestroyOperation(s) ==
    /\ server = "dying"
    /\ chain[s] \in Reads
    /\ chain' = [chain EXCEPT ![s] = "over"]
    /\ owners' = [owners EXCEPT ![s] = @ - 1]
    /\ UNCHANGED << completion, pool, server, accepting, starting, sent, peer, shut,
                    refused, read, held, context, queue, running, specific, done >>

ServerDestroyed ==
    /\ server = "dying"
    /\ \A s \in Sessions : chain[s] \notin Reads
    /\ server' = "gone"
    /\ UNCHANGED << completion, pool, accepting, starting, sent, peer, shut, refused,
                    chain, read, held, context, queue, running, specific, done, owners
                    >>

----------------------------------------------------------------------------
(* The peers, as long as the server reads what they send.                   *)

SentByAll == FoldFunction(+, 0, sent)

PeerSends(s) ==
    /\ server = "up"
    /\ chain[s] # "unborn" /\ peer[s] = "open"
    /\ sent[s] < MaxRequests /\ SentByAll < MaxSent
    /\ sent' = [sent EXCEPT ![s] = @ + 1]
    /\ UNCHANGED << completion, pool, server, accepting, starting, peer, shut, refused,
                    chain, read, held, context, queue, running, specific, done, owners
                    >>

PeerGoes(s) ==
    /\ server = "up"
    /\ chain[s] # "unborn" /\ peer[s] = "open"
    /\ peer' = [peer EXCEPT ![s] = "gone"]
    /\ UNCHANGED << completion, pool, server, accepting, starting, sent, shut, refused,
                    chain, read, held, context, queue, running, specific, done, owners
                    >>

----------------------------------------------------------------------------
WorkerStep(s) ==
    \/ AcceptAgain(s) \/ DropSession(s) \/ ReadRequestHdr(s) \/ ReadRequestData(s)
    \/ \E n \in Requests : ReceiveRequests(s, n)
    \/ ReadFails(s) \/ ProcessRequest(s) \/ DestroyOperation(s)
PoolStep ==
    \/ \E p \in PoolThreads, t \in queue : StartPayload(p, t)
    \/ \E r \in running, retCode \in Results : FinishPayload(r, retCode)
EndStep == WorkersGone \/ (\E t \in queue : DiscardTask(t)) \/ JoinPool \/ ServerDestroyed

Next ==
    \/ \E s \in Sessions : Accept(s) \/ WorkerStep(s) \/ PeerSends(s) \/ PeerGoes(s)
    \/ PoolStep \/ Stop \/ EndStep

Spec == Init /\ [][Next]_vars

\* Workers and the pool run what is ready, and payloads return; nobody has to
\* connect, to send, to go or to stop the server.  (As peers send only so much, it
\* makes no difference that this is one condition for all the threads.)
FairSpec == Spec /\ WF_vars((\E s \in Sessions : WorkerStep(s)) \/ PoolStep \/ EndStep)

----------------------------------------------------------------------------
(* Properties.                                                              *)

Tasks == queue \cup {r.task : r \in running}

\* While a request waits for a thread and while its payload runs, its buffers
\* hold this request, whatever the chain of calls has read since then.
BuffersArePrivate ==
    \A t \in Tasks : LET c == context[t.of][t.buffers]
                     IN  c.data = t.request /\ (completion \/ c.hdr = t.request)

\* A request that was read is in exactly one place: about to be scheduled, queued,
\* running, or done.  None is lost or scheduled twice, until the server ends.
Places(s, k) ==
    Cardinality({t \in queue : t.of = s /\ t.request = k})
      + Cardinality({r \in running : r.task.of = s /\ r.task.request = k})
      + Cardinality({x \in {s} : chain[x] = "call" /\ read[x] = k})
      + Cardinality(done[s] \cap {k})

EachRequestOnce ==
    server \in {"up", "stopped"} =>
      \A s \in Sessions : \A k \in 1 .. read[s] : Places(s, k) = 1

\* Nothing but the chain, the tasks and the accepting handler keeps a session, and
\* each of them does: whoever uses it finds it alive, and it is freed after all.
OwnersExact ==
    \A s \in Sessions :
      owners[s] = Cardinality(accepting \cap {s})
                  + Cardinality({x \in {s} : chain[x] \in Active})
                  + Cardinality({t \in queue : t.of = s})
                  + Cardinality({r \in running : r.task.of = s})

\* sessionSpecific has no lock.  With one thread in the pool no update is lost.
SpecificExact ==
    Cardinality(pool) = 1 => \A s \in Sessions : specific[s] = Cardinality(done[s])

\* A request that was read is processed even if the session ends in the meantime,
\* unless the server is stopped.
Pending == \E s \in Sessions : done[s] # 1 .. read[s]

RequestIsProcessed == Pending ~> ~Pending \/ server # "up"

\* A session ends when its peer is gone, when a payload has returned 0 even if the
\* peer stays silent from then on, and at the end of the server.
Ending == {s \in Sessions : s \in refused \/ peer[s] = "gone" \/ server # "up"}

SessionIsFreed ==
    (\E s \in Ending : owners[s] > 0) ~> (\A s \in Ending : owners[s] = 0)

\* Sessions without a manager keep the safety part of what SessionLifetime says:
\* they end once, before the server has gone.
lifeOf ==
    [s \in Sessions |-> IF owners[s] > 0 THEN "open"
                        ELSE IF chain[s] = "unborn" THEN "unborn" ELSE "closed"]
phaseOf ==
    CASE server = "up" -> "up" [] server = "gone" -> "gone" [] OTHER -> "stopping"

Lifetime == INSTANCE SessionLifetime WITH session <- lifeOf, phase <- phaseOf

ImplementsLifetime == Lifetime!Spec
=============================================================================
