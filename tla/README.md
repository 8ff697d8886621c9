# Formal verification of ProtoTransformer

ProtoTransformer (`src/include/ProtoTransformer`) is a C++11 header-only
library.  A program describes a binary request/answer protocol (`Proto`), gives
a function, the *payload*, and gets a multi-threaded TCP `Server` and a blocking
`Client`.  This directory holds TLA+ models of the library, the TLC
configurations that check them on small instances, and TLAPS proofs of the most
important properties for instances of any size.

Check a module with `tlc -config <Cfg>.cfg <Module>`, a proof with
`tlapm <Module>_proofs.tla`.  `PROJECT.json` is the machine-readable index: every
run, the source lines behind every definition, findings, hazards and theorems.

## 1. Inventory

| Component | State it keeps | Operations | Hard part |
|---|---|---|---|
| `Server` (`Server.hpp`, `detail/Server.tcc`) | `ioService`, `acceptor`, `workingThreads`, `taskManager`, `sessionManagerPtr`, `sigHandler` | `accept`, `startAccepting`, signal handler, `stop`, destruction of the members in reverse order | shutdown while workers, the pool and pending operations hold sessions |
| Session managers (`detail/SessionManagers/`) | `WithMap`: `locker`, `sessionManagerPtr`, `ioConnections`, one `Reference::status` per session. `Empty`: nothing | `startSession`, `drop`, `unlink`, `markAsExiting`, `switchOff`, `~Itself` | called by every thread that drops a last reference |
| `Session` (`detail/Session/`) | socket, buffers and headers in a `RequestContext`, `Payload` (an `ExitDetector` and the user's function) passed along the chain | `run`, `readSessionHdr`, `readRequest…`, `processRequest`, `writeAnswer…`, `setTimer`, `cancelTimer` | a chain of callbacks chosen by overload; the payload may refuse, throw, be slow |
| `RequestTimeoutIs` (`detail/CfgComponents/`) | a `deadline_timer` | `set`, `cancel`, its handler | a timer that has expired cannot be cancelled |
| `ReadingManager`, `ReadUntilNull` | `accumulated`, `offset`, `dataRest` and the session's `inDataBuffer` | `get`, `readAndDoSw`, `beforeRecv`, `afterReading` | chunk boundaries, pipelined requests, growing buffers |
| Session thread pool (`SessionThreadPoolIs`, `RequestContext`) | queued requests, private buffers per request | `schedule`, `Swap` | several requests of one session at once |
| `Client` | socket, buffers, answer timer, an `io_service` that nobody runs | construction, `send`, `request` and the overloads they select | blocks for answers its server may not send, and for room to write |
| `Proto`, settings (`DefaultSettingsList`, `CfgComponents/`) | types only | `static_assert`s, overload selection | combinations of settings |
| Examples | `sessionSpecific`; in `suchATricky1` a `Durations` shared behind a mutex | payloads, clients | numbers that cross hosts; what sessions share |
| Loggers | – | – | – |

How they interact.  `Server::accept` arms `async_accept` and puts
`ioService.run()` on every worker; the constructor's thread ("Main" in the model)
waits for them.  A worker that runs the accept handler makes a `Session`, gives it
to the session manager, which inserts it into its map and calls `Session::run`,
then arms `async_accept` again.  From then on the session is a chain of
asynchronous operations in `ioService`, each completed by any worker. Handlers
capture `this` and a shared `PayloadPtr`; the `Payload`'s `ExitDetector` owns the
session, and its destructor unlinks the session from the manager.  With a session
thread pool, requests leave the chain for pool threads, with a reference of their
own.  The timer's handlers run on any worker, next to the chain, and without a
reference to the session.  A stop, by a signal or by an accept error, makes the
workers leave `run()`; `~Server` then destroys manager, pool and `ioService`.

What makes each part correct:

- *Server and manager*: every owner of a session finds it alive, and so does the
  handler of its timer (it need not: finding 2); no session leaks or is destroyed
  twice; the map contains exactly the running sessions; no thread locks itself up;
  accepting goes on; a stopped server goes away with all its sessions.
- *Session*: every request gets the answer its mode promises, in order and
  whole; the timer counts only while a request is read; silent or refused peers do
  not keep a session.
- *ReadingManager*: the requests are the stream cut after each terminator, in
  whatever chunks it comes; none that is complete waits; there is always room to
  receive; no byte is lost, repeated or made up.
- *Session thread pool*, *`EmptyManager`*: a request keeps its own buffers until its
  payload returns, is processed once, and keeps its session alive; the session
  is freed when the last of them is gone.
- *Client*: `request` gets the answer of its own call, and returns if the server
  sends one; client and session do not block each other.
- *Settings*: whatever the assertions let through compiles in exactly one way, and
  both ends take the same messages from the stream.
- *Examples*: the server stops receiving with the answer that completes what was
  asked for; a rating that is exact.

The list of everything that is hard to test, each at its line, is under
`hazards` in `PROJECT.json`.

## 2. Modules

| Module | What it is |
|---|---|
| `SessionLifetime` | abstract: a session opens once and closes once; a server that is gone left none behind |
| `SessionManagerWithMap` | threads, mutex, map, references, reading timers, stop and `~Server`; implements `SessionLifetime` |
| `SessionManagerWithMap_proofs` | typing, inductive invariant, consequences, no self-lock with one worker, refinement |
| `Framing` | abstract: a stream of bytes is cut after each null byte |
| `ReadingManager` | the buffers of `ReadingManager` and `ReadUntilNull`; implements `Framing` |
| `ReadingManager_proofs` | typing, nothing missed, always room, and the steps of `Framing`, for bytes and buffers of any size |
| `Session` | the phases of one session in all 48 combinations of the settings that choose them, its timer and its peer |
| `Session_proofs` | typing, exact answers, no request dropped and the timer's property, for any number of requests |
| `ClientServer` | a blocking `Client` and its `Session` (an `INSTANCE`), with bounded buffers between them; three examples and any other program |
| `ClientServer_proofs` | the refinement of `Session`, own answers and no crossed waits, for any number of calls and any buffers; uses `Session_proofs` |
| `Wire` | assertions and overloads of every combination of settings; then sizes, headers and bytes |
| `Wire_proofs` | one overload each, both ends in step, for any sizes, numbers and widths of fields |
| `ParallelRequests` | sessions of `EmptyManager` on a session thread pool; implements `SessionLifetime` |
| `ParallelRequests_proofs` | private buffers, for any numbers of sessions, threads and requests |
| `ParallelOwners_proofs` | typing, exact owners, the refinement of `SessionLifetime`, each request once and an exact `sessionSpecific` for them |
| `SuchATricky1` | the example with session headers, a countdown and a shared rating |
| `MCSuchATricky1` | symmetry for TLC: the sessions are alike |
| `SuchATricky1_proofs` | typing, the countdown and exact positions, for any number of sessions and requests |

Definitions whose name begins with `Mutant` are not part of any specification.
Each is a plausible bug of the definition it stands next to (a dropped guard, a
forgotten unlock, a wrong reference count); substituting it makes TLC report the
property that is listed for it in `PROJECT.json`, which shows that the property is
sensitive to that code.

### SessionManagerWithMap

*State.*  `mutex` is `ExitDispatcher::locker`; `managerPtr` its `sessionManagerPtr
# 0`; `ioConnections` the key set of the map; `removed` the sessions whose
`Reference::status` has `wasRemoved`; `object` the life of each `Session`;
`pending` the sessions with an operation in `ioService`; `tasks` the queued
requests; `waiting` the sessions whose `RequestTimeout` is armed and `expired`
those with the handler of an expired wait in `ioService` (two such handlers of one
session that are queued together count as one); `accepting` the pending
`async_accept`, which owns a reference to the manager; `stopped` the flag of
`ioService`; `server` the progress of Main through `~Server`; `pc` and `of` the
place of each thread in the library's code and the session it is there for.

Reference counts are not counters in the model.  Who owns what is read from the
places of the threads (`PayloadPcs`, `ExitPcs`, `AcceptPcs`) and the queues, as in
the code, where the owners are captured variables and locals; a step that drops an
owner asks whether another is left (`PayloadElsewhere`, `KeptByPayload`,
`KeptByAccept`, membership in `ioConnections`).  The timer's handler is not among
the owners, as it captures a bare `this`.  A configuration without a timeout is the
one in which no operation ever arms the wait.

*Actions.*

| Action | Code |
|---|---|
| `AcceptSucceeds`, `AcceptFails`, `AcceptAgain`, `DropSession` | the lambda of `startAccepting` |
| `StartSession`, `RunReturns` | `startSession`: lock, insert, `run`; then `run`'s `PayloadPtr` goes and the lock is released |
| `Dispatch`, `Continue`, `GiveUp` | a handler of the chain starts, passes its reference on, or returns on an error |
| `Arm` (a part of `StartSession` and `Continue`) | `setTimer`, `cancelTimer`: starting an operation may arm the wait, leave it or cancel it, with no regard to which operation it is (that is in `Session`) |
| `Expire`, `RunTimer`, `TimerReturns` | the wait ends and its handler is queued; a worker runs it (`ioSocket.shutdown`, the user's `Action`) |
| `ScheduleRequest`, `RunTask` | `processRequest` with a session thread pool |
| `Leave`, `Unlink`, `Release` | a frame returns; if its reference was the last, `~ExitDetector` unlinks under the mutex and `~ExitDetectorBase` drops the session |
| `Interrupt`, `ExitRun`, `Join` | signal handler, `ioService.run()` returns, `workingThreads.wait()` returns |
| `Destroy` (a part of every step that drops the last owner) | `~Session`; `~RequestTimeout` cancels a wait, but not a handler that is queued |
| `DropManagerRef`, `ManagerDtor` | `~Server` drops `sessionManagerPtr`; `~Itself` clears the map under the mutex |
| `DiscardTask`, `JoinPool` | destruction of the session pool |
| `DestroyOperation`, `DestroyAccept`, `ServerDestroyed` | `~io_service` destroys the handlers that never ran |

A critical section with no blocking call in it is one step.  `startSession` is
the exception: its lock is held while `run()` starts an operation that another
worker can complete before `run()` returns, which is why `StartSession` and
`RunReturns` are two steps.

Locking a `std::mutex` that the thread already owns is undefined behaviour; the
usual build blocks for ever, and so does the model (`Unlink` is never enabled).

*External.*  The thread pools are in the submodule `TricksAndThings`, which the
repository does not contain.  Modelled from their use: `schedule` queues, every
queued function is run at most once, `wait` returns when the functions have.  What
the pool's destructor does with queued requests is left open (they may be run or
thrown away).  `io_service`: one handler per completed operation, on any thread in
`run()`; after `stop()` no further handler is dispatched; the destructor destroys
what is pending, in any order.

### ReadingManager

A byte sequence stands for a `std::vector`, so that `resize` is visible: it adds
zeros, which a completion function could take for terminators.  `Get` is `get()`
called by the session for its next request, which looks into `dataRest` first;
`Receive(n)` is the handler of `async_read_some`, for every `n` the buffer and
the stream allow; `ReceiveFails` its error return.  `ReadAndDo` is the body both
share (`readAndDoSw`, the completion function, `beforeRecv` or `afterReading` and
the call of `whenCompleted`).  `delivered` records the buffer at that call.  The
synchronous form, for the `Client`, makes the same calls in a loop.

### Session

Requests and answers are counted.  `chain` names the operation that is pending:
it is how the overloads selected at compile time (`readSessionHdr`,
`readRequestSw`, `writeAnswerSw`, …) become states.  `cfg` is chosen in `Init`
from all settings that select overloads: session header or none, request header or
completion function, the four modes of answering, and no timeout, a timeout, or a
timeout with an `Action`.  `held` is the number of whole requests in `dataRest`;
bytes are in `ReadingManager`.  The peer sends a bounded stream, and may close or
reset the connection at any time or stay silent.  A receive meets the end of the
stream behind what was received already, also after `shutdown_receive` (what Linux
does with the data in the socket's buffer).  A payload returns anything, with or
without answer data; throwing is returning 0.

`late` counts the handlers of expired waits that are in `ioService` and cannot be
cancelled any more.  A handler does not know for which request its timer was set,
so it may shut down a session that received its request in time; and as it
captures `this` without the `Payload`, one that is still queued when the chain ends
runs on a destroyed session (`Session.tcc:277`).  The former is modelled here; no
document promises otherwise, so it is a hazard and not a finding.  What it may not
do is lose a request that had arrived (`OpenPeerIsServed`).  The latter is about
the session's owners, and so in `SessionManagerWithMap` (finding 2).

### ClientServer

The state is that of `Session`, whose actions it takes over, and the client's:
the operation its thread is blocked in (`client`), its calls, the parts of answers
it has read, and the timer (`alarm`).  A call brings along what the payload will
make of it, so that a program is the set of its calls: those of `simplest`,
`strings` and `suchATricky2` are taken from their `main` and payload functions;
`"any"` stands for every other program, in all settings.

| Action | Code |
|---|---|
| `Begin`, `WritePart`, `AfterSend` | `send`, `request` up to `readAnswerSw`: a part is written when there is room |
| `ReadAnswerHdr`, `ReadAnswerData`, `ReadAnswer`, `Return` | the overloads of `readAnswerSw`, `readingTimer.cancel()` |
| `Leave`, `Throw` | `~Client`; a write or a read throws |
| `AlarmExpires` | the timer of `AnswerTimeoutIs`: nothing comes of it |
| `Serve(...)`, `PayloadReturns` | the actions of `Session`; a write waits for room |

A header, the data of a request or of an answer are one unit of the buffers each,
which hold `RequestCap` and `AnswerCap` of them.  A client that leaves with
unread answers resets the connection, as closing such a socket does.
`alarm` may expire in every setting; with `AnswerTimeoutIs<NullType>` it merely
does so later than anyone looks.

### Wire

First `Compile`: a combination of settings is refused by an assertion or goes on.
`Selected` is overload resolution (the viable overload that is more specialised
than the other viable ones); `WriteAnswerSw` and `ReadAnswerSw` are the sets it
leaves for the functions of those names.  Then calls and answers one after the
other, as units of a stream: headers with their size field, modulo `Modulus`
(2^32), and bytes, of which the last may be the one a completion function looks
for.  `Misread` compares what an end takes from the stream with what was put
there.  `SoundProto` says what a proto must keep to by itself, as no assertion
does: elements of one byte with a completion function (`ReadingManager` counts
bytes where its buffer has elements, `ReadingManager.tcc:68`), and a header where
the server is to send at least one (finding 5).

`Examples` are the protos of all the examples: `Default` (`simplest`),
`ProtoStrings`, `ProtoWithSessionHdr` (`suchATricky1` and its `Wrong`),
`ProtoWithoutAnswer` with its session pool, and `suchATricky2`'s
`ProtoWithAnyHdr`, which has a request header of its own, elements of four bytes
in requests and no answer without data.  Its header and the elements of its answers
are buffers of `TricksAndThings`' `Serializer`, which the repository does not
contain: that the header is transferable ("pod") is an assumption, and every size
in `ReprSizes` is taken for an element.

### ParallelRequests

Accepting is three steps: the handler starts the session, calls `startAccepting`
again (`starting` names the session until then, and no other worker can accept),
and drops `newSession`, while another worker may be accepting already.  There are
no timers; they are in `Session` and `SessionManagerWithMap`.

A `RequestContext` is a cell of memory; `context[s][0]` is the session's own and
`context[s][k]` the private one of its k-th request, and a cell records from which
request its header and its data come.  `ProcessRequest` is one step of a worker:
`getPrivate` (allocate and `Swap`), `schedule` and `readRequestSw`, which takes
the next request from `dataRest` by calling `processRequest` again or starts to
receive.  A payload is two steps, so that two of them can have read
`sessionSpecific` before either has written it.  `owners` is the use count of a
session's shared pointers, changed where the code copies or drops one;
`OwnersExact` compares it with those who own.  Peers act while the server is up,
as afterwards nothing reads what they send.

### SuchATricky1

A payload that brings the count to 0 is four steps (duration, lock, insert,
distance and unlock), all others are one.  The 0 it returns only shuts the
receiving side down (`shut`): the answer is written and the next request read.  A
request that has come before that read, or that is in the socket's buffer, is
served like any other; `left` goes on from the largest number, and may come to 0
again.  So a session may go on for any number of requests after the one that was
to be the last, up to the bound `MaxRequests`, and ends in `End` at any time it
reads.  `CountedAsAsked` says what is true all the same: the server stops receiving
with exactly the answer that completes what the user asked for (`Wanted`: who asks
for 0 gets the whole range of the counter), and what the prompt shows.  `told`
records the durations and positions in the order of the mutex.  Numbers have two
digits of base `Base`, so that byte order matters: `Memory` and `Value` turn a
number into bytes and back on a host of either order, `Htonl` and `Ntohl` are what
the example calls.  `left` wraps at `Modulus` as `uint32_t` does.

## 3. Runs

| Run | Instance | Shows |
|---|---|---|
| `manager` | 2 sessions, 2 workers, 1 pool thread, 1 queued request each, fair; 200 000 states | owners find their session alive, timers are cancelled with it, no leak, one destruction, exact map, marks never seen by a handler; implements `SessionLifetime`; up to the self-lock, ended sessions are freed, accepting goes on, shutdown completes |
| `manager_timer` | 1 session, 1 worker, 1 pool thread | **violated**: the timer's handler runs on a destroyed session |
| `manager_relock` | 1 session, 2 workers | **violated**: a thread locks the mutex it owns |
| `reading_manager` | every stream of up to 6 bytes over {0, 1, 2}, every chunking, initial buffer 2 | no complete request waits, there is room to receive; implements `Framing` with its fairness |
| `session_phases` | all 48 settings, 3 requests, 2 late handlers | answers exact, timer only while reading, silent and refused peers are dropped, no request that had arrived is |
| `session_refusal` | all settings, 2 requests | **violated**: the payload is called again after it returned 0 |
| `client_server` | 3 calls, buffers for 2 parts of requests and 1 of answers, all settings but `Action`s; 1.1 million states | own answers; the ends block each other, or a call never returns, only if the program breaks its own protocol |
| `client_timeout` | 1 call | **violated**: the answer timeout expires and the client goes on waiting |
| `wire` | all 2 700 protos with 8 sets of other parameters, up to 3 elements of 1, 3 or 4 bytes, sizes modulo 8, 2 calls | assertions leave one overload, let all the examples pass, and the ends keep in step |
| `wire_header` | 1 element, 1 call | **violated**: a server compiles that sends a header of `NullType` |
| `parallel_requests` | 2 sessions, a pool of 1 or 2 threads, at most 2 requests each and 3 together; 420 000 states | private buffers, each request once, exact owners; requests are processed, sessions are freed; implements `SessionLifetime` |
| `such_a_tricky1` | 2 sessions that ask for 0, 1 or 2 and go on up to 6 requests, counts modulo 4, all byte orders, 3 ticks, symmetry; 2.9 million states | receiving stops with the answer that completes what was asked for, and not again; exact positions in the rating |

*Why these bounds are enough.*  Two workers give every race of two handlers, of a
handler with the timer's, and of a handler with `startSession`; the other two
threads are the pool and Main.  Sessions share only the mutex, the map and the
threads: a second one gives a worker something else to do and the map another
entry.  With one queued request a task can be behind one that runs; that a session
may have more of them is in the proofs and in `parallel_requests`.  Six bytes with
a buffer of two let the buffer double twice, put several terminators into one
chunk and leave a request and a half in `dataRest`; two different bytes besides
the terminator show reordering.  Three requests leave two in `dataRest` while a
first one is answered; two late handlers are one from an earlier request next to
one from the current.  Three calls with room for two and one parts fill the
buffers in both directions while the session still writes.  A `Modulus` of 8 with
up to 12 bytes is reached exactly (two elements of 4) and exceeded, and elements
of 3 bytes then leave a rest; as every message leaves empty streams behind, or two
ends out of step for good, a second call shows what the first one spoilt.  Two
requests of one session and one of another are enough for every order of two
payloads of one session, next to a third one that competes for the threads (which
of the two sessions sends both is open).  Base 2 makes the byte orders differ (1
and 2 are each other's reversal), and asking for 2, sent in the wrong order, is
asking for 1; asking for 0 shows the wrap, and six requests are enough for every
session to go on after its last one and for those that asked for 1 or 2 to come to
0 a second time.  A rating of two sessions, each of which can be rated twice, has
equal durations and different ones; three ticks give all orders of three.

*Deadlock* is not checked as such, as every one of these systems really stops: a
chain of calls after an error, a server of two workers after the self-lock that
`manager_relock` shows, a program that has made its calls, a server that is gone.
That nothing else stops them are the liveness properties: those of `manager` say
`\/ SelfLocked`, and are refuted by any other blocked thread; a server of one
worker has no self-lock (`OneWorkerNeverRelocks`, section 4).

*Fairness.*  `SessionManagerWithMap`: every thread continues what it has started
(the operating system schedules it; payloads are assumed to return), a pool thread
takes queued requests, a stopped worker leaves `run()`.  Weak fairness is enough:
nothing a thread is about to do is taken away from it, except the mutex, which
others can take only a bounded number of times, as each session locks it twice.
No fairness for accepting, completion of operations or signals, which depend on
peers and users. `ReadingManager`: bytes that were sent arrive, and the session
asks for the next request.  `Session`: workers run what can complete, payloads
return, time passes, and the peer takes the answers it is sent; it need not send
or close. `RefusedSessionEnds` therefore also assumes a peer that stops sending in
the end (the stream is bounded); one that sends for ever keeps a session whose
request comes with each receive.  `ClientServer`: the same for the session, the
client's blocked call continues when it can, and its timer expires; no program has
to call or to leave.  `ParallelRequests`: workers, the pool and `~Server` continue
what they can, payloads return; nobody connects, sends, goes or stops the server
for certain.  One condition for all these threads is enough there, as every run of
theirs is finite: requests are bounded, and no step undoes another.

## 4. Proofs

All theorems hold for every value of the constants that satisfies their
assumptions: the sets of workers, pool threads and {Main} are disjoint and do not
contain `NoThread` (`ThreadsAssumption`), `NoSession` is not a session, the bound
of the queue is a natural number.  `WorkersAssumption` (there is a worker) stands
for `getNumOfThreads`, which replaces 0 by `hardware_concurrency()`; the
standard allows that to be 0 too, and then the server would stop at once.

`SessionManagerWithMap_proofs`:

1. `TypingInit`, `TypingStep`: `TypeOK` with `Placed` (a thread at a session's
   place works for one; the accept handler runs on workers) is inductive. →
   `TypeCorrect`.
2. `InvInit`, `InvStep`: `IInv` is inductive.  The safety properties are not
   inductive by themselves.  That owners find the object alive needs that
   the step which destroys it counted every owner, which needs that no two accept
   handlers have one session (`AcceptIsUnique`) and that a session is unknown
   before `startSession` (`FreshIsUnknown`).  That the map is exact needs who may
   own the mutex between two steps (`LockedByStart`), and that after `~Itself` it
   stays empty (`ShutdownOrder`).  That no handler sees a mark needs that marks are
   set only for sessions whose `Payload` is gone, or after all workers are
   (`MarkedIsOver`, `ShutdownOrder`).
3. `OwnersKeepSession`, `TimerIsCancelled`, `NoLeak`, `OneEnd`, `ExactMap`,
   `RemovalUnseen`: each is a conjunct of `IInv`, or follows from it.  That a wait
   which has not expired has its session needs that only a frame with a `Payload`
   arms it, and that whoever destroys the session cancels it.  Nothing is proved of
   handlers that are queued: `manager_timer` refutes it.
4. `WatchedStep` → `OneWorkerNeverRelocks`: under the hypothesis `OneWorker` (a
   `ServerThreadPool` of one thread) `ExitDetectorNeverRelocks`, which `manager_relock`
   refutes for two workers, holds: while `run()` is returning on the only worker the
   session's first read is still in `ioService` (`RunIsWatched`), and `~io_service`
   takes it away only after that worker has gone (`ShutdownOrder`).
5. `LifetimeInit`, `LifetimeStep` → `LifetimeImplemented`: every step of the
   manager is a step of `SessionLifetime` or leaves its variables alone.  The
   invariant is used where objects may die: `DropSession` and `Release` destroy one
   each, and `ManagerDtor`, which could destroy many in one step, none, because by
   `MapIsExact` whatever is in the map still has its `Payload`; and for the last
   step of `~Server`, when by `NoOrphan` nothing is left.

`ReadingManager_proofs`, for any bytes, any streams and any initial buffer that is
not empty (`BufferAssumption`; a buffer of 0 would double to 0): `Inv` says that
what is in the buffer, or in `dataRest` between two calls, are the bytes received
last, in the order they were sent; that while bytes are awaited there is room
behind them, and that none of them is a null byte, as the completion function has
looked at all of them (`offset = accumulated`).

1. `FirstNull`, `GrownRoom`: what `ReadUntilNull` returns, and that `beforeRecv`
   keeps what was received and makes room behind it.
2. `ReadAndDoCuts`: from a buffer without a null byte among those looked at,
   `readAndDoSw` either delivers up to the first null byte and leaves the rest in
   `dataRest`, or goes on receiving.
3. `NextStep`: every step keeps `Inv` and is a step of `Framing` or a stutter.
   → `TypeCorrect`, `NoneMissed`, `RoomToReceive`, `FramingImplemented`.  The last is
   the part of `FramesTheStream` without fairness.

`Session_proofs`, for every setting and any number of requests and late handlers:

1. `InitInv`, `NextInv`: `TypeOK` is inductive only together with a count of the
   messages (`MessagesCount`: those of the requests begun and held, in the socket and
   not yet sent are never more than the peer was to send), the phases a mode has
   (`PhasesFit`), and what is known of the current request from its payload to the
   end of its answer (`AnswersFit`: `gave` and `outDataBuffer` agree).
   → `TypeCorrect`, `OpenPeerServed`.
2. `AnswersExact` is inductive relative to that.  It is stated on sets: the parts
   that are promised up to a request, those that were written, and their order.
   `PromisedNext`, `PromisedDownward` and `WrittenNext` say what one request or one
   part more does to them. → `AnswersAreExact`.
3. `TimerIsReadingTimer`, which needs no more than that settings do not change.

`ClientServer_proofs`, for any number of calls, any sizes of the buffers that are
not 0 (`CapAssumption`), and every program:

1. `SessionInit` … `SessionNext`: the session's actions here are those of `Session`
   in `Session_proofs`, whose theorems can therefore be cited
   (`SessionInvariant`, `AnswersHold`); all they ask is that the bounds be numbers
   (`BoundsAssumption`).
2. `NextInv`: the session's invariant, with what the two ends know by counting:
   what the client has not sent is what its calls leave to send (`SentFits`); no
   message is lost while both are there (`NoneDropped`); therefore the session
   begins only what was called and sent (`CallsAhead`), and keeps answer data of
   just those calls whose payload makes some (`GaveFits`).  → `TypeCorrect`, and
   `SessionImplemented`: `Spec` implements `Session`'s, with the client as the peer.
   The invariant is needed there as well, since the payload looks up a call.
3. `MatchedNext`: with a program that sends only what is not answered, nothing waits
   to be read but the answer to the request that reads, from its first part on
   (`NothingStale`), and nothing is going to be written to a client that does not
   wait (`NothingDue`).  That a request takes its whole answer, and the header
   first, follows from `AnswersExact` (`WrittenParts`): the header's word about data
   to come is right, and what comes behind the last part belongs to a later request.
   → `AnswersAreOwn`.
4. `NoWaitsCross`: if both wait, the session has read all that was sent, hence
   begun every call; all that is promised is written; and a program that waits
   only for what is answered has been promised something, which by `NothingStale`
   it has not read and therefore finds.

`Wire_proofs`, for any modulus of the size field, any sizes and numbers of elements
and any number of calls: `IInv` is typing, that what was accepted by the assertions
stays so (`CompiledOnce`), that the stream of the end that is to read holds the
message and nothing else as long as none was misread (`Streams`), and that a sound
proto misreads none (`Faithful`).

1. `Writer`, `Reader`: the overload each set is left with, case by case.
   → `OneOverload`, `ExamplesPass` (all the examples, whatever the size of
   `suchATricky2`'s answers).
2. `WholeElements`, `Field`: a size in bytes that fits into its field gives the
   number of elements back.  `EndIsRead`, `HdrIsRead`, `RequestIsMessage`,
   `AnswerIsMessage`: a message written in some way is read whole by the overload
   that reads that way. → `TypeCorrect`, `EndsStayInStep`.

`SuchATricky1_proofs`, for any sessions, any numbers of requests and times, any base:
`IInv` is typing, who holds the mutex (`MutexHeld`), that the set holds the
durations told and that of the owner of the mutex (`DurationsAreTold`), the
countdown (`Counted`: what is left and what was answered add up to what was asked
for, modulo the range of the counter always, and exactly as long as the socket
receives), and `PositionIsExact` itself.

1. `DivisionIsExact`, `ReversedTwice`, `MemoryAndValue` → `RequestsArrive`: bytes that
   are reversed on both hosts arrive as they were.
2. `OneTurn`, `SameRemainder`, `OneLess`, `SumIsKept`: the wrapping decrement and one
   answer more leave the sum alone.
3. `CountStep`, `DurationsStep`, `PositionStep` → `TypeCorrect`, `CountIsKept`,
   `PositionsAreExact`.

`ParallelRequests_proofs`, for any sets of sessions and threads and any number of
requests (`MaxRequestsAssumption`): `InvInit`, `InvStep` → `PrivateBuffers`.  A task's
buffers can change in two places only, by what is read into the session's own
context and by the `Swap` that fills a new one.  So `IInv` says that a task has the
context allocated for it, that the request to be scheduled is later than those of
all tasks (`TasksBehind`), and that the session's own context holds it complete
(`OwnContext`).  The last needs that a header is read only before its data, and that
requests from `dataRest` come without one (`OneMode`, `Counted`).

`ParallelOwners_proofs`, with the pool's threads finite in addition
(`PoolsAssumption`): `OInv` is `IInv`, typing, and the equation of `OwnersExact`
with numbers in place of sets of one element (`Kept`, `KeptIsExact`).

1. `CountQueued`, `CountRunning`: a task more or less in a finite set changes the
   number of those of its session by one, and no other.
2. `OwnersInit`, `RestStep`, `CountStep`, `OwnersInvariant`: the equation and the
   typing need each other.  That a count does not fall below zero follows from who
   is counted, and that a task is new, so that adding it changes the number, from
   `TasksBehind`. → `TypeCorrect`, `ExactOwners`.
3. `LifetimeInit`, `LifetimeStep` → `LifetimeImplemented`.  Of the steps that drop
   an owner, the last one closes the session; `Stages` (each stage of `~Server`
   leaves less behind) shows that none is left when the server is gone.
4. `RequestsInit`, `RequestsStep`: `RInv` adds that what is done was read and is not
   to be scheduled any more (`DoneBehind`), that no request is in two places
   (`TasksApart`) and none in no place until the server ends (`NoneLost`), and that
   a thread runs one payload at a time (`ThreadsBusy`), so that the payload of a
   pool with one thread has what `sessionSpecific` is (`SpecificFresh`).
   → `EachOnce`, `SpecificCounts`.

All these invariants (`IInv`, `Inv`, `RInv`, `Matched`) were checked by TLC on the
instances of section 3 before they were proved.

*Only model-checked*: liveness and fairness (`ENABLED` and liveness under fairness
are beyond the prover), hence `RequestReturns`, `SilentPeerIsDropped`,
`RefusedSessionEnds`, the eventualities of the two modules with a server, and the
fair part of `FramesTheStream`.  Every invariant that a passing run checks is a
theorem.

## 5. Findings

1. *Self-lock in `startSession`* (`manager_relock`; `WithMap.hpp:112`).  The mutex
   is held while `session->run(payload)` returns.  If a second worker completes
   the first read with an error before that, `run`'s own `PayloadPtr` is the last:
   its `ExitDetector` runs on the accepting thread and locks the mutex again.  The
   comment there takes the chain of calls for the session's second owner.
2. *The timer's handler outlives its session* (`manager_timer`; `Session.tcc:277`).
   It captures a bare `this`; `~RequestTimeout` (`RequestTimeoutIs.hpp:40`) cancels a
   wait, which does not reach a handler that is queued already.  If the read's own
   handler runs first and ends the chain, the session is destroyed, and the timer's
   handler then shuts down the socket of an object that is gone.  The comment in
   `Session.hpp:40-43` makes the `Payload` that is passed on the session's keeper;
   the timer's handler is not given it.
3. *The payload is called after it returned 0* (`session_refusal`;
   `Session.tcc:170`).  A 0 only shuts down the receiving side.  With a completion
   function, requests that were received together are found in `dataRest` and
   processed all the same.  The comment in `Session.hpp:42-45` describes 0 as the
   exit condition of the chain.  For the same reason a client of `suchATricky1` that
   goes on after "requests left 0" may get more answers than its user asked for,
   although `suchATricky1/Client.cpp:31` calls the number the one of requests until
   the session terminates.
4. *The answer timeout never fires* (`client_timeout`; `Client.tcc:122`).  Its timer
   belongs to the client's `io_service`, which no thread runs while `request` blocks
   in a synchronous read.  `AnyTriftleIs.hpp:133-135` takes for granted that what
   works for the server's timeout works for the client's.
5. *An assertion never fires* (`wire_header`; `Server.hpp:52`).  It compares the
   wrapper `AnswerHdr`, and not its `Itself`, with `NullType`.  A server that is to
   send at least a header that does not exist compiles, and sends the bytes of an
   object of `NullType`.

## 6. Not modelled

- Loggers: pure output.
- Command lines, prompts and formatting in the examples.  `suchATricky1Wrong` has
  the logic of `suchATricky1` with its durations bound to the payload
  (`boost::bind`), for which `SuchATricky1` speaks too.
- Contents of headers beyond the size field, and of an answer's header between
  requests (`RequestContext.hpp:22`: what the payload does not set is left over).
- Requests without data: the peers send at least a byte after a request's header.
- Exceptions of the throwing `shutdown` that leave `ioService.run()` end the chain
  in `Session`; what the thread pool then does with the worker is in the missing
  submodule.  In `ParallelRequests` the peer's going is no reset.
- Operations on one socket that overlap on two threads (a pool thread's or the
  timer's `shutdown` next to the chain), which asio does not call safe; and the
  timer's `Action` reading `sessionSpecific` next to a pool's payload
  (`ParallelRequests` has no timers).
- What is modelled, but excluded from the properties, as the program or the proto
  brings it about and no document says what should happen: a client that waits for
  an answer its payload left without data, or that calls `send` for a request that is
  answered (the rules of `AnswerIsOwn`, `WaitsAreTheUsers` and `RequestReturns`);
  completion functions for elements of several bytes and sizes beyond 32 bits
  (`SoundProto`, `~wrapped`); lost updates of `sessionSpecific` with several pool
  threads (`SpecificExact` is about one); a peer that is silent in a session header
  or takes no answers; and an accept error that stops the server.  The hazards of
  these cases are listed with a note instead of a property.
- The depth of the nested calls of `processRequest` (`ReadingManager.tcc:52`).
- `StopServerOnSigint` actions of the user before the stop, and a signal before
  the handler is set up.
- The other constructor of `Server`, which does not construct `workingThreads`
  with a number of threads.

## 7. Plan

Modelled, in this order: `SessionManagerWithMap`, as it carries the concurrency of
the whole library; what one session reads (`ReadingManager`) and does (`Session`);
its other end (`ClientServer`) and what the two make of sizes and settings
(`Wire`); sessions without a manager and with a pool (`ParallelRequests`); the
example that shares state (`SuchATricky1`).

Proofs to come:

1. The finite counterparts of the eventualities, as far as they are safety: that
   every step of the fair actions brings an end nearer.
2. Shorter proofs: the lemmas about `Seq` and `Append` that three modules repeat.
