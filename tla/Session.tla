------------------------------- MODULE Session -------------------------------
(****************************************************************************)
(* One session: the chain of calls that reads a request, runs the payload,  *)
(* writes the answer and reads again; the peer at the other end of the      *)
(* socket; and the deadline timer of RequestTimeoutIs, whose handlers run   *)
(* on whatever worker is free, between any two steps of the chain.          *)
(* Requests are counted, not spelled: in the mode with a request header a   *)
(* request is two messages (header, data), with a completion function it is *)
(* one, and several may come in one receive (ReadingManager has the bytes). *)
(* Payloads run in the handler (SessionThreadPoolIs<NullType>).             *)
(****************************************************************************)
EXTENDS Naturals, Sequences, SequencesExt

CONSTANTS
    MaxRequests,  \* bound: requests the peer sends
    MaxLate       \* bound: expired timer handlers waiting for a worker

ASSUME RequestsAssumption == MaxRequests \in Nat
ASSUME LateAssumption == MaxLate \in Nat

\* The settings that decide the phases; each session runs under one of them.
\* `answer' names the overload of writeAnswerSw that serverSendsAnswer and
\* AnswerHdr select, and `timeout' says whether RequestTimeoutIs is used and
\* has an Action of its own, whose result decides about the shutdown.
Settings ==
    [ sessionHdr : BOOLEAN,
      completion : BOOLEAN,
      answer     : {"NoAnswerAtAll", "AtLeastHeader", "NothingIfNoData", "DataOnly"},
      timeout    : {"none", "default", "action"} ]

VARIABLES
    cfg,      \* the settings of this session
    chain,    \* the operation the chain waits for, "payload" or "over"
    begun,    \* requests passed to the payload so far
    hasData,  \* outDataBuffer is not empty
    held,     \* whole requests in the ReadingManager's dataRest
    toSend,   \* messages the peer has not sent yet
    inbox,    \* messages in the socket's receive buffer
    peer,     \* "open", "closed" or "reset"
    shut,     \* ioSocket.shutdown(shutdown_receive) was called
    refused,  \* the payload has returned 0 (or thrown)
    timer,    \* the pending wait of the deadline timer: "off" or "armed"
    late,     \* handlers of expired waits, queued in ioService
    gave,     \* the requests whose payload left answer data
    out       \* what was written to the peer

vars == << cfg, chain, begun, hasData, held, toSend, inbox, peer, shut, refused,
           timer, late, gave, out >>
network == << toSend, inbox, peer >>

RequestReads == {"requestHdr", "requestData", "request"}
Reads == {"sessionHdr"} \cup RequestReads
Writes == {"answerHdr", "answerData"}

Part == [of : 1 .. MaxRequests, part : Writes]

TypeOK ==
    /\ cfg \in Settings
    /\ chain \in Reads \cup Writes \cup {"payload", "over"}
    /\ begun \in 0 .. MaxRequests
    /\ held \in 0 .. MaxRequests
    /\ toSend \in 0 .. 2 * MaxRequests + 1
    /\ inbox \in 0 .. 2 * MaxRequests + 1
    /\ peer \in {"open", "closed", "reset"}
    /\ {hasData, shut, refused} \subseteq BOOLEAN
    /\ timer \in {"off", "armed"}
    /\ late \in 0 .. MaxLate
    /\ gave \subseteq 1 .. begun
    /\ out \in Seq(Part)

----------------------------------------------------------------------------
(* The timer: setTimer and cancelTimer reach a wait that is still pending;  *)
(* a handler that is already queued runs all the same.                      *)

\* (Definitions named Mutant are plausible bugs and not part of Spec.)
MutantTimerOnce == IF cfg.timeout = "none" \/ begun > 0 THEN "off" ELSE "armed"

TimerSet == IF cfg.timeout = "none" THEN "off" ELSE "armed"

MutantTimerRunsOn == timer

TimerCancelled == "off"

(* The phases.  Each of these is the end of a handler, which goes on with   *)
(* the next phase by starting an operation or by calling it.                *)

\* processRequest up to the call of the payload.
ProcessRequest ==
    /\ timer' = TimerCancelled
    /\ begun' = begun + 1
    /\ chain' = "payload"

MutantRestIsRequest(rest) ==
    /\ held' = rest - 1
    /\ ProcessRequest

MutantRestForgotten(rest) ==
    /\ held' = rest
    /\ timer' = TimerSet
    /\ chain' = IF cfg.completion THEN "request" ELSE "requestHdr"
    /\ UNCHANGED begun

\* readRequestSw when `rest' requests wait in dataRest: one of them is a whole
\* request that the completion function finds without receiving.
ReadRequest(rest) ==
    IF cfg.completion /\ rest > 0
      THEN /\ held' = rest - 1
           /\ ProcessRequest
      ELSE /\ held' = rest
           /\ timer' = TimerSet
           /\ chain' = IF cfg.completion THEN "request" ELSE "requestHdr"
           /\ UNCHANGED begun

\* The handler returns: the last reference to the Payload goes, the session is
\* destroyed and ~RequestTimeout cancels the wait.
EndChain ==
    /\ chain' = "over"
    /\ timer' = TimerCancelled
    /\ UNCHANGED << begun, held >>

Write(part) ==
    /\ chain' = part
    /\ UNCHANGED << begun, held, timer >>

\* The overloads of writeAnswerSw.
MutantHeaderForDataOnly(data) ==
    CASE cfg.answer = "NoAnswerAtAll" -> ReadRequest(held)
      [] cfg.answer = "AtLeastHeader" -> Write("answerHdr")
      [] OTHER -> IF data THEN Write("answerHdr") ELSE ReadRequest(held)

WriteAnswer(data) ==
    CASE cfg.answer = "NoAnswerAtAll" -> ReadRequest(held)
      [] cfg.answer = "AtLeastHeader" -> Write("answerHdr")
      [] cfg.answer = "NothingIfNoData" ->
           IF data THEN Write("answerHdr") ELSE ReadRequest(held)
      [] cfg.answer = "DataOnly" ->
           IF data THEN Write("answerData") ELSE ReadRequest(held)

----------------------------------------------------------------------------
\* Session::run, just called by the session manager.
Init ==
    /\ cfg \in Settings
    /\ begun = 0 /\ held = 0 /\ inbox = 0 /\ late = 0
    /\ toSend = (IF cfg.sessionHdr THEN 1 ELSE 0)
                + MaxRequests * (IF cfg.completion THEN 1 ELSE 2)
    /\ peer = "open"
    /\ hasData = FALSE /\ shut = FALSE /\ refused = FALSE
    /\ gave = {} /\ out = << >>
    /\ chain = IF cfg.sessionHdr THEN "sessionHdr"
               ELSE IF cfg.completion THEN "request" ELSE "requestHdr"
    /\ timer = IF cfg.sessionHdr THEN "off" ELSE TimerSet

\* Reading the session header, then the request header, the request data or, by
\* the completion function, a chunk of one request and more.
ReadSessionHdr ==
    /\ chain = "sessionHdr"
    /\ inbox > 0
    /\ inbox' = inbox - 1
    /\ ReadRequest(held)
    /\ UNCHANGED << cfg, hasData, toSend, peer, shut, refused, late, gave, out >>

ReadRequestHdr ==
    /\ chain = "requestHdr"
    /\ inbox > 0
    /\ inbox' = inbox - 1
    /\ chain' = "requestData"
    /\ UNCHANGED << cfg, begun, hasData, held, toSend, peer, shut, refused, timer,
                    late, gave, out >>

ReadRequestData ==
    /\ chain = "requestData"
    /\ inbox > 0
    /\ inbox' = inbox - 1
    /\ ProcessRequest
    /\ UNCHANGED << cfg, hasData, held, toSend, peer, shut, refused, late, gave, out >>

ReceiveRequests(n) ==
    /\ chain = "request"
    /\ n <= inbox
    /\ inbox' = inbox - n
    /\ held' = n - 1
    /\ ProcessRequest
    /\ UNCHANGED << cfg, hasData, toSend, peer, shut, refused, late, gave, out >>

\* An error code: the connection is reset, or the end of the stream is reached,
\* which shutdown_receive brings about behind what was already received.
EndOfStream == inbox = 0 /\ (peer = "closed" \/ shut)

ReadFails ==
    /\ chain \in Reads
    /\ peer = "reset" \/ EndOfStream
    /\ EndChain
    /\ UNCHANGED << cfg, hasData, network, shut, refused, late, gave, out >>

\* What a 0 does: ioSocket.shutdown(shutdown_receive).
MutantRefusalIgnored(goOn) == UNCHANGED shut

ShutDownUnless(goOn) == shut' = (shut \/ ~goOn)

\* The payload returns, or throws and counts as having returned 0; its answer
\* data, whole or not, is written either way.  Shutting down a connection that
\* was reset throws, which unwinds the handler and leaves ioService.run().
PayloadReturns(data, goOn) ==
    /\ chain = "payload"
    /\ data => cfg.answer # "NoAnswerAtAll"
    /\ hasData' = data
    /\ gave' = IF data THEN gave \cup {begun} ELSE gave
    /\ refused' = (refused \/ ~goOn)
    /\ IF ~goOn /\ peer = "reset"
         THEN EndChain /\ UNCHANGED shut
         ELSE WriteAnswer(data) /\ ShutDownUnless(goOn)
    /\ UNCHANGED << cfg, network, late, out >>

AnswerWritten == out' = Append(out, [of |-> begun, part |-> chain])

\* writeAnswerData, after the header.
WriteAnswerData == IF hasData THEN Write("answerData") ELSE ReadRequest(held)

AnswerHdrWritten ==
    /\ chain = "answerHdr"
    /\ peer # "reset"
    /\ AnswerWritten
    /\ WriteAnswerData
    /\ UNCHANGED << cfg, hasData, network, shut, refused, late, gave >>

AnswerDataWritten ==
    /\ chain = "answerData"
    /\ peer # "reset"
    /\ AnswerWritten
    /\ ReadRequest(held)
    /\ UNCHANGED << cfg, hasData, network, shut, refused, late, gave >>

WriteFails ==
    /\ chain \in Writes
    /\ peer # "open"
    /\ EndChain
    /\ UNCHANGED << cfg, hasData, network, shut, refused, late, gave, out >>

----------------------------------------------------------------------------
TimerExpires ==
    /\ timer = "armed"
    /\ late < MaxLate
    /\ timer' = "off"
    /\ late' = late + 1
    /\ UNCHANGED << cfg, chain, begun, hasData, held, network, shut, refused, gave, out >>

\* The handler of an expired wait: shutdown_receive, if the Action of the
\* setting agrees.  It does not know for which request it was set.  On a reset
\* connection the shutdown throws out of ioService.run(); after the chain is over
\* the handler runs on a destroyed session, which is undefined behaviour.  Neither
\* leaves anything to see in this state.
TimerHandler(agrees) ==
    /\ late > 0
    /\ ~agrees => cfg.timeout = "action"
    /\ late' = late - 1
    /\ shut' = (shut \/ (agrees /\ chain # "over" /\ peer # "reset"))
    /\ UNCHANGED << cfg, chain, begun, hasData, held, network, refused, timer, gave, out >>

----------------------------------------------------------------------------
(* The peer.                                                                *)

PeerSends ==
    /\ peer = "open"
    /\ toSend > 0
    /\ toSend' = toSend - 1
    /\ inbox' = inbox + 1
    /\ UNCHANGED << cfg, chain, begun, hasData, held, peer, shut, refused, timer,
                    late, gave, out >>

PeerCloses ==
    /\ peer = "open"
    /\ peer' = "closed"
    /\ UNCHANGED << cfg, chain, begun, hasData, held, toSend, inbox, shut, refused,
                    timer, late, gave, out >>

PeerResets ==
    /\ peer # "reset"
    /\ peer' = "reset"
    /\ inbox' = 0
    /\ UNCHANGED << cfg, chain, begun, hasData, held, toSend, shut, refused, timer,
                    late, gave, out >>

----------------------------------------------------------------------------
ReadStep ==
    \/ ReadSessionHdr \/ ReadRequestHdr \/ ReadRequestData \/ ReadFails
    \/ \E n \in 1 .. MaxRequests : ReceiveRequests(n)
PayloadStep == \E data, goOn \in BOOLEAN : PayloadReturns(data, goOn)
WriteStep == AnswerHdrWritten \/ AnswerDataWritten \/ WriteFails
TimerStep == TimerExpires \/ \E agrees \in BOOLEAN : TimerHandler(agrees)
PeerStep == PeerSends \/ PeerCloses \/ PeerResets

Next == ReadStep \/ PayloadStep \/ WriteStep \/ TimerStep \/ PeerStep

Spec == Init /\ [][Next]_vars

\* Workers run what is ready, payloads return, time passes, and the peer takes
\* its answers; the peer need not send anything, nor close.
FairSpec ==
    /\ Spec
    /\ WF_vars(ReadStep) /\ WF_vars(PayloadStep) /\ WF_vars(WriteStep)
    /\ WF_vars(TimerStep)

----------------------------------------------------------------------------
(* Properties.                                                              *)

\* What request p.of is answered by, in this mode: its parts, ...
Promises(p) ==
    \/ p.of \in gave /\ (p.part = "answerData" \/ cfg.answer = "NothingIfNoData")
    \/ p.part = "answerHdr" /\ cfg.answer = "AtLeastHeader"

Promised(n) == {p \in Part : p.of <= n /\ Promises(p)}

\* ... their order, and those that were written.
Before(p, q) ==
    p.of < q.of \/ (p.of = q.of /\ p.part = "answerHdr" /\ q.part = "answerData")

InOrder == \A i, j \in DOMAIN out : i < j => Before(out[i], out[j])

Written == Range(out)

\* Every request gets the answer its mode promises, all of it, before the next
\* one is read, whatever the phases in between: no part is missing, repeated,
\* misplaced or sent for another request.
AnswersExact ==
    /\ InOrder
    /\ chain \in Reads => Written = Promised(begun)
    /\ chain \in {"payload", "answerHdr"} => Written = Promised(begun - 1)
    /\ chain = "answerData" =>
         LET last == [of |-> begun, part |-> "answerData"]
         IN  last \in Promised(begun) /\ Written = Promised(begun) \ {last}
    /\ chain = "over" =>
         /\ Written \subseteq Promised(begun)
         /\ \A p \in Written, q \in Promised(begun) : Before(q, p) => q \in Written

\* The timer counts only while a request is read: a slow payload, a peer that
\* is slow to take its answer and a session that has ended never expire.
TimerOnlyWhileReading == timer = "armed" => chain \in RequestReads

\* With a timeout whose default action is not overruled, no peer keeps a worker's
\* session waiting for a request: it comes, or the session is over.
SilentPeerIsDropped ==
    cfg.timeout = "default" /\ chain \in RequestReads ~> chain \in {"payload", "over"}

\* Once the payload has returned 0 the session ends, even if its peer never
\* closes, falls silent and there is no timeout.  (A peer that never stops
\* sending is excluded by MaxRequests.)
RefusedSessionEnds == refused ~> chain = "over"

\* Ending a session costs no request that had arrived: neither a timer handler
\* that comes too late, for a request received in time, nor a refusal drops what
\* is in the socket or in dataRest, as long as the peer stays.
OpenPeerIsServed ==
    [][chain' = "over" /\ chain # "over" /\ peer = "open" =>
         shut /\ inbox = 0 /\ held = 0]_vars

\* The comment of ExitDetector says that the Payload is passed from phase to
\* phase "until one of the phases will return (due to error or at the
\* exit-condition, which is 0 returned by payload)": after a 0 the payload is
\* not called again, at least not without receiving anything more.
RefusalIsFinal == [][begun' > begun /\ inbox' = inbox => ~refused]_vars
=============================================================================
