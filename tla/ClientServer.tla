---------------------------- MODULE ClientServer ----------------------------
(****************************************************************************)
(* A Client and the Session that serves it, joined by a connection whose    *)
(* buffers are bounded in both directions.  The client is one thread whose  *)
(* writes and reads block; the server's side is the module Session, whose   *)
(* peer it is.  A call is send (write a request) or request (send, then     *)
(* read an answer the way the proto says), and brings along what the        *)
(* payload will make of it: answer data or none, go on or not.              *)
(* Every part of a request or of an answer is one unit of the buffers.      *)
(****************************************************************************)
EXTENDS Naturals, Sequences, SequencesExt

CONSTANTS
    MaxRequests,  \* bound: calls of the client
    MaxLate,      \* bound: expired timer handlers of the session
    RequestCap,   \* parts that fit into the buffers towards the session
    AnswerCap,    \* parts that fit into the buffers towards the client
    Timeouts      \* the settings of RequestTimeoutIs considered

ASSUME BoundsAssumption == MaxRequests \in Nat /\ MaxLate \in Nat
ASSUME CapAssumption == RequestCap \in Nat \ {0} /\ AnswerCap \in Nat \ {0}
ASSUME TimeoutsAssumption == Timeouts \subseteq {"none", "default", "action"}

VARIABLES
    \* The session, as in the module Session.
    cfg, chain, begun, hasData, held, toSend, inbox, peer, shut, refused,
    timer, late, gave, out,
    \* The client.
    app,       \* who uses it: one of the examples, or any program
    client,    \* the operation its thread is blocked in, "free" or "gone"
    calls,     \* its calls so far
    taken,     \* how many parts of `out' it has read
    returned,  \* for each request that returned: which call, and whose answer
    alarm      \* readingTimer: "off", "armed" or "expired"

S == INSTANCE Session

sessionVars == << cfg, chain, begun, hasData, held, toSend, inbox, peer, shut, refused,
                  timer, late, gave, out >>
clientVars == << app, client, calls, taken, returned, alarm >>
vars == << sessionVars, clientVars >>

Writing == {"sessionHdr", "requestHdr", "requestData", "request"}
Reading == {"answerHdr", "answerData", "answer"}

Call == [kind : {"send", "request"}, data : BOOLEAN, goOn : BOOLEAN]

----------------------------------------------------------------------------
(* Programs.  What an example's client asks for, and what its payload makes *)
(* of it; "any" is every program whose payload has a buffer for its answer. *)

Proto(sessionHdr, completion, answer) ==
    [sessionHdr |-> sessionHdr, completion |-> completion, answer |-> answer,
     timeout |-> "none"]

Simplest == Proto(FALSE, FALSE, "AtLeastHeader")
Strings == Proto(FALSE, TRUE, "DataOnly")
SuchATricky2 == Proto(FALSE, FALSE, "NothingIfNoData")

\* The payloads: upper case of what was sent, the request with its terminator, and
\* one that leaves outBuffer empty for two of the client's options.
SimplestPayload == [data : {TRUE}, goOn : BOOLEAN]

StringsPayload == [data : {TRUE}, goOn : BOOLEAN]

SuchATricky2Payload(option) ==
    [data |-> option \notin {"log", "terminate"}, goOn |-> option # "terminate"]

\* The clients: they only request, except for these two options.
With(kind, payload) == [kind |-> kind, data |-> payload.data, goOn |-> payload.goOn]

SimplestCalls == {With("request", p) : p \in SimplestPayload}

StringsCalls == {With("request", p) : p \in StringsPayload}

SuchATricky2Calls ==
    {With("request", SuchATricky2Payload(o)) : o \in {"sum", "sort", "echo"}}
        \cup {With("send", SuchATricky2Payload(o)) : o \in {"log", "terminate"}}

Calls ==
    CASE app = "simplest" -> SimplestCalls
      [] app = "strings" -> StringsCalls
      [] app = "suchATricky2" -> SuchATricky2Calls
      [] app = "any" -> {c \in Call : c.data => cfg.answer # "NoAnswerAtAll"}

Init ==
    /\ S!Init
    /\ \/ app = "any" /\ cfg.timeout \in Timeouts
       \/ app = "simplest" /\ cfg = Simplest
       \/ app = "strings" /\ cfg = Strings
       \/ app = "suchATricky2" /\ cfg = SuchATricky2
    /\ client = IF cfg.sessionHdr THEN "sessionHdr" ELSE "free"
    /\ calls = << >> /\ taken = 0 /\ returned = << >>
    /\ alarm = "off"

TypeOK ==
    /\ S!TypeOK
    /\ app \in {"any", "simplest", "strings", "suchATricky2"}
    /\ client \in Writing \cup Reading \cup {"free", "gone"}
    /\ calls \in Seq(Call) /\ Len(calls) <= MaxRequests
    /\ taken \in 0 .. Len(out)
    /\ returned \in Seq([call : 1 .. MaxRequests, answer : 1 .. MaxRequests])
    /\ alarm \in {"off", "armed", "expired"}
    /\ client \notin Reading => alarm = "off"

----------------------------------------------------------------------------
(* The client.  Sending a part needs room in the buffers, reading one a part *)
(* that has arrived.                                                         *)

\* send, or the send a request begins with.
Begin(call) ==
    /\ client = "free"
    /\ Len(calls) < MaxRequests
    /\ calls' = Append(calls, call)
    /\ client' = IF cfg.completion THEN "request" ELSE "requestHdr"
    /\ UNCHANGED << sessionVars, app, taken, returned, alarm >>

\* What follows once a request is written: readingTimer.set and the overload of
\* readAnswerSw, which reads nothing if the server never answers.
AwaitAnswer ==
    /\ client' = IF cfg.answer = "DataOnly" THEN "answer" ELSE "answerHdr"
    /\ alarm' = "armed"

MutantReadsAlways == AwaitAnswer

AfterSend ==
    IF Last(calls).kind = "send" \/ cfg.answer = "NoAnswerAtAll"
      THEN client' = "free" /\ alarm' = "off"
      ELSE AwaitAnswer

WritePart ==
    /\ client \in Writing
    /\ inbox < RequestCap
    /\ S!PeerSends
    /\ CASE client = "sessionHdr" -> client' = "free" /\ alarm' = "off"
         [] client = "requestHdr" -> client' = "requestData" /\ alarm' = "off"
         [] OTHER -> AfterSend
    /\ UNCHANGED << app, calls, taken, returned >>

\* readingTimer.cancel(), and the answer goes to the caller.
MutantTimerLeftOn(answer) ==
    /\ client' = "free"
    /\ returned' = Append(returned, [call |-> Len(calls), answer |-> answer])
    /\ UNCHANGED alarm

Return(answer) ==
    /\ client' = "free"
    /\ returned' = Append(returned, [call |-> Len(calls), answer |-> answer])
    /\ alarm' = "off"

\* The header says whether data follow.
MutantHdrThenData(of) ==
    /\ client' = "answerData"
    /\ UNCHANGED << returned, alarm >>

MutantHdrOnly(of) == Return(of)

HdrRead(of) ==
    IF of \in gave
      THEN client' = "answerData" /\ UNCHANGED << returned, alarm >>
      ELSE Return(of)

Take ==
    /\ taken < Len(out)
    /\ taken' = taken + 1
    /\ UNCHANGED << sessionVars, app, calls >>

ReadAnswerHdr == client = "answerHdr" /\ Take /\ HdrRead(out[taken + 1].of)

ReadAnswerData == client = "answerData" /\ Take /\ Return(out[taken + 1].of)

\* readingManager.get, which blocks until the completion function is content.
ReadAnswer == client = "answer" /\ Take /\ Return(out[taken + 1].of)

ReadPart == ReadAnswerHdr \/ ReadAnswerData \/ ReadAnswer

\* The Client is destroyed: its program is done with it, is killed, or unwinds.
\* Closing a socket with unread bytes in it resets the connection.
Leave ==
    /\ client' = "gone"
    /\ alarm' = "off"
    /\ IF taken < Len(out) THEN S!PeerResets ELSE S!PeerCloses
    /\ UNCHANGED << app, calls, taken, returned >>

\* A write or read throws system_error: the session is gone.  What it had
\* written can still be read, unless it left bytes unread, which resets the
\* connection and may discard them.
Throw ==
    /\ chain = "over"
    /\ \/ client \in Writing
       \/ client \in Reading /\ (taken = Len(out) \/ inbox > 0)
    /\ Leave

\* Time passes.  The handler, which would throw "Answer timed out", is in an
\* io_service that no thread runs, so that nothing else comes of it.
AlarmExpires ==
    /\ alarm = "armed"
    /\ alarm' = "expired"
    /\ UNCHANGED << sessionVars, app, client, calls, taken, returned >>

----------------------------------------------------------------------------
\* The session's side: a write waits for room until the peer is not there
\* any more.
Room == out' # out => Len(out) - taken < AnswerCap

Serve(step) == step /\ Room /\ UNCHANGED clientVars

PayloadReturns ==
    /\ chain = "payload"
    /\ S!PayloadReturns(calls[begun].data, calls[begun].goOn)
    /\ UNCHANGED clientVars

Blocking == WritePart \/ ReadPart \/ Throw

Next ==
    \/ \E call \in Calls : Begin(call)
    \/ Blocking
    \/ client # "gone" /\ Leave
    \/ AlarmExpires
    \/ Serve(S!ReadStep) \/ PayloadReturns \/ Serve(S!WriteStep) \/ Serve(S!TimerStep)

Spec == Init /\ [][Next]_vars

\* Both ends do what they can; no program has to call, nor to leave.
FairSpec ==
    /\ Spec
    /\ WF_vars(Blocking) /\ WF_vars(AlarmExpires)
    /\ WF_vars(Serve(S!ReadStep)) /\ WF_vars(PayloadReturns)
    /\ WF_vars(Serve(S!WriteStep)) /\ WF_vars(Serve(S!TimerStep))

----------------------------------------------------------------------------
(* Properties.                                                              *)

Answered(call) ==
    cfg.answer = "AtLeastHeader" \/ (cfg.answer # "NoAnswerAtAll" /\ call.data)

\* The program sends only what is not answered, ...
Disciplined == \A k \in DOMAIN calls : calls[k].kind = "send" => ~Answered(calls[k])

\* ... and waits only for what is.
AwaitsAnswers ==
    cfg.answer # "NoAnswerAtAll" =>
      \A k \in DOMAIN calls : calls[k].kind = "request" => Answered(calls[k])

\* The answer that request() returns is that of its own call, though nothing on
\* the wire says so: both ends only count.  A program that sends what the server
\* answers gets its requests' answers late, one call behind.
AnswerIsOwn ==
    Disciplined => \A i \in DOMAIN returned : returned[i].answer = returned[i].call

ClientBlocked ==
    /\ chain # "over"
    /\ \/ client \in Reading /\ taken = Len(out)
       \/ client \in Writing /\ inbox = RequestCap

SessionBlocked ==
    /\ peer = "open"
    /\ \/ chain \in S!Reads /\ inbox = 0 /\ ~shut
       \/ chain \in S!Writes /\ Len(out) - taken = AnswerCap

\* The two ends wait for each other, in reads or with full buffers in both
\* directions, only if the program sends what is answered or waits for what is
\* not: the library's own phases never cross.
WaitsAreTheUsers ==
    ClientBlocked /\ SessionBlocked => ~Disciplined \/ ~AwaitsAnswers

\* Every call of an example comes back, with an answer or an exception, and so
\* does every call of any other program that keeps those two rules.
RequestReturns ==
    client \in Writing \cup Reading /\ (app # "any" \/ (Disciplined /\ AwaitsAnswers))
        ~> client \in {"free", "gone"}

\* AnswerTimeoutIs promises an end to waiting: the handler that request() sets
\* throws "Answer timed out".
AnswerTimesOut == alarm = "expired" ~> alarm = "off"
=============================================================================
