------------------------- MODULE ClientServer_proofs -------------------------
(* Machine-checked safety of a client and its session together, for any number *)
(* of calls and any size of the connection's buffers.                          *)
EXTENDS ClientServer, TLAPS

\* The session's own invariants, proved of every peer, of which the client is one.
P == INSTANCE Session_proofs

----------------------------------------------------------------------------
(* The session of a client is a session: it takes the same steps here as under *)
(* any other peer, whose steps the client's are.                               *)

LEMMA SessionInit == S!Init <=> P!Init
  BY DEF S!Init, P!Init, S!Settings, P!Settings, S!TimerSet, P!TimerSet

LEMMA SessionVars == UNCHANGED sessionVars <=> UNCHANGED P!vars
  BY DEF sessionVars, P!vars

LEMMA SessionReads == S!ReadStep <=> P!ReadStep
  BY DEF S!ReadStep, P!ReadStep, S!ReadSessionHdr, P!ReadSessionHdr, S!ReadRequestHdr,
     P!ReadRequestHdr, S!ReadRequestData, P!ReadRequestData, S!ReadFails, P!ReadFails,
     S!ReceiveRequests, P!ReceiveRequests, S!ReadRequest, P!ReadRequest, S!ProcessRequest,
     P!ProcessRequest, S!TimerCancelled, P!TimerCancelled, S!TimerSet, P!TimerSet, S!EndChain,
     P!EndChain, S!Reads, P!Reads, S!RequestReads, P!RequestReads, S!EndOfStream,
     P!EndOfStream, S!network, P!network

LEMMA SessionAnswers ==
  ASSUME NEW data, NEW goOn
  PROVE  S!PayloadReturns(data, goOn) <=> P!PayloadReturns(data, goOn)
  BY DEF S!PayloadReturns, P!PayloadReturns, S!WriteAnswer, P!WriteAnswer, S!ReadRequest,
     P!ReadRequest, S!ProcessRequest, P!ProcessRequest, S!TimerCancelled, P!TimerCancelled,
     S!TimerSet, P!TimerSet, S!EndChain, P!EndChain, S!Write, P!Write, S!ShutDownUnless,
     P!ShutDownUnless, S!network, P!network

LEMMA SessionWrites == S!WriteStep <=> P!WriteStep
  BY DEF S!WriteStep, P!WriteStep, S!AnswerHdrWritten, P!AnswerHdrWritten, S!AnswerDataWritten,
     P!AnswerDataWritten, S!WriteFails, P!WriteFails, S!AnswerWritten, P!AnswerWritten,
     S!WriteAnswerData, P!WriteAnswerData, S!Write, P!Write, S!Writes, P!Writes, S!ReadRequest,
     P!ReadRequest, S!ProcessRequest, P!ProcessRequest, S!TimerCancelled, P!TimerCancelled,
     S!TimerSet, P!TimerSet, S!EndChain, P!EndChain, S!network, P!network

LEMMA SessionTimes == S!TimerStep <=> P!TimerStep
  BY DEF S!TimerStep, P!TimerStep, S!TimerExpires, P!TimerExpires, S!TimerHandler,
     P!TimerHandler, S!network, P!network

LEMMA SessionPeer ==
  /\ S!PeerSends <=> P!PeerSends
  /\ S!PeerCloses <=> P!PeerCloses
  /\ S!PeerResets <=> P!PeerResets
  BY DEF S!PeerSends, P!PeerSends, S!PeerCloses, P!PeerCloses, S!PeerResets, P!PeerResets

LEMMA SessionNext == [S!Next]_(S!vars) <=> [P!Next]_(P!vars)
<1>1. S!PayloadStep <=> P!PayloadStep
  BY SessionAnswers DEF S!PayloadStep, P!PayloadStep
<1>2. S!vars = P!vars /\ (UNCHANGED S!vars <=> UNCHANGED P!vars)
  BY DEF S!vars, P!vars
<1> QED
  BY <1>1, <1>2, SessionReads, SessionWrites, SessionTimes, SessionPeer
     DEF S!Next, P!Next, S!PeerStep, P!PeerStep

LEMMA SessionTypes == P!TypeOK => S!TypeOK
  BY DEF P!TypeOK, S!TypeOK, P!Settings, S!Settings, P!Reads, S!Reads, P!RequestReads,
     S!RequestReads, P!Writes, S!Writes, P!Part, S!Part

\* What is proved of a session asks only that the bounds be numbers.
LEMMA SessionInvariant ==
  /\ P!Init => P!Inv
  /\ P!Inv /\ [P!Next]_(P!vars) => P!Inv'
<1>1. P!RequestsAssumption /\ P!LateAssumption
  BY BoundsAssumption DEF P!RequestsAssumption, P!LateAssumption
<1> QED
  BY <1>1, P!InitInv, P!NextInv

----------------------------------------------------------------------------
(* What the two ends know of each other by counting.                          *)

\* The messages that n calls are sent in, and those of the operation at hand.
Messages(n) == IF cfg.completion THEN n ELSE 2 * n

ToWrite ==
    IF client = "requestHdr" THEN 2 ELSE IF client \in Writing THEN 1 ELSE 0

ClientTypes ==
    /\ app \in {"any", "simplest", "strings", "suchATricky2"}
    /\ client \in Writing \cup Reading \cup {"free", "gone"}
    /\ calls \in Seq(Call) /\ Len(calls) <= MaxRequests
    /\ taken \in 0 .. Len(out)
    /\ returned \in Seq([call : 1 .. MaxRequests, answer : 1 .. MaxRequests])
    /\ alarm \in {"off", "armed", "expired"}

\* What the client's operation says of the settings and of its last call.
ClientFits ==
    /\ client # "gone" => peer = "open"
    /\ client \notin Reading => alarm = "off"
    /\ client \in {"requestHdr", "requestData"} => ~cfg.completion
    /\ client = "request" => cfg.completion
    /\ client \in (Writing \ {"sessionHdr"}) \cup Reading => Len(calls) > 0
    /\ client \in Reading =>
         /\ calls[Len(calls)].kind = "request"
         /\ cfg.answer # "NoAnswerAtAll"
         /\ client = "answer" <=> cfg.answer = "DataOnly"

\* What the client has sent is what its calls so far consist of.
SentFits ==
    /\ client = "sessionHdr" => Len(calls) = 0
    /\ client # "gone" => toSend + Messages(Len(calls)) = P!Total + ToWrite
    /\ client = "gone" => toSend + Messages(Len(calls)) >= P!Total

\* No message is lost while both are there.
NoneDropped ==
    peer = "open" /\ chain # "over" =>
      IF chain = "sessionHdr"
        THEN toSend + inbox = P!Total + 1
        ELSE toSend + inbox + Messages(begun) + held
               + (IF chain = "requestData" THEN 1 ELSE 0) = P!Total

\* The session takes up only what was called and sent, ...
CallsAhead ==
    /\ begun <= Len(calls)
    /\ client \in Writing \ {"sessionHdr"} => begun < Len(calls)

\* ... and keeps answer data of just the calls whose payload makes some.
GaveFits ==
    /\ gave # {} => cfg.answer # "NoAnswerAtAll"
    /\ chain # "over" =>
         \A k \in 1 .. begun :
           k # begun \/ chain # "payload" => (k \in gave <=> calls[k].data)

Inv ==
    /\ P!Inv
    /\ ClientTypes
    /\ ClientFits
    /\ SentFits
    /\ NoneDropped
    /\ CallsAhead
    /\ GaveFits

\* Every call an example makes, and any program's, is one.
LEMMA CallsAreCalls == ASSUME ClientTypes PROVE Calls \subseteq Call
<1> DEFINE Payloads == [data : BOOLEAN, goOn : BOOLEAN]
<1>1. \A kind \in {"send", "request"}, p \in Payloads : With(kind, p) \in Call
  BY DEF With, Call
<1>2. SimplestPayload \subseteq Payloads /\ StringsPayload \subseteq Payloads
  BY DEF SimplestPayload, StringsPayload
<1>3. \A o : SuchATricky2Payload(o) \in Payloads
  <2> TAKE o
  <2>1. {o \notin {"log", "terminate"}, o # "terminate"} \subseteq BOOLEAN
    OBVIOUS
  <2> QED
    BY <2>1, Zenon DEF SuchATricky2Payload
<1>4. SimplestCalls \subseteq Call /\ StringsCalls \subseteq Call
  BY <1>1, <1>2, Zenon DEF SimplestCalls, StringsCalls
<1>5. SuchATricky2Calls \subseteq Call
  BY <1>1, <1>3, Zenon DEF SuchATricky2Calls
<1> QED
  BY <1>4, <1>5 DEF ClientTypes, Calls

LEMMA InitInv == Init => Inv
<1> SUFFICES ASSUME Init
             PROVE  Inv
  OBVIOUS
<1>1. P!Init
  BY SessionInit DEF Init
<1>2. P!Inv
  BY <1>1, SessionInvariant
<1>3. ClientTypes
  BY <1>1, BoundsAssumption DEF Init, P!Init, ClientTypes, Writing, Reading
<1>4. ClientFits
  BY <1>1 DEF Init, P!Init, ClientFits, Reading, Writing
<1>5. SentFits
  <2>1. Len(calls) = 0 /\ calls = << >>
    BY DEF Init
  <2> QED
    BY <1>1, <2>1, BoundsAssumption, SMT DEF Init, P!Init, SentFits, P!Total, Messages, ToWrite,
       Writing
<1>7. NoneDropped
  BY <1>1, BoundsAssumption, SMT DEF Init, P!Init, NoneDropped, P!Total, Messages
<1>6. CallsAhead /\ GaveFits
  BY <1>1 DEF Init, P!Init, CallsAhead, GaveFits, Writing
<1> QED
  BY <1>2, <1>3, <1>4, <1>5, <1>6, <1>7 DEF Inv

\* The payload of the call that has begun is one of the session's.
LEMMA PayloadReturnsOne == ASSUME Inv, PayloadReturns PROVE P!PayloadStep
<1>1. calls[begun] \in Call
  BY DEF PayloadReturns, Inv, P!Inv, P!AnswersFit, CallsAhead, ClientTypes
<1>2. calls[begun].data \in BOOLEAN /\ calls[begun].goOn \in BOOLEAN
  BY <1>1 DEF Call
<1> QED
  BY <1>2, SessionAnswers DEF PayloadReturns, P!PayloadStep

\* Every step is one of the session under some peer, or none of its.
LEMMA SessionStep == Inv /\ [Next]_vars => [P!Next]_(P!vars)
<1> SUFFICES ASSUME Inv, [Next]_vars
             PROVE  [P!Next]_(P!vars)
  OBVIOUS
<1>1. CASE UNCHANGED sessionVars
  BY <1>1, SessionVars
<1>2. CASE WritePart
  BY <1>2, SessionPeer DEF WritePart, P!Next, P!PeerStep
<1>3. CASE Leave
  BY <1>3, SessionPeer DEF Leave, P!Next, P!PeerStep
<1>4. CASE Serve(S!ReadStep)
  BY <1>4, SessionReads DEF Serve, P!Next
<1>5. CASE PayloadReturns
  BY <1>5, PayloadReturnsOne DEF P!Next
<1>6. CASE Serve(S!WriteStep)
  BY <1>6, SessionWrites DEF Serve, P!Next
<1>7. CASE Serve(S!TimerStep)
  BY <1>7, SessionTimes DEF Serve, P!Next
<1>8. CASE \/ \E call \in Calls : Begin(call)
           \/ ReadPart
           \/ AlarmExpires
           \/ UNCHANGED vars
  BY <1>8, <1>1 DEF Begin, ReadPart, ReadAnswerHdr, ReadAnswerData, ReadAnswer, Take,
     AlarmExpires, vars
<1> QED
  BY <1>2, <1>3, <1>4, <1>5, <1>6, <1>7, <1>8 DEF Next, Blocking, Throw

\* The steps the session takes itself.
SessionMoves == P!ReadStep \/ P!PayloadStep \/ P!WriteStep \/ P!TimerStep

LEMMA SessionMoved ==
  ASSUME P!Inv, SessionMoves
  PROVE  /\ cfg' = cfg /\ toSend' = toSend /\ peer' = peer
         /\ \/ begun' = begun
            \/ begun' = begun + 1 /\ chain' = "payload"
         /\ \/ out' = out
            \/ chain \in P!Writes /\ out' = Append(out, [of |-> begun, part |-> chain])
         /\ gave \subseteq gave' /\ (chain # "payload" => gave' = gave)
         /\ chain = "over" => chain' = "over"
         /\ begun' = begun /\ chain' \in P!Writes \cup {"payload"} =>
              chain \in P!Writes \cup {"payload"}
         /\ begun' = begun /\ chain' = "payload" => chain = "payload" /\ gave' = gave
<1> USE DEF P!ReadRequest, P!ProcessRequest, P!EndChain, P!Write, P!Writes, P!network
<1>0. begun + 1 # begun
  BY DEF P!Inv, P!TypeOK
<1>1. CASE P!ReadStep
  BY <1>0, <1>1 DEF P!ReadStep, P!ReadSessionHdr, P!ReadRequestHdr, P!ReadRequestData, P!ReadFails,
     P!ReceiveRequests, P!Reads, P!RequestReads
<1>2. CASE P!PayloadStep
  BY <1>0, <1>2 DEF P!PayloadStep, P!PayloadReturns, P!WriteAnswer, P!Inv, P!TypeOK, P!Settings
<1>3. CASE P!WriteStep
  BY <1>0, <1>3 DEF P!WriteStep, P!AnswerHdrWritten, P!AnswerDataWritten, P!WriteFails,
     P!AnswerWritten, P!WriteAnswerData
<1>4. CASE P!TimerStep
  BY <1>4 DEF P!TimerStep, P!TimerExpires, P!TimerHandler
<1> QED
  BY <1>1, <1>2, <1>3, <1>4 DEF SessionMoves

LEMMA SessionDropsNone ==
  ASSUME P!Inv, NoneDropped, SessionMoves
  PROVE  NoneDropped'
<1> USE DEF NoneDropped, Messages, P!Total, P!ReadRequest, P!ProcessRequest, P!EndChain, P!Write,
     P!Writes, P!network, P!Inv, P!TypeOK, P!PhasesFit, P!Reads, P!RequestReads
<1>1. CASE P!ReadSessionHdr
  <2>1. held = 0 /\ begun = 0 /\ held' = 0 /\ begun' = 0
    BY <1>1 DEF P!ReadSessionHdr
  <2>2. toSend' + inbox' + 1 = toSend + inbox /\ chain' \in {"request", "requestHdr"}
    BY <1>1 DEF P!ReadSessionHdr
  <2>3. cfg' = cfg /\ peer' = peer /\ chain = "sessionHdr"
    BY <1>1 DEF P!ReadSessionHdr
  <2>4. {toSend, inbox, toSend', inbox'} \subseteq Int /\ P!Total \in Int
    BY <1>1, BoundsAssumption DEF P!ReadSessionHdr
  <2> HIDE DEF P!ReadRequest, P!Inv, P!TypeOK, P!PhasesFit
  <2> QED
    BY <2>1, <2>2, <2>3, <2>4, SMTT(30)
<1>2. CASE P!ReadRequestHdr
  BY <1>2, SMTT(30) DEF P!ReadRequestHdr
<1>3. CASE P!ReadRequestData
  BY <1>3, SMTT(30) DEF P!ReadRequestData
<1>4. ASSUME NEW n \in 1 .. MaxRequests, P!ReceiveRequests(n)
      PROVE  NoneDropped'
  BY <1>4, SMTT(30) DEF P!ReceiveRequests
<1>5. CASE P!ReadFails \/ P!WriteFails
  BY <1>5 DEF P!ReadFails, P!WriteFails
<1>6. ASSUME NEW data \in BOOLEAN, NEW goOn \in BOOLEAN, P!PayloadReturns(data, goOn)
      PROVE  NoneDropped'
  <2>1. CASE P!EndChain
    BY <1>6, <2>1 DEF P!PayloadReturns
  <2>2. CASE P!ReadRequest(held)
    BY <1>6, <2>2, SMTT(30) DEF P!PayloadReturns
  <2>3. CASE P!Write("answerHdr") \/ P!Write("answerData")
    BY <1>6, <2>3, SMTT(30) DEF P!PayloadReturns
  <2> QED
    BY <1>6, <2>1, <2>2, <2>3 DEF P!PayloadReturns, P!WriteAnswer, P!Settings
<1>7. CASE P!AnswerHdrWritten \/ P!AnswerDataWritten
  <2>1. CASE P!ReadRequest(held)
    <3>1. cfg' = cfg /\ UNCHANGED << toSend, inbox, peer >> /\ chain \in P!Writes
      BY <1>7 DEF P!AnswerHdrWritten, P!AnswerDataWritten
    <3>2. {toSend, inbox, begun, held} \subseteq Nat /\ P!Total \in Nat
      BY BoundsAssumption
    <3>3. peer = "open" => toSend + inbox + Messages(begun) + held = P!Total
      BY <3>1, <3>2
    <3>4. \/ begun' = begun + 1 /\ held' = held - 1 /\ chain' = "payload" /\ cfg.completion
          \/ begun' = begun /\ held' = held /\ chain' \in {"request", "requestHdr"}
      BY <2>1
    <3>5. toSend' + inbox' + Messages(begun)' + held' = toSend + inbox + Messages(begun) + held
      <4> HIDE DEF P!ReadRequest, P!Inv, P!TypeOK, P!PhasesFit, NoneDropped
      <4> QED
        BY <3>1, <3>2, <3>4, SMT
    <3>6. P!Total' = P!Total
      BY <3>1
    <3> HIDE DEF P!ReadRequest, P!Inv, P!TypeOK, P!PhasesFit, P!Total, Messages
    <3> QED
      BY <3>1, <3>3, <3>4, <3>5, <3>6
  <2>2. CASE P!Write("answerData")
    BY <1>7, <2>2, SMTT(30) DEF P!AnswerHdrWritten, P!AnswerDataWritten
  <2> QED
    BY <1>7, <2>1, <2>2 DEF P!AnswerHdrWritten, P!AnswerDataWritten, P!WriteAnswerData
<1>8. CASE P!TimerStep
  BY <1>8 DEF P!TimerStep, P!TimerExpires, P!TimerHandler
<1> QED
  BY <1>1, <1>2, <1>3, <1>4, <1>5, <1>6, <1>7, <1>8
     DEF SessionMoves, P!ReadStep, P!PayloadStep, P!WriteStep

\* A request that has begun was sent: the messages of no other call were there.
LEMMA BegunIsCalled ==
  P!Inv /\ ClientTypes /\ ClientFits /\ SentFits /\ chain # "over" => CallsAhead
<1> SUFFICES ASSUME P!Inv, ClientTypes, ClientFits, SentFits, chain # "over"
             PROVE  CallsAhead
  OBVIOUS
<1>1. {begun, held, inbox, toSend, Len(calls), MaxRequests} \subseteq Nat
  BY BoundsAssumption DEF P!Inv, P!TypeOK, ClientTypes
<1> DEFINE owed == IF client \in Writing \ {"sessionHdr"} THEN 1 ELSE 0
<1>2. toSend + Messages(Len(calls)) >= P!Total + owed
  <2>1. ToWrite \in Nat /\ ToWrite >= owed /\ P!Total \in Nat /\ Messages(Len(calls)) \in Nat
    BY <1>1 DEF ToWrite, P!Total, Messages
  <2>2. client = "gone" => owed = 0
    BY DEF Writing
  <2> HIDE DEF owed
  <2>3. owed \in {0, 1}
    BY DEF owed
  <2> QED
    BY <1>1, <2>1, <2>2, <2>3, SMT DEF SentFits
<1>3. CASE chain = "sessionHdr"
  BY <1>1, <1>3 DEF P!Inv, P!PhasesFit, CallsAhead, ClientFits
<1>4. CASE chain # "sessionHdr"
  <2>1. toSend + inbox + (IF cfg.completion THEN begun + held
                          ELSE 2 * begun + (IF chain = "requestData" THEN 1 ELSE 0)) <= P!Total
    BY <1>4 DEF P!Inv, P!MessagesCount
  <2>2. owed \in {0, 1}
    OBVIOUS
  <2>3. begun <= Len(calls) /\ (owed = 1 => begun < Len(calls))
    <3> HIDE DEF owed
    <3> QED
      <4>1. CASE cfg.completion
        BY <1>1, <1>2, <2>1, <2>2, <4>1, SMTT(30) DEF Messages, P!Total
      <4>2. CASE ~cfg.completion
        <5>1. 2 * begun <= P!Total - toSend - inbox
          BY <1>1, <2>1, <4>2, SMTT(30) DEF P!Total
        <5>2. 2 * Len(calls) >= P!Total + owed - toSend
          BY <1>1, <1>2, <2>2, <4>2, SMTT(30) DEF Messages, P!Total
        <5>3. P!Total \in Int
          BY <1>1 DEF P!Total
        <5> QED
          BY <1>1, <2>2, <5>1, <5>2, <5>3, SMTT(30)
      <4> QED
        BY <4>1, <4>2
  <2> QED
    BY <2>3 DEF CallsAhead
<1> QED
  BY <1>3, <1>4

LEMMA BegunNext ==
  (P!Inv /\ ClientTypes /\ ClientFits /\ SentFits /\ chain # "over" => CallsAhead)'
  BY BegunIsCalled, PTL

\* The steps of Next, by what they are to the client: the session's own, ...
LEMMA ServerNext ==
  ASSUME Inv, P!Inv', UNCHANGED clientVars,
         \/ P!ReadStep \/ P!WriteStep \/ P!TimerStep
         \/ P!PayloadStep /\ PayloadReturns
  PROVE  Inv'
<1>0. SessionMoves
  BY DEF SessionMoves
<1>1. ClientTypes'
  <2>1. Len(out') >= Len(out)
    <3>1. out' = out \/ \E part : out' = Append(out, part)
      BY <1>0, SessionMoved DEF Inv
    <3>2. out \in Seq(P!Part) /\ out' \in Seq(P!Part)
      BY DEF Inv, P!Inv, P!TypeOK
    <3>3. ASSUME NEW part, out' = Append(out, part)
          PROVE  Len(out') = Len(out) + 1
      <4>1. out \in Seq(P!Part \cup {part})
        BY <3>2
      <4> QED
        BY <3>3, <4>1
    <3>4. Len(out) \in Nat
      BY <3>2
    <3>5. Len(out') = Len(out) \/ Len(out') = Len(out) + 1
      BY <3>1, <3>3, Zenon
    <3> QED
      BY <3>4, <3>5
  <2>2. Len(out) \in Nat /\ Len(out') \in Nat
    BY DEF Inv, P!Inv, P!TypeOK
  <2> QED
    BY <2>1, <2>2 DEF Inv, ClientTypes, clientVars
<1>2. ClientFits'
  BY <1>0, SessionMoved DEF Inv, ClientFits, clientVars
<1>3. SentFits'
  BY <1>0, SessionMoved DEF Inv, SentFits, clientVars, Messages, ToWrite, P!Total
<1>4. NoneDropped'
  BY <1>0, SessionDropsNone DEF Inv
<1>6. CallsAhead'
  <2>1. CASE chain' = "over"
    BY <1>0, <2>1, SessionMoved DEF Inv, CallsAhead, clientVars
  <2> QED
    BY <2>1, <1>1, <1>2, <1>3, BegunNext
<1>7. gave' # {} => cfg'.answer # "NoAnswerAtAll"
  <2>1. CASE PayloadReturns
    BY <2>1 DEF PayloadReturns, S!PayloadReturns, Inv, GaveFits
  <2>2. CASE P!ReadStep \/ P!WriteStep \/ P!TimerStep
    <3>1. gave' = gave
      BY <2>2 DEF P!ReadStep, P!ReadSessionHdr, P!ReadRequestHdr, P!ReadRequestData, P!ReadFails,
         P!ReceiveRequests, P!WriteStep, P!AnswerHdrWritten, P!AnswerDataWritten, P!WriteFails,
         P!TimerStep, P!TimerExpires, P!TimerHandler
    <3> QED
      BY <1>0, <3>1, SessionMoved DEF Inv, GaveFits
  <2> QED
    BY <2>1, <2>2
<1>5. GaveFits'
  <2> SUFFICES ASSUME chain' # "over"
               PROVE  GaveFits'
    BY <1>7 DEF GaveFits
  <2>1. calls' = calls
    BY DEF clientVars
  <2>2. chain # "over" /\ begun \in Nat /\ gave \subseteq 1 .. begun
    <3>1. chain # "over"
      BY <1>0, SessionMoved DEF Inv
    <3> QED
      BY <3>1 DEF Inv, P!Inv, P!TypeOK
  <2>3. CASE chain # "payload"
    BY <1>7, <2>1, <2>2, <2>3, <1>0, SessionMoved, SMT DEF Inv, GaveFits
  <2>4. CASE chain = "payload"
    <3>1. CASE PayloadReturns
      <4>1. gave' = IF calls[begun].data THEN gave \cup {begun} ELSE gave
        BY <3>1 DEF PayloadReturns, S!PayloadReturns
      <4>2. begun \notin gave /\ begun \in 1 .. MaxRequests
        BY <2>4 DEF Inv, P!Inv, P!AnswersFit
      <4>3. \A k \in 1 .. begun : k \in gave' <=> calls[k].data
        <5>1. CASE calls[begun].data
          BY <2>2, <2>4, <4>1, <4>2, <5>1 DEF Inv, GaveFits
        <5>2. CASE ~calls[begun].data
          BY <2>2, <2>4, <4>1, <4>2, <5>2 DEF Inv, GaveFits
        <5> QED
          BY <5>1, <5>2, Zenon
      <4>4. begun' = begun \/ (begun' = begun + 1 /\ chain' = "payload")
        BY <1>0, SessionMoved DEF Inv
      <4> QED
        BY <1>7, <2>1, <2>2, <4>3, <4>4, SMT DEF GaveFits
    <3>2. CASE P!TimerStep
      BY <1>7, <2>1, <3>2 DEF P!TimerStep, P!TimerExpires, P!TimerHandler, Inv, GaveFits
    <3> QED
      BY <2>4, <3>1, <3>2 DEF P!ReadStep, P!ReadSessionHdr, P!ReadRequestHdr,
         P!ReadRequestData, P!ReadFails, P!ReceiveRequests, P!WriteStep, P!AnswerHdrWritten,
         P!AnswerDataWritten, P!WriteFails, P!Reads, P!RequestReads, P!Writes
  <2> QED
    BY <2>3, <2>4
<1> QED
  BY <1>1, <1>2, <1>3, <1>4, <1>5, <1>6 DEF Inv

\* ... a call, ...
LEMMA BeginNext ==
  ASSUME Inv, P!Inv', NEW call \in Calls, Begin(call)
  PROVE  Inv'
<1>1. call \in Call /\ client = "free" /\ UNCHANGED << sessionVars, app, taken, returned, alarm >>
  BY CallsAreCalls DEF Inv, Begin
<1>2. /\ Len(calls) \in Nat /\ Len(calls') = Len(calls) + 1 /\ Len(calls') <= MaxRequests
      /\ calls' \in Seq(Call) /\ \A k \in 1 .. Len(calls) : calls'[k] = calls[k]
  BY <1>1, BoundsAssumption DEF Inv, ClientTypes, Begin
<1>3. client' = IF cfg.completion THEN "request" ELSE "requestHdr"
  BY DEF Begin
<1>4. ClientTypes'
  BY <1>1, <1>2, <1>3 DEF Inv, ClientTypes, sessionVars, Writing
<1>5. ClientFits'
  BY <1>1, <1>2, <1>3 DEF Inv, ClientFits, sessionVars, Reading, Writing
<1>6. SentFits'
  <2>1. toSend + Messages(Len(calls)) = P!Total
    BY <1>1, BoundsAssumption DEF Inv, SentFits, ToWrite, Writing, P!Total, Messages
  <2>2. toSend' = toSend /\ cfg' = cfg /\ toSend \in Nat
    BY <1>1 DEF sessionVars, Inv, P!Inv, P!TypeOK
  <2>3. ToWrite' = IF cfg.completion THEN 1 ELSE 2
    BY <1>3 DEF ToWrite, Writing
  <2>4. client' \notin {"sessionHdr", "gone"}
    BY <1>3
  <2> QED
    BY <1>2, <2>1, <2>2, <2>3, <2>4, BoundsAssumption, SMT DEF SentFits, Messages, P!Total
<1>7. NoneDropped'
  BY <1>1 DEF Inv, NoneDropped, sessionVars, Messages, P!Total
<1>9. CallsAhead'
  BY <1>1, <1>2 DEF Inv, CallsAhead, sessionVars, P!Inv, P!TypeOK
<1>8. GaveFits'
  <2>1. chain' = chain /\ begun' = begun /\ gave' = gave /\ cfg' = cfg
    BY <1>1 DEF sessionVars
  <2>2. begun \in Nat /\ begun <= Len(calls)
    BY DEF Inv, P!Inv, P!TypeOK, CallsAhead
  <2> QED
    BY <1>2, <2>1, <2>2 DEF Inv, GaveFits
<1> QED
  BY <1>4, <1>5, <1>6, <1>7, <1>8, <1>9 DEF Inv

\* ... a part of it that is sent, ...
LEMMA WriteNext ==
  ASSUME Inv, P!Inv', WritePart
  PROVE  Inv'
<1>1. /\ client \in Writing /\ toSend > 0 /\ toSend' = toSend - 1 /\ inbox' = inbox + 1
      /\ UNCHANGED << cfg, chain, begun, held, peer, gave, out >>
      /\ UNCHANGED << app, calls, taken, returned >>
  BY DEF WritePart, S!PeerSends
<1>2. {toSend, inbox, begun, held, Len(calls), MaxRequests} \subseteq Nat
  BY BoundsAssumption DEF Inv, P!Inv, P!TypeOK, ClientTypes
<1>3. \/ client = "requestHdr" /\ client' = "requestData" /\ alarm' = "off"
      \/ client # "requestHdr" /\ client' = "free" /\ alarm' = "off"
      \/ /\ client \in {"requestData", "request"} /\ alarm' = "armed"
         /\ Last(calls).kind # "send" /\ cfg.answer # "NoAnswerAtAll"
         /\ client' = IF cfg.answer = "DataOnly" THEN "answer" ELSE "answerHdr"
  BY <1>1 DEF WritePart, AfterSend, AwaitAnswer, Writing
<1>4. ClientTypes'
  BY <1>1, <1>3 DEF Inv, ClientTypes, Writing, Reading
<1>5. ClientFits'
  <2>1. client' \in Reading =>
          /\ client \in {"requestData", "request"} /\ Last(calls).kind # "send"
          /\ cfg.answer # "NoAnswerAtAll"
          /\ client' = "answer" <=> cfg.answer = "DataOnly"
    BY <1>3 DEF Reading
  <2>2. client \in {"requestData", "request"} => Len(calls) > 0
    BY DEF Inv, ClientFits, Writing
  <2> QED
    <3>1. client' \in Reading => calls'[Len(calls')].kind = "request"
      <4>1. client \in {"requestData", "request"} => calls[Len(calls)] \in Call
        BY <1>2, <2>2 DEF Inv, ClientTypes
      <4> QED
        BY <1>1, <2>1, <4>1 DEF Last, Call
    <3>2. client' \in {"requestData", "free"} \cup Reading /\ client # "gone"
      BY <1>1, <1>3 DEF Reading, Writing
    <3>3. client' = "requestData" => ~cfg.completion /\ Len(calls) > 0
      BY <1>3 DEF Inv, ClientFits, Reading, Writing
    <3>4. client' \notin Reading => alarm' = "off"
      BY <1>3 DEF Reading
    <3> QED
      BY <1>1, <2>1, <2>2, <3>1, <3>2, <3>3, <3>4 DEF Inv, ClientFits, Reading, Writing
<1>6. SentFits'
  <2>1. client # "gone" /\ client' \notin {"sessionHdr", "gone"}
    BY <1>1, <1>3 DEF Writing
  <2>2. ToWrite = ToWrite' + 1 /\ ToWrite' \in Nat
    BY <1>1, <1>3 DEF ToWrite, Writing
  <2>3. toSend + Messages(Len(calls)) = P!Total + ToWrite
    BY <2>1 DEF Inv, SentFits
  <2> QED
    <3>1. P!Total' = P!Total /\ Messages(Len(calls))' = Messages(Len(calls))
      BY <1>1 DEF P!Total, Messages
    <3>2. P!Total \in Nat /\ Messages(Len(calls)) \in Nat
      BY <1>2 DEF P!Total, Messages
    <3>3. toSend' + Messages(Len(calls)) = P!Total + ToWrite'
      <4>1. PICK w \in Nat : ToWrite' = w
        BY <2>2
      <4>2. PICK total \in Nat, m \in Nat : P!Total = total /\ Messages(Len(calls)) = m
        BY <3>2
      <4>3. PICK s \in Nat : toSend = s
        BY <1>2
      <4>4. ToWrite = w + 1
        BY <2>2, <4>1
      <4>5. s + m = total + (w + 1)
        BY <2>3, <4>2, <4>3, <4>4
      <4>6. (s - 1) + m = total + w
        BY <4>5, SMT
      <4> QED
        BY <1>1, <4>1, <4>2, <4>3, <4>6
    <3> QED
      BY <2>1, <3>1, <3>3 DEF SentFits
<1>7. NoneDropped'
  <2>1. P!Total' = P!Total /\ Messages(begun)' = Messages(begun) /\ Messages(begun) \in Nat
    BY <1>1, <1>2 DEF P!Total, Messages
  <2>2. toSend' + inbox' = toSend + inbox
    BY <1>1, <1>2
  <2> QED
    BY <1>1, <2>1, <2>2 DEF Inv, NoneDropped
<1>9. CallsAhead'
  <2>1. client' \in Writing \ {"sessionHdr"} => client \in Writing \ {"sessionHdr"}
    BY <1>1, <1>3 DEF Writing
  <2> QED
    BY <1>1, <2>1 DEF Inv, CallsAhead
<1>8. GaveFits'
  BY <1>1 DEF Inv, GaveFits
<1> QED
  BY <1>4, <1>5, <1>6, <1>7, <1>8, <1>9 DEF Inv

\* ... a part of the answer that is read, ...
LEMMA ReadNext ==
  ASSUME Inv, P!Inv', ReadPart
  PROVE  Inv'
<1>1. /\ client \in Reading /\ taken < Len(out) /\ taken' = taken + 1
      /\ UNCHANGED << sessionVars, app, calls >>
  BY DEF ReadPart, ReadAnswerHdr, ReadAnswerData, ReadAnswer, Take, Reading
<1>2. \/ client = "answerHdr" /\ client' = "answerData" /\ UNCHANGED << returned, alarm >>
      \/ Return(out[taken + 1].of)
  BY DEF ReadPart, ReadAnswerHdr, ReadAnswerData, ReadAnswer, HdrRead
<1>3. {begun, toSend, inbox, Len(calls)} \subseteq Nat /\ Len(calls) > 0
  BY <1>1 DEF Inv, P!Inv, P!TypeOK, ClientTypes, ClientFits
<1>4. ClientTypes'
  <2>1. taken' \in 0 .. Len(out')
    BY <1>1 DEF Inv, ClientTypes, sessionVars
  <2>2. CASE Return(out[taken + 1].of)
    <3>1. out[taken + 1] \in P!Part
      <4>1. taken + 1 \in 1 .. Len(out) /\ out \in Seq(P!Part)
        BY <1>1 DEF Inv, ClientTypes, P!Inv, P!TypeOK
      <4> QED
        BY <4>1
    <3>2. [call |-> Len(calls), answer |-> out[taken + 1].of]
            \in [call : 1 .. MaxRequests, answer : 1 .. MaxRequests]
      BY <1>3, <3>1, BoundsAssumption DEF P!Part, Inv, ClientTypes
    <3>3. returned' \in Seq([call : 1 .. MaxRequests, answer : 1 .. MaxRequests])
      BY <2>2, <3>2 DEF Inv, ClientTypes, Return
    <3> QED
      BY <1>1, <2>1, <2>2, <3>3 DEF Inv, ClientTypes, Return
  <2>3. CASE client' = "answerData" /\ UNCHANGED << returned, alarm >>
    BY <1>1, <2>1, <2>3 DEF Inv, ClientTypes, Reading
  <2> QED
    BY <1>2, <2>2, <2>3
<1>5. ClientFits'
  BY <1>1, <1>2 DEF Inv, ClientFits, Return, Reading, Writing, sessionVars
<1>6. SentFits'
  <2>1. ToWrite = 0 /\ ToWrite' = 0
    BY <1>1, <1>2 DEF ToWrite, Reading, Writing, Return
  <2>2. client \notin {"sessionHdr", "gone"} /\ client' \notin {"sessionHdr", "gone"}
    BY <1>1, <1>2 DEF Reading, Return
  <2> QED
    BY <1>1, <2>1, <2>2 DEF Inv, SentFits, Messages, P!Total, sessionVars
<1>7. NoneDropped' /\ GaveFits'
  BY <1>1 DEF Inv, NoneDropped, GaveFits, sessionVars, Messages, P!Total
<1>8. CallsAhead'
  BY <1>1, <1>2 DEF Inv, CallsAhead, sessionVars, Writing, Return
<1> QED
  BY <1>4, <1>5, <1>6, <1>7, <1>8 DEF Inv

\* ... and the end of the client.
LEMMA LeaveNext ==
  ASSUME Inv, P!Inv', Leave, client # "gone"
  PROVE  Inv'
<1>1. /\ client' = "gone" /\ alarm' = "off" /\ peer' # "open"
      /\ UNCHANGED << cfg, chain, begun, toSend, gave, out, app, calls, taken, returned >>
  BY DEF Leave, S!PeerResets, S!PeerCloses
<1>2. ClientTypes'
  BY <1>1 DEF Inv, ClientTypes
<1>3. ClientFits'
  BY <1>1 DEF Inv, ClientFits, Reading, Writing
<1>4. SentFits'
  <2>1. {toSend, Len(calls)} \subseteq Nat /\ P!Total \in Nat /\ Messages(Len(calls)) \in Nat
    BY BoundsAssumption DEF Inv, P!Inv, P!TypeOK, ClientTypes, P!Total, Messages
  <2>2. ToWrite \in Nat
    BY DEF ToWrite
  <2>3. toSend + Messages(Len(calls)) >= P!Total
    BY <2>1, <2>2 DEF Inv, SentFits
  <2>4. P!Total' = P!Total /\ Messages(Len(calls))' = Messages(Len(calls)) /\ toSend' = toSend
    BY <1>1 DEF P!Total, Messages
  <2> QED
    BY <1>1, <2>3, <2>4 DEF SentFits
<1>5. NoneDropped' /\ CallsAhead' /\ GaveFits'
  BY <1>1 DEF Inv, NoneDropped, CallsAhead, GaveFits, Writing
<1> QED
  BY <1>2, <1>3, <1>4, <1>5 DEF Inv

LEMMA NextInv == Inv /\ [Next]_vars => Inv'
<1> SUFFICES ASSUME Inv, [Next]_vars
             PROVE  Inv'
  OBVIOUS
<1>1. P!Inv'
  BY SessionStep, SessionInvariant DEF Inv
<1>2. CASE WritePart
  BY <1>1, <1>2, WriteNext
<1>3. CASE ReadPart
  BY <1>1, <1>3, ReadNext
<1>4. CASE Throw \/ (client # "gone" /\ Leave)
  <2>1. client # "gone" /\ Leave
    BY <1>4 DEF Throw, Writing, Reading
  <2> QED
    BY <1>1, <2>1, LeaveNext
<1>5. ASSUME NEW call \in Calls, Begin(call)
      PROVE  Inv'
  BY <1>1, <1>5, BeginNext
<1>6. CASE Serve(S!ReadStep) \/ Serve(S!WriteStep) \/ Serve(S!TimerStep)
  BY <1>1, <1>6, SessionReads, SessionWrites, SessionTimes, ServerNext DEF Serve
<1>7. CASE PayloadReturns
  <2>1. P!PayloadStep
    BY <1>7, PayloadReturnsOne
  <2> QED
    BY <1>1, <1>7, <2>1, ServerNext DEF PayloadReturns
<1>8. CASE AlarmExpires \/ UNCHANGED vars
  <2>1. /\ UNCHANGED << sessionVars, app, client, calls, taken, returned >>
        /\ alarm' = alarm \/ (alarm = "armed" /\ alarm' = "expired")
    BY <1>8 DEF AlarmExpires, vars, clientVars
  <2>2. ClientTypes' /\ ClientFits'
    BY <2>1 DEF Inv, ClientTypes, ClientFits, sessionVars
  <2>3. SentFits' /\ NoneDropped' /\ CallsAhead' /\ GaveFits'
    BY <2>1 DEF Inv, SentFits, NoneDropped, CallsAhead, GaveFits, sessionVars, Messages,
       ToWrite, P!Total
  <2> QED
    BY <1>1, <2>2, <2>3 DEF Inv
<1> QED
  BY <1>2, <1>3, <1>4, <1>5, <1>6, <1>7, <1>8 DEF Next, Blocking

\* Every variable of both ends keeps its type: no client takes more than was
\* written for it, and none is timed outside of request().
THEOREM TypeCorrect == Spec => []TypeOK
<1>1. Inv => TypeOK
  BY SessionTypes DEF Inv, P!Inv, TypeOK, ClientTypes, ClientFits
<1> QED
  BY <1>1, InitInv, NextInv, PTL DEF Spec

\* The session that serves a client is the session of the module Session, with
\* the client for its peer: what holds of it there holds here.
THEOREM SessionImplemented == Spec => S!Spec
<1>1. Inv /\ [Next]_vars => [S!Next]_(S!vars)
  BY SessionStep, SessionNext
<1>2. Init => S!Init
  BY DEF Init
<1> QED
  BY <1>1, <1>2, InitInv, NextInv, PTL DEF Spec, S!Spec

\* In particular the answers are exact.
LEMMA AnswersHold == Spec => []P!AnswersExact
<1>1. Spec => P!Spec
  <2>1. Inv /\ [Next]_vars => [P!Next]_(P!vars)
    BY SessionStep
  <2>2. Init => P!Init
    BY SessionInit DEF Init
  <2> QED
    BY <2>1, <2>2, InitInv, NextInv, PTL DEF Spec, P!Spec
<1>2. P!RequestsAssumption /\ P!LateAssumption
  BY BoundsAssumption DEF P!RequestsAssumption, P!LateAssumption
<1>3. P!Spec => []P!AnswersExact
  BY <1>2, P!AnswersAreExact
<1> QED
  BY <1>1, <1>3, PTL

----------------------------------------------------------------------------
\* The answer to call k, if any, is still to be written.
Open(k) == k > begun \/ (k = begun /\ chain \in P!Writes \cup {"payload"})

Hdr(k) == [of |-> k, part |-> "answerHdr"]
Data(k) == [of |-> k, part |-> "answerData"]

\* With a program that keeps the first rule, nothing waits to be read but the
\* answer to the request that reads, from its first part on, ...
NothingStale ==
    /\ client \in Writing \cup {"free"} => taken = Len(out)
    /\ client \in Reading =>
         \A i \in DOMAIN out : i > taken => out[i].of = Len(calls)
    /\ client \in {"answerHdr", "answer"} =>
         \A i \in DOMAIN out : i <= taken => out[i].of < Len(calls)
    /\ client = "answerData" =>
         taken > 0 /\ out[taken] = Hdr(Len(calls)) /\ Len(calls) \in gave

\* ... and nothing else is going to be written.
NothingDue ==
    chain # "over" =>
      \A k \in DOMAIN calls :
        Open(k) /\ (client = "free" \/ k < Len(calls)) => ~Answered(calls[k])

Matched == Disciplined => NothingStale /\ NothingDue /\ AnswerIsOwn

\* What of the answers' exactness the client relies on: what it reads was promised
\* for a request that has begun, in order, headers first, ...
LEMMA WrittenParts ==
  ASSUME Inv, P!AnswersExact, NEW i \in DOMAIN out
  PROVE  /\ out[i] \in P!Part /\ P!Promises(out[i]) /\ out[i].of <= begun
         /\ \A j \in DOMAIN out : i < j => P!Before(out[i], out[j])
         /\ chain \in {"payload", "answerHdr"} => out[i].of < begun
         /\ chain = "answerData" => out[i] # Data(begun)
         /\ \A p \in P!Part : P!Promises(p) /\ P!Before(p, out[i]) =>
              \E j \in DOMAIN out : out[j] = p
<1>1. out[i] \in P!Part
  BY DEF Inv, P!Inv, P!TypeOK
<1>2. P!Written = {out[j] : j \in DOMAIN out} /\ out[i] \in P!Written
  BY DEF P!Written, P!Range
<1>3. begun \in Nat /\ chain \in P!Reads \cup P!Writes \cup {"payload", "over"}
  BY DEF Inv, P!Inv, P!TypeOK
<1>4. out[i] \in P!Promised(begun)
  <2>1. P!Promised(begun - 1) \subseteq P!Promised(begun)
    BY <1>3 DEF P!Promised, P!Part
  <2> QED
    BY <1>2, <1>3, <2>1 DEF P!AnswersExact, P!Writes
<1>5. chain \in {"payload", "answerHdr"} => out[i].of < begun
  BY <1>1, <1>2, <1>3 DEF P!AnswersExact, P!Promised, P!Part
<1>6. chain = "answerData" => out[i] # Data(begun)
  BY <1>2 DEF P!AnswersExact, Data
<1>7. ASSUME NEW p \in P!Part, P!Promises(p), P!Before(p, out[i])
      PROVE  p \in P!Written
  <2>1. p.of <= out[i].of /\ p.of \in Nat /\ out[i].of \in Nat /\ out[i].of <= begun
    BY <1>1, <1>4, <1>7 DEF P!Before, P!Part, P!Promised
  <2>2. p \in P!Promised(begun)
    BY <1>3, <1>7, <2>1 DEF P!Promised
  <2>3. CASE chain \in P!Reads \cup {"over"}
    BY <1>2, <1>7, <2>2, <2>3 DEF P!AnswersExact, P!Reads, P!RequestReads
  <2>4. CASE chain \in {"payload", "answerHdr"}
    <3>1. p \in P!Promised(begun - 1)
      BY <1>3, <1>5, <1>7, <2>1, <2>4 DEF P!Promised
    <3> QED
      BY <2>4, <3>1 DEF P!AnswersExact
  <2>5. CASE chain = "answerData"
    <3>1. p # Data(begun)
      BY <1>3, <1>7, <2>1 DEF Data, P!Before
    <3> QED
      BY <2>2, <2>5, <3>1 DEF P!AnswersExact, Data
  <2> QED
    BY <1>3, <2>3, <2>4, <2>5 DEF P!Writes
<1> QED
  BY <1>1, <1>2, <1>4, <1>5, <1>6, <1>7 DEF P!Promised, P!AnswersExact, P!InOrder

\* ... and what is being written is the answer of a call that has one.
LEMMA WritesAnAnswer ==
  ASSUME Inv, P!AnswersExact, chain \in P!Writes
  PROVE  begun \in 1 .. Len(calls) /\ Answered(calls[begun])
<1>1. begun \in 1 .. MaxRequests /\ begun <= Len(calls) /\ Len(calls) \in Nat
  BY DEF Inv, P!Inv, P!AnswersFit, CallsAhead, ClientTypes
<1>2. CASE cfg.answer = "AtLeastHeader"
  BY <1>1, <1>2 DEF Answered
<1>3. CASE begun \in gave
  <2>1. calls[begun].data
    BY <1>1, <1>3 DEF Inv, GaveFits, P!Writes
  <2>2. cfg.answer # "NoAnswerAtAll"
    BY <1>3 DEF Inv, GaveFits
  <2> QED
    BY <1>1, <2>1, <2>2 DEF Answered
<1>4. cfg.answer = "AtLeastHeader" \/ begun \in gave
  <2>1. CASE chain = "answerHdr"
    BY <2>1 DEF Inv, P!Inv, P!AnswersFit, P!Promises
  <2>2. CASE chain = "answerData"
    BY <2>2 DEF P!AnswersExact, P!Promised, P!Promises
  <2> QED
    BY <2>1, <2>2 DEF P!Writes
<1> QED
  BY <1>2, <1>3, <1>4

\* The session writes only to a client that waits for it.
LEMMA ServerMatched ==
  ASSUME Inv, P!AnswersExact, Matched, SessionMoves, UNCHANGED clientVars
  PROVE  Matched'
<1> SUFFICES ASSUME Disciplined
             PROVE  (NothingStale /\ NothingDue /\ AnswerIsOwn)'
  BY SessionMoved DEF Inv, Matched, Disciplined, Answered, clientVars
<1>1. NothingStale /\ NothingDue /\ AnswerIsOwn /\ UNCHANGED << calls, client, taken, returned >>
  BY DEF Matched, clientVars
<1>2. {begun, Len(calls), taken, Len(out)} \subseteq Nat /\ taken <= Len(out) /\ out \in Seq(P!Part)
  BY DEF Inv, P!Inv, P!TypeOK, ClientTypes
<1>3. DOMAIN calls = 1 .. Len(calls) /\ DOMAIN out = 1 .. Len(out)
  BY <1>2 DEF Inv, ClientTypes
<1>4. /\ cfg' = cfg /\ gave \subseteq gave'
      /\ begun' = begun \/ (begun' = begun + 1 /\ chain' = "payload")
      /\ chain = "over" => chain' = "over"
      /\ begun' = begun /\ chain' \in P!Writes \cup {"payload"} =>
           chain \in P!Writes \cup {"payload"}
      /\ \/ out' = out
         \/ chain \in P!Writes /\ out' = Append(out, [of |-> begun, part |-> chain])
  BY SessionMoved DEF Inv
<1>5. NothingStale'
  <2>1. CASE out' = out
    BY <1>1, <1>4, <2>1 DEF NothingStale
  <2>2. CASE chain \in P!Writes /\ out' = Append(out, [of |-> begun, part |-> chain])
    <3>1. begun \in DOMAIN calls /\ Answered(calls[begun]) /\ Open(begun) /\ chain # "over"
      BY <1>3, <2>2, WritesAnAnswer DEF Open, P!Writes
    <3>2. client # "free" /\ ~(begun < Len(calls))
      BY <1>1, <3>1 DEF NothingDue
    <3>3. client \notin Writing /\ begun = Len(calls)
      <4>1. begun = Len(calls)
        BY <1>2, <1>3, <3>1, <3>2
      <4>2. client # "sessionHdr"
        BY <1>3, <3>1 DEF Inv, SentFits
      <4> QED
        BY <3>2, <4>1, <4>2 DEF Inv, CallsAhead, Writing
    <3>4. /\ DOMAIN out' = DOMAIN out \cup {Len(out) + 1}
          /\ \A i \in DOMAIN out : out'[i] = out[i]
          /\ out'[Len(out) + 1].of = Len(calls)
      BY <1>2, <2>2, <3>3
    <3>5. client \in Reading => \A i \in DOMAIN out' : i > taken => out'[i].of = Len(calls)
      BY <1>1, <3>4 DEF NothingStale
    <3>6. client \in {"answerHdr", "answer"} =>
            \A i \in DOMAIN out' : i <= taken => out'[i].of < Len(calls)
      BY <1>1, <1>2, <1>3, <3>4 DEF NothingStale
    <3>7. client = "answerData" =>
            taken > 0 /\ out'[taken] = Hdr(Len(calls)) /\ Len(calls) \in gave'
      BY <1>1, <1>2, <1>3, <1>4, <3>4 DEF NothingStale
    <3> QED
      BY <1>1, <3>2, <3>3, <3>5, <3>6, <3>7 DEF NothingStale, Hdr
  <2> QED
    BY <1>4, <2>1, <2>2
<1>6. NothingDue'
  <2>1. ASSUME NEW k \in DOMAIN calls, Open(k)', chain' # "over"
        PROVE  Open(k) /\ chain # "over"
    BY <1>2, <1>3, <1>4, <2>1, SMT DEF Open
  <2>2. \A k \in DOMAIN calls : Answered(calls[k])' <=> Answered(calls[k])
    BY <1>1, <1>4 DEF Answered
  <2> QED
    BY <1>1, <2>1, <2>2 DEF NothingDue
<1>7. AnswerIsOwn'
  BY <1>1, <1>4 DEF AnswerIsOwn, Disciplined, Answered
<1> QED
  BY <1>5, <1>6, <1>7

\* A client that calls has read all it was written, and has yet to be answered.
LEMMA BeginMatched ==
  ASSUME Inv, Matched, NEW call \in Calls, Begin(call)
  PROVE  Matched'
<1>1. /\ calls' = Append(calls, call) /\ client = "free" /\ client' \in {"request", "requestHdr"}
      /\ UNCHANGED << cfg, chain, begun, gave, out, taken, returned >>
  BY DEF Begin, sessionVars
<1>2. calls \in Seq(Call) /\ call \in Call
  BY CallsAreCalls DEF Inv, ClientTypes
<1>3. /\ DOMAIN calls = 1 .. Len(calls) /\ DOMAIN calls' = 1 .. Len(calls) + 1
      /\ Len(calls) \in Nat /\ Len(calls') = Len(calls) + 1
      /\ \A k \in DOMAIN calls : calls'[k] = calls[k]
  BY <1>1, <1>2
<1>4. \A k \in DOMAIN calls : Answered(calls[k])' <=> Answered(calls[k])
  BY <1>1, <1>3 DEF Answered
<1>5. Disciplined' => Disciplined
  BY <1>1, <1>3 DEF Disciplined, Answered
<1> SUFFICES ASSUME NothingStale, NothingDue, AnswerIsOwn, Disciplined
             PROVE  (NothingStale /\ NothingDue /\ AnswerIsOwn)'
  BY <1>5 DEF Matched
<1>6. NothingStale'
  BY <1>1 DEF NothingStale, Writing, Reading
<1>7. NothingDue'
  BY <1>1, <1>3, <1>4 DEF NothingDue, Open
<1>8. AnswerIsOwn'
  BY <1>1 DEF AnswerIsOwn
<1> QED
  BY <1>6, <1>7, <1>8

\* A client whose request is written waits for its answer only, if it has one.
LEMMA WriteMatched ==
  ASSUME Inv, P!AnswersExact, Matched, WritePart
  PROVE  Matched'
<1>1. /\ client \in Writing
      /\ UNCHANGED << cfg, chain, begun, gave, out, calls, taken, returned >>
  BY DEF WritePart, S!PeerSends
<1> SUFFICES ASSUME Disciplined
             PROVE  (NothingStale /\ NothingDue /\ AnswerIsOwn)'
  BY <1>1 DEF Matched, Disciplined, Answered
<1>2. NothingStale /\ NothingDue /\ AnswerIsOwn
  BY DEF Matched
<1>3. /\ Len(calls) \in Nat /\ DOMAIN calls = 1 .. Len(calls) /\ taken = Len(out)
      /\ DOMAIN out = 1 .. Len(out) /\ Len(out) \in Nat /\ begun \in Nat
  BY <1>1, <1>2 DEF Inv, ClientTypes, P!Inv, P!TypeOK, NothingStale
<1>4. \A k \in DOMAIN calls : Answered(calls[k])' <=> Answered(calls[k])
  BY <1>1 DEF Answered
<1>5. AnswerIsOwn'
  BY <1>1, <1>2 DEF AnswerIsOwn, Disciplined, Answered
<1>6. \/ client = "sessionHdr" /\ client' = "free"
      \/ client = "requestHdr" /\ client' = "requestData"
      \/ /\ client \in {"requestData", "request"} /\ client' = "free"
         /\ Last(calls).kind = "send" \/ cfg.answer = "NoAnswerAtAll"
      \/ client \in {"requestData", "request"} /\ client' \in {"answer", "answerHdr"}
  BY <1>1 DEF WritePart, AfterSend, AwaitAnswer, Writing
<1>7. CASE client' = "free"
  <2>1. NothingStale'
    BY <1>1, <1>3, <1>7 DEF NothingStale, Reading
  <2>2. \A k \in DOMAIN calls : k = Len(calls) => ~Answered(calls[k])
    <3>1. CASE client = "sessionHdr"
      BY <1>3, <3>1 DEF Inv, SentFits
    <3>2. CASE client # "sessionHdr"
      BY <1>6, <1>7, <3>2 DEF Disciplined, Answered, Last
    <3> QED
      BY <3>1, <3>2
  <2>3. NothingDue'
    BY <1>1, <1>2, <1>3, <1>4, <2>2, SMT DEF NothingDue, Open
  <2> QED
    BY <1>5, <2>1, <2>3
<1>8. CASE client' = "requestData"
  <2>1. NothingStale'
    BY <1>1, <1>3, <1>8 DEF NothingStale, Reading
  <2>2. NothingDue'
    BY <1>1, <1>2, <1>4, <1>8 DEF NothingDue, Open
  <2> QED
    BY <1>5, <2>1, <2>2
<1>9. CASE client \in {"requestData", "request"} /\ client' \in {"answer", "answerHdr"}
  <2>1. \A i \in DOMAIN out : out[i].of < Len(calls)
    <3> TAKE i \in DOMAIN out
    <3>1. out[i].of <= begun /\ out[i].of \in Nat
      BY WrittenParts DEF P!Part
    <3>2. begun < Len(calls)
      BY <1>9 DEF Inv, CallsAhead, Writing
    <3> QED
      BY <1>3, <3>1, <3>2
  <2>2. NothingStale'
    BY <1>1, <1>3, <1>9, <2>1 DEF NothingStale, Writing, Reading
  <2>3. NothingDue'
    BY <1>1, <1>2, <1>4, <1>9 DEF NothingDue, Open
  <2> QED
    BY <1>5, <2>2, <2>3
<1> QED
  BY <1>6, <1>7, <1>8, <1>9

\* The first part a request reads is its answer's first, and what follows that is
\* what HdrRead takes it to be, and the last.
LEMMA ReadMatched ==
  ASSUME Inv, P!AnswersExact, Matched, ReadPart
  PROVE  Matched'
<1>1. /\ client \in Reading /\ taken < Len(out) /\ taken' = taken + 1
      /\ UNCHANGED << cfg, chain, begun, gave, out, calls >>
  BY DEF ReadPart, ReadAnswerHdr, ReadAnswerData, ReadAnswer, Take, Reading, sessionVars
<1> SUFFICES ASSUME Disciplined
             PROVE  (NothingStale /\ NothingDue /\ AnswerIsOwn)'
  BY <1>1 DEF Matched, Disciplined, Answered
<1>2. NothingStale /\ NothingDue /\ AnswerIsOwn
  BY DEF Matched
<1>3. /\ Len(calls) \in Nat /\ DOMAIN calls = 1 .. Len(calls) /\ taken \in Nat
      /\ DOMAIN out = 1 .. Len(out) /\ Len(out) \in Nat /\ begun \in Nat
      /\ returned \in Seq([call : 1 .. MaxRequests, answer : 1 .. MaxRequests])
  BY DEF Inv, ClientTypes, P!Inv, P!TypeOK
<1>4. \A k \in DOMAIN calls : Answered(calls[k])' <=> Answered(calls[k])
  BY <1>1 DEF Answered
<1> DEFINE n == Len(calls)
           next == taken + 1
<1>5. next \in DOMAIN out /\ out[next].of = n /\ out[next] \in P!Part
  BY <1>1, <1>2, <1>3, WrittenParts DEF NothingStale
<1>6. out[next] \in {Hdr(n), Data(n)}
  BY <1>5 DEF P!Part, P!Writes, Hdr, Data
\* A request that returns with the last part of its answer ...
<1>7. ASSUME Return(n), \A i \in DOMAIN out : ~P!Before(out[next], out[i]),
             chain = "answerData" => begun # n
      PROVE  (NothingStale /\ NothingDue /\ AnswerIsOwn)'
  <2>1. client' = "free" /\ returned' = Append(returned, [call |-> n, answer |-> n])
    BY <1>7 DEF Return
  <2>2. taken' = Len(out')
    <3>1. CASE taken + 2 \in DOMAIN out
      <4>1. next < taken + 2
        BY <1>3
      <4>2. P!Before(out[next], out[taken + 2])
        BY <1>5, <3>1, <4>1, WrittenParts
      <4> QED
        BY <1>7, <3>1, <4>2
    <3>2. CASE taken + 2 \notin DOMAIN out
      <4>1. ~(taken + 2 <= Len(out))
        BY <1>3, <3>2
      <4>2. Len(out) = taken + 1
        <5>1. taken < Len(out) /\ taken \in Nat /\ Len(out) \in Nat
          BY <1>1, <1>3
        <5> QED
          BY <4>1, <5>1, SMT
      <4> QED
        BY <1>1, <4>2
    <3> QED
      BY <3>1, <3>2
  <2>3. NothingStale'
    BY <2>1, <2>2 DEF NothingStale, Reading
  <2>4. chain # "over" => ~Open(n)
    <3>1. n <= begun /\ (chain \in {"payload", "answerHdr"} => n < begun)
      BY <1>5, WrittenParts
    <3>2. ASSUME n = begun, chain \in P!Writes \cup {"payload"}
          PROVE  FALSE
      BY <1>3, <1>7, <3>1, <3>2 DEF P!Writes
    <3>3. ~(n > begun)
      BY <1>3, <3>1
    <3> QED
      BY <3>2, <3>3 DEF Open
  <2>5. NothingDue'
    <3>1. SUFFICES ASSUME chain # "over", NEW k \in DOMAIN calls, Open(k)
                   PROVE  ~Answered(calls[k])
      BY <1>1, <1>4 DEF NothingDue, Open
    <3>2. CASE k = n
      BY <2>4, <3>1, <3>2
    <3>3. CASE k # n
      <4>1. k < Len(calls)
        BY <1>3, <3>3
      <4> QED
        BY <1>2, <3>1, <4>1 DEF NothingDue
    <3> QED
      BY <3>2, <3>3
  <2>6. AnswerIsOwn'
    BY <1>2, <1>3, <2>1 DEF AnswerIsOwn
  <2> QED
    BY <2>3, <2>5, <2>6
<1>8. CASE ReadAnswerHdr
  <2>1. client = "answerHdr" /\ HdrRead(n)
    BY <1>5, <1>8 DEF ReadAnswerHdr
  \* ... has read the header first,
  <2>2. out[next] = Hdr(n)
    <3>1. SUFFICES ASSUME out[next] = Data(n)
                   PROVE  FALSE
      BY <1>6
    <3>2. P!Promises(Hdr(n)) /\ Hdr(n) \in P!Part
      <4>1. P!Promises(Data(n))
        BY <1>5, <3>1, WrittenParts
      <4>2. cfg.answer \in {"AtLeastHeader", "NothingIfNoData"}
        BY <2>1 DEF Inv, P!Inv, P!TypeOK, P!Settings, ClientFits, Reading
      <4>3. Hdr(n) \in P!Part
        BY <1>5 DEF Hdr, P!Part, P!Writes
      <4> QED
        BY <4>1, <4>2, <4>3 DEF P!Promises, Hdr, Data
    <3>3. P!Before(Hdr(n), out[next])
      BY <3>1 DEF P!Before, Hdr, Data
    <3>4. PICK j \in DOMAIN out : out[j] = Hdr(n)
      BY <1>5, <3>2, <3>3, WrittenParts
    <3>5. j # next /\ ~P!Before(out[next], out[j])
      BY <1>3, <3>1, <3>4 DEF P!Before, Hdr, Data
    <3>6. ~(next < j)
      BY <1>5, <3>5, WrittenParts
    <3>7. j <= taken
      BY <1>3, <3>5, <3>6
    <3>8. out[j].of < n
      BY <1>2, <2>1, <3>7 DEF NothingStale
    <3> QED
      BY <1>3, <3>4, <3>8 DEF Hdr
  <2>3. CASE n \in gave
    <3>1. client' = "answerData" /\ returned' = returned
      BY <2>1, <2>3 DEF HdrRead
    <3>2. NothingStale'
      BY <1>1, <1>2, <1>3, <2>1, <2>2, <2>3, <3>1 DEF NothingStale, Reading, Writing, Hdr
    <3>3. NothingDue'
      BY <1>1, <1>2, <1>4, <2>1, <3>1 DEF NothingDue, Open
    <3>4. AnswerIsOwn'
      BY <1>2, <3>1 DEF AnswerIsOwn
    <3> QED
      BY <3>2, <3>3, <3>4
  \* and all of it, when there are no data,
  <2>4. CASE n \notin gave
    <3>1. Return(n)
      BY <2>1, <2>4 DEF HdrRead
    <3>2. ASSUME NEW i \in DOMAIN out, P!Before(out[next], out[i]), out[i].of = n
          PROVE  FALSE
      <4>1. out[i].part = "answerData"
        BY <1>3, <2>2, <3>2 DEF P!Before, Hdr
      <4>2. P!Promises(out[i])
        BY WrittenParts
      <4> QED
        BY <2>4, <3>2, <4>1, <4>2 DEF P!Promises
    <3>3. ASSUME NEW i \in DOMAIN out, P!Before(out[next], out[i])
          PROVE  out[i].of = n
      <4>1. out[i] \in P!Part
        BY WrittenParts
      <4>2. ~(out[i].of < n)
        BY <1>3, <1>5, <3>3, <4>1 DEF P!Before, P!Part
      <4>3. ~(i <= taken)
        BY <1>2, <2>1, <4>2 DEF NothingStale
      <4>4. i > taken
        BY <1>3, <4>3
      <4> QED
        BY <1>1, <1>2, <4>4 DEF NothingStale
    <3>4. chain = "answerData" => begun # n
      BY <2>4 DEF P!AnswersExact, P!Promised, P!Promises
    <3> QED
      BY <1>7, <3>1, <3>2, <3>3, <3>4
  <2> QED
    BY <2>3, <2>4
\* or its data, which are the last part.
<1>9. CASE ReadAnswerData \/ ReadAnswer
  <2>1. Return(n)
    BY <1>5, <1>9 DEF ReadAnswerData, ReadAnswer
  <2>2. out[next] = Data(n)
    <3>1. SUFFICES ASSUME out[next] = Hdr(n)
                   PROVE  FALSE
      BY <1>6
    <3>2. CASE ReadAnswerData
      <4>1. taken \in DOMAIN out /\ out[taken] = Hdr(n)
        BY <1>1, <1>2, <1>3, <3>2 DEF ReadAnswerData, NothingStale
      <4>2. P!Before(Hdr(n), Hdr(n))
        <5>1. taken < next
          BY <1>3
        <5> HIDE DEF next
        <5>2. P!Before(out[taken], out[next])
          BY <1>5, <4>1, <5>1, WrittenParts
        <5> QED
          BY <3>1, <4>1, <5>2
      <4> QED
        BY <1>3, <4>2 DEF P!Before, Hdr
    <3>3. CASE ReadAnswer
      <4>1. cfg.answer = "DataOnly"
        BY <3>3 DEF ReadAnswer, Inv, ClientFits, Reading
      <4>2. P!Promises(Hdr(n))
        BY <1>5, <3>1, WrittenParts
      <4> QED
        BY <4>1, <4>2 DEF P!Promises, Hdr
    <3> QED
      BY <1>9, <3>2, <3>3
  <2>3. ASSUME NEW i \in DOMAIN out, P!Before(out[next], out[i])
        PROVE  FALSE
    <3>1. out[i].of > n /\ i # next
      BY <1>3, <2>2, <2>3 DEF P!Before, Data
    <3>2. i > next
      <4>1. out[i] \in P!Part
        BY WrittenParts
      <4>2. ~P!Before(out[i], out[next])
        BY <1>3, <2>2, <3>1, <4>1 DEF P!Before, P!Part, Data
      <4>3. ~(i < next)
        BY <1>5, <4>2, WrittenParts
      <4> QED
        BY <1>3, <3>1, <4>3
    <3>3. i > taken
      BY <1>3, <3>2
    <3>4. out[i].of = n
      BY <1>1, <1>2, <3>3 DEF NothingStale
    <3> QED
      BY <1>3, <3>1, <3>4
  <2>4. chain = "answerData" => begun # n
    BY <1>5, <2>2, WrittenParts
  <2> QED
    BY <1>7, <2>1, <2>3, <2>4
<1> QED
  BY <1>8, <1>9 DEF ReadPart

\* The rest of what a client does leaves all this as it is.
LEMMA OtherMatched ==
  ASSUME Matched, (Leave \/ AlarmExpires) \/ UNCHANGED vars
  PROVE  Matched'
<1>1. /\ UNCHANGED << cfg, chain, begun, gave, out, calls, taken, returned >>
      /\ client' \in {client, "gone"}
  BY DEF Leave, S!PeerResets, S!PeerCloses, AlarmExpires, vars, sessionVars, clientVars
<1>2. Disciplined' <=> Disciplined
  BY <1>1 DEF Disciplined, Answered
<1>3. NothingStale => NothingStale'
  BY <1>1 DEF NothingStale, Writing, Reading
<1>4. NothingDue => NothingDue'
  BY <1>1 DEF NothingDue, Open, Answered
<1>5. AnswerIsOwn => AnswerIsOwn'
  BY <1>1, <1>2 DEF AnswerIsOwn
<1> QED
  BY <1>2, <1>3, <1>4, <1>5 DEF Matched

LEMMA MatchedNext == Inv /\ P!AnswersExact /\ Matched /\ [Next]_vars => Matched'
<1> SUFFICES ASSUME Inv, P!AnswersExact, Matched, [Next]_vars
             PROVE  Matched'
  OBVIOUS
<1>1. CASE WritePart
  BY <1>1, WriteMatched
<1>2. CASE ReadPart
  BY <1>2, ReadMatched
<1>3. CASE Leave \/ AlarmExpires \/ UNCHANGED vars
  BY <1>3, OtherMatched
<1>4. ASSUME NEW call \in Calls, Begin(call)
      PROVE  Matched'
  BY <1>4, BeginMatched
<1>5. CASE Serve(S!ReadStep) \/ Serve(S!WriteStep) \/ Serve(S!TimerStep) \/ PayloadReturns
  <2>1. SessionMoves /\ UNCHANGED clientVars
    BY <1>5, SessionReads, SessionWrites, SessionTimes, PayloadReturnsOne
       DEF Serve, SessionMoves, PayloadReturns
  <2> QED
    BY <2>1, ServerMatched
<1> QED
  BY <1>1, <1>2, <1>3, <1>4, <1>5 DEF Next, Blocking, Throw

LEMMA InitMatched == Init => Matched
<1> SUFFICES ASSUME Init
             PROVE  Matched
  OBVIOUS
<1>1. /\ out = << >> /\ taken = 0 /\ calls = << >> /\ returned = << >>
      /\ client \in {"sessionHdr", "free"}
  BY SessionInit DEF Init, P!Init
<1>2. NothingStale
  BY <1>1 DEF NothingStale, Reading
<1>3. NothingDue /\ AnswerIsOwn
  BY <1>1 DEF NothingDue, AnswerIsOwn
<1> QED
  BY <1>2, <1>3 DEF Matched

\* Counting is enough: a program that sends only what is not answered gets from
\* each request the answer of that request, under all the settings of the proto
\* and wherever the session, its timer or the connection ended.
THEOREM AnswersAreOwn == Spec => []AnswerIsOwn
<1>1. Matched => AnswerIsOwn
  BY DEF Matched, AnswerIsOwn
<1> QED
  BY <1>1, InitInv, NextInv, AnswersHold, InitMatched, MatchedNext, PTL DEF Spec

\* In no mode do the two ends wait for each other, with any size of the buffers,
\* unless the program breaks one of its two rules: then what the client waits to
\* read was written before the session went back to reading.
THEOREM NoWaitsCross == Spec => []WaitsAreTheUsers
<1>1. Inv /\ P!AnswersExact /\ Matched => WaitsAreTheUsers
  <2> SUFFICES ASSUME Inv, P!AnswersExact, Matched,
                      ClientBlocked, SessionBlocked, Disciplined, AwaitsAnswers
               PROVE  FALSE
    BY DEF WaitsAreTheUsers
  <2>1. /\ {begun, held, toSend, inbox, taken, Len(out), Len(calls)} \subseteq Nat
        /\ DOMAIN calls = 1 .. Len(calls) /\ DOMAIN out = 1 .. Len(out)
    BY DEF Inv, P!Inv, P!TypeOK, ClientTypes
  <2>2. NothingStale /\ chain # "over" /\ peer = "open"
    BY DEF Matched, ClientBlocked, SessionBlocked
  <2>3. chain \in S!Reads /\ inbox = 0
    <3>1. taken = Len(out)
      BY <2>2 DEF ClientBlocked, NothingStale
    <3> QED
      BY <2>1, <3>1, CapAssumption DEF SessionBlocked
  <2>4. client \in Reading /\ taken = Len(out)
    BY <2>3, CapAssumption DEF ClientBlocked
  <2> DEFINE n == Len(calls)
  \* All that was sent has been read,
  <2>5. chain \in P!Reads /\ held = 0
    BY <2>3 DEF S!Reads, S!RequestReads, P!Reads, P!RequestReads, Inv, P!Inv, P!PhasesFit
  <2>6. chain # "sessionHdr" /\ begun = n
    <3>1. toSend + Messages(n) = P!Total
      <4>1. ToWrite = 0 /\ client # "gone"
        BY <2>4 DEF ToWrite, Reading, Writing
      <4>2. P!Total \in Nat
        BY BoundsAssumption DEF P!Total
      <4> QED
        BY <4>1, <4>2 DEF Inv, SentFits
    <3>2. n > 0
      BY <2>4 DEF Inv, ClientFits
    <3>3. chain = "requestData" => ~cfg.completion
      BY DEF Inv, P!Inv, P!PhasesFit
    <3>4. IF chain = "sessionHdr"
            THEN toSend = P!Total + 1
            ELSE toSend + Messages(begun) + (IF chain = "requestData" THEN 1 ELSE 0) = P!Total
      BY <2>1, <2>2, <2>3, <2>5, BoundsAssumption DEF Inv, NoneDropped, Messages, P!Total
    <3> QED
      BY <2>1, <3>1, <3>2, <3>3, <3>4, BoundsAssumption, SMTT(30) DEF Messages, P!Total
  \* so that all that is promised for it is written,
  <2>7. ASSUME NEW p \in P!Part, p.of = n, P!Promises(p)
        PROVE  \E i \in DOMAIN out : out[i] = p
    <3>1. p \in P!Written
      BY <2>1, <2>5, <2>6, <2>7 DEF P!AnswersExact, P!Promised
    <3> QED
      BY <3>1 DEF P!Written, P!Range
  <2>8. n \in 1 .. MaxRequests /\ Hdr(n) \in P!Part /\ Data(n) \in P!Part
    BY <2>1, <2>4, BoundsAssumption
       DEF Inv, ClientFits, ClientTypes, Hdr, Data, P!Part, P!Writes
  \* and there is something, since the call is answered:
  <2>9. /\ cfg.answer \in {"AtLeastHeader", "NothingIfNoData", "DataOnly"}
        /\ cfg.answer = "AtLeastHeader" \/ n \in gave
    <3>1. cfg.answer # "NoAnswerAtAll" /\ calls[n].kind = "request"
      BY <2>4 DEF Inv, ClientFits
    <3>2. Answered(calls[n])
      BY <2>1, <2>8, <3>1 DEF AwaitsAnswers
    <3>3. calls[n].data => n \in gave
      BY <2>5, <2>6, <2>8 DEF Inv, GaveFits, P!Reads, P!RequestReads
    <3>4. cfg.answer \in {"NoAnswerAtAll", "AtLeastHeader", "NothingIfNoData", "DataOnly"}
      BY DEF Inv, P!Inv, P!TypeOK, P!Settings
    <3> QED
      BY <3>1, <3>2, <3>3, <3>4 DEF Answered
  \* the client has taken it, and is not waiting any more.
  <2>10. CASE client \in {"answerHdr", "answer"}
    <3>1. PICK p \in {Hdr(n), Data(n)} : P!Promises(p)
      BY <2>9 DEF P!Promises, Hdr, Data
    <3>2. PICK i \in DOMAIN out : out[i] = p
      BY <2>7, <2>8, <3>1 DEF Hdr, Data
    <3>3. out[i].of < n
      BY <2>1, <2>2, <2>4, <2>10 DEF NothingStale
    <3> QED
      BY <2>1, <3>1, <3>2, <3>3 DEF Hdr, Data
  <2>11. CASE client = "answerData"
    <3>1. taken > 0 /\ out[taken] = Hdr(n) /\ n \in gave
      BY <2>2, <2>11 DEF NothingStale
    <3>2. PICK i \in DOMAIN out : out[i] = Data(n)
      BY <2>7, <2>8, <3>1 DEF P!Promises, Data
    <3>3. i < taken
      BY <2>1, <2>4, <3>1, <3>2 DEF Hdr, Data
    <3>4. P!Before(Data(n), Hdr(n))
      BY <2>1, <2>4, <3>1, <3>2, <3>3, WrittenParts
    <3> QED
      BY <2>1, <3>4 DEF P!Before, Hdr, Data
  <2> QED
    BY <2>4, <2>10, <2>11 DEF Reading
<1> QED
  BY <1>1, InitInv, NextInv, AnswersHold, InitMatched, MatchedNext, PTL DEF Spec
=============================================================================
