---------------------------- MODULE Session_proofs ----------------------------
(* Machine-checked safety of Session, for any number of requests.             *)
EXTENDS Session, TLAPS

\* The settings of a session do not change.
LEMMA SettingsFixed == [Next]_vars => cfg' = cfg
  BY DEF Next, ReadStep, ReadSessionHdr, ReadRequestHdr, ReadRequestData, ReadFails,
     ReceiveRequests, PayloadStep, PayloadReturns, WriteStep, AnswerHdrWritten,
     AnswerDataWritten, WriteFails, TimerStep, TimerExpires, TimerHandler, PeerStep,
     PeerSends, PeerCloses, PeerResets, vars

\* Whatever the settings, the timer never counts outside the reading of a
\* request; the property is inductive once cfg is one of the settings.
THEOREM TimerIsReadingTimer == Spec => []TimerOnlyWhileReading
<1>1. Init => cfg \in Settings /\ TimerOnlyWhileReading
  BY DEF Init, TimerOnlyWhileReading, RequestReads, TimerSet
<1>2. cfg \in Settings /\ TimerOnlyWhileReading /\ [Next]_vars => TimerOnlyWhileReading'
  <2> SUFFICES ASSUME cfg \in Settings, TimerOnlyWhileReading, [Next]_vars
               PROVE  TimerOnlyWhileReading'
    OBVIOUS
  <2> USE DEF TimerOnlyWhileReading, RequestReads
  \* Every phase that may end a handler leaves the timer as it must be.
  <2>read. ASSUME NEW rest, ReadRequest(rest)
           PROVE  TimerOnlyWhileReading'
    BY <2>read DEF ReadRequest, ProcessRequest, TimerCancelled
  <2>end. ASSUME EndChain
          PROVE  TimerOnlyWhileReading'
    BY <2>end DEF EndChain, TimerCancelled
  <2>write. ASSUME NEW part \in Writes, Write(part), chain \notin RequestReads
            PROVE  TimerOnlyWhileReading'
    BY <2>write DEF Write, Writes
  <2>1. CASE ReadStep
    <3>1. CASE ReadSessionHdr
      BY <3>1, <2>read DEF ReadSessionHdr
    <3>2. CASE ReadRequestHdr
      BY <3>2 DEF ReadRequestHdr
    <3>3. CASE ReadRequestData \/ \E n \in 1 .. MaxRequests : ReceiveRequests(n)
      BY <3>3 DEF ReadRequestData, ReceiveRequests, ProcessRequest, TimerCancelled
    <3>4. CASE ReadFails
      BY <3>4, <2>end DEF ReadFails
    <3> QED
      BY <2>1, <3>1, <3>2, <3>3, <3>4 DEF ReadStep
  <2>2. ASSUME NEW data \in BOOLEAN, NEW goOn \in BOOLEAN, PayloadReturns(data, goOn)
        PROVE  TimerOnlyWhileReading'
    <3>1. CASE EndChain
      BY <3>1, <2>end
    <3>2. CASE WriteAnswer(data)
      <4>1. \/ ReadRequest(held)
            \/ Write("answerHdr")
            \/ Write("answerData")
        BY <3>2 DEF WriteAnswer, Settings
      <4>2. chain \notin RequestReads
        BY <2>2 DEF PayloadReturns
      <4> QED
        BY <4>1, <4>2, <2>read, <2>write DEF Writes
    <3> QED
      BY <2>2, <3>1, <3>2 DEF PayloadReturns
  <2>3. CASE WriteStep
    <3>1. CASE AnswerHdrWritten
      BY <3>1, <2>read, <2>write DEF AnswerHdrWritten, WriteAnswerData, Writes
    <3>2. CASE AnswerDataWritten
      BY <3>2, <2>read DEF AnswerDataWritten
    <3>3. CASE WriteFails
      BY <3>3, <2>end DEF WriteFails
    <3> QED
      BY <2>3, <3>1, <3>2, <3>3 DEF WriteStep
  <2>4. CASE TimerStep
    BY <2>4 DEF TimerStep, TimerExpires, TimerHandler
  <2>5. CASE PeerStep
    BY <2>5 DEF PeerStep, PeerSends, PeerCloses, PeerResets
  <2>6. CASE UNCHANGED vars
    BY <2>6 DEF vars
  <2> QED
    BY <2>1, <2>2, <2>3, <2>4, <2>5, <2>6 DEF Next, PayloadStep
<1>3. cfg \in Settings /\ [Next]_vars => (cfg \in Settings)'
  BY SettingsFixed
<1> QED
  BY <1>1, <1>2, <1>3, PTL DEF Spec

----------------------------------------------------------------------------
(* What else each phase finds.  TypeOK is inductive only with the count of    *)
(* the messages, and that only with the phases a mode has.                    *)

Total == IF cfg.completion THEN MaxRequests ELSE 2 * MaxRequests

\* No message is read twice: those of the requests begun and held, and those
\* still on their way, are never more than the peer was to send.
MessagesCount ==
    /\ toSend + inbox <= 2 * MaxRequests + 1
    /\ chain = "sessionHdr" => toSend + inbox <= Total + 1
    /\ chain \notin {"sessionHdr", "over"} =>
         toSend + inbox
           + (IF cfg.completion THEN begun + held
              ELSE 2 * begun + (IF chain = "requestData" THEN 1 ELSE 0)) <= Total

\* Each mode has its own reads, and reads only when dataRest has no request.
PhasesFit ==
    /\ ~cfg.completion => held = 0
    /\ chain \in Reads => held = 0
    /\ chain = "sessionHdr" => begun = 0
    /\ chain = "request" => cfg.completion
    /\ chain \in {"requestHdr", "requestData"} => ~cfg.completion

\* From the payload to the end of its answer a request is current, and gave and
\* outDataBuffer agree about it.
AnswersFit ==
    /\ chain \in Writes \cup {"payload"} => begun \in 1 .. MaxRequests
    /\ chain = "payload" => begun \notin gave
    /\ chain \in Writes => (hasData <=> begun \in gave)
    /\ chain = "answerHdr" => Promises([of |-> begun, part |-> "answerHdr"])
    /\ chain = "answerData" => hasData

Inv == TypeOK /\ MessagesCount /\ PhasesFit /\ AnswersFit

USE RequestsAssumption, LateAssumption

\* Session::run starts with nothing read and nothing promised.
LEMMA InitInv == Init => Inv
<1> SUFFICES ASSUME Init PROVE Inv
  OBVIOUS
<1>1. toSend = (IF cfg.sessionHdr THEN 1 ELSE 0) + Total
  BY SMT DEF Init, Total
<1>2. TypeOK
  <2>1. {hasData, shut, refused} \subseteq BOOLEAN /\ cfg \in Settings
    BY DEF Init
  <2> QED
    BY <1>1, <2>1, SMT DEF Init, TypeOK, Total, Reads, RequestReads, Writes,
       TimerSet
<1>3. MessagesCount /\ PhasesFit /\ AnswersFit
  BY <1>1, SMT DEF Init, MessagesCount, PhasesFit, AnswersFit, Total, Reads, RequestReads, Writes
<1> QED
  BY <1>2, <1>3 DEF Inv

\* Every handler of the chain, of the timer and every step of the peer keeps them.
LEMMA NextInv == Inv /\ [Next]_vars => Inv'
<1> SUFFICES ASSUME Inv, [Next]_vars
             PROVE  Inv'
  OBVIOUS
<1> USE DEF Inv, TypeOK, MessagesCount, PhasesFit, AnswersFit, Total, Reads, RequestReads,
        Writes, network
<1>0. cfg' = cfg
  BY SettingsFixed
<1>1. CASE ReadSessionHdr
  BY <1>1, SMTT(30) DEF ReadSessionHdr, ReadRequest, ProcessRequest, TimerCancelled, TimerSet
<1>2. CASE ReadRequestHdr
  BY <1>2, SMTT(30) DEF ReadRequestHdr
<1>3. CASE ReadRequestData
  BY <1>3, SMTT(30) DEF ReadRequestData, ProcessRequest, TimerCancelled
<1>4. CASE ReadFails
  BY <1>4, SMTT(30) DEF ReadFails, EndChain, TimerCancelled
<1>5. ASSUME NEW n \in 1 .. MaxRequests, ReceiveRequests(n)
      PROVE  Inv'
  BY <1>5, SMTT(30) DEF ReceiveRequests, ProcessRequest, TimerCancelled
<1>6. ASSUME NEW data \in BOOLEAN, NEW goOn \in BOOLEAN, PayloadReturns(data, goOn)
      PROVE  Inv'
  <2>a. {hasData, shut, refused}' \subseteq BOOLEAN
    BY <1>6 DEF PayloadReturns, EndChain, ShutDownUnless
  <2>b. /\ gave' \subseteq 1 .. begun /\ (begun \in gave' <=> data)
        /\ begun \in 1 .. MaxRequests
    BY <1>6 DEF PayloadReturns
  <2>0. (hasData' <=> data) /\ (chain = "payload")
    BY <1>6 DEF PayloadReturns
  <2>1. CASE EndChain
    BY <1>6, <2>a, <2>b, <2>0, <2>1, SMTT(30) DEF PayloadReturns, EndChain, TimerCancelled
  <2>2. CASE ReadRequest(held)
    BY <1>6, <2>a, <2>b, <2>0, <2>2, SMTT(30) DEF PayloadReturns, ReadRequest,
       ProcessRequest, TimerCancelled, TimerSet, ShutDownUnless
  <2>3. ASSUME Write("answerHdr"),
               cfg.answer = "AtLeastHeader" \/ (cfg.answer = "NothingIfNoData" /\ data)
        PROVE  Inv'
    BY <1>6, <2>a, <2>b, <2>0, <2>3, SMTT(30) DEF PayloadReturns, Write, ShutDownUnless, Promises
  <2>4. ASSUME Write("answerData"), data
        PROVE  Inv'
    BY <1>6, <2>a, <2>b, <2>0, <2>4, SMTT(30) DEF PayloadReturns, Write, ShutDownUnless
  <2> QED
    BY <1>6, <2>1, <2>2, <2>3, <2>4 DEF PayloadReturns, WriteAnswer, Settings
<1>7. CASE AnswerHdrWritten
  <2>1. out' \in Seq(Part)
    BY <1>7 DEF AnswerHdrWritten, AnswerWritten, Part
  <2>2. CASE Write("answerData") /\ hasData
    BY <1>7, <2>1, <2>2, SMTT(30) DEF AnswerHdrWritten, Write
  <2>3. CASE ReadRequest(held)
    BY <1>7, <2>1, <2>3, SMTT(30) DEF AnswerHdrWritten, ReadRequest, ProcessRequest,
       TimerCancelled, TimerSet
  <2> QED
    BY <1>7, <2>2, <2>3 DEF AnswerHdrWritten, WriteAnswerData
<1>8. CASE AnswerDataWritten
  <2>1. out' \in Seq(Part)
    BY <1>8 DEF AnswerDataWritten, AnswerWritten, Part
  <2> QED
    BY <1>8, <2>1, SMTT(30) DEF AnswerDataWritten, ReadRequest, ProcessRequest,
       TimerCancelled, TimerSet
<1>9. CASE WriteFails
  BY <1>9, SMTT(30) DEF WriteFails, EndChain, TimerCancelled
<1>10. CASE TimerStep
  <2>1. {hasData, shut, refused}' \subseteq BOOLEAN /\ late' \in 0 .. MaxLate
    BY <1>10 DEF TimerStep, TimerExpires, TimerHandler
  <2>2. CASE TimerExpires
    BY <2>1, <2>2, SMTT(30) DEF TimerExpires, Promises
  <2>3. ASSUME NEW agrees \in BOOLEAN, TimerHandler(agrees)
        PROVE  Inv'
    BY <2>1, <2>3, SMTT(30) DEF TimerHandler, Promises
  <2> QED
    BY <1>10, <2>2, <2>3 DEF TimerStep
<1>11. CASE PeerStep
  <2>1. CASE PeerSends
    BY <2>1, SMTT(30) DEF PeerSends, Promises
  <2>2. CASE PeerCloses
    BY <2>2, SMTT(30) DEF PeerCloses, Promises
  <2>3. CASE PeerResets
    BY <2>3, SMTT(30) DEF PeerResets, Promises
  <2> QED
    BY <1>11, <2>1, <2>2, <2>3 DEF PeerStep
<1>12. CASE UNCHANGED vars
  BY <1>12, SMTT(30) DEF vars, Promises
<1> QED
  BY <1>1, <1>2, <1>3, <1>4, <1>5, <1>6, <1>7, <1>8, <1>9, <1>10, <1>11, <1>12
     DEF Next, ReadStep, PayloadStep, WriteStep

\* Every variable keeps its type: the chain never begins more requests than were
\* sent to it, and no count of messages goes below zero.
THEOREM TypeCorrect == Spec => []TypeOK
  BY InitInv, NextInv, PTL DEF Spec, Inv
\* Whatever the timer's handlers and the peer do, a session that ends while its
\* peer is there has left no request behind.
THEOREM OpenPeerServed == Spec => OpenPeerIsServed
<1> DEFINE Served == chain' = "over" /\ chain # "over" /\ peer = "open" =>
                       shut /\ inbox = 0 /\ held = 0
<1>1. Inv /\ [Next]_vars => [Served]_vars
  <2> SUFFICES ASSUME Inv, Next
               PROVE  Served
    OBVIOUS
  <2> USE DEF Inv, PhasesFit
  <2>1. CASE ReadStep
    BY <2>1 DEF ReadStep, ReadSessionHdr, ReadRequestHdr, ReadRequestData, ReceiveRequests,
       ReadFails, EndOfStream, ReadRequest, ProcessRequest
  <2>2. CASE PayloadStep
    BY <2>2 DEF PayloadStep, PayloadReturns, WriteAnswer, ReadRequest, ProcessRequest, Write,
       TypeOK, Settings
  <2>3. CASE WriteStep
    BY <2>3 DEF WriteStep, AnswerHdrWritten, AnswerDataWritten, WriteFails, WriteAnswerData,
       ReadRequest, ProcessRequest, Write
  <2>4. CASE TimerStep \/ PeerStep
    BY <2>4 DEF TimerStep, TimerExpires, TimerHandler, PeerStep, PeerSends, PeerCloses,
       PeerResets
  <2> QED
    BY <2>1, <2>2, <2>3, <2>4 DEF Next
<1> QED
  BY <1>1, InitInv, NextInv, PTL DEF Spec, OpenPeerIsServed

----------------------------------------------------------------------------
(* What is written.  AnswersExact is inductive relative to Inv.               *)

Parts(n) == {[of |-> n, part |-> "answerHdr"], [of |-> n, part |-> "answerData"]}

\* The promises for one request more are those for its two parts, after the others;
\* in the next state as in this one.
LEMMA PromisedNext ==
  ASSUME NEW n \in 1 .. MaxRequests
  PROVE  /\ Promised(n) = Promised(n - 1) \cup {p \in Parts(n) : Promises(p)}
         /\ Promised(n)' = Promised(n - 1)' \cup {p \in Parts(n) : Promises(p)'}
<1>1. \A p \in Part : p.of = n => p \in Parts(n)
  BY DEF Part, Parts, Writes
<1>2. \A p \in Parts(n) : p \in Part /\ p.of = n
  BY DEF Part, Parts, Writes
<1>3. \A p \in Part : p.of \in Nat
  BY DEF Part
<1> QED
  BY <1>1, <1>2, <1>3, SMT DEF Promised

\* Whatever precedes a promise for an earlier request is one, too.
LEMMA PromisedDownward ==
  ASSUME NEW n \in 1 .. MaxRequests
  PROVE  /\ \A p \in Promised(n - 1), q \in Promised(n) : Before(q, p) => q \in Promised(n - 1)
         /\ \A p \in Promised(n - 1)', q \in Promised(n)' : Before(q, p) => q \in Promised(n - 1)'
         /\ \A p \in Promised(n - 1) : p.of < n
         /\ \A p \in Promised(n - 1)' : p.of < n
  BY SMT DEF Promised, Part, Before

\* A part that comes after all that is written goes to the end of it.
LEMMA WrittenNext ==
  ASSUME NEW p \in Part, out \in Seq(Part), InOrder, \A q \in Written : Before(q, p),
         out' = Append(out, p)
  PROVE  InOrder' /\ Written' = Written \cup {p}
<1>1. \A i \in DOMAIN out : out[i] \in Written /\ out'[i] = out[i]
  BY DEF Written, Range
<1>2. DOMAIN out' = DOMAIN out \cup {Len(out) + 1} /\ out'[Len(out) + 1] = p
  OBVIOUS
<1>3. InOrder'
  <2> SUFFICES ASSUME NEW i \in DOMAIN out', NEW j \in DOMAIN out', i < j
               PROVE  Before(out'[i], out'[j])
    BY DEF InOrder, Before
  <2>1. i \in DOMAIN out
    BY <1>2, SMT
  <2> QED
    BY <1>1, <1>2, <2>1 DEF InOrder
<1>4. Written' = {out'[i] : i \in DOMAIN out'}
  BY DEF Written, Range
<1>5. Written = {out[i] : i \in DOMAIN out}
  BY DEF Written, Range
<1> QED
  BY <1>1, <1>2, <1>3, <1>4, <1>5

\* All that request n, the last one begun, and those before it are promised.
AllWritten(n) == InOrder /\ Written = Promised(n)

\* Then a session that goes on reading, or with a request from dataRest, has kept
\* its promises.
LEMMA ReadRequestAfterAll ==
  ASSUME NEW n \in Nat, begun = n, ReadRequest(held), AllWritten(n)'
  PROVE  AnswersExact'
<1>1. \/ chain' = "payload" /\ begun' - 1 = n
      \/ chain' \in {"request", "requestHdr"} /\ begun' = n
  BY DEF ReadRequest, ProcessRequest
<1> QED
  BY <1>1 DEF AllWritten, AnswersExact, Reads, RequestReads
\* Every part of an answer is written once, in its place, before the next request
\* is read: for any number of requests and all the settings, wherever a request
\* was found and whenever the session ended.
THEOREM AnswersAreExact == Spec => []AnswersExact
<1>1. Init => AnswersExact
  <2> SUFFICES ASSUME Init
               PROVE  AnswersExact
    OBVIOUS
  <2>1. out = << >> /\ Promised(0) = {} /\ begun = 0 /\ chain \in Reads
    BY DEF Init, Promised, Part, Reads, RequestReads
  <2>2. InOrder /\ Written = {}
    BY <2>1 DEF InOrder, Written, Range
  <2> QED
    BY <2>1, <2>2 DEF AnswersExact, Reads, RequestReads
<1>2. Inv /\ AnswersExact /\ [Next]_vars => AnswersExact'
  <2> SUFFICES ASSUME Inv, AnswersExact, [Next]_vars
               PROVE  AnswersExact'
    OBVIOUS
  <2>b. PICK b \in Nat : b = begun
    BY DEF Inv, TypeOK
  <2>c. cfg' = cfg
    BY SettingsFixed
  <2> DEFINE hdr == [of |-> b, part |-> "answerHdr"]
             data == [of |-> b, part |-> "answerData"]
  <2>p. Parts(b) = {hdr, data} /\ hdr # data
    BY DEF Parts
  \* Promises change only when a payload returns, writings when a write completes.
  <2>same. ASSUME gave' = gave
           PROVE  /\ Promised(b)' = Promised(b) /\ Promised(b - 1)' = Promised(b - 1)
                  /\ \A p \in Parts(b) : Promises(p)' <=> Promises(p)
    BY <2>c, <2>same DEF Promised, Promises
  <2>out. ASSUME out' = out
          PROVE  Written' = Written /\ InOrder' = InOrder
    BY <2>out DEF Written, InOrder
  <2>1. CASE ReadStep
    <3>1. gave' = gave /\ out' = out /\ chain \in Reads
      BY <2>1 DEF ReadStep, ReadSessionHdr, ReadRequestHdr, ReadRequestData, ReadFails,
         ReceiveRequests, Reads, RequestReads
    <3>2. AllWritten(b)'
      BY <3>1, <2>same, <2>out, <2>b DEF AnswersExact, AllWritten
    <3>3. CASE ReadSessionHdr
      BY <3>2, <3>3, <2>b, ReadRequestAfterAll DEF ReadSessionHdr
    <3>4. CASE ReadRequestHdr \/ ReadFails
      <4>1. chain' \in {"requestData", "over"} /\ begun' = b
        BY <3>4, <2>b DEF ReadRequestHdr, ReadFails, EndChain
      <4> QED
        BY <3>2, <4>1 DEF AnswersExact, AllWritten
    <3>5. CASE ReadRequestData \/ \E n \in 1 .. MaxRequests : ReceiveRequests(n)
      <4>1. chain' = "payload" /\ begun' - 1 = b
        BY <3>5, <2>b DEF ReadRequestData, ReceiveRequests, ProcessRequest
      <4> QED
        BY <3>2, <4>1 DEF AnswersExact, AllWritten, Reads, RequestReads
    <3> QED
      BY <2>1, <3>3, <3>4, <3>5 DEF ReadStep
  <2>2. ASSUME NEW d \in BOOLEAN, NEW goOn \in BOOLEAN, PayloadReturns(d, goOn)
        PROVE  AnswersExact'
    <3>1. /\ b \in 1 .. MaxRequests /\ b \notin gave /\ out' = out
          /\ gave' = IF d THEN gave \cup {b} ELSE gave
          /\ chain = "payload" /\ (d => cfg.answer # "NoAnswerAtAll")
      BY <2>2, <2>b DEF PayloadReturns, Inv, AnswersFit
    <3>2. Promised(b - 1)' = Promised(b - 1)
      <4>1. \A p \in Part : p.of <= b - 1 => p.of # b
        BY <2>b DEF Part
      <4> QED
        BY <3>1, <4>1, <2>c DEF Promised, Promises
    <3>3. AllWritten(b - 1)'
      BY <3>1, <3>2, <2>out, <2>b DEF AnswersExact, AllWritten
    <3>4. Promised(b)' = Promised(b - 1)' \cup {p \in {hdr, data} : Promises(p)'}
      BY <3>1, <2>p, PromisedNext
    <3>5. CASE EndChain
      <4>1. chain' = "over" /\ begun' = b
        BY <3>5, <2>b DEF EndChain
      <4> QED
        BY <3>1, <3>3, <3>4, <4>1, PromisedDownward
           DEF AnswersExact, AllWritten, Reads, RequestReads
    <3>6. ASSUME ReadRequest(held), ~d, cfg.answer # "AtLeastHeader"
          PROVE  AnswersExact'
      <4>1. {p \in {hdr, data} : Promises(p)'} = {}
        BY <3>1, <3>6, <2>c DEF Promises
      <4> QED
        BY <3>3, <3>4, <3>6, <4>1, <2>b, ReadRequestAfterAll DEF AllWritten
    <3>7. CASE Write("answerHdr")
      <4>1. chain' = "answerHdr" /\ begun' = b
        BY <3>7, <2>b DEF Write
      <4> QED
        BY <3>3, <4>1 DEF AnswersExact, AllWritten, Reads, RequestReads
    <3>8. ASSUME Write("answerData"), d, cfg.answer = "DataOnly"
          PROVE  AnswersExact'
      <4>1. chain' = "answerData" /\ begun' = b
        BY <3>8, <2>b DEF Write
      <4>2. {p \in {hdr, data} : Promises(p)'} = {data}
        BY <3>1, <3>8, <2>c DEF Promises
      <4>3. data \notin Promised(b - 1)'
        BY <3>1, PromisedDownward
      <4> QED
        BY <3>3, <3>4, <4>1, <4>2, <4>3 DEF AnswersExact, AllWritten, Reads, RequestReads
    <3>9. cfg.answer \in {"NoAnswerAtAll", "AtLeastHeader", "NothingIfNoData", "DataOnly"}
      BY DEF Inv, TypeOK, Settings
    <3> QED
      BY <2>2, <3>1, <3>5, <3>6, <3>7, <3>8, <3>9 DEF PayloadReturns, WriteAnswer
  <2>3. CASE AnswerHdrWritten
    <3>1. /\ b \in 1 .. MaxRequests /\ gave' = gave /\ Promises(hdr) /\ InOrder
          /\ Written = Promised(b - 1) /\ (hasData <=> b \in gave)
          /\ out' = Append(out, hdr) /\ out \in Seq(Part) /\ hdr \in Part
      BY <2>3, <2>b DEF AnswerHdrWritten, AnswerWritten, Inv, TypeOK, AnswersFit, AnswersExact,
         Writes, Part
    <3>2. \A q \in Written : Before(q, hdr)
      BY <3>1, PromisedDownward DEF Before
    <3>3. InOrder' /\ Written' = Promised(b - 1)' \cup {hdr}
      BY <3>1, <3>2, <2>same, WrittenNext
    <3>4. Promised(b)' = Promised(b - 1)' \cup {p \in {hdr, data} : Promises(p)'}
      BY <3>1, <2>p, PromisedNext
    <3>5. CASE Write("answerData") /\ hasData
      <4>1. chain' = "answerData" /\ begun' = b
        BY <3>5, <2>b DEF Write
      <4>2. {p \in {hdr, data} : Promises(p)'} = {hdr, data}
        BY <3>1, <3>5, <2>same, <2>p DEF Promises
      <4>3. data \notin Promised(b - 1)'
        BY <3>1, PromisedDownward
      <4> QED
        BY <3>3, <3>4, <4>1, <4>2, <4>3, <2>p DEF AnswersExact, Reads, RequestReads
    <3>6. CASE ReadRequest(held) /\ ~hasData
      <4>1. {p \in {hdr, data} : Promises(p)'} = {hdr}
        BY <3>1, <3>6, <2>same, <2>p DEF Promises
      <4> QED
        BY <3>3, <3>4, <3>6, <4>1, <2>b, ReadRequestAfterAll DEF AllWritten
    <3> QED
      BY <2>3, <3>5, <3>6 DEF AnswerHdrWritten, WriteAnswerData
  <2>4. CASE AnswerDataWritten
    <3>1. /\ b \in 1 .. MaxRequests /\ gave' = gave /\ InOrder
          /\ data \in Promised(b) /\ Written = Promised(b) \ {data}
          /\ out' = Append(out, data) /\ out \in Seq(Part) /\ data \in Part
      BY <2>4, <2>b DEF AnswerDataWritten, AnswerWritten, Inv, TypeOK, AnswersFit, AnswersExact,
         Writes, Part
    <3>2. \A q \in Written : Before(q, data)
      <4>1. Written \subseteq Promised(b - 1) \cup {hdr}
        BY <3>1, <2>p, PromisedNext
      <4> QED
        BY <3>1, <4>1, PromisedDownward DEF Before
    <3>3. InOrder' /\ Written' = Written \cup {data}
      BY <3>1, <3>2, WrittenNext
    <3>4. AllWritten(b)'
      BY <3>1, <3>3, <2>same DEF AllWritten
    <3> QED
      BY <2>4, <3>4, <2>b, ReadRequestAfterAll DEF AnswerDataWritten
  <2>5. CASE WriteFails
    <3>1. /\ b \in 1 .. MaxRequests /\ gave' = gave /\ out' = out /\ chain \in Writes
          /\ chain' = "over" /\ begun' = b /\ InOrder
      BY <2>5, <2>b DEF WriteFails, EndChain, Inv, AnswersFit, AnswersExact
    <3>2. Written \subseteq Promised(b)
      BY <3>1, <2>b, PromisedNext DEF AnswersExact, Writes
    <3>3. ASSUME NEW p \in Written, NEW q \in Promised(b), Before(q, p)
          PROVE  q \in Written
      <4>1. CASE chain = "answerHdr"
        BY <3>1, <3>3, <4>1, <2>b, PromisedDownward DEF AnswersExact
      <4>2. CASE chain = "answerData"
        <5>1. Written = Promised(b) \ {data} /\ p.of <= b
          BY <4>2, <3>3, <2>b DEF AnswersExact, Promised
        <5>2. q # data
          <6>1. p.of \in Nat
            BY <3>3, <3>2 DEF Promised, Part
          <6> QED
            BY <3>3, <5>1, <6>1, <2>b DEF Before
        <5> QED
          BY <5>1, <5>2
      <4> QED
        BY <3>1, <4>1, <4>2 DEF Writes
    <3> QED
      BY <3>1, <3>2, <3>3, <2>same, <2>out DEF AnswersExact, Reads, RequestReads
  <2>6. CASE TimerStep \/ PeerStep \/ UNCHANGED vars
    <3>1. gave' = gave /\ out' = out /\ begun' = b /\ chain' = chain
      BY <2>6, <2>b DEF TimerStep, TimerExpires, TimerHandler, PeerStep, PeerSends, PeerCloses,
         PeerResets, vars
    <3> QED
      BY <3>1, <2>b, <2>same, <2>out DEF AnswersExact
  <2> QED
    BY <2>1, <2>2, <2>3, <2>4, <2>5, <2>6 DEF Next, PayloadStep, WriteStep
<1> QED
  BY <1>1, <1>2, InitInv, NextInv, PTL DEF Spec
=============================================================================
