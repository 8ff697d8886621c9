----------------------- MODULE ParallelRequests_proofs -----------------------
(* Machine-checked: requests that run in parallel keep their own buffers, for *)
(* any number of sessions, threads and requests.                              *)
EXTENDS ParallelRequests, TLAPS

\* The part of the typing that buffers depend on.
BuffersTyped ==
    /\ completion \in BOOLEAN
    /\ sent \in [Sessions -> 0 .. MaxRequests]
    /\ chain \in [Sessions -> Active \cup {"unborn", "over"}]
    /\ read \in [Sessions -> 0 .. MaxRequests]
    /\ held \in [Sessions -> 0 .. MaxRequests]
    /\ context \in [Sessions -> [0 .. MaxRequests -> Context]]
    /\ Tasks \subseteq Task

\* What was read, what is in dataRest and what the peer has sent; dataRest is
\* empty whenever the session waits for its peer.
Counted(s) ==
    /\ read[s] + held[s] <= sent[s]
    /\ chain[s] # "call" => held[s] = 0
    /\ chain[s] = "requestData" => read[s] < sent[s]
    /\ chain[s] = "call" => read[s] # 0

\* The two ways of reading are not mixed.
OneMode(s) ==
    IF completion THEN chain[s] \notin {"requestHdr", "requestData"}
                  ELSE chain[s] # "request" /\ held[s] = 0

\* The session's own context is the one that is read into.
OwnContext(s) ==
    /\ chain[s] = "requestData" => context[s][0].hdr = read[s] + 1
    /\ chain[s] = "call" =>
         /\ context[s][0].data = read[s]
         /\ completion \/ context[s][0].hdr = read[s]

\* Tasks have the contexts allocated for them, and none has that of a request
\* which is still to be scheduled.
TasksBehind ==
    \A t \in Tasks :
        /\ t.buffers = t.request
        /\ t.request <= read[t.of]
        /\ chain[t.of] = "call" => t.request < read[t.of]

IInv ==
    /\ BuffersTyped
    /\ \A s \in Sessions : Counted(s) /\ OneMode(s) /\ OwnContext(s)
    /\ TasksBehind
    /\ BuffersArePrivate

LEMMA InvInit == Init => IInv
<1> SUFFICES ASSUME Init PROVE IInv
  OBVIOUS
<1> USE MaxRequestsAssumption DEF Init
<1>1. BuffersTyped
  BY DEF BuffersTyped, Active, Reads, Context, EmptyContext, Tasks
<1>2. \A s \in Sessions : Counted(s) /\ OneMode(s) /\ OwnContext(s)
  BY DEF Counted, OneMode, OwnContext
<1>3. TasksBehind /\ BuffersArePrivate
  BY DEF TasksBehind, BuffersArePrivate, Tasks
<1> QED
  BY <1>1, <1>2, <1>3 DEF IInv

\* A step that leaves requests and their buffers alone, and brings up no new task.
LEMMA InvFrame ==
    ASSUME IInv, Tasks' \subseteq Tasks,
           UNCHANGED << completion, chain, read, held, context >>,
           sent' \in [Sessions -> 0 .. MaxRequests],
           \A s \in Sessions : sent[s] <= sent'[s]
    PROVE  IInv'
<1> USE MaxRequestsAssumption
<1>1. BuffersTyped'
  BY DEF IInv, BuffersTyped
<1>2. \A s \in Sessions : Counted(s)' /\ OneMode(s)' /\ OwnContext(s)'
  BY DEF IInv, BuffersTyped, Counted, OneMode, OwnContext
<1>3. TasksBehind'
  BY DEF IInv, TasksBehind
<1>4. BuffersArePrivate'
  BY DEF IInv, BuffersArePrivate
<1> QED
  BY <1>1, <1>2, <1>3, <1>4 DEF IInv

\* A step about the requests of one session: it is enough to look at that one.
LEMMA InvAt ==
    ASSUME IInv, NEW s \in Sessions,
           UNCHANGED << completion, sent >>,
           BuffersTyped', Counted(s)', OneMode(s)', OwnContext(s)',
           \A r \in Sessions : r # s =>
             /\ chain'[r] = chain[r] /\ read'[r] = read[r]
             /\ held'[r] = held[r] /\ context'[r] = context[r],
           \A t \in Tasks' : t.of # s => t \in Tasks,
           \A t \in Tasks' : t.of = s =>
             /\ t.buffers = t.request
             /\ t.request <= read'[s]
             /\ chain'[s] = "call" => t.request < read'[s]
             /\ context'[s][t.request].data = t.request
             /\ completion \/ context'[s][t.request].hdr = t.request
    PROVE  IInv'
<1> USE MaxRequestsAssumption DEF IInv
<1>1. \A r \in Sessions : Counted(r)' /\ OneMode(r)' /\ OwnContext(r)'
  <2>1. ASSUME NEW r \in Sessions, r # s
        PROVE  Counted(r)' /\ OneMode(r)' /\ OwnContext(r)'
    <3>1. /\ chain'[r] = chain[r] /\ read'[r] = read[r]
          /\ held'[r] = held[r] /\ context'[r] = context[r]
          /\ completion' = completion /\ sent' = sent
      BY <2>1
    <3>2. Counted(r) /\ OneMode(r) /\ OwnContext(r)
      OBVIOUS
    <3> QED
      BY ONLY <3>1, <3>2 DEF Counted, OneMode, OwnContext
  <2> QED
    BY <2>1
<1>2. \A t \in Tasks' : t.of \in Sessions
  BY DEF BuffersTyped, Task
<1>3. TasksBehind'
  BY <1>2 DEF TasksBehind
<1>4. BuffersArePrivate'
  BY <1>2 DEF BuffersArePrivate
<1> QED
  BY <1>1, <1>3, <1>4

\* What IInv says of one session.
LEMMA AtSession ==
    ASSUME IInv, NEW s \in Sessions
    PROVE  /\ completion \in BOOLEAN
           /\ chain[s] \in Active \cup {"unborn", "over"}
           /\ read[s] \in 0 .. MaxRequests
           /\ held[s] \in 0 .. MaxRequests
           /\ sent[s] \in 0 .. MaxRequests
           /\ context[s] \in [0 .. MaxRequests -> Context]
           /\ Counted(s) /\ OneMode(s) /\ OwnContext(s)
           /\ chain = [chain EXCEPT ![s] = chain[s]]
           /\ read = [read EXCEPT ![s] = read[s]]
           /\ held = [held EXCEPT ![s] = held[s]]
           /\ context = [context EXCEPT ![s] = context[s]]
           /\ Tasks \subseteq Task
           /\ \A t \in Tasks : t.of = s =>
                /\ t.request \in Requests
                /\ t.buffers = t.request
                /\ t.request <= read[s]
                /\ chain[s] = "call" => t.request < read[s]
                /\ context[s][t.request].data = t.request
                /\ completion \/ context[s][t.request].hdr = t.request
  BY DEF IInv, BuffersTyped, TasksBehind, BuffersArePrivate, Task

\* A session's chain starts, receives or ends; the private contexts and the tasks
\* are none of its business.
LEMMA InvReading ==
    ASSUME IInv, NEW s \in Sessions,
           \/ Accept(s) \/ ReadRequestHdr(s) \/ ReadRequestData(s)
           \/ \E n \in Requests : ReceiveRequests(s, n)
           \/ ReadFails(s) \/ DestroyOperation(s)
    PROVE  IInv'
<1> USE MaxRequestsAssumption
<1> DEFINE here(c, n, h, m) ==
             /\ chain' = [chain EXCEPT ![s] = c]
             /\ read' = [read EXCEPT ![s] = n]
             /\ held' = [held EXCEPT ![s] = h]
             /\ context' = [context EXCEPT ![s] = m]
           hdr == [context[s] EXCEPT ![0].hdr = read[s] + 1]
           data == [context[s] EXCEPT ![0].data = read[s] + 1]
<1>1. /\ UNCHANGED << completion, queue, running, sent >>
      /\ chain[s] # "call"
  BY DEF Accept, ReadRequestHdr, ReadRequestData, ReceiveRequests, ReadFails,
     DestroyOperation, Received, Reads
<1>2. Tasks' = Tasks
  BY <1>1 DEF Tasks
<1>3. /\ completion \in BOOLEAN
      /\ read[s] \in 0 .. MaxRequests /\ held[s] = 0
      /\ sent[s] \in 0 .. MaxRequests /\ read[s] <= sent[s]
      /\ context[s] \in [0 .. MaxRequests -> Context]
      /\ Counted(s) /\ OneMode(s) /\ OwnContext(s)
      /\ Tasks \subseteq Task
  BY <1>1, AtSession DEF Counted
\* The contexts of tasks survive, and no task gets ahead of the session.
<1>4. ASSUME NEW c \in Active \cup {"unborn", "over"},
             NEW n \in 0 .. MaxRequests, read[s] <= n, c = "call" => read[s] < n,
             NEW h \in 0 .. MaxRequests,
             NEW m \in [0 .. MaxRequests -> Context],
             \A a \in Requests : m[a] = context[s][a],
             here(c, n, h, m),
             Counted(s)', OneMode(s)', OwnContext(s)'
      PROVE  IInv'
  <2>1. \A t \in Tasks' : t.of = s =>
             /\ t.buffers = t.request
             /\ t.request <= n
             /\ c = "call" => t.request < n
             /\ m[t.request].data = t.request
             /\ completion \/ m[t.request].hdr = t.request
    BY SMTT(30), <1>2, <1>3, <1>4, AtSession DEF Requests, Task
  <2>2. UNCHANGED << completion, sent >> /\ Tasks' \subseteq Task
    BY <1>1, <1>2, <1>3
  <2>3. \A t \in Tasks' : t.of # s => t \in Tasks
    BY <1>2
  <2>4. BuffersTyped'
    BY <1>4, <2>2 DEF IInv, BuffersTyped
  <2>5. /\ chain'[s] = c /\ read'[s] = n /\ held'[s] = h /\ context'[s] = m
        /\ \A r \in Sessions : r # s =>
             /\ chain'[r] = chain[r] /\ read'[r] = read[r]
             /\ held'[r] = held[r] /\ context'[r] = context[r]
    BY <1>4 DEF IInv, BuffersTyped
  <2> HIDE DEF here
  <2> QED
    BY <1>4, <2>1, <2>2, <2>3, <2>4, <2>5, InvAt
\* Nothing was read.
<1>5. ASSUME NEW c \in {"request", "requestHdr", "over"},
             chain' = [chain EXCEPT ![s] = c], UNCHANGED << read, held, context >>,
             c = "over" \/ c = FirstRead
      PROVE  IInv'
  <2> DEFINE own == context[s]
             rest == held[s]
  <2>1. /\ here(c, read[s], rest, own)
        /\ chain'[s] = c
    BY <1>5, AtSession DEF IInv, BuffersTyped
  <2>2. Counted(s)' /\ OneMode(s)' /\ OwnContext(s)'
    BY <1>1, <1>3, <1>5, <2>1 DEF Counted, OneMode, OwnContext, FirstRead
  <2>3. /\ c \in Active \cup {"unborn", "over"} /\ c # "call"
        /\ rest \in 0 .. MaxRequests
        /\ read[s] \in 0 .. MaxRequests /\ read[s] <= read[s]
        /\ own \in [0 .. MaxRequests -> Context]
        /\ \A a \in Requests : own[a] = context[s][a]
    BY <1>3 DEF Active, Reads
  <2> HIDE DEF here, own, rest
  <2> QED
    BY <1>4, <2>1, <2>2, <2>3
<1>6. CASE Accept(s)
  BY <1>5, <1>6 DEF Accept, FirstRead
<1>7. CASE ReadFails(s) \/ DestroyOperation(s)
  BY <1>5, <1>7 DEF ReadFails, DestroyOperation
<1>8. CASE ReadRequestHdr(s)
  <2>1. here("requestData", read[s], held[s], hdr)
    BY <1>8, AtSession DEF ReadRequestHdr
  <2>2. read[s] + 1 \in 0 .. MaxRequests
    BY <1>3, <1>8 DEF ReadRequestHdr
  <2>3. /\ hdr \in [0 .. MaxRequests -> Context]
        /\ hdr[0].hdr = read[s] + 1
        /\ \A a \in Requests : hdr[a] = context[s][a]
    BY SMTT(30), <1>3, <2>2 DEF Context, Requests
  <2> HIDE DEF hdr
  <2>4. /\ chain'[s] = "requestData" /\ read'[s] = read[s] /\ held'[s] = 0
        /\ context'[s] = hdr
    BY <1>3, <2>1 DEF IInv, BuffersTyped
  <2>5. Counted(s)' /\ OneMode(s)' /\ OwnContext(s)'
    BY <1>1, <1>3, <1>8, <2>3, <2>4 DEF ReadRequestHdr, Counted, OneMode, OwnContext
  <2>6. "requestData" \in Active \cup {"unborn", "over"}
    BY DEF Active, Reads
  <2> HIDE DEF here
  <2> QED
    BY <1>3, <1>4, <2>1, <2>3, <2>5, <2>6
\* All of a request is there.
<1>9. ASSUME NEW h \in 0 .. MaxRequests, read[s] + 1 + h <= sent[s],
             here("call", read[s] + 1, h, data),
             IF completion THEN chain[s] = "request"
                           ELSE h = 0 /\ chain[s] = "requestData"
      PROVE  IInv'
  <2>1. read[s] + 1 \in 0 .. MaxRequests
    BY <1>3, <1>9
  <2>2. /\ data \in [0 .. MaxRequests -> Context]
        /\ data[0].data = read[s] + 1 /\ data[0].hdr = context[s][0].hdr
        /\ \A a \in Requests : data[a] = context[s][a]
    BY SMTT(30), <1>3, <2>1 DEF Context, Requests
  <2> HIDE DEF data
  <2>3. /\ chain'[s] = "call" /\ read'[s] = read[s] + 1 /\ held'[s] = h
        /\ context'[s] = data
    BY <1>3, <1>9 DEF IInv, BuffersTyped
  <2>4. Counted(s)' /\ OneMode(s)' /\ OwnContext(s)'
    BY <1>1, <1>3, <1>9, <2>2, <2>3 DEF Counted, OneMode, OwnContext
  <2> DEFINE next == read[s] + 1
  <2>5. /\ "call" \in Active \cup {"unborn", "over"}
        /\ next \in 0 .. MaxRequests /\ read[s] <= next /\ read[s] < next
        /\ h \in 0 .. MaxRequests
        /\ data \in [0 .. MaxRequests -> Context]
        /\ \A a \in Requests : data[a] = context[s][a]
    BY <1>3, <1>9, <2>1, <2>2 DEF Active
  <2>6. here("call", next, h, data)
    BY <1>9
  <2> HIDE DEF here, next
  <2> QED
    BY <1>4, <2>4, <2>5, <2>6
<1>10. CASE ReadRequestData(s)
  <2>1. here("call", read[s] + 1, held[s], data)
    BY <1>10, AtSession DEF ReadRequestData, Received
  <2> HIDE DEF here
  <2> QED
    BY <1>3, <1>9, <1>10, <2>1 DEF ReadRequestData, Counted, OneMode
<1>11. ASSUME NEW n \in Requests, ReceiveRequests(s, n)
       PROVE  IInv'
  <2>1. here("call", read[s] + 1, n - 1, data)
    BY <1>11 DEF ReceiveRequests, Received
  <2> HIDE DEF here
  <2> QED
    BY <1>3, <1>9, <1>11, <2>1 DEF ReceiveRequests, OneMode, Requests
<1> QED
  BY <1>6, <1>7, <1>8, <1>10, <1>11

\* processRequest: the new context takes over what was read, and the next request
\* comes into the session's own.
LEMMA InvProcess ==
    ASSUME IInv, NEW s \in Sessions, ProcessRequest(s)
    PROVE  IInv'
<1> USE MaxRequestsAssumption
<1> DEFINE k == read[s]
           new == [of |-> s, request |-> k, buffers |-> k]
           old == context[s]
           m == context'[s]
<1>1. /\ completion \in BOOLEAN
      /\ chain[s] = "call"
      /\ k \in Requests
      /\ held[s] \in 0 .. MaxRequests
      /\ sent[s] \in 0 .. MaxRequests /\ k + held[s] <= sent[s]
      /\ old \in [0 .. MaxRequests -> Context]
      /\ OneMode(s) /\ OwnContext(s)
  BY AtSession DEF ProcessRequest, Counted, Requests
<1>2. /\ queue' = queue \cup {new}
      /\ UNCHANGED << completion, sent, running >>
  BY DEF ProcessRequest, GetPrivate, Schedule
<1>3. Tasks' = Tasks \cup {new} /\ new \in Task
  BY <1>1, <1>2 DEF Tasks, Task, Requests
<1>4. /\ context' = [context EXCEPT ![s] = m]
      /\ m \in [0 .. MaxRequests -> Context]
      /\ m[k] = old[0]
      /\ \A a \in Requests : a # k => m[a] = old[a]
      /\ held[s] > 0 => m[0].data = k + 1
  <2> DEFINE own == Swap(old[0], EmptyContext)[1]
             private == Swap(old[0], EmptyContext)[2]
             memory == [old EXCEPT ![0] = own, ![k] = private]
             readInto == [memory EXCEPT ![0].data = k + 1]
  <2>1. IF held[s] > 0 THEN context' = [context EXCEPT ![s] = readInto]
                       ELSE context' = [context EXCEPT ![s] = memory]
    BY DEF ProcessRequest, GetPrivate, ReadRequest
  <2>2. own \in Context /\ private = old[0] /\ private \in Context
    BY <1>1 DEF Swap, EmptyContext, Context
  <2> HIDE DEF own, private
  <2>3. /\ memory \in [0 .. MaxRequests -> Context]
        /\ memory[k] = old[0]
        /\ \A a \in Requests : a # k => memory[a] = old[a]
    BY SMTT(30), <1>1, <2>2 DEF Requests
  <2> HIDE DEF memory
  <2>4. ASSUME held[s] > 0
        PROVE  /\ readInto \in [0 .. MaxRequests -> Context]
               /\ \A a \in Requests : readInto[a] = memory[a]
               /\ readInto[0].data = k + 1
    <3>1. k + 1 \in 0 .. MaxRequests /\ memory[0] \in Context
      BY <1>1, <2>3, <2>4 DEF Requests
    <3>2. [memory[0] EXCEPT !.data = k + 1] \in Context
      BY <3>1 DEF Context
    <3>3. readInto = [memory EXCEPT ![0] = [memory[0] EXCEPT !.data = k + 1]]
      OBVIOUS
    <3>4. [memory[0] EXCEPT !.data = k + 1].data = k + 1
      BY <3>1 DEF Context
    <3> QED
      BY <2>3, <3>2, <3>3, <3>4 DEF Requests
  <2> HIDE DEF readInto
  <2>5. context' = [context EXCEPT ![s] = m]
        /\ m = IF held[s] > 0 THEN readInto ELSE memory
    BY <2>1 DEF IInv, BuffersTyped
  <2> QED
    BY <1>1, <2>3, <2>4, <2>5
\* What becomes of the chain.
<1>5. \/ /\ held[s] > 0
         /\ chain' = [chain EXCEPT ![s] = "call"]
         /\ read' = [read EXCEPT ![s] = k + 1]
         /\ held' = [held EXCEPT ![s] = @ - 1]
      \/ /\ held[s] = 0
         /\ chain' = [chain EXCEPT ![s] = FirstRead]
         /\ read' = [read EXCEPT ![s] = k]
         /\ held' = [held EXCEPT ![s] = 0]
  <2>1. CASE held[s] > 0
    BY <1>1, <2>1, AtSession DEF ProcessRequest, ReadRequest
  <2>2. CASE held[s] = 0
    BY <2>2, AtSession DEF ProcessRequest, ReadRequest
  <2> QED
    BY <1>1, <2>1, <2>2
<1>6. /\ chain'[s] = IF held[s] > 0 THEN "call" ELSE FirstRead
      /\ read'[s] = IF held[s] > 0 THEN k + 1 ELSE k
      /\ held'[s] = IF held[s] > 0 THEN held[s] - 1 ELSE 0
      /\ \A r \in Sessions : r # s =>
           /\ chain'[r] = chain[r] /\ read'[r] = read[r]
           /\ held'[r] = held[r] /\ context'[r] = context[r]
  BY <1>4, <1>5 DEF IInv, BuffersTyped
<1>7. FirstRead \in {"request", "requestHdr"}
  BY DEF FirstRead
<1>8. BuffersTyped'
  <2>1. chain' \in [Sessions -> Active \cup {"unborn", "over"}]
    BY <1>5, <1>7 DEF IInv, BuffersTyped, Active, Reads
  <2>2. read' \in [Sessions -> 0 .. MaxRequests] /\ held' \in [Sessions -> 0 .. MaxRequests]
    <3>1. k \in 0 .. MaxRequests /\ (held[s] > 0 => k + 1 \in 0 .. MaxRequests)
      BY <1>1 DEF Requests
    <3>2. held[s] > 0 => held[s] - 1 \in 0 .. MaxRequests
      BY <1>1
    <3>3. read' \in [Sessions -> 0 .. MaxRequests]
      BY <1>5, <3>1 DEF IInv, BuffersTyped
    <3>4. held' \in [Sessions -> 0 .. MaxRequests]
      BY <1>5, <3>2 DEF IInv, BuffersTyped
    <3> QED
      BY <3>3, <3>4
  <2>3. context' \in [Sessions -> [0 .. MaxRequests -> Context]]
    BY <1>4 DEF IInv, BuffersTyped
  <2> QED
    BY <1>2, <1>3, <2>1, <2>2, <2>3 DEF IInv, BuffersTyped
<1>9. Counted(s)' /\ OneMode(s)' /\ OwnContext(s)'
  <2>1. Counted(s)'
    BY <1>1, <1>2, <1>6, <1>7 DEF Counted, Requests
  <2>2. OneMode(s)'
    BY <1>1, <1>2, <1>6 DEF OneMode, FirstRead
  <2>3. OwnContext(s)'
    BY <1>1, <1>2, <1>4, <1>6, <1>7 DEF OneMode, OwnContext
  <2> QED
    BY <2>1, <2>2, <2>3
<1>10. \A t \in Tasks' : t.of # s => t \in Tasks
  BY <1>3
<1>11. ASSUME NEW t \in Tasks', t.of = s
       PROVE  /\ t.buffers = t.request
              /\ t.request <= read'[s]
              /\ chain'[s] = "call" => t.request < read'[s]
              /\ m[t.request].data = t.request
              /\ completion \/ m[t.request].hdr = t.request
  <2>1. CASE t = new
    BY <1>1, <1>4, <1>6, <1>7, <2>1 DEF OwnContext, Requests
  <2>2. CASE t \in Tasks
    <3>1. /\ t.request \in Requests /\ t.buffers = t.request /\ t.request < k
          /\ old[t.request].data = t.request
          /\ completion \/ old[t.request].hdr = t.request
      BY <1>1, <1>11, <2>2, AtSession
    <3>2. t.request <= read'[s] /\ t.request < k
      BY <1>1, <1>6, <3>1 DEF Requests
    <3>3. chain'[s] = "call" => t.request < read'[s]
      BY <1>1, <1>6, <1>7, <3>1 DEF Requests
    <3>4. m[t.request] = old[t.request]
      BY <1>1, <1>4, <3>1, <3>2 DEF Requests
    <3> HIDE DEF m, old
    <3> QED
      BY <3>1, <3>2, <3>3, <3>4
  <2> QED
    BY <1>3, <2>1, <2>2
<1> QED
  BY <1>2, <1>6, <1>8, <1>9, <1>10, <1>11, InvAt

LEMMA InvStep == IInv /\ [Next]_vars => IInv'
<1> SUFFICES ASSUME IInv, [Next]_vars PROVE IInv'
  OBVIOUS
<1>1. ASSUME NEW s \in Sessions, Accept(s) \/ WorkerStep(s)
      PROVE  IInv'
  <2>1. CASE AcceptAgain(s) \/ DropSession(s)
    BY <2>1, InvFrame DEF AcceptAgain, DropSession, Tasks, IInv, BuffersTyped
  <2>2. CASE ProcessRequest(s)
    BY <2>2, InvProcess
  <2> QED
    BY <1>1, <2>1, <2>2, InvReading DEF WorkerStep
<1>2. ASSUME NEW s \in Sessions, PeerSends(s) \/ PeerGoes(s)
      PROVE  IInv'
  <2>1. /\ sent' \in [Sessions -> 0 .. MaxRequests]
        /\ \A r \in Sessions : sent[r] <= sent'[r]
    <3>1. \A r \in Sessions : sent[r] \in 0 .. MaxRequests
      BY DEF IInv, BuffersTyped
    <3>2. CASE PeerSends(s)
      <4>1. sent[s] + 1 \in 0 .. MaxRequests
        BY <3>1, <3>2, MaxRequestsAssumption DEF PeerSends
      <4>2. sent' = [sent EXCEPT ![s] = sent[s] + 1]
        BY <3>2 DEF PeerSends
      <4> QED
        BY <3>1, <4>1, <4>2 DEF IInv, BuffersTyped
    <3>3. CASE PeerGoes(s)
      BY <3>1, <3>3 DEF PeerGoes, IInv, BuffersTyped
    <3> QED
      BY <1>2, <3>2, <3>3
  <2> QED
    BY <1>2, <2>1, InvFrame DEF PeerSends, PeerGoes, Tasks
<1>3. ASSUME NEW p \in PoolThreads, NEW t \in queue, StartPayload(p, t)
      PROVE  IInv'
  <2>1. Tasks' \subseteq Tasks
    BY <1>3 DEF StartPayload, Tasks
  <2> QED
    BY <1>3, <2>1, InvFrame DEF StartPayload, IInv, BuffersTyped
<1>4. ASSUME NEW r \in running, NEW retCode \in Results, FinishPayload(r, retCode)
      PROVE  IInv'
  <2>1. Tasks' \subseteq Tasks
    BY <1>4 DEF FinishPayload, Tasks
  <2> QED
    BY <1>4, <2>1, InvFrame DEF FinishPayload, IInv, BuffersTyped
<1>5. CASE Stop \/ EndStep
  <2>1. /\ Tasks' \subseteq Tasks
        /\ UNCHANGED << completion, chain, read, held, context, sent >>
    BY <1>5 DEF Stop, EndStep, WorkersGone, DiscardTask, JoinPool, ServerDestroyed, Tasks
  <2> QED
    BY <2>1, InvFrame DEF IInv, BuffersTyped
<1>6. CASE UNCHANGED vars
  BY <1>6, InvFrame DEF vars, Tasks, IInv, BuffersTyped
<1> QED
  BY <1>1, <1>2, <1>3, <1>4, <1>5, <1>6 DEF Next, PoolStep

\* While a request waits for a thread and while its payload runs, its buffers
\* hold this request, whatever the chain of calls has read since then.
THEOREM PrivateBuffers == Spec => []BuffersArePrivate
<1>1. IInv => BuffersArePrivate
  BY DEF IInv
<1> QED
  BY <1>1, InvInit, InvStep, PTL DEF Spec
=============================================================================
