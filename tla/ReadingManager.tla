---------------------------- MODULE ReadingManager ----------------------------
(****************************************************************************)
(* ReadingManager::Itself reads requests whose size is not known before     *)
(* they end: it receives into one growing buffer, asks the completion       *)
(* function (ReadUntilNull) after every receive whether a request is there, *)
(* cuts it off and keeps what came after it in dataRest for the next call.  *)
(* A sequence stands for a std::vector: its length is size(), and the bytes *)
(* that resize() adds are zeros, which look like terminators.               *)
(*                                                                          *)
(* The asynchronous form is modelled; the synchronous one, for the Client,  *)
(* makes the same calls in a loop.                                          *)
(****************************************************************************)
EXTENDS Naturals, Sequences, SequencesExt

CONSTANTS
    Bytes,           \* values of DataRepr; 0 is the terminator
    InitBufferSize,  \* initBufferSize
    MaxSent          \* bound: bytes the peer sends

ASSUME BytesAssumption == Bytes \subseteq Nat
ASSUME BufferAssumption == InitBufferSize \in Nat \ {0}
ASSUME BoundAssumption == MaxSent \in Nat

VARIABLES
    data,         \* *dataBufferRef, the session's inDataBuffer
    accumulated,  \* bytes of data that were received
    offset,       \* bytes of data the completion function has seen
    dataRest,     \* received behind the last request
    state,        \* "idle": get() may be called; "receiving": async_read_some is
                  \* pending; "ended": a receive failed and the chain is over
    sent,         \* what the peer has sent so far
    received,     \* how many of those bytes were received
    delivered     \* the requests passed to whenCompleted

vars == << data, accumulated, offset, dataRest, state, sent, received, delivered >>

Byte == Bytes \cup {0}

TypeOK ==
    /\ data \in Seq(Byte) /\ dataRest \in Seq(Byte) /\ sent \in Seq(Bytes)
    /\ accumulated \in Nat
    /\ offset \in 0 .. accumulated
    /\ state \in {"idle", "receiving", "ended"}
    /\ received \in 0 .. Len(sent)
    /\ delivered \in Seq(Seq(Byte))

Init ==
    /\ data = << >> /\ dataRest = << >> /\ sent = << >> /\ delivered = << >>
    /\ accumulated = 0 /\ offset = 0 /\ received = 0
    /\ state = "idle"

----------------------------------------------------------------------------
\* ReadUntilNull: the size of the request that ends with the first null byte
\* not yet looked at, or 0.
ReadUntilNull(buffer, from, numOfBytes) ==
    SelectInSubSeq(buffer, from + 1, numOfBytes, LAMBDA b : b = 0)

\* vector::resize.
Resized(buffer, size) ==
    [i \in 1 .. size |-> IF i <= Len(buffer) THEN buffer[i] ELSE 0]

\* beforeRecv: all that was received has been looked at; a full buffer grows.
MutantNeverGrows(buffer, numOfBytes) ==
    IF buffer = << >> THEN Resized(buffer, InitBufferSize) ELSE buffer

\* ...to memory that no one initialised.
MutantGrowsUnset(buffer, numOfBytes) ==
    IF Len(buffer) > numOfBytes THEN buffer
    ELSE buffer \o [i \in 1 .. InitBufferSize |-> 999]

Grown(buffer, numOfBytes) ==
    IF Len(buffer) > numOfBytes THEN buffer
    ELSE Resized(buffer, IF numOfBytes > 0 THEN 2 * numOfBytes ELSE InitBufferSize)

\* afterReading: the request stays in the buffer, what follows goes in front of
\* dataRest.
MutantDropRest(buffer, rest, numOfBytes, size) ==
    /\ dataRest' = rest
    /\ data' = SubSeq(buffer, 1, size)

AfterReading(buffer, rest, numOfBytes, size) ==
    /\ dataRest' = SubSeq(buffer, size + 1, numOfBytes) \o rest
    /\ data' = SubSeq(buffer, 1, size)

\* readAndDoSw, called with this buffer and these numbers: either the request is
\* complete, or the rest of it has to be received.
ReadAndDo(buffer, rest, from, numOfBytes) ==
    LET size == ReadUntilNull(buffer, from, numOfBytes)
    IN  /\ accumulated' = numOfBytes
        /\ \/ /\ size > 0
              /\ AfterReading(buffer, rest, numOfBytes, size)
              /\ offset' = from
              /\ delivered' = Append(delivered, data')
              /\ state' = "idle"
           \/ /\ size = 0
              /\ offset' = numOfBytes
              /\ data' = Grown(buffer, numOfBytes)
              /\ dataRest' = rest
              /\ state' = "receiving"
              /\ UNCHANGED delivered

----------------------------------------------------------------------------
Send(b) ==
    /\ Len(sent) < MaxSent
    /\ sent' = Append(sent, b)
    /\ UNCHANGED << data, accumulated, offset, dataRest, state, received, delivered >>

\* get(): the session wants the next request; what is left of the last receive
\* comes first.
MutantKeepOffset == ReadAndDo(dataRest, << >>, offset, Len(dataRest))

StartReading == ReadAndDo(dataRest, << >>, 0, Len(dataRest))

Get ==
    /\ state = "idle"
    /\ StartReading
    /\ UNCHANGED << sent, received >>

\* async_read_some completes with at least one byte, as many as fit at most.
Receive(numOfBytes) ==
    /\ state = "receiving"
    /\ numOfBytes <= Len(data) - accumulated
    /\ numOfBytes <= Len(sent) - received
    /\ received' = received + numOfBytes
    /\ ReadAndDo(SubSeq(data, 1, accumulated)
                   \o SubSeq(sent, received + 1, received + numOfBytes)
                   \o SubSeq(data, accumulated + numOfBytes + 1, Len(data)),
                 dataRest, offset, accumulated + numOfBytes)
    /\ UNCHANGED sent

\* ...or with an error, at any time: the handler returns.
ReceiveFails ==
    /\ state = "receiving"
    /\ state' = "ended"
    /\ UNCHANGED << data, accumulated, offset, dataRest, sent, received, delivered >>

Next ==
    \/ \E b \in Bytes : Send(b)
    \/ Get
    \/ \E numOfBytes \in 1 .. MaxSent : Receive(numOfBytes)
    \/ ReceiveFails

Spec == Init /\ [][Next]_vars

\* The session asks for the next request (its payload returns and its answer
\* goes out), and bytes that were sent arrive.
FairSpec ==
    /\ Spec
    /\ WF_vars(Get)
    /\ WF_vars(\E numOfBytes \in 1 .. MaxSent : Receive(numOfBytes))

----------------------------------------------------------------------------
(* Properties.                                                              *)

\* The bytes that were received and are not part of a delivered request.
Unconsumed ==
    IF state = "idle" THEN dataRest ELSE SubSeq(data, 1, accumulated) \o dataRest

\* While bytes are awaited none that have come end a request, whatever the
\* chunks were and wherever the completion function stopped looking.
NothingMissed ==
    state = "receiving" => \A i \in 1 .. accumulated : data[i] # 0

\* async_read_some always gets room: with none it would complete at once with
\* 0 bytes, for ever.
AlwaysRoom == state = "receiving" => accumulated < Len(data)

\* The requests are those of Framing: not a byte is lost, doubled or reordered on
\* its way through the two buffers, and no request that is complete, in the socket
\* or in dataRest, waits for bytes behind it.
Frames == INSTANCE Framing WITH
    consumed <- received - Len(Unconsumed),
    failed <- state = "ended"

FramesTheStream == Frames!FairSpec
=============================================================================
