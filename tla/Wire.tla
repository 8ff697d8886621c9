-------------------------------- MODULE Wire --------------------------------
(****************************************************************************)
(* From the settings of a program to the bytes on its connection.  First    *)
(* the compiler: static_asserts of Server, Client and the settings'         *)
(* wrappers accept or refuse a Proto with its other parameters, and the     *)
(* overloads of the functions named ...Sw are selected.  Then calls, one    *)
(* after the other: a size goes into a 32-bit header field, the data        *)
(* follow, and the other end takes from the stream what it makes of that.   *)
(****************************************************************************)
EXTENDS Naturals, Sequences, FiniteSets, SequencesExt

CONSTANTS
    Modulus,      \* 2^32, the range of uint32_t
    MaxElements,  \* bound: elements of a request or an answer
    MaxCalls,     \* bound: calls of the client
    ReprSizes     \* sizes of RequestDataRepr and AnswerDataRepr

ASSUME ModulusAssumption == Modulus \in Nat \ {0}
ASSUME BoundsAssumption == MaxElements \in Nat /\ MaxCalls \in Nat
ASSUME ReprSizesAssumption == ReprSizes \subseteq Nat \ {0} /\ {1, 4} \subseteq ReprSizes

\* What a header may be: nothing, the predefined size, or a class of the user,
\* which may be plain data, empty, or neither arithmetic nor plain.
Headers == {"NullType", "JustSize", "pod", "empty", "class"}

Protos ==
    [ requestHdr : Headers, requestCompletion : BOOLEAN, requestRepr : ReprSizes,
      serverSendsAnswer : {"never", "atLeastHdr", "nothingIfNoData"},
      answerHdr : Headers, answerCompletion : BOOLEAN, answerRepr : ReprSizes ]

\* The components with proto = 1, and some of those with proto = 0.
ProtoComponents ==
    {"SessionHdrIs", "RequestHdrIs", "RequestCompletionIs", "RequestDataReprIs",
     "ServerSendsAnswer", "AnswerHdrIs", "AnswerCompletionIs", "AnswerDataReprIs"}

ParamSets == SUBSET {"SessionThreadPoolIs", "NumOfWorkersIs", "AnswerHdrIs"}

Default ==
    [ requestHdr |-> "JustSize", requestCompletion |-> FALSE, requestRepr |-> 1,
      serverSendsAnswer |-> "atLeastHdr",
      answerHdr |-> "JustSize", answerCompletion |-> FALSE, answerRepr |-> 1 ]

ProtoStrings ==
    [Default EXCEPT !.requestHdr = "NullType", !.requestCompletion = TRUE,
                    !.serverSendsAnswer = "nothingIfNoData",
                    !.answerHdr = "NullType", !.answerCompletion = TRUE]

ProtoWithoutAnswer ==
    [Default EXCEPT !.requestHdr = "NullType", !.requestCompletion = TRUE,
                    !.serverSendsAnswer = "never"]

ProtoWithSessionHdr == [Default EXCEPT !.answerHdr = "pod"]

\* Its requests are of uint32_t; its header and the elements of its answers are
\* buffers of TricksAndThings' Serializer: the header plain data, an element of
\* some size r.
ProtoWithAnyHdr(r) ==
    [Default EXCEPT !.requestHdr = "pod", !.requestRepr = 4,
                    !.serverSendsAnswer = "nothingIfNoData", !.answerRepr = r]

VARIABLES
    proto,   \* the first template parameter of Server and Client
    params,  \* the server's other parameters
    at,      \* "compile", "refused", or who is at work: "call", "request", "payload", "answer"
    up,      \* bytes and headers on their way to the session
    down,    \* and to the client
    size,    \* elements of the request, then of the answer
    calls,   \* calls so far
    wrapped, \* a size did not fit into its header
    misread  \* an end took from the stream something else than what was sent

vars == << proto, params, at, up, down, size, calls, wrapped, misread >>

\* On a stream: the header of a message with its size field, a byte of data, the
\* last byte of data that end the way the completion function expects, or the
\* byte of a NullType object.
Units == [is : {"hdr", "byte", "end", "null"}, size : 0 .. Modulus - 1]
Hdr(s) == [is |-> "hdr", size |-> s]
Byte == [is |-> "byte", size |-> 0]
End == [is |-> "end", size |-> 0]
Null == [is |-> "null", size |-> 0]

TypeOK ==
    /\ proto \in Protos /\ params \in ParamSets
    /\ at \in {"compile", "refused", "call", "request", "payload", "answer"}
    /\ up \in Seq(Units) /\ down \in Seq(Units)
    /\ size \in 0 .. MaxElements
    /\ calls \in 0 .. MaxCalls
    /\ {wrapped, misread} \subseteq BOOLEAN

Init ==
    /\ proto \in Protos /\ params \in ParamSets
    /\ at = "compile"
    /\ up = << >> /\ down = << >>
    /\ size = 0 /\ calls = 0
    /\ wrapped = FALSE /\ misread = FALSE

----------------------------------------------------------------------------
(* The compiler.                                                            *)

\* IsTransferable of a header's Itself; NullType has a wrapper of its own.
Transferable(hdr) == hdr \in {"NullType", "JustSize", "pod"}

\* The wrapper AnswerHdr, which the assertion looks at, is a structure also when
\* its Itself is NullType.
AnswerHdrIsNullType == FALSE

TaskManagerIsNullType == "SessionThreadPoolIs" \notin params

\* NonProtoParamsChecker: proto = 0 for each of them.
OnlyNonProto == params \cap ProtoComponents = {}

MutantNeedsAnswer ==
    /\ (proto.requestHdr = "NullType") # ~proto.requestCompletion
    /\ ~(proto.serverSendsAnswer = "atLeastHdr" /\ AnswerHdrIsNullType)
    /\ OnlyNonProto
    /\ TaskManagerIsNullType \/ proto.serverSendsAnswer = "nothingIfNoData"

ServerCompiles ==
    /\ (proto.requestHdr = "NullType") # ~proto.requestCompletion
    /\ ~(proto.serverSendsAnswer = "atLeastHdr" /\ AnswerHdrIsNullType)
    /\ OnlyNonProto
    /\ TaskManagerIsNullType \/ proto.serverSendsAnswer = "never"

MutantNotBoth == proto.answerHdr = "NullType" \/ ~proto.answerCompletion

ClientCompiles == (proto.answerHdr = "NullType") # ~proto.answerCompletion

\* Overload resolution for arguments `given': the viable overloads (each maps
\* parameter positions to the one type it takes, and is a template in the
\* others) that no other viable one is more specialised than.
Selected(overloads, given) ==
    LET viable == {f \in overloads : \A i \in DOMAIN f : f[i] = given[i]}
    IN  {f \in viable : ~\E g \in viable : g # f /\ DOMAIN f \subseteq DOMAIN g}

WriteAnswerSw ==
    Selected({[case |-> "never"], [case |-> "atLeastHdr"], [case |-> "nothingIfNoData"],
              [case |-> "nothingIfNoData", hdr |-> "NullType"]},
             [case |-> proto.serverSendsAnswer, hdr |-> proto.answerHdr])

ReadAnswerSw ==
    Selected({[noAnswer |-> TRUE], [noAnswer |-> FALSE, hdr |-> "NullType"],
              [noAnswer |-> FALSE, completion |-> FALSE]},
             [noAnswer |-> proto.serverSendsAnswer = "never",
              hdr |-> proto.answerHdr, completion |-> proto.answerCompletion])

Compile ==
    /\ at = "compile"
    /\ at' = IF /\ Transferable(proto.requestHdr) /\ Transferable(proto.answerHdr)
                /\ ServerCompiles /\ ClientCompiles
               THEN "call" ELSE "refused"
    /\ UNCHANGED << proto, params, up, down, size, calls, wrapped, misread >>

----------------------------------------------------------------------------
(* Messages.                                                                *)

\* Data for a completion function end with what it looks for.
Data(bytes, completion) ==
    [i \in 1 .. bytes |-> IF completion /\ i = bytes THEN End ELSE Byte]

\* setSize2(n * sizeof(repr), hdr): a uint32_t parameter.
MutantElements(n, repr) == n % Modulus

MutantWide(n, repr) == n * repr

SizeField(n, repr) == (n * repr) % Modulus

\* setSizeSw, and the two writes of Client::send.
Request(n) ==
    (IF proto.requestHdr = "NullType" THEN << >>
       ELSE << Hdr(SizeField(n, proto.requestRepr)) >>)
    \o Data(n * proto.requestRepr, proto.requestCompletion)

\* The selected overload of writeAnswerSw, then writeAnswerData.
AnswerHdr(n) ==
    LET without == \/ [case |-> "nothingIfNoData", hdr |-> "NullType"] \in WriteAnswerSw
                   \/ proto.serverSendsAnswer = "nothingIfNoData" /\ n = 0
    IN  IF without THEN << >>
        ELSE IF proto.answerHdr = "NullType" THEN << Null >>
        ELSE << Hdr(SizeField(n, proto.answerRepr)) >>

Answer(n) ==
    AnswerHdr(n) \o Data(n * proto.answerRepr, proto.answerCompletion)

\* Reading by the header: its size field, divided by the size of an element,
\* is the number of elements that are read.
ReadSize(stream, repr) == (Head(stream).size \div repr) * repr

\* Reading by a completion function: up to the end it looks for.
ReadEnd(stream) == SelectInSeq(stream, LAMBDA unit : unit = End)

Wraps(hdr, repr) == hdr # "NullType" /\ size * repr >= Modulus

\* One end takes a message of `size' elements from its stream.  Anything else in
\* place of its header, or a wrong number of bytes, brings it out of step for good,
\* and so does a completion function for elements of several bytes
\* (ReadingManager counts the ones in the others).
Misread(stream, completion, repr) ==
    IF completion
      THEN repr # 1 \/ ReadEnd(stream) # size
      ELSE Head(stream).is # "hdr" \/ ReadSize(stream, repr) # size * repr

Rest(stream, completion, repr) ==
    IF completion THEN SubSeq(stream, ReadEnd(stream) + 1, Len(stream))
                  ELSE SubSeq(stream, 2 + ReadSize(stream, repr), Len(stream))

\* The whole of it has arrived.
Readable(stream, completion, repr) ==
    IF completion THEN ReadEnd(stream) > 0
                  ELSE stream # << >> /\ Len(stream) > ReadSize(stream, repr)

----------------------------------------------------------------------------
Send(n) ==
    /\ at = "call"
    /\ ~misread
    /\ calls < MaxCalls
    /\ proto.requestCompletion => n > 0
    /\ up' = up \o Request(n)
    /\ size' = n
    /\ calls' = calls + 1
    /\ at' = "request"
    /\ UNCHANGED << proto, params, down, wrapped, misread >>

ReadRequest ==
    /\ at = "request"
    /\ Readable(up, proto.requestCompletion, proto.requestRepr)
    /\ misread' = (misread \/ Misread(up, proto.requestCompletion, proto.requestRepr))
    /\ wrapped' = (wrapped \/ Wraps(proto.requestHdr, proto.requestRepr))
    /\ up' = Rest(up, proto.requestCompletion, proto.requestRepr)
    /\ at' = "payload"
    /\ UNCHANGED << proto, params, down, size, calls >>

\* With a header the client reads any answer, with a completion function one
\* that has data.
WriteAnswer(n) ==
    /\ at = "payload"
    /\ proto.serverSendsAnswer # "never"
    /\ proto.answerCompletion \/ proto.serverSendsAnswer = "nothingIfNoData" => n > 0
    /\ down' = down \o Answer(n)
    /\ size' = n
    /\ at' = "answer"
    /\ UNCHANGED << proto, params, up, calls, wrapped, misread >>

NoAnswer ==
    /\ at = "payload"
    /\ proto.serverSendsAnswer = "never"
    /\ at' = "call"
    /\ UNCHANGED << proto, params, up, down, size, calls, wrapped, misread >>

ReadAnswer ==
    /\ at = "answer"
    /\ Readable(down, proto.answerCompletion, proto.answerRepr)
    /\ misread' = (misread \/ Misread(down, proto.answerCompletion, proto.answerRepr))
    /\ wrapped' = (wrapped \/ Wraps(proto.answerHdr, proto.answerRepr))
    /\ down' = Rest(down, proto.answerCompletion, proto.answerRepr)
    /\ at' = "call"
    /\ UNCHANGED << proto, params, up, size, calls >>

Next ==
    \/ Compile
    \/ \E n \in 0 .. MaxElements : Send(n) \/ WriteAnswer(n)
    \/ ReadRequest \/ NoAnswer \/ ReadAnswer

Spec == Init /\ [][Next]_vars

----------------------------------------------------------------------------
(* Properties.                                                              *)

\* The static_asserts refuse every Proto for which an overload set would be
\* ambiguous or empty: what gets past them compiles, and behaves in one way.
AssertsCoverOverloads ==
    at \notin {"compile", "refused"} =>
      Cardinality(WriteAnswerSw) = 1 /\ Cardinality(ReadAnswerSw) = 1

\* The examples' protos, each with those of its server's parameters that matter here:
\* simplest, strings, suchATricky1 (and its Wrong), suchATricky2 and withoutAnswer.
Examples ==
    { << Default, {} >>, << ProtoStrings, {} >>, << ProtoWithSessionHdr, {} >> }
    \cup { << ProtoWithAnyHdr(r), {} >> : r \in ReprSizes }
    \cup { << ProtoWithoutAnswer, {"SessionThreadPoolIs"} >> }

\* The static_asserts of Server, Client and the wrappers refuse none of them.
ExamplesCompile == << proto, params >> \in Examples => at # "refused"

\* What a Proto has to keep to by itself, as no assertion makes sure of it.
SoundProto ==
    /\ proto.requestCompletion => proto.requestRepr = 1
    /\ proto.answerCompletion => proto.answerRepr = 1
    /\ ~(proto.serverSendsAnswer = "atLeastHdr" /\ proto.answerHdr = "NullType")

\* Then both ends stay in step: every message is taken from the stream as it was
\* put there, whatever the sizes of elements, as long as its size in bytes fits
\* into 32 bits; neither waits for bytes that will not come.
InStep ==
    SoundProto /\ ~wrapped =>
      /\ ~misread
      /\ at = "call" => up = << >> /\ down = << >>
      /\ at = "request" => Readable(up, proto.requestCompletion, proto.requestRepr)
      /\ at = "answer" => Readable(down, proto.answerCompletion, proto.answerRepr)

\* A static_assert of Server has the message "Server cannot return at least
\* header of an answer when it is defined as NullType!".
AtLeastHeaderHasHeader ==
    at \notin {"compile", "refused"} =>
      ~(proto.serverSendsAnswer = "atLeastHdr" /\ proto.answerHdr = "NullType")
=============================================================================
