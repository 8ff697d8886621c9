---------------------------- MODULE Wire_proofs ----------------------------
(* Machine-checked: what the static_asserts let pass selects one overload, and *)
(* both ends of a connection stay in step, for every size of elements, every   *)
(* number of them and of calls, and every width of the size field.             *)
EXTENDS Wire, FiniteSetTheorems, TLAPS

(****************************************************************************)
(* The inductive invariant.                                                 *)
(****************************************************************************)

\* What Compile asks.
Accepted ==
    /\ Transferable(proto.requestHdr) /\ Transferable(proto.answerHdr)
    /\ ServerCompiles /\ ClientCompiles

CompiledOnce ==
    /\ at \notin {"compile", "refused"} => Accepted
    /\ at = "refused" => ~Accepted

\* While an end is to read, its stream holds the message and nothing else, as long
\* as no message was misread before.
Streams ==
    /\ at \in {"compile", "refused", "call"} /\ ~misread => up = << >> /\ down = << >>
    /\ at = "request" =>
         /\ up = Request(size) /\ down = << >> /\ ~misread
         /\ proto.requestCompletion => size > 0
    /\ at = "payload" => down = << >> /\ (~misread => up = << >>)
    /\ at = "answer" =>
         /\ down = Answer(size)
         /\ ~misread => up = << >>
         /\ proto.serverSendsAnswer # "never"
         /\ proto.answerCompletion \/ proto.serverSendsAnswer = "nothingIfNoData" => size > 0

Faithful == SoundProto /\ ~wrapped => ~misread

IInv == TypeOK /\ CompiledOnce /\ Streams /\ Faithful

(****************************************************************************)
(* Overloads.                                                               *)
(****************************************************************************)

\* The overload of writeAnswerSw that each proto gets.
LEMMA Writer ==
    /\ proto.serverSendsAnswer \in {"never", "atLeastHdr"} =>
         WriteAnswerSw = {[case |-> proto.serverSendsAnswer]}
    /\ proto.serverSendsAnswer = "nothingIfNoData" =>
         WriteAnswerSw = IF proto.answerHdr = "NullType"
                           THEN {[case |-> "nothingIfNoData", hdr |-> "NullType"]}
                           ELSE {[case |-> "nothingIfNoData"]}
<1> DEFINE never == [case |-> "never"]
           atLeast == [case |-> "atLeastHdr"]
           nothing == [case |-> "nothingIfNoData"]
           without == [case |-> "nothingIfNoData", hdr |-> "NullType"]
           given == [case |-> proto.serverSendsAnswer, hdr |-> proto.answerHdr]
           Viable(f) == \A i \in DOMAIN f : f[i] = given[i]
<1>1. /\ DOMAIN never = {"case"} /\ DOMAIN atLeast = {"case"} /\ DOMAIN nothing = {"case"}
      /\ DOMAIN without = {"case", "hdr"}
      /\ never["case"] = "never" /\ atLeast["case"] = "atLeastHdr"
      /\ nothing["case"] = "nothingIfNoData"
      /\ without["case"] = "nothingIfNoData" /\ without["hdr"] = "NullType"
      /\ given["case"] = proto.serverSendsAnswer /\ given["hdr"] = proto.answerHdr
  OBVIOUS
<1>2. WriteAnswerSw =
        LET viable == {f \in {never, atLeast, nothing, without} : Viable(f)}
        IN  {f \in viable : ~\E g \in viable : g # f /\ DOMAIN f \subseteq DOMAIN g}
  BY DEF WriteAnswerSw, Selected
<1> HIDE DEF never, atLeast, nothing, without, given
<1>3. /\ Viable(never) <=> proto.serverSendsAnswer = "never"
      /\ Viable(atLeast) <=> proto.serverSendsAnswer = "atLeastHdr"
      /\ Viable(nothing) <=> proto.serverSendsAnswer = "nothingIfNoData"
      /\ Viable(without) <=>
           proto.serverSendsAnswer = "nothingIfNoData" /\ proto.answerHdr = "NullType"
  BY <1>1
<1> HIDE DEF Viable
<1>4. never # atLeast /\ never # nothing /\ atLeast # nothing /\ nothing # without
  BY <1>1
<1>5. CASE proto.serverSendsAnswer = "never"
  BY <1>2, <1>3, <1>5 DEF never
<1>6. CASE proto.serverSendsAnswer = "atLeastHdr"
  BY <1>2, <1>3, <1>6 DEF atLeast
<1>7. CASE proto.serverSendsAnswer = "nothingIfNoData" /\ proto.answerHdr # "NullType"
  BY <1>2, <1>3, <1>7 DEF nothing
<1>8. CASE proto.serverSendsAnswer = "nothingIfNoData" /\ proto.answerHdr = "NullType"
  <2>1. {f \in {never, atLeast, nothing, without} : Viable(f)} = {nothing, without}
    BY <1>3, <1>8
  <2>2. WriteAnswerSw = {without}
    BY <1>1, <1>2, <1>4, <2>1
  <2> QED
    BY <1>8, <2>2 DEF without
<1> QED
  BY <1>5, <1>6, <1>7, <1>8

\* The overload of readAnswerSw, for a proto that ClientCompiles lets pass.
LEMMA Reader ==
    ASSUME proto \in Protos, ClientCompiles
    PROVE  \E f : ReadAnswerSw = {f}
<1> DEFINE none == [noAnswer |-> TRUE]
           byEnd == [noAnswer |-> FALSE, hdr |-> "NullType"]
           byHdr == [noAnswer |-> FALSE, completion |-> FALSE]
           given == [noAnswer |-> proto.serverSendsAnswer = "never",
                     hdr |-> proto.answerHdr, completion |-> proto.answerCompletion]
           Viable(f) == \A i \in DOMAIN f : f[i] = given[i]
<1>1. /\ DOMAIN none = {"noAnswer"} /\ none["noAnswer"] = TRUE
      /\ DOMAIN byEnd = {"noAnswer", "hdr"}
      /\ byEnd["noAnswer"] = FALSE /\ byEnd["hdr"] = "NullType"
      /\ DOMAIN byHdr = {"noAnswer", "completion"}
      /\ byHdr["noAnswer"] = FALSE /\ byHdr["completion"] = FALSE
      /\ given["noAnswer"] = (proto.serverSendsAnswer = "never")
      /\ given["hdr"] = proto.answerHdr /\ given["completion"] = proto.answerCompletion
  OBVIOUS
<1>2. ReadAnswerSw =
        LET viable == {f \in {none, byEnd, byHdr} : Viable(f)}
        IN  {f \in viable : ~\E g \in viable : g # f /\ DOMAIN f \subseteq DOMAIN g}
  BY DEF ReadAnswerSw, Selected
<1>3. proto.answerCompletion \in BOOLEAN
      /\ (proto.answerHdr = "NullType" <=> proto.answerCompletion)
  BY DEF Protos, ClientCompiles
<1> HIDE DEF none, byEnd, byHdr, given
<1>4. /\ Viable(none) <=> proto.serverSendsAnswer = "never"
      /\ Viable(byEnd) <=> proto.serverSendsAnswer # "never" /\ proto.answerHdr = "NullType"
      /\ Viable(byHdr) <=> proto.serverSendsAnswer # "never" /\ ~proto.answerCompletion
  BY <1>1, <1>3
<1> HIDE DEF Viable
<1>5. PICK f : {x \in {none, byEnd, byHdr} : Viable(x)} = {f}
  <2>1. CASE proto.serverSendsAnswer = "never"
    BY <1>4, <2>1
  <2>2. CASE proto.serverSendsAnswer # "never" /\ proto.answerHdr = "NullType"
    BY <1>3, <1>4, <2>2
  <2>3. CASE proto.serverSendsAnswer # "never" /\ proto.answerHdr # "NullType"
    BY <1>3, <1>4, <2>3
  <2> QED
    BY <2>1, <2>2, <2>3
<1>6. ReadAnswerSw = {f}
  BY <1>2, <1>5
<1> QED
  BY <1>6

(****************************************************************************)
(* Sizes.                                                                   *)
(****************************************************************************)

LEMMA WireMonotone ==
    ASSUME NEW b \in Nat, NEW x \in Nat, NEW y \in Nat, x + 1 <= y
    PROVE  b * x + b <= b * y
<1>1. PICK k \in Nat : y = x + 1 + k
  <2>1. y - x - 1 \in Nat /\ y = x + 1 + (y - x - 1)
    OBVIOUS
  <2> QED
    BY <2>1
<1>2. b * y = b * x + b + b * k
  BY <1>1
<1>3. b * k \in Nat /\ b * x \in Nat
  BY <1>1
<1> QED
  BY <1>2, <1>3

\* Dividing by the size of an element and multiplying by it again.
LEMMA WholeElements ==
    ASSUME NEW x \in Nat, NEW r \in Nat \ {0}
    PROVE  /\ (x \div r) * r \in Nat /\ (x \div r) * r <= x
           /\ \A n \in Nat : x = n * r => (x \div r) * r = x
<1> DEFINE q == x \div r
           m == x % r
<1>1. q \in Nat /\ m \in 0 .. r - 1 /\ x = r * q + m
  BY SMTT(30)
<1> HIDE DEF q, m
<1>2. q * r = r * q /\ r * q \in Nat
  BY <1>1
<1>3. ASSUME NEW n \in Nat, x = n * r
      PROVE  q * r = x
  <2>1. x = r * n /\ r * n \in Nat
    BY <1>3
  <2>2. q + 1 <= n => r * q + r <= r * n
    BY <1>1, WireMonotone
  <2>3. n + 1 <= q => r * n + r <= r * q
    BY <1>1, WireMonotone
  <2>4. q = n
    BY <1>1, <1>2, <2>1, <2>2, <2>3
  <2> QED
    BY <1>2, <2>1, <2>4
<1> QED
  BY <1>1, <1>2, <1>3 DEF q

\* The size field of a number of bytes.
LEMMA Field ==
    ASSUME NEW b \in Nat
    PROVE  /\ b % Modulus \in 0 .. Modulus - 1
           /\ b % Modulus \in Nat /\ b % Modulus <= b
           /\ b < Modulus => b % Modulus = b
<1>1. Modulus \in Nat \ {0}
  BY ModulusAssumption
<1> DEFINE q == b \div Modulus
           m == b % Modulus
<1>2. q \in Nat /\ m \in 0 .. Modulus - 1 /\ b = Modulus * q + m
  BY <1>1, SMTT(30)
<1> HIDE DEF q, m
<1>3. Modulus * q \in Nat
  BY <1>1, <1>2
<1>4. q = 0 \/ Modulus * 0 + Modulus <= Modulus * q
  <2>1. 0 + 1 <= q => Modulus * 0 + Modulus <= Modulus * q
    BY <1>1, <1>2, WireMonotone
  <2> QED
    BY <1>2, <2>1
<1>5. Modulus * 0 = 0
  BY <1>1
<1>6. b < Modulus => q = 0 /\ m = b
  BY <1>1, <1>2, <1>3, <1>4, <1>5
<1>7. m \in Nat /\ m <= b
  BY <1>1, <1>2, <1>3
<1> QED
  BY <1>2, <1>6, <1>7 DEF m

(****************************************************************************)
(* Messages.                                                                *)
(****************************************************************************)

\* A message of b bytes of which only the last one is an end.
ByEnd(stream, b) ==
    /\ stream \in Seq(Units) /\ Len(stream) = b /\ b # 0
    /\ \A i \in 1 .. b : stream[i] = End <=> i = b

\* A header for b bytes, and the bytes.
ByHdr(stream, b) ==
    /\ stream \in Seq(Units) /\ Len(stream) = b + 1
    /\ stream[1] = Hdr(b % Modulus)

LEMMA AllUnits ==
    /\ Byte \in Units /\ End \in Units /\ Null \in Units
    /\ \A b \in Nat : Hdr(b % Modulus) \in Units
    /\ Byte # End /\ Null # End
<1>1. 0 \in 0 .. Modulus - 1
  BY ModulusAssumption
<1> QED
  BY <1>1, Field DEF Units, Byte, End, Null, Hdr

LEMMA DataOf ==
    ASSUME NEW b \in Nat, NEW completion \in BOOLEAN
    PROVE  /\ Data(b, completion) \in Seq(Units) /\ Len(Data(b, completion)) = b
           /\ \A i \in 1 .. b : Data(b, completion)[i] = End <=> completion /\ i = b
<1> DEFINE unit(i) == IF completion /\ i = b THEN End ELSE Byte
           data == [i \in 1 .. b |-> unit(i)]
<1>1. \A i \in 1 .. b : unit(i) \in Units /\ (unit(i) = End <=> completion /\ i = b)
  BY AllUnits
<1>2. data = Data(b, completion)
  BY DEF Data
<1> HIDE DEF unit
<1>3. data \in Seq(Units) /\ Len(data) = b
  BY <1>1
<1>4. \A i \in 1 .. b : data[i] = unit(i)
  OBVIOUS
<1> QED
  BY <1>1, <1>2, <1>3, <1>4

\* Reading by a completion function takes such a message as a whole.
LEMMA EndIsRead ==
    ASSUME NEW stream, NEW b \in Nat, ByEnd(stream, b), NEW repr
    PROVE  /\ ReadEnd(stream) = b
           /\ Readable(stream, TRUE, repr)
           /\ Rest(stream, TRUE, repr) = << >>
           /\ Misread(stream, TRUE, repr) <=> repr # 1 \/ b # size
<1> DEFINE I == {i \in 1 .. Len(stream) : stream[i] = End}
<1>1. I = {b}
  BY DEF ByEnd
<1>2. ReadEnd(stream) = IF I # {} THEN Min(I) ELSE 0
  BY DEF ReadEnd, SelectInSeq
<1> HIDE DEF I
<1>3. Min({b}) = b
  BY DEF Min
<1>4. ReadEnd(stream) = b
  BY <1>1, <1>2, <1>3
<1>5. SubSeq(stream, b + 1, b) = << >>
  BY DEF ByEnd
<1> QED
  BY <1>4, <1>5 DEF Readable, Rest, Misread, ByEnd

\* Reading by the header takes a message as a whole if its size fits into the
\* header, and stays within the message otherwise.
LEMMA HdrIsRead ==
    ASSUME NEW stream, NEW n \in Nat, NEW repr \in Nat \ {0}, NEW b \in Nat, b = n * repr,
           ByHdr(stream, b)
    PROVE  /\ Readable(stream, FALSE, repr)
           /\ Rest(stream, FALSE, repr) \in Seq(Units)
           /\ n = size /\ ~Misread(stream, FALSE, repr) => Rest(stream, FALSE, repr) = << >>
           /\ n = size /\ b < Modulus => ~Misread(stream, FALSE, repr)
<1> DEFINE x == b % Modulus
           k == ReadSize(stream, repr)
<1>1. x \in Nat /\ x <= b /\ (b < Modulus => x = b)
  BY Field
<1>2. stream # << >> /\ Head(stream) = Hdr(x)
  BY DEF ByHdr
<1>3. Head(stream).size = x /\ Head(stream).is = "hdr"
  BY <1>2 DEF Hdr
<1>4. k = (x \div repr) * repr
  BY <1>3 DEF ReadSize
<1> HIDE DEF x, k
<1>5. k \in Nat /\ k <= b /\ (b < Modulus => k = b)
  <2>1. k \in Nat /\ k <= x
    BY <1>1, <1>4, WholeElements
  <2>2. (b \div repr) * repr = b
    BY WholeElements
  <2>3. x = b => k = b
    BY <1>4, <2>2, Zenon
  <2> QED
    BY <1>1, <2>1, <2>3
<1>6. Len(stream) = b + 1 /\ stream \in Seq(Units)
  BY DEF ByHdr
<1>7. Readable(stream, FALSE, repr)
  BY <1>2, <1>5, <1>6 DEF Readable, k
<1>8. Rest(stream, FALSE, repr) = SubSeq(stream, 2 + k, b + 1)
  BY <1>6 DEF Rest, k
<1>9. SubSeq(stream, 2 + k, b + 1) \in Seq(Units)
  BY <1>5, <1>6
<1>10. k = b => SubSeq(stream, 2 + k, b + 1) = << >>
  BY <1>5, <1>6
<1>11. Misread(stream, FALSE, repr) <=> k # size * repr
  BY <1>3 DEF Misread, k
<1> QED
  BY <1>5, <1>7, <1>8, <1>9, <1>10, <1>11

\* What the assertions say of a proto.
LEMMA ProtoOf ==
    ASSUME proto \in Protos, Accepted
    PROVE  /\ proto.requestRepr \in Nat \ {0} /\ proto.answerRepr \in Nat \ {0}
           /\ proto.requestCompletion \in BOOLEAN /\ proto.answerCompletion \in BOOLEAN
           /\ proto.requestHdr = "NullType" <=> proto.requestCompletion
           /\ proto.answerHdr = "NullType" <=> proto.answerCompletion
           /\ proto.serverSendsAnswer \in {"never", "atLeastHdr", "nothingIfNoData"}
  BY ReprSizesAssumption DEF Protos, Accepted, ServerCompiles, ClientCompiles

LEMMA Bytes ==
    ASSUME NEW n \in Nat, NEW repr \in Nat \ {0}
    PROVE  n * repr \in Nat /\ (n # 0 => n * repr # 0) /\ (repr = 1 => n * repr = n)
<1>1. n * repr \in Nat
  OBVIOUS
<1>2. n # 0 => repr * 0 + repr <= repr * n
  <2>1. n # 0 => 0 + 1 <= n
    OBVIOUS
  <2> QED
    BY <2>1, WireMonotone
<1>3. repr * 0 = 0 /\ repr * n = n * repr
  OBVIOUS
<1> QED
  BY <1>1, <1>2, <1>3

LEMMA RequestIsMessage ==
    ASSUME proto \in Protos, Accepted, NEW n \in Nat
    PROVE  /\ Request(n) \in Seq(Units)
           /\ proto.requestCompletion /\ n # 0 => ByEnd(Request(n), n * proto.requestRepr)
           /\ ~proto.requestCompletion => ByHdr(Request(n), n * proto.requestRepr)
<1> DEFINE b == n * proto.requestRepr
           data == Data(b, proto.requestCompletion)
<1>1. b \in Nat /\ (n # 0 => b # 0)
  BY ProtoOf, Bytes
<1>2. Request(n) = IF proto.requestHdr = "NullType" THEN << >> \o data
                                                   ELSE << Hdr(b % Modulus) >> \o data
  BY DEF Request, SizeField
<1> HIDE DEF b
<1>3. /\ data \in Seq(Units) /\ Len(data) = b
      /\ \A i \in 1 .. b : data[i] = End <=> proto.requestCompletion /\ i = b
  BY <1>1, ProtoOf, DataOf
<1> HIDE DEF data
<1>4. << >> \o data = data
  BY <1>3
<1>5. /\ << Hdr(b % Modulus) >> \o data \in Seq(Units)
      /\ Len(<< Hdr(b % Modulus) >> \o data) = b + 1
      /\ (<< Hdr(b % Modulus) >> \o data)[1] = Hdr(b % Modulus)
  <2>1. Hdr(b % Modulus) \in Units
    BY <1>1, AllUnits
  <2> QED
    BY <1>1, <1>3, <2>1
<1>6. proto.requestHdr = "NullType" <=> proto.requestCompletion
  BY ProtoOf
<1>7. CASE proto.requestCompletion
  BY <1>1, <1>2, <1>3, <1>4, <1>6, <1>7 DEF ByEnd, b
<1>8. CASE ~proto.requestCompletion
  BY <1>1, <1>2, <1>5, <1>6, <1>8 DEF ByHdr, b
<1> QED
  BY <1>7, <1>8

\* An answer by a completion function may begin with the byte of a NullType object.
LEMMA AnswerIsMessage ==
    ASSUME proto \in Protos, Accepted, NEW n \in Nat,
           proto.serverSendsAnswer # "never",
           proto.answerCompletion \/ proto.serverSendsAnswer = "nothingIfNoData" => n # 0
    PROVE  /\ Answer(n) \in Seq(Units)
           /\ proto.answerCompletion /\ proto.serverSendsAnswer = "nothingIfNoData" =>
                ByEnd(Answer(n), n * proto.answerRepr)
           /\ proto.answerCompletion /\ proto.serverSendsAnswer = "atLeastHdr" =>
                ByEnd(Answer(n), n * proto.answerRepr + 1)
           /\ ~proto.answerCompletion => ByHdr(Answer(n), n * proto.answerRepr)
<1> DEFINE b == n * proto.answerRepr
           data == Data(b, proto.answerCompletion)
           hdr == Hdr(b % Modulus)
<1>1. b \in Nat /\ (n # 0 => b # 0)
  BY ProtoOf, Bytes
<1>2. Answer(n) = AnswerHdr(n) \o data
  BY DEF Answer
<1>3. AnswerHdr(n) = IF proto.answerHdr # "NullType" THEN << hdr >>
                     ELSE IF proto.serverSendsAnswer = "atLeastHdr" THEN << Null >>
                     ELSE << >>
  <2> DEFINE bare == [case |-> "nothingIfNoData", hdr |-> "NullType"]
             none == \/ bare \in WriteAnswerSw
                     \/ proto.serverSendsAnswer = "nothingIfNoData" /\ n = 0
  <2>1. bare \in WriteAnswerSw <=>
          proto.serverSendsAnswer = "nothingIfNoData" /\ proto.answerHdr = "NullType"
    <3>1. DOMAIN bare = {"case", "hdr"}
      OBVIOUS
    <3>2. DOMAIN [case |-> proto.serverSendsAnswer] = {"case"}
          /\ DOMAIN [case |-> "nothingIfNoData"] = {"case"}
      OBVIOUS
    <3>3. bare # [case |-> proto.serverSendsAnswer] /\ bare # [case |-> "nothingIfNoData"]
      BY <3>1, <3>2
    <3> HIDE DEF bare
    <3>4. proto.serverSendsAnswer \in {"never", "atLeastHdr", "nothingIfNoData"}
      BY ProtoOf
    <3> QED
      BY <3>3, <3>4, Writer DEF bare
  <2>2. AnswerHdr(n) = IF none THEN << >>
                       ELSE IF proto.answerHdr = "NullType" THEN << Null >> ELSE << hdr >>
    BY DEF AnswerHdr, SizeField
  <2>3. /\ proto.serverSendsAnswer = "atLeastHdr" \/ proto.serverSendsAnswer = "nothingIfNoData"
        /\ proto.serverSendsAnswer = "nothingIfNoData" => n # 0
    BY ProtoOf
  <2> HIDE DEF bare
  <2>4. none <=> proto.serverSendsAnswer = "nothingIfNoData" /\ proto.answerHdr = "NullType"
    BY <2>1, <2>3
  <2> HIDE DEF none, hdr
  <2> QED
    BY <2>2, <2>3, <2>4
<1> HIDE DEF b
<1>4. /\ data \in Seq(Units) /\ Len(data) = b
      /\ \A i \in 1 .. b : data[i] = End <=> proto.answerCompletion /\ i = b
  BY <1>1, ProtoOf, DataOf
<1>5. hdr \in Units /\ Null \in Units /\ Null # End
  BY <1>1, AllUnits
<1> HIDE DEF data, hdr
<1>6. << >> \o data = data
  BY <1>4
<1>7. /\ << hdr >> \o data \in Seq(Units) /\ Len(<< hdr >> \o data) = b + 1
      /\ (<< hdr >> \o data)[1] = hdr
  BY <1>1, <1>4, <1>5
<1>8. /\ << Null >> \o data \in Seq(Units) /\ Len(<< Null >> \o data) = b + 1
      /\ (<< Null >> \o data)[1] = Null
      /\ \A i \in 2 .. b + 1 : (<< Null >> \o data)[i] = data[i - 1]
  BY <1>1, <1>4, <1>5
<1>9. proto.answerHdr = "NullType" <=> proto.answerCompletion
  BY ProtoOf
<1>10. CASE ~proto.answerCompletion
  BY <1>1, <1>2, <1>3, <1>7, <1>9, <1>10 DEF ByHdr, hdr, b
<1>11. CASE proto.answerCompletion /\ proto.serverSendsAnswer = "nothingIfNoData"
  BY <1>1, <1>2, <1>3, <1>4, <1>6, <1>9, <1>11 DEF ByEnd, b
<1>12. CASE proto.answerCompletion /\ proto.serverSendsAnswer = "atLeastHdr"
  <2> DEFINE stream == << Null >> \o data
  <2>1. Answer(n) = stream
    BY <1>2, <1>3, <1>9, <1>12
  <2>2. \A i \in 1 .. b + 1 : stream[i] = End <=> i = b + 1
    <3>1. stream[1] # End /\ 1 # b + 1
      BY <1>1, <1>5, <1>8, <1>12
    <3>2. \A i \in 2 .. b + 1 : i - 1 \in 1 .. b /\ (i - 1 = b <=> i = b + 1)
      BY <1>1
    <3>3. \A i \in 2 .. b + 1 : stream[i] = End <=> i = b + 1
      BY <1>4, <1>8, <1>12, <3>2
    <3>4. \A i \in 1 .. b + 1 : i = 1 \/ i \in 2 .. b + 1
      BY <1>1
    <3> HIDE DEF stream
    <3> QED
      BY <3>1, <3>3, <3>4
  <2>3. ByEnd(stream, b + 1)
    BY <1>1, <1>8, <2>2 DEF ByEnd
  <2> QED
    BY <1>12, <2>1, <2>3, <1>8 DEF b
<1> QED
  BY <1>10, <1>11, <1>12, ProtoOf

(****************************************************************************)
(* The steps.                                                               *)
(****************************************************************************)

LEMMA InitInv == Init => IInv
<1> SUFFICES ASSUME Init PROVE IInv
  OBVIOUS
<1>1. TypeOK
  <2>1. << >> \in Seq(Units) /\ 0 \in 0 .. MaxElements /\ 0 \in 0 .. MaxCalls
    BY BoundsAssumption
  <2> QED
    BY <2>1 DEF Init, TypeOK
<1>2. CompiledOnce /\ Streams /\ Faithful
  BY DEF Init, CompiledOnce, Streams, Faithful
<1> QED
  BY <1>1, <1>2 DEF IInv

\* Steps that leave proto and params alone leave what Compile asks.
LEMMA AcceptedStays == UNCHANGED << proto, params >> => (Accepted' <=> Accepted)
  BY DEF Accepted, Transferable, ServerCompiles, ClientCompiles, AnswerHdrIsNullType,
     TaskManagerIsNullType, OnlyNonProto

LEMMA WrappedTyped ==
    ASSUME TypeOK
    PROVE  /\ proto \in Protos /\ params \in ParamSets
           /\ up \in Seq(Units) /\ down \in Seq(Units)
           /\ size \in 0 .. MaxElements /\ size \in Nat /\ calls \in 0 .. MaxCalls
           /\ wrapped \in BOOLEAN /\ misread \in BOOLEAN
           /\ MaxElements \in Nat /\ MaxCalls \in Nat
  BY BoundsAssumption DEF TypeOK

LEMMA CompileStep == IInv /\ Compile => IInv'
<1> SUFFICES ASSUME IInv, Compile PROVE IInv'
  OBVIOUS
<1>1. /\ UNCHANGED << proto, params, up, down, size, calls, wrapped, misread >>
      /\ at = "compile" /\ at' = IF Accepted THEN "call" ELSE "refused"
  BY DEF Compile, Accepted
<1>2. TypeOK'
  BY <1>1 DEF IInv, TypeOK
<1>3. CompiledOnce'
  BY <1>1, AcceptedStays DEF CompiledOnce
<1>4. Streams'
  BY <1>1 DEF IInv, Streams
<1>5. Faithful'
  BY <1>1 DEF IInv, Faithful, SoundProto
<1> QED
  BY <1>2, <1>3, <1>4, <1>5 DEF IInv

LEMMA SendStep ==
    ASSUME IInv, NEW n \in 0 .. MaxElements, Send(n)
    PROVE  IInv'
<1>1. /\ UNCHANGED << proto, params, down, wrapped, misread >>
      /\ at = "call" /\ at' = "request" /\ ~misread
      /\ calls < MaxCalls /\ calls' = calls + 1 /\ size' = n
      /\ up' = up \o Request(n)
      /\ proto.requestCompletion => n > 0
  BY DEF Send
<1>2. TypeOK /\ Accepted /\ n \in Nat /\ up = << >> /\ down = << >>
  BY <1>1, WrappedTyped DEF IInv, CompiledOnce, Streams
<1>3. Request(n) \in Seq(Units)
  BY <1>2, RequestIsMessage DEF TypeOK
<1>4. up' = Request(n)
  BY <1>1, <1>2, <1>3
<1>5. TypeOK'
  <2>1. calls' \in 0 .. MaxCalls
    BY <1>1, <1>2, WrappedTyped
  <2> QED
    BY <1>1, <1>2, <1>3, <1>4, <2>1 DEF TypeOK
<1>6. CompiledOnce'
  BY <1>1, <1>2, AcceptedStays DEF CompiledOnce
<1>7. Request(size)' = Request(n)
  BY <1>1 DEF Request, SizeField, Data
<1>8. Streams' /\ Faithful'
  BY <1>1, <1>2, <1>4, <1>7 DEF IInv, Streams, Faithful, SoundProto
<1> QED
  BY <1>5, <1>6, <1>8 DEF IInv

\* What reading a message does to the stream, and whether it is read as it was sent.
LEMMA MessageRead ==
    ASSUME TypeOK, NEW stream \in Seq(Units), NEW completion \in BOOLEAN, NEW repr \in Nat \ {0},
           \/ completion /\ ByEnd(stream, size * repr)
           \/ completion /\ ByEnd(stream, size * repr + 1)
           \/ ~completion /\ ByHdr(stream, size * repr)
    PROVE  /\ Readable(stream, completion, repr)
           /\ Rest(stream, completion, repr) \in Seq(Units)
           /\ ~Misread(stream, completion, repr) => Rest(stream, completion, repr) = << >>
           /\ completion /\ ByEnd(stream, size * repr) /\ repr = 1 =>
                ~Misread(stream, completion, repr)
           /\ ~completion /\ size * repr < Modulus => ~Misread(stream, completion, repr)
<1> DEFINE b == size * repr
<1>1. size \in Nat /\ b \in Nat /\ b + 1 \in Nat /\ (repr = 1 => b = size)
  BY WrappedTyped, Bytes
<1>2. << >> \in Seq(Units)
  OBVIOUS
<1>3. CASE completion /\ ByEnd(stream, b)
  <2>1. completion = TRUE
    BY <1>3
  <2>2. /\ Readable(stream, TRUE, repr) /\ Rest(stream, TRUE, repr) = << >>
        /\ Misread(stream, TRUE, repr) <=> repr # 1 \/ b # size
    BY <1>1, <1>3, EndIsRead
  <2> QED
    BY <1>1, <1>2, <2>1, <2>2
<1>4. CASE completion /\ ByEnd(stream, b + 1)
  <2>1. completion = TRUE
    BY <1>4
  <2>2. /\ Readable(stream, TRUE, repr) /\ Rest(stream, TRUE, repr) = << >>
    BY <1>1, <1>4, EndIsRead
  <2>3. ~ByEnd(stream, b)
    BY <1>1, <1>4 DEF ByEnd
  <2> QED
    BY <1>2, <2>1, <2>2, <2>3
<1>5. CASE ~completion /\ ByHdr(stream, b)
  <2>1. completion = FALSE
    BY <1>5
  <2>2. /\ Readable(stream, FALSE, repr)
        /\ Rest(stream, FALSE, repr) \in Seq(Units)
        /\ ~Misread(stream, FALSE, repr) => Rest(stream, FALSE, repr) = << >>
        /\ b < Modulus => ~Misread(stream, FALSE, repr)
    BY <1>1, <1>5, HdrIsRead
  <2> QED
    BY <2>1, <2>2
<1> QED
  BY <1>3, <1>4, <1>5

LEMMA ReadRequestStep == IInv /\ ReadRequest => IInv'
<1> SUFFICES ASSUME IInv, ReadRequest PROVE IInv'
  OBVIOUS
<1> DEFINE completion == proto.requestCompletion
           repr == proto.requestRepr
           wrong == Misread(up, completion, repr)
<1>1. /\ UNCHANGED << proto, params, down, size, calls >>
      /\ at = "request" /\ at' = "payload"
      /\ misread' = (misread \/ wrong)
      /\ wrapped' = (wrapped \/ Wraps(proto.requestHdr, repr))
      /\ up' = Rest(up, completion, repr)
  BY DEF ReadRequest
<1>2. /\ TypeOK /\ Accepted /\ up = Request(size) /\ down = << >> /\ ~misread
      /\ completion => size > 0
  BY <1>1 DEF IInv, CompiledOnce, Streams
<1>3. /\ size \in Nat /\ up \in Seq(Units) /\ repr \in Nat \ {0} /\ completion \in BOOLEAN
      /\ proto.requestHdr = "NullType" <=> completion
  BY <1>2, WrappedTyped, ProtoOf
<1>4. \/ completion /\ ByEnd(up, size * repr)
      \/ ~completion /\ ByHdr(up, size * repr)
  <2>1. completion => size # 0
    BY <1>2, <1>3
  <2> QED
    BY <1>2, <1>3, <2>1, RequestIsMessage, WrappedTyped
<1>5. /\ up' \in Seq(Units)
      /\ ~wrong => up' = << >>
      /\ completion /\ repr = 1 => ~wrong
      /\ ~completion /\ size * repr < Modulus => ~wrong
  BY <1>1, <1>2, <1>3, <1>4, MessageRead
<1>6. Wraps(proto.requestHdr, repr) \in BOOLEAN /\ wrong \in BOOLEAN
  BY DEF Wraps, Misread
<1>7. TypeOK'
  <2>1. {wrapped', misread'} \subseteq BOOLEAN
    BY <1>1, Zenon
  <2> QED
    BY <1>1, <1>2, <1>5, <2>1 DEF TypeOK
<1>8. CompiledOnce'
  BY <1>1, <1>2, AcceptedStays DEF CompiledOnce
<1> HIDE DEF wrong
<1>9. Streams'
  BY <1>1, <1>2, <1>5 DEF Streams
<1>10. Faithful'
  <2>1. SoundProto' => (completion => repr = 1)
    BY <1>1 DEF SoundProto
  <2>2. ~wrapped' => completion \/ size * repr < Modulus
    <3>1. ~wrapped' => ~wrapped /\ ~Wraps(proto.requestHdr, repr)
      BY <1>1, Zenon
    <3>2. size * repr \in Nat /\ Modulus \in Nat
      BY <1>3, ModulusAssumption
    <3>3. ~Wraps(proto.requestHdr, repr) =>
            proto.requestHdr = "NullType" \/ size * repr < Modulus
      BY <3>2 DEF Wraps
    <3> QED
      BY <1>3, <3>1, <3>3
  <2>3. SoundProto' /\ ~wrapped' => ~wrong
    BY <1>5, <2>1, <2>2
  <2> QED
    BY <1>1, <1>2, <2>3 DEF Faithful
<1> QED
  BY <1>7, <1>8, <1>9, <1>10 DEF IInv

LEMMA WriteAnswerStep ==
    ASSUME IInv, NEW n \in 0 .. MaxElements, WriteAnswer(n)
    PROVE  IInv'
<1>1. /\ UNCHANGED << proto, params, up, calls, wrapped, misread >>
      /\ at = "payload" /\ at' = "answer" /\ size' = n
      /\ proto.serverSendsAnswer # "never"
      /\ proto.answerCompletion \/ proto.serverSendsAnswer = "nothingIfNoData" => n > 0
      /\ down' = down \o Answer(n)
  BY DEF WriteAnswer
<1>2. /\ TypeOK /\ Accepted /\ n \in Nat /\ down = << >> /\ (~misread => up = << >>)
  BY <1>1, WrappedTyped DEF IInv, CompiledOnce, Streams
<1>3. Answer(n) \in Seq(Units)
  BY <1>1, <1>2, AnswerIsMessage DEF TypeOK
<1>4. down' = Answer(n)
  BY <1>1, <1>2, <1>3
<1>5. TypeOK'
  BY <1>1, <1>2, <1>3, <1>4 DEF TypeOK
<1>6. CompiledOnce'
  BY <1>1, <1>2, AcceptedStays DEF CompiledOnce
<1>7. Answer(size)' = Answer(n)
  BY <1>1 DEF Answer, AnswerHdr, WriteAnswerSw, SizeField, Data
<1>8. Streams' /\ Faithful'
  BY <1>1, <1>2, <1>4, <1>7 DEF IInv, Streams, Faithful, SoundProto
<1> QED
  BY <1>5, <1>6, <1>8 DEF IInv

LEMMA ReadAnswerStep == IInv /\ ReadAnswer => IInv'
<1> SUFFICES ASSUME IInv, ReadAnswer PROVE IInv'
  OBVIOUS
<1> DEFINE completion == proto.answerCompletion
           repr == proto.answerRepr
           wrong == Misread(down, completion, repr)
<1>1. /\ UNCHANGED << proto, params, up, size, calls >>
      /\ at = "answer" /\ at' = "call"
      /\ misread' = (misread \/ wrong)
      /\ wrapped' = (wrapped \/ Wraps(proto.answerHdr, repr))
      /\ down' = Rest(down, completion, repr)
  BY DEF ReadAnswer
<1>2. /\ TypeOK /\ Accepted /\ down = Answer(size) /\ (~misread => up = << >>)
      /\ proto.serverSendsAnswer # "never"
      /\ completion \/ proto.serverSendsAnswer = "nothingIfNoData" => size > 0
  BY <1>1 DEF IInv, CompiledOnce, Streams
<1>3. /\ size \in Nat /\ down \in Seq(Units) /\ repr \in Nat \ {0} /\ completion \in BOOLEAN
      /\ proto.answerHdr = "NullType" <=> completion
      /\ proto.serverSendsAnswer \in {"never", "atLeastHdr", "nothingIfNoData"}
      /\ proto \in Protos
  BY <1>2, WrappedTyped, ProtoOf
<1>4. /\ \/ completion /\ ByEnd(down, size * repr)
         \/ completion /\ ByEnd(down, size * repr + 1)
         \/ ~completion /\ ByHdr(down, size * repr)
      /\ completion /\ proto.serverSendsAnswer # "atLeastHdr" => ByEnd(down, size * repr)
  <2>1. completion \/ proto.serverSendsAnswer = "nothingIfNoData" => size # 0
    BY <1>2, <1>3
  <2> QED
    BY <1>2, <1>3, <2>1, AnswerIsMessage
<1>5. /\ down' \in Seq(Units)
      /\ ~wrong => down' = << >>
      /\ completion /\ ByEnd(down, size * repr) /\ repr = 1 => ~wrong
      /\ ~completion /\ size * repr < Modulus => ~wrong
  BY <1>1, <1>2, <1>3, <1>4, MessageRead
<1>6. Wraps(proto.answerHdr, repr) \in BOOLEAN /\ wrong \in BOOLEAN
  BY DEF Wraps, Misread
<1>7. TypeOK'
  <2>1. {wrapped', misread'} \subseteq BOOLEAN
    BY <1>1, Zenon
  <2> QED
    BY <1>1, <1>2, <1>5, <2>1 DEF TypeOK
<1>8. CompiledOnce'
  BY <1>1, <1>2, AcceptedStays DEF CompiledOnce
<1> HIDE DEF wrong
<1>9. Streams'
  BY <1>1, <1>2, <1>5 DEF Streams
<1>10. Faithful'
  <2>1. SoundProto' => SoundProto /\ (completion => repr = 1 /\ ByEnd(down, size * repr))
    BY <1>1, <1>3, <1>4 DEF SoundProto
  <2>2. ~wrapped' => ~wrapped /\ (completion \/ size * repr < Modulus)
    <3>1. ~wrapped' => ~wrapped /\ ~Wraps(proto.answerHdr, repr)
      BY <1>1, Zenon
    <3>2. size * repr \in Nat /\ Modulus \in Nat
      BY <1>3, ModulusAssumption
    <3>3. ~Wraps(proto.answerHdr, repr) =>
            proto.answerHdr = "NullType" \/ size * repr < Modulus
      BY <3>2 DEF Wraps
    <3> QED
      BY <1>3, <3>1, <3>3
  <2>3. SoundProto' /\ ~wrapped' => ~wrong /\ ~misread
    BY <1>5, <2>1, <2>2 DEF IInv, Faithful
  <2> QED
    BY <1>1, <2>3 DEF Faithful
<1> QED
  BY <1>7, <1>8, <1>9, <1>10 DEF IInv

LEMMA NoAnswerStep == IInv /\ (NoAnswer \/ UNCHANGED vars) => IInv'
<1> SUFFICES ASSUME IInv, NoAnswer \/ UNCHANGED vars PROVE IInv'
  OBVIOUS
<1>1. /\ UNCHANGED << proto, params, up, down, size, calls, wrapped, misread >>
      /\ at' = at \/ (at = "payload" /\ at' = "call")
  BY DEF NoAnswer, vars
<1>2. TypeOK'
  BY <1>1 DEF IInv, TypeOK
<1>3. CompiledOnce'
  BY <1>1, AcceptedStays DEF IInv, CompiledOnce
<1>4. Request(size)' = Request(size) /\ Answer(size)' = Answer(size)
  BY <1>1 DEF Request, Answer, AnswerHdr, WriteAnswerSw, SizeField, Data
<1>5. Streams' /\ Faithful'
  BY <1>1, <1>4 DEF IInv, Streams, Faithful, SoundProto
<1> QED
  BY <1>2, <1>3, <1>5 DEF IInv

LEMMA Invariance == Spec => []IInv
<1>1. IInv /\ [Next]_vars => IInv'
  BY CompileStep, SendStep, ReadRequestStep, WriteAnswerStep, ReadAnswerStep, NoAnswerStep
  DEF Next
<1> QED
  BY <1>1, InitInv, PTL DEF Spec

(****************************************************************************)
(* The theorems.                                                            *)
(****************************************************************************)

\* Every variable keeps its type; in particular nothing but units is on a stream.
THEOREM TypeCorrect == Spec => []TypeOK
<1>1. IInv => TypeOK
  BY DEF IInv
<1> QED
  BY <1>1, Invariance, PTL

\* For every proto that compiles there is exactly one overload of writeAnswerSw and
\* one of readAnswerSw to call.
THEOREM OneOverload == Spec => []AssertsCoverOverloads
<1>1. \A f : Cardinality({f}) = 1
  BY FS_Singleton
<1>2. ASSUME IInv, at \notin {"compile", "refused"}
      PROVE  Cardinality(WriteAnswerSw) = 1 /\ Cardinality(ReadAnswerSw) = 1
  <2>1. proto \in Protos /\ Accepted
    BY <1>2 DEF IInv, TypeOK, CompiledOnce
  <2>2. \E f : ReadAnswerSw = {f}
    BY <2>1, Reader DEF Accepted
  <2>3. \E f : WriteAnswerSw = {f}
    BY <2>1, Writer, ProtoOf
  <2> QED
    BY <1>1, <2>2, <2>3
<1>3. IInv => AssertsCoverOverloads
  BY <1>2 DEF AssertsCoverOverloads
<1> QED
  BY <1>3, Invariance, PTL

\* The static_asserts do not refuse what the six examples are compiled with, however
\* long an element of suchATricky2's answers is.
THEOREM ExamplesPass == Spec => []ExamplesCompile
<1>1. ASSUME << proto, params >> \in Examples
      PROVE  Accepted
  <2> USE DEF Accepted, Transferable, ServerCompiles, ClientCompiles, AnswerHdrIsNullType,
              TaskManagerIsNullType, OnlyNonProto, ProtoComponents
  <2>1. CASE proto = Default /\ params = {}
    BY <2>1 DEF Default
  <2>2. CASE proto = ProtoStrings /\ params = {}
    BY <2>2 DEF ProtoStrings, Default
  <2>3. CASE proto = ProtoWithSessionHdr /\ params = {}
    BY <2>3 DEF ProtoWithSessionHdr, Default
  <2>4. CASE proto = ProtoWithoutAnswer /\ params = {"SessionThreadPoolIs"}
    BY <2>4 DEF ProtoWithoutAnswer, Default
  <2>5. ASSUME NEW r \in ReprSizes, proto = ProtoWithAnyHdr(r), params = {}
        PROVE  Accepted
    BY <2>5 DEF ProtoWithAnyHdr, Default
  <2>6. << proto, params >> \in Examples
    BY <1>1
  <2> QED
    BY <2>6, <2>1, <2>2, <2>3, <2>4, <2>5 DEF Examples
<1>2. IInv => ExamplesCompile
  BY <1>1 DEF IInv, CompiledOnce, ExamplesCompile
<1> QED
  BY <1>2, Invariance, PTL

\* Both ends stay in step: with a sound proto every message whose size fits into its
\* header is taken from the stream as it was put there, and nobody waits in vain.
THEOREM EndsStayInStep == Spec => []InStep
<1>1. ASSUME IInv, SoundProto, ~wrapped
      PROVE  /\ ~misread
             /\ at = "call" => up = << >> /\ down = << >>
             /\ at = "request" => Readable(up, proto.requestCompletion, proto.requestRepr)
             /\ at = "answer" => Readable(down, proto.answerCompletion, proto.answerRepr)
  <2>1. ~misread /\ TypeOK /\ proto \in Protos /\ size \in Nat
        /\ up \in Seq(Units) /\ down \in Seq(Units)
    BY <1>1, WrappedTyped DEF IInv, Faithful
  <2>2. at = "call" => up = << >> /\ down = << >>
    BY <1>1, <2>1 DEF IInv, Streams
  <2>3. ASSUME at = "request"
        PROVE  Readable(up, proto.requestCompletion, proto.requestRepr)
    <3>1. Accepted /\ up = Request(size) /\ (proto.requestCompletion => size # 0)
      BY <1>1, <2>1, <2>3 DEF IInv, CompiledOnce, Streams
    <3>2. \/ proto.requestCompletion /\ ByEnd(up, size * proto.requestRepr)
          \/ ~proto.requestCompletion /\ ByHdr(up, size * proto.requestRepr)
      BY <2>1, <3>1, RequestIsMessage
    <3> QED
      BY <2>1, <3>1, <3>2, ProtoOf, MessageRead
  <2>4. ASSUME at = "answer"
        PROVE  Readable(down, proto.answerCompletion, proto.answerRepr)
    <3>1. /\ Accepted /\ down = Answer(size) /\ proto.serverSendsAnswer # "never"
          /\ proto.answerCompletion \/ proto.serverSendsAnswer = "nothingIfNoData" => size # 0
      BY <1>1, <2>1, <2>4 DEF IInv, CompiledOnce, Streams
    <3>2. \/ proto.answerCompletion /\ ByEnd(down, size * proto.answerRepr)
          \/ proto.answerCompletion /\ ByEnd(down, size * proto.answerRepr + 1)
          \/ ~proto.answerCompletion /\ ByHdr(down, size * proto.answerRepr)
      BY <2>1, <3>1, AnswerIsMessage, ProtoOf
    <3> QED
      BY <2>1, <3>1, <3>2, ProtoOf, MessageRead
  <2> QED
    BY <2>1, <2>2, <2>3, <2>4
<1>2. IInv => InStep
  BY <1>1 DEF InStep
<1> QED
  BY <1>2, Invariance, PTL
=============================================================================
