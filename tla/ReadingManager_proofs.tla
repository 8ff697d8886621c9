------------------------- MODULE ReadingManager_proofs -------------------------
(* Machine-checked safety of ReadingManager, for bytes and buffers of any     *)
(* size: no request is missed, there is always room to receive into, and the  *)
(* requests are those of Framing.                                             *)
EXTENDS ReadingManager, WellFoundedInduction, SequenceTheorems, TLAPS

\* A set of numbers that is not empty has a least one, which is Min's.
LEMMA LeastIsMin ==
  ASSUME NEW S, S \subseteq Nat, S # {}
  PROVE  Min(S) \in S /\ \A y \in S : Min(S) <= y
<1> DEFINE less == {ss \in Nat \X Nat : ss[1] < ss[2]}
<1>1. IsWellFoundedOn(less, Nat)
  BY NatLessThanWellFounded, Zenon DEF OpToRel
<1>2. PICK x \in S : \A y \in S : ~(<<y, x>> \in less)
  <2> HIDE DEF less
  <2> QED
    BY <1>1, WFMin
<1>3. \A u, v \in Nat : u < v => << u, v >> \in less
  OBVIOUS
<1> HIDE DEF less
<1>4. ASSUME NEW y \in S PROVE x <= y
  <2>1. x \in Nat /\ y \in Nat
    OBVIOUS
  <2>2. ~(<< y, x >> \in less)
    BY <1>2
  <2>3. ~(y < x)
    BY <2>1, <2>2, <1>3
  <2> QED
    BY <2>1, <2>3
<1> QED
  BY <1>4 DEF Min

\* ReadUntilNull finds the first null byte not yet looked at, or none.
LEMMA FirstNull ==
  ASSUME NEW buffer, NEW from \in Nat, NEW n \in Nat
  PROVE  \/ /\ ReadUntilNull(buffer, from, n) \in from + 1 .. n
            /\ buffer[ReadUntilNull(buffer, from, n)] = 0
            /\ \A i \in from + 1 .. ReadUntilNull(buffer, from, n) - 1 : buffer[i] # 0
         \/ /\ ReadUntilNull(buffer, from, n) = 0
            /\ \A i \in from + 1 .. n : buffer[i] # 0
<1> DEFINE I == {i \in from + 1 .. n : buffer[i] = 0}
<1>1. ReadUntilNull(buffer, from, n) = IF I # {} THEN Min(I) ELSE 0
  BY DEF ReadUntilNull, SelectInSubSeq
<1>2. I \subseteq Nat
  BY SMT
<1>3. CASE I = {}
  BY <1>1, <1>3
<1>4. CASE I # {}
  <2>1. Min(I) \in I /\ \A y \in I : Min(I) <= y
    BY <1>2, <1>4, LeastIsMin
  <2> QED
    BY <1>1, <1>4, <2>1
<1> QED
  BY <1>3, <1>4
----------------------------------------------------------------------------
(* The invariant.  The bytes in the buffer, or in dataRest between two calls, *)
(* are the last ones received.                                                *)

\* The first n bytes of the buffer are those which the peer sent behind its c-th.
Holds(buffer, c, n) == \A i \in 1 .. n : buffer[i] = sent[c + i]

NoNull(buffer, n) == \A i \in 1 .. n : buffer[i] # 0

IdleInv ==
    state = "idle" =>
      /\ Len(dataRest) <= received
      /\ Holds(dataRest, received - Len(dataRest), Len(dataRest))

ReceivingInv ==
    state \in {"receiving", "ended"} =>
      /\ dataRest = << >>
      /\ offset = accumulated
      /\ accumulated <= received
      /\ accumulated < Len(data)
      /\ Holds(data, received - accumulated, accumulated)
      /\ NoNull(data, accumulated)

Inv == TypeOK /\ IdleInv /\ ReceivingInv

USE BytesAssumption, BufferAssumption, BoundAssumption

\* The zeros that resize() adds are bytes, too.
LEMMA ByteInNat == Byte \subseteq Nat /\ 0 \in Byte /\ Bytes \subseteq Byte
  BY DEF Byte

\* A new ReadingManager has received nothing.
LEMMA InitInv == Init => Inv
  BY DEF Init, Inv, TypeOK, IdleInv, ReceivingInv, Holds

----------------------------------------------------------------------------
(* The buffer.                                                              *)

\* beforeRecv leaves what was received where it is, and makes room behind it.
LEMMA GrownRoom ==
  ASSUME NEW buffer \in Seq(Byte), NEW n \in 0 .. Len(buffer)
  PROVE  /\ Grown(buffer, n) \in Seq(Byte)
         /\ n < Len(Grown(buffer, n))
         /\ \A i \in 1 .. n : Grown(buffer, n)[i] = buffer[i]
<1>1. CASE Len(buffer) > n
  BY <1>1 DEF Grown
<1>2. CASE ~(Len(buffer) > n)
  <2> DEFINE size == IF n > 0 THEN 2 * n ELSE InitBufferSize
             resized == [i \in 1 .. size |-> IF i <= Len(buffer) THEN buffer[i] ELSE 0]
  <2>1. size \in Nat /\ size > n /\ n \in Nat
    OBVIOUS
  <2>2. Grown(buffer, n) = resized
    BY <1>2 DEF Grown, Resized
  <2> HIDE DEF size
  <2>3. \A i \in 1 .. size : resized[i] \in Byte
    BY <2>1, ByteInNat
  <2>4. resized \in Seq(Byte) /\ Len(resized) = size
    BY <2>1, <2>3
  <2>5. \A i \in 1 .. n : resized[i] = buffer[i]
    BY <2>1, <1>2
  <2> QED
    BY <2>1, <2>2, <2>4, <2>5
<1> QED
  BY <1>1, <1>2

\* readAndDoSw, on a buffer whose first n bytes the peer sent behind its c-th and of
\* which the completion function has seen `from': either it hands over the bytes to
\* the first null byte and keeps the others, or there is none, and room for more.
Cut(c, n, size) ==
    /\ sent[c + size] = 0 /\ \A i \in c + 1 .. c + size - 1 : sent[i] # 0
    /\ state' = "idle"
    /\ delivered' = Append(delivered, SubSeq(sent, c + 1, c + size))
    /\ data' \in Seq(Byte)
    /\ dataRest' \in Seq(Byte) /\ Len(dataRest') = n - size
    /\ \A i \in 1 .. n - size : dataRest'[i] = sent[c + size + i]

Wait(c, n) ==
    /\ state' = "receiving"
    /\ delivered' = delivered
    /\ dataRest' = << >>
    /\ data' \in Seq(Byte) /\ n < Len(data')
    /\ offset' = n
    /\ \A i \in 1 .. n : data'[i] = sent[c + i]
    /\ \A i \in 1 .. n : data'[i] # 0

\* Of the two there is always one.
LEMMA ReadAndDoCuts ==
  ASSUME NEW buffer \in Seq(Byte), NEW n \in 0 .. Len(buffer), NEW from \in 0 .. n, NEW c \in Nat,
         sent \in Seq(Byte), c + n <= Len(sent),
         Holds(buffer, c, n), NoNull(buffer, from),
         ReadAndDo(buffer, << >>, from, n)
  PROVE  /\ accumulated' = n /\ offset' \in 0 .. n
         /\ Wait(c, n) \/ \E size \in 1 .. n : Cut(c, n, size)
<1> DEFINE size == ReadUntilNull(buffer, from, n)
<1>1. /\ size \in Nat /\ size <= n
      /\ size > 0 => buffer[size] = 0 /\ NoNull(buffer, size - 1)
      /\ size = 0 => NoNull(buffer, n)
  BY FirstNull DEF NoNull
<1>2. /\ accumulated' = n
      /\ \/ /\ size > 0
            /\ AfterReading(buffer, << >>, n, size)
            /\ offset' = from
            /\ delivered' = Append(delivered, data')
            /\ state' = "idle"
         \/ /\ size = 0
            /\ offset' = n
            /\ data' = Grown(buffer, n)
            /\ dataRest' = << >>
            /\ state' = "receiving"
            /\ UNCHANGED delivered
  BY DEF ReadAndDo
<1> HIDE DEF size
<1>3. CASE size > 0
  <2>1. /\ data' = SubSeq(buffer, 1, size)
        /\ dataRest' = SubSeq(buffer, size + 1, n) \o << >>
        /\ delivered' = Append(delivered, data') /\ state' = "idle"
    BY <1>2, <1>3 DEF AfterReading
  <2>2. /\ SubSeq(buffer, 1, size) \in Seq(Byte) /\ Len(SubSeq(buffer, 1, size)) = size
        /\ \A i \in 1 .. size : SubSeq(buffer, 1, size)[i] = buffer[i]
    BY <1>1, <1>3
  <2>3. /\ SubSeq(buffer, size + 1, n) \in Seq(Byte)
        /\ Len(SubSeq(buffer, size + 1, n)) = n - size
        /\ \A i \in 1 .. n - size : SubSeq(buffer, size + 1, n)[i] = buffer[size + i]
    BY <1>1, <1>3
  <2>4. /\ SubSeq(sent, c + 1, c + size) \in Seq(Byte)
        /\ Len(SubSeq(sent, c + 1, c + size)) = size
        /\ \A i \in 1 .. size : SubSeq(sent, c + 1, c + size)[i] = sent[c + i]
    BY <1>1, <1>3
  <2>5. SubSeq(buffer, 1, size) = SubSeq(sent, c + 1, c + size)
    BY <1>1, <2>2, <2>4, SeqEqual DEF Holds
  <2>6. dataRest' = SubSeq(buffer, size + 1, n)
    BY <2>1, <2>3, ConcatEmptySeq
  <2>7. sent[c + size] = 0 /\ \A i \in c + 1 .. c + size - 1 : sent[i] # 0
    <3>1. ASSUME NEW i \in c + 1 .. c + size - 1
          PROVE  sent[i] # 0
      <4>1. PICK j \in 1 .. size - 1 : i = c + j
        <5>1. i - c \in 1 .. size - 1 /\ i = c + (i - c)
          BY <1>1
        <5> QED
          BY <5>1
      <4>2. j \in 1 .. n /\ buffer[j] # 0
        BY <1>1, <1>3 DEF NoNull
      <4> QED
        BY <4>1, <4>2 DEF Holds
    <3> QED
      BY <1>1, <1>3, <3>1 DEF Holds
  <2>8. ASSUME NEW i \in 1 .. n - size
        PROVE  dataRest'[i] = sent[c + size + i]
    <3>1. size + i \in 1 .. n /\ c + (size + i) = c + size + i
      BY <1>1
    <3>2. buffer[size + i] = sent[c + (size + i)]
      BY <3>1 DEF Holds
    <3> QED
      BY <2>3, <2>6, <3>1, <3>2
  <2>9. Cut(c, n, size)
    BY <2>1, <2>2, <2>3, <2>5, <2>6, <2>7, <2>8 DEF Cut
  <2> QED
    BY <1>1, <1>2, <1>3, <2>9
<1>4. CASE size = 0
  <2>1. /\ Grown(buffer, n) \in Seq(Byte) /\ n < Len(Grown(buffer, n))
        /\ \A i \in 1 .. n : Grown(buffer, n)[i] = buffer[i]
    BY GrownRoom
  <2>a. /\ state' = "receiving" /\ delivered' = delivered /\ dataRest' = << >>
        /\ data' = Grown(buffer, n) /\ offset' = n
    BY <1>2, <1>4
  <2>b. \A i \in 1 .. n : data'[i] = sent[c + i]
    BY <2>1, <2>a DEF Holds
  <2>c. \A i \in 1 .. n : data'[i] # 0
    BY <1>1, <1>4, <2>1, <2>a DEF NoNull
  <2>2. Wait(c, n)
    BY <2>1, <2>a, <2>b, <2>c DEF Wait
  <2> QED
    BY <1>2, <1>4, <2>2
<1> QED
  BY <1>1, <1>3, <1>4

----------------------------------------------------------------------------
(* The steps, each with what it does to the requests.                       *)

\* The bytes that belong to delivered requests, as Framing counts them.
Consumed == received - Len(Unconsumed)

\* How many bytes wait: in dataRest between two calls, in the buffer during one.
LEMMA UnconsumedLength ==
  Inv => Len(Unconsumed) = IF state = "idle" THEN Len(dataRest) ELSE accumulated
<1> SUFFICES ASSUME Inv
             PROVE  Len(Unconsumed) = IF state = "idle" THEN Len(dataRest) ELSE accumulated
  OBVIOUS
<1>1. CASE state = "idle"
  BY <1>1 DEF Unconsumed
<1>2. CASE state # "idle"
  <2>1. dataRest = << >> /\ data \in Seq(Byte) /\ accumulated \in 0 .. Len(data)
    BY <1>2 DEF Inv, TypeOK, ReceivingInv
  <2>2. /\ SubSeq(data, 1, accumulated) \in Seq(Byte)
        /\ Len(SubSeq(data, 1, accumulated)) = accumulated
    BY <2>1
  <2>3. SubSeq(data, 1, accumulated) \o << >> = SubSeq(data, 1, accumulated)
    BY <2>2, ConcatEmptySeq
  <2> QED
    BY <1>2, <2>1, <2>2, <2>3 DEF Unconsumed
<1> QED
  BY <1>1, <1>2

\* What one call of readAndDoSw means for the stream: a request of Framing or none.
Delivers(c) ==
    /\ Consumed' \in {i \in c + 1 .. Len(sent) : sent[i] = 0}
    /\ \A i \in c + 1 .. Consumed' - 1 : sent[i] # 0
    /\ delivered' = Append(delivered, SubSeq(sent, c + 1, Consumed'))

\* However readAndDoSw was called, the invariant is there when it is done.
LEMMA ReadAndDoStep ==
  ASSUME Inv, NEW c \in Nat, NEW n \in Nat, c + n <= Len(sent),
         sent' = sent, received' = c + n, accumulated' = n, offset' \in 0 .. n,
         Wait(c, n) \/ \E size \in 1 .. n : Cut(c, n, size)
  PROVE  /\ Inv'
         /\ state' \in {"idle", "receiving"}
         /\ Delivers(c) \/ (Consumed' = c /\ delivered' = delivered)
<1>0. (Inv => Len(Unconsumed) = IF state = "idle" THEN Len(dataRest) ELSE accumulated)'
  BY UnconsumedLength, PTL
<1>1. sent \in Seq(Bytes) /\ sent \in Seq(Byte) /\ delivered \in Seq(Seq(Byte))
  BY ByteInNat, SeqMonotonic DEF Inv, TypeOK
<1>2. CASE Wait(c, n)
  <2>1. Inv'
    BY <1>1, <1>2 DEF Wait, Inv, TypeOK, IdleInv, ReceivingInv, Holds, NoNull
  <2> QED
    BY <1>0, <1>2, <2>1 DEF Wait, Consumed
<1>3. ASSUME NEW size \in 1 .. n, Cut(c, n, size)
      PROVE  /\ Inv'
             /\ state' \in {"idle", "receiving"}
             /\ Delivers(c)
  <2>1. SubSeq(sent, c + 1, c + size) \in Seq(Byte)
    BY <1>1
  <2>2. delivered' \in Seq(Seq(Byte))
    BY <1>1, <1>3, <2>1 DEF Cut
  <2>3. received' - Len(dataRest') = c + size
    BY <1>3 DEF Cut
  <2>4. Inv'
    BY <1>1, <1>3, <2>2, <2>3 DEF Cut, Inv, TypeOK, IdleInv, ReceivingInv, Holds
  <2>5. Consumed' = c + size
    BY <1>0, <1>3, <2>3, <2>4 DEF Cut, Consumed
  <2> QED
    BY <1>3, <2>4, <2>5 DEF Cut, Delivers
<1> QED
  BY <1>2, <1>3

\* get() looks at dataRest from its beginning, ...
LEMMA GetStep ==
  ASSUME Inv, Get
  PROVE  /\ Inv'
         /\ state' \in {"idle", "receiving"}
         /\ Delivers(Consumed) \/ (Consumed' = Consumed /\ delivered' = delivered)
<1> DEFINE n == Len(dataRest)
           c == received - n
<1>1. /\ dataRest \in Seq(Byte) /\ n \in Nat /\ sent \in Seq(Byte) /\ c \in Nat
      /\ c + n = received /\ received \in 0 .. Len(sent)
      /\ Holds(dataRest, c, n)
  <2>1. sent \in Seq(Byte)
    BY ByteInNat, SeqMonotonic DEF Inv, TypeOK
  <2> QED
    BY <2>1 DEF Inv, TypeOK, IdleInv, Get
<1>2. /\ ReadAndDo(dataRest, << >>, 0, n)
      /\ sent' = sent /\ received' = received
  BY DEF Get, StartReading
<1>3. NoNull(dataRest, 0) /\ Consumed = c
  BY <1>1, UnconsumedLength DEF NoNull, Consumed, Get
<1>4. n = Len(dataRest)
  OBVIOUS
<1> HIDE DEF n, c
<1>5. /\ accumulated' = n /\ offset' \in 0 .. n
      /\ Wait(c, n) \/ \E size \in 1 .. n : Cut(c, n, size)
  BY <1>1, <1>2, <1>3, <1>4, ReadAndDoCuts
<1> QED
  BY <1>1, <1>2, <1>3, <1>5, ReadAndDoStep


\* async_read_some writes between what was received before and the room it leaves.
LEMMA ThreeParts ==
  ASSUME NEW u \in Seq(Byte), NEW t \in Seq(Byte), NEW v \in Seq(Byte)
  PROVE  /\ u \o t \o v \in Seq(Byte)
         /\ Len(u \o t \o v) = Len(u) + Len(t) + Len(v)
         /\ \A i \in 1 .. Len(u) : (u \o t \o v)[i] = u[i]
         /\ \A i \in 1 .. Len(t) : (u \o t \o v)[Len(u) + i] = t[i]
<1> DEFINE w == u \o t
<1>1. /\ w \in Seq(Byte) /\ Len(w) = Len(u) + Len(t)
      /\ \A i \in 1 .. Len(u) + Len(t) : w[i] = IF i <= Len(u) THEN u[i] ELSE t[i - Len(u)]
  BY ConcatProperties
<1>2. Len(u) \in Nat /\ Len(t) \in Nat /\ Len(v) \in Nat
  OBVIOUS
<1>w. w \in Seq(Byte)
  BY <1>1
<1> HIDE DEF w
<1>3. /\ w \o v \in Seq(Byte) /\ Len(w \o v) = Len(w) + Len(v)
      /\ \A i \in 1 .. Len(w) + Len(v) :
           (w \o v)[i] = IF i <= Len(w) THEN w[i] ELSE v[i - Len(w)]
  BY <1>w, ConcatProperties, Zenon
<1>4. \A i \in 1 .. Len(u) : (w \o v)[i] = u[i]
  BY <1>1, <1>2, <1>3
<1>5. ASSUME NEW i \in 1 .. Len(t)
      PROVE  (w \o v)[Len(u) + i] = t[i]
  <2>1. Len(u) + i \in 1 .. Len(w) /\ ~(Len(u) + i <= Len(u)) /\ (Len(u) + i) - Len(u) = i
    BY <1>1, <1>2
  <2>2. (w \o v)[Len(u) + i] = w[Len(u) + i]
    BY <1>2, <1>3, <2>1
  <2> QED
    BY <1>1, <2>1, <2>2
<1> QED
  BY <1>1, <1>3, <1>4, <1>5 DEF w

\* ... the handler of a receive from where the last look ended.
LEMMA ReceiveStep ==
  ASSUME Inv, NEW k \in 1 .. MaxSent, Receive(k)
  PROVE  /\ Inv' /\ sent' = sent
         /\ state = "receiving" /\ state' \in {"idle", "receiving"}
         /\ Delivers(Consumed) \/ (Consumed' = Consumed /\ delivered' = delivered)
<1> DEFINE n == accumulated + k
           c == received - accumulated
           t == SubSeq(sent, received + 1, received + k)
           before == SubSeq(data, 1, accumulated)
           after == SubSeq(data, accumulated + k + 1, Len(data))
           buffer == before \o t \o after
<1>1. /\ data \in Seq(Byte) /\ accumulated \in Nat /\ accumulated + k <= Len(data)
      /\ received \in 0 .. Len(sent) /\ received + k <= Len(sent)
      /\ offset = accumulated /\ dataRest = << >> /\ c \in Nat
      /\ Holds(data, c, accumulated) /\ NoNull(data, accumulated)
  BY DEF Inv, TypeOK, ReceivingInv, Receive
<1>2. sent \in Seq(Byte)
  BY ByteInNat, SeqMonotonic DEF Inv, TypeOK
<1>3. /\ ReadAndDo(buffer, << >>, accumulated, n)
      /\ sent' = sent /\ received' = c + n /\ state = "receiving"
  BY <1>1 DEF Receive
<1>4. /\ t \in Seq(Byte) /\ Len(t) = k
      /\ \A i \in 1 .. k : t[i] = sent[received + i]
  BY <1>1, <1>2
<1>a. /\ before \in Seq(Byte) /\ Len(before) = accumulated
      /\ \A i \in 1 .. accumulated : before[i] = data[i]
      /\ after \in Seq(Byte) /\ Len(after) = Len(data) - (accumulated + k)
  BY <1>1
<1> HIDE DEF t, before, after
<1>5. /\ buffer \in Seq(Byte) /\ Len(buffer) = Len(data)
      /\ \A i \in 1 .. accumulated : buffer[i] = data[i]
      /\ \A i \in 1 .. k : buffer[accumulated + i] = t[i]
  <2>1. /\ buffer \in Seq(Byte) /\ Len(buffer) = Len(before) + Len(t) + Len(after)
        /\ \A i \in 1 .. Len(before) : buffer[i] = before[i]
        /\ \A i \in 1 .. Len(t) : buffer[Len(before) + i] = t[i]
    <3>1. before \in Seq(Byte) /\ t \in Seq(Byte) /\ after \in Seq(Byte)
      BY <1>4, <1>a
    <3> QED
      BY <3>1, ThreeParts, SMTT(30)
  <2> HIDE DEF buffer
  <2>2. accumulated \in Nat /\ k \in Nat /\ Len(data) \in Nat
    BY <1>1
  <2>3. Len(buffer) = Len(data)
    BY <1>4, <1>a, <2>1, <2>2
  <2>4. \A i \in 1 .. accumulated : buffer[i] = data[i]
    BY <1>a, <2>1
  <2>5. \A i \in 1 .. k : buffer[accumulated + i] = t[i]
    BY <1>4, <1>a, <2>1
  <2> QED
    BY <2>1, <2>3, <2>4, <2>5
<1> HIDE DEF buffer
<1>6. Holds(buffer, c, n)
  <2> SUFFICES ASSUME NEW i \in 1 .. n
               PROVE  buffer[i] = sent[c + i]
    BY DEF Holds
  <2>1. CASE i \in 1 .. accumulated
    BY <1>1, <1>5, <2>1 DEF Holds
  <2>2. CASE i \notin 1 .. accumulated
    <3>1. PICK j \in 1 .. k : i = accumulated + j
      <4>1. i - accumulated \in 1 .. k /\ i = accumulated + (i - accumulated)
        BY <1>1, <2>2
      <4> QED
        BY <4>1
    <3>2. received + j = c + i
      BY <1>1, <3>1
    <3> QED
      BY <1>4, <1>5, <3>1, <3>2
  <2> QED
    BY <2>1, <2>2
<1>7. NoNull(buffer, accumulated)
  BY <1>1, <1>5 DEF NoNull
<1>8. n \in 0 .. Len(buffer) /\ accumulated \in 0 .. n /\ c + n <= Len(sent) /\ n \in Nat
  BY <1>1, <1>5
<1>9. Consumed = c
  BY <1>3, UnconsumedLength DEF Consumed
<1> HIDE DEF n, c
<1>10. /\ accumulated' = n /\ offset' \in 0 .. n
       /\ Wait(c, n) \/ \E size \in 1 .. n : Cut(c, n, size)
  BY <1>1, <1>2, <1>3, <1>5, <1>6, <1>7, <1>8, ReadAndDoCuts
<1> QED
  BY <1>1, <1>3, <1>8, <1>9, <1>10, ReadAndDoStep

\* What the peer sends goes behind all that was received.
LEMMA SendStep ==
  ASSUME Inv, NEW b \in Bytes, Send(b)
  PROVE  Inv' /\ Consumed' = Consumed
<1>1. /\ sent \in Seq(Bytes) /\ sent' \in Seq(Bytes) /\ Len(sent') = Len(sent) + 1
      /\ \A i \in 1 .. Len(sent) : sent'[i] = sent[i]
  BY DEF Send, Inv, TypeOK
<1>2. TypeOK'
  BY <1>1 DEF Send, Inv, TypeOK
<1>3. received \in 0 .. Len(sent)
  BY DEF Inv, TypeOK
<1>4. IdleInv'
  BY <1>1, <1>3 DEF Send, Inv, TypeOK, IdleInv, Holds
<1>5. ReceivingInv'
  BY <1>1, <1>3 DEF Send, Inv, TypeOK, ReceivingInv, Holds, NoNull
<1> QED
  BY <1>2, <1>4, <1>5 DEF Inv, Send, Consumed, Unconsumed

\* Every step keeps the invariant and is one of Framing's, or none.
LEMMA NextStep == Inv /\ [Next]_vars => Inv' /\ [Frames!Next]_(Frames!vars)
<1> SUFFICES ASSUME Inv, [Next]_vars
             PROVE  Inv' /\ [Frames!Next]_(Frames!vars)
  OBVIOUS
<1> USE DEF Frames!Next, Frames!vars
<1>1. ASSUME NEW b \in Bytes, Send(b)
      PROVE  Inv' /\ Frames!Next
  BY <1>1, SendStep DEF Send, Frames!Send, Consumed
<1>2. ASSUME /\ Inv' /\ sent' = sent
             /\ state # "ended" /\ state' # "ended"
             /\ Delivers(Consumed) \/ (Consumed' = Consumed /\ delivered' = delivered)
      PROVE  [Frames!Next]_(Frames!vars)
  BY <1>2 DEF Delivers, Consumed, Frames!Deliver
<1>3. CASE Get
  BY <1>2, <1>3, GetStep DEF Get
<1>4. ASSUME NEW k \in 1 .. MaxSent, Receive(k)
      PROVE  Inv' /\ [Frames!Next]_(Frames!vars)
  BY <1>2, <1>4, ReceiveStep
<1>5. CASE ReceiveFails
  <2>1. Inv'
    BY <1>5 DEF ReceiveFails, Inv, TypeOK, IdleInv, ReceivingInv, Holds, NoNull
  <2> QED
    BY <1>5, <2>1 DEF ReceiveFails, Frames!Fail, Unconsumed
<1>6. CASE UNCHANGED vars
  BY <1>6 DEF vars, Inv, TypeOK, IdleInv, ReceivingInv, Holds, NoNull, Unconsumed
<1> QED
  BY <1>1, <1>3, <1>4, <1>5, <1>6 DEF Next

----------------------------------------------------------------------------
\* The invariant holds in every state.
LEMMA Invariance == Spec => []Inv
  BY InitInv, NextStep, PTL DEF Spec

\* Buffers, counts and requests keep their types: no count passes what it counts.
THEOREM TypeCorrect == Spec => []TypeOK
  BY Invariance, PTL DEF Inv

\* A request that has been received completely is never waited for, however the
\* stream was cut into chunks and the buffer resized.
THEOREM NoneMissed == Spec => []NothingMissed
<1>1. Inv => NothingMissed
  BY DEF Inv, ReceivingInv, NoNull, NothingMissed
<1> QED
  BY <1>1, Invariance, PTL

\* async_read_some is never called with a full buffer.
THEOREM RoomToReceive == Spec => []AlwaysRoom
<1>1. Inv => AlwaysRoom
  BY DEF Inv, ReceivingInv, AlwaysRoom
<1> QED
  BY <1>1, Invariance, PTL

\* Reading in chunks into a growing buffer implements the cutting of a stream of
\* bytes behind each null byte: the requests handed over are its pieces, in order
\* and whole.  (The safety part of FramesTheStream.)
THEOREM FramingImplemented == Spec => Frames!Spec
<1>1. Init => Frames!Init
  <2> SUFFICES ASSUME Init
               PROVE  Frames!Init
    OBVIOUS
  <2>1. Unconsumed = << >>
    BY DEF Init, Unconsumed
  <2>2. Len(Unconsumed) = 0
    BY <2>1
  <2>3. received = 0
    BY DEF Init
  <2>4. received - Len(Unconsumed) = 0
    BY <2>2, <2>3
  <2>5. ~(state = "ended")
    BY DEF Init
  <2> QED
    BY <2>4, <2>5, Zenon DEF Init, Frames!Init
<1> QED
  BY <1>1, Invariance, NextStep, PTL DEF Spec, Frames!Spec
=============================================================================
