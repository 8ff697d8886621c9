------------------------- MODULE SuchATricky1_proofs -------------------------
(* Machine-checked: the countdown of suchATricky1's sessions and the position  *)
(* of their durations, for any sessions, any numbers asked for, however many   *)
(* requests are served, and whatever the byte orders of the hosts.             *)
EXTENDS SuchATricky1, FiniteSetTheorems, TLAPS

(****************************************************************************)
(* The inductive invariant.                                                 *)
(****************************************************************************)

\* The mutex: held from Lock to Unlock.
MutexHeld == \A s \in Sessions : locker = s <=> at[s] \in {"locked", "inserted"}

\* What the set holds: what was told, and what the owner of the mutex will tell.
DurationsAreTold ==
    /\ \A i \in 1 .. Len(told) : told[i].duration \in durations
    /\ \A s \in Sessions : at[s] = "inserted" => duration[s] \in durations
    /\ \A d \in durations :
         \/ \E i \in 1 .. Len(told) : told[i].duration = d
         \/ \E s \in Sessions : at[s] = "inserted" /\ duration[s] = d

\* An answer is under way.
InFooter(s) == at[s] \in {"footer", "locked", "inserted"}
Served(s) == IF InFooter(s) THEN answers[s] + 1 ELSE answers[s]

\* The countdown of a session: modulo its range always, and exactly until it first
\* comes to 0, save that it stands at 0 in the beginning for who asks for none.
Counted(s) ==
    at[s] # "new" =>
      /\ s \in shut <=> answers[s] >= Wanted(asked[s])
      /\ InFooter(s) => left[s] = 0
      /\ (left[s] + Served(s)) % Modulus = asked[s]
      /\ s \notin shut =>
           \/ left[s] + Served(s) = Wanted(asked[s])
           \/ left[s] = 0 /\ answers[s] = 0 /\ asked[s] = 0 /\ ~InFooter(s)
      /\ order.client[s] = order.server => (shown[s] + answers[s]) % Modulus = asked[s]

\* A session that has not started has had no answer.
NewHasNone == \A s \in Sessions : at[s] = "new" => answers[s] = 0 /\ s \notin shut

\* Footers are computed for one more answer, at a time that is not before the start.
Bounded(s) ==
    /\ InFooter(s) => answers[s] < MaxRequests
    /\ startedAt[s] <= clock

IInv ==
    /\ TypeOK
    /\ MutexHeld
    /\ DurationsAreTold
    /\ NewHasNone
    /\ \A s \in Sessions : Counted(s) /\ Bounded(s)
    /\ PositionIsExact

(****************************************************************************)
(* Numbers of two digits.                                                   *)
(****************************************************************************)

LEMMA Monotone ==
    ASSUME NEW b \in Nat, NEW x \in Nat, NEW y \in Nat, x + 1 <= y
    PROVE  b * x + b <= b * y
<1>1. PICK k \in Nat : y = x + 1 + k
  <2>1. y - x - 1 \in Nat /\ y = x + 1 + (y - x - 1)
    OBVIOUS
  <2> QED
    BY <2>1
<1>2. b * y = b * x + b + b * k
  BY <1>1
<1>3. b * k \in Nat /\ b * x \in Nat
  BY <1>1
<1> QED
  BY <1>2, <1>3

\* Quotient and remainder are the two numbers one expects.
LEMMA DivisionIsExact ==
    ASSUME NEW b \in Nat \ {0}, NEW q \in Nat, NEW r \in 0 .. b - 1
    PROVE  (b * q + r) \div b = q /\ (b * q + r) % b = r
<1> DEFINE n == b * q + r
           q2 == n \div b
           r2 == n % b
<1>1. n \in Nat
  OBVIOUS
<1>2. q2 \in Nat /\ r2 \in 0 .. b - 1 /\ n = b * q2 + r2
  BY <1>1, SMTT(30)
<1> HIDE DEF q2, r2
<1>3. b * q \in Nat /\ b * q2 \in Nat
  BY <1>2
<1>4. q2 = q
  <2>1. q2 + 1 <= q => b * q2 + b <= b * q
    BY <1>2, Monotone
  <2>2. q + 1 <= q2 => b * q + b <= b * q2
    BY <1>2, Monotone
  <2> QED
    BY <1>2, <1>3, <2>1, <2>2
<1>5. r2 = r
  BY <1>2, <1>4
<1> QED
  BY <1>4, <1>5 DEF q2, r2

LEMMA ModulusInNat == Modulus \in Nat \ {0} /\ Modulus - 1 \in Nat /\ 0 \in Number
<1>1. Base * Base \in Nat /\ Base * Base # 0
  BY BaseAssumption
<1> QED
  BY <1>1 DEF Modulus, Number

\* Reversing the bytes of a number twice gives the number.
LEMMA ReversedTwice ==
    ASSUME NEW x \in Number
    PROVE  Reversed(x) \in Number /\ Reversed(Reversed(x)) = x
<1> DEFINE q == x \div Base
           r == x % Base
<1>1. Base \in Nat \ {0} /\ x \in Nat /\ x < Base * Base
  BY BaseAssumption, ModulusInNat DEF Number, Modulus
<1>2. q \in Nat /\ r \in 0 .. Base - 1 /\ x = Base * q + r
  BY <1>1, SMTT(30)
<1> HIDE DEF q, r
<1>3. q \in 0 .. Base - 1
  <2>1. Base + 0 <= q => Base * Base <= Base * q
    <3>1. ASSUME Base <= q PROVE Base * Base <= Base * q
      <4>1. Base - 1 \in Nat /\ (Base - 1) + 1 <= q
        BY <1>1, <1>2, <3>1
      <4>2. Base * (Base - 1) + Base <= Base * q
        BY <1>1, <1>2, <4>1, Monotone
      <4>3. Base * (Base - 1) + Base = Base * Base
        BY <1>1
      <4> QED
        BY <4>2, <4>3
    <3> QED
      BY <1>1, <1>2, <3>1
  <2>2. Base * q \in Nat /\ Base * Base \in Nat
    BY <1>1, <1>2
  <2> QED
    BY <1>1, <1>2, <2>1, <2>2
<1>4. Reversed(x) = Base * r + q
  BY <1>2 DEF Reversed, q, r
<1>5. (Base * r + q) \div Base = r /\ (Base * r + q) % Base = q
  BY <1>1, <1>2, <1>3, DivisionIsExact
<1>6. Base * r + q \in Number
  <2>1. r + 1 <= Base
    BY <1>1, <1>2
  <2>2. Base * r + Base <= Base * Base
    BY <1>1, <1>2, <2>1, Monotone
  <2>3. Base * r \in Nat /\ Base * Base \in Nat
    BY <1>1, <1>2
  <2> QED
    BY <1>1, <1>3, <2>2, <2>3 DEF Number, Modulus
<1>7. Reversed(Base * r + q) = Base * q + r
  BY <1>5 DEF Reversed
<1> QED
  BY <1>2, <1>4, <1>6, <1>7

\* Memory and Value are each other's inverse.
LEMMA MemoryAndValue ==
    ASSUME NEW x \in Number, NEW host
    PROVE  /\ Memory(x, host) \in Number /\ Value(x, host) \in Number
           /\ Value(Memory(x, host), host) = x
           /\ Memory(Value(x, host), host) = x
  BY ReversedTwice DEF Memory, Value

\* The number in the session header arrives as what it was.
LEMMA RequestsArrive ==
    ASSUME NEW n \in Number, NEW host
    PROVE  RequestsOf(SessionHdr(n, host)) = n
<1>1. SessionHdr(n, host) = n
  BY MemoryAndValue DEF SessionHdr, Htonl
<1>2. Ntohl(Value(n, order.server), order.server) = n
  BY MemoryAndValue DEF Ntohl
<1> QED
  BY <1>1, <1>2 DEF RequestsOf

\* Quotient and remainder by the modulus, one turn further.
LEMMA OneTurn ==
    ASSUME NEW a \in Nat
    PROVE  (a + Modulus) % Modulus = a % Modulus
<1> DEFINE q == a \div Modulus
           r == a % Modulus
<1>1. Modulus \in Nat \ {0}
  BY ModulusInNat
<1> DEFINE M == Modulus
<1> HIDE DEF M
<1>2. M \in Nat \ {0} /\ M = Modulus
  BY <1>1 DEF M
<1>3. q \in Nat /\ r \in 0 .. M - 1 /\ a = M * q + r
  BY <1>2, SMTT(30)
<1> HIDE DEF q, r
<1>4. (M * (q + 1) + r) % M = r
  BY <1>2, <1>3, DivisionIsExact
<1>5. M * (q + 1) + r = a + M
  <2>1. M * (q + 1) = M * q + M /\ M * q \in Nat
    BY <1>2, <1>3
  <2> QED
    BY <1>2, <1>3, <2>1
<1> QED
  BY <1>2, <1>4, <1>5 DEF r

\* A number of the range is its own remainder.
LEMMA SameRemainder ==
    ASSUME NEW x \in Number
    PROVE  x % Modulus = x
<1>1. Modulus \in Nat \ {0} /\ x \in 0 .. Modulus - 1 /\ x \in Nat
  BY ModulusInNat DEF Number
<1>2. (Modulus * 0 + x) % Modulus = x
  BY <1>1, DivisionIsExact
<1>3. Modulus * 0 + x = x
  BY <1>1
<1> QED
  BY <1>2, <1>3

LEMMA OneLess ==
    ASSUME NEW x \in Number
    PROVE  /\ Decremented(x) \in Number
           /\ x # 0 => Decremented(x) = x - 1
           /\ x = 0 => Decremented(x) = Modulus - 1
<1>1. Modulus \in Nat \ {0} /\ x \in Nat /\ x <= Modulus - 1
  BY ModulusInNat DEF Number
<1>2. CASE x = 0
  <2>1. (Modulus * 0 + (Modulus - 1)) % Modulus = Modulus - 1
    BY <1>1, DivisionIsExact
  <2>2. Modulus * 0 + (Modulus - 1) = x + Modulus - 1
    BY <1>1, <1>2
  <2> QED
    BY <1>1, <1>2, <2>1, <2>2 DEF Decremented, Number
<1>3. CASE x # 0
  <2>1. x - 1 \in 0 .. Modulus - 1
    BY <1>1, <1>3
  <2>2. (Modulus * 1 + (x - 1)) % Modulus = x - 1
    BY <1>1, <2>1, DivisionIsExact
  <2>3. Modulus * 1 + (x - 1) = x + Modulus - 1
    BY <1>1
  <2> QED
    BY <2>1, <2>2, <2>3 DEF Decremented, Number
<1> QED
  BY <1>2, <1>3

\* Decrementing and answering once more leaves the sum alone, modulo its range.
LEMMA SumIsKept ==
    ASSUME NEW x \in Number, NEW n \in Nat
    PROVE  (Decremented(x) + (n + 1)) % Modulus = (x + n) % Modulus
<1>1. Modulus \in Nat /\ x \in Nat
  BY ModulusInNat DEF Number
<1>2. CASE x # 0
  <2>1. Decremented(x) + (n + 1) = x + n
    BY <1>1, <1>2, OneLess
  <2> QED
    BY <2>1
<1>3. CASE x = 0
  <2>1. Decremented(x) + (n + 1) = n + Modulus
    BY <1>1, <1>3, OneLess
  <2>2. x + n = n
    BY <1>3
  <2> QED
    BY <2>1, <2>2, OneTurn
<1> QED
  BY <1>2, <1>3

\* What is wanted is more than nothing.
LEMMA WantedIsSome ==
    ASSUME NEW n \in Number
    PROVE  Wanted(n) \in Nat /\ Wanted(n) > 0
  BY ModulusInNat DEF Wanted, Number

(****************************************************************************)
(* Positions.                                                               *)
(****************************************************************************)

\* A set of durations below one that the clock has come to.
LEMMA ShorterCounted ==
    ASSUME NEW S \in SUBSET (0 .. MaxTime), NEW x \in 0 .. MaxTime
    PROVE  Cardinality({d \in S : d < x}) \in 0 .. MaxTime
<1> DEFINE T == {d \in S : d < x}
           I == 0 .. MaxTime - 1
<1>1. MaxTime \in Nat /\ MaxTime - 1 \in Int /\ 0 \in Int
  BY BoundsAssumption
<1>2. T \in SUBSET I
  <2>1. ASSUME NEW d \in T PROVE d \in I
    <3>1. d \in 0 .. MaxTime /\ d < x /\ x \in 0 .. MaxTime
      OBVIOUS
    <3> QED
      BY <1>1, <3>1
  <2> QED
    BY <2>1
<1> HIDE DEF T
<1>3. IsFiniteSet(I) /\ Cardinality(I) = (IF 0 > MaxTime - 1 THEN 0 ELSE (MaxTime - 1) - 0 + 1)
  BY <1>1, FS_Interval
<1>4. Cardinality(I) = MaxTime
  BY <1>1, <1>3
<1> HIDE DEF I
<1>5. IsFiniteSet(T) /\ Cardinality(T) <= Cardinality(I)
  BY <1>2, <1>3, FS_Subset
<1>6. Cardinality(T) \in Nat
  BY <1>5, FS_CardinalityType
<1>7. Cardinality(T) \in 0 .. MaxTime
  BY <1>1, <1>4, <1>5, <1>6
<1> QED
  BY <1>7 DEF T

(****************************************************************************)
(* The steps.                                                               *)
(****************************************************************************)

\* What the types say of one session.
LEMMA TypesAt ==
    ASSUME TypeOK, NEW s \in Sessions
    PROVE  /\ asked[s] \in Number /\ left[s] \in Number /\ shown[s] \in Number
           /\ startedAt[s] \in 0 .. MaxTime /\ duration[s] \in 0 .. MaxTime
           /\ answers[s] \in 0 .. MaxRequests
           /\ order.client[s] \in Orders
           /\ clock \in 0 .. MaxTime
           /\ MaxTime \in Nat /\ MaxRequests \in Nat
  BY BoundsAssumption DEF TypeOK

LEMMA InitInv == Init => IInv
<1> SUFFICES ASSUME Init PROVE IInv
  OBVIOUS
<1>1. TypeOK
  <2>1. 0 \in 0 .. MaxTime /\ 0 \in 0 .. MaxRequests
    BY BoundsAssumption
  <2>2. << >> \in Seq([duration : 0 .. MaxTime, position : 1 .. MaxTime + 1])
    OBVIOUS
  <2> QED
    BY <2>1, <2>2, ModulusInNat DEF Init, TypeOK
<1>2. MutexHeld
  BY FreeAssumption DEF Init, MutexHeld
<1>3. DurationsAreTold /\ NewHasNone /\ PositionIsExact
  BY DEF Init, DurationsAreTold, NewHasNone, PositionIsExact
<1>4. \A s \in Sessions : Counted(s) /\ Bounded(s)
  BY DEF Init, Counted, Bounded, InFooter
<1> QED
  BY <1>1, <1>2, <1>3, <1>4 DEF IInv

LEMMA TypesStep == IInv /\ [Next]_vars => TypeOK'
<1> SUFFICES ASSUME IInv, [Next]_vars PROVE TypeOK'
  OBVIOUS
<1>0. TypeOK
  BY DEF IInv
<1>1. ASSUME NEW s \in Sessions, NEW n \in Numbers, Connect(s, n)
      PROVE  TypeOK'
  <2>1. n \in Number
    BY BaseAssumption DEF Number, Modulus
  <2>2. left' = [left EXCEPT ![s] = n]
    BY <1>1, <2>1, RequestsArrive DEF Connect
  <2> QED
    BY <1>0, <1>1, <2>1, <2>2 DEF Connect, TypeOK
<1>2. ASSUME NEW s \in Sessions, Request(s)
      PROVE  TypeOK'
  <2>1. Decremented(left[s]) \in Number
    BY <1>0, TypesAt, OneLess
  <2>2. Value(Memory(Decremented(left[s]), order.server), order.client[s]) \in Number
    BY <2>1, MemoryAndValue
  <2>3. answers[s] + 1 \in 0 .. MaxRequests
    BY <1>0, <1>2, TypesAt DEF Request
  <2> QED
    BY <1>0, <1>2, <2>1, <2>2, <2>3 DEF Request, Answer, TypeOK
<1>3. ASSUME NEW s \in Sessions, LastRequest(s)
      PROVE  TypeOK'
  <2>1. Decremented(left[s]) \in Number
    BY <1>0, TypesAt, OneLess
  <2>2. clock - startedAt[s] \in 0 .. MaxTime
    BY <1>0, TypesAt DEF IInv, Bounded
  <2>3. /\ left' = [left EXCEPT ![s] = Decremented(left[s])]
        /\ duration' = [duration EXCEPT ![s] = clock - startedAt[s]]
        /\ at' = [at EXCEPT ![s] = "footer"]
        /\ UNCHANGED << order, asked, startedAt, answers, shown, shut, told, durations,
                        locker, clock >>
    BY <1>3 DEF LastRequest
  <2>4. {asked, left, shown}' \subseteq [Sessions -> Number]
    BY <1>0, <2>1, <2>3 DEF TypeOK
  <2>5. {startedAt, duration}' \subseteq [Sessions -> 0 .. MaxTime]
    BY <1>0, <2>2, <2>3 DEF TypeOK
  <2>6. at' \in [Sessions -> {"new", "open", "footer", "locked", "inserted", "over"}]
    BY <1>0, <2>3 DEF TypeOK
  <2> QED
    BY <1>0, <2>3, <2>4, <2>5, <2>6 DEF TypeOK
<1>4. ASSUME NEW s \in Sessions, Lock(s) \/ End(s)
      PROVE  TypeOK'
  <2>1. CASE Lock(s)
    BY <1>0, <2>1 DEF Lock, TypeOK
  <2>2. CASE End(s)
    BY <1>0, <2>2 DEF End, TypeOK
  <2> QED
    BY <1>4, <2>1, <2>2
<1>5. ASSUME NEW s \in Sessions, Insert(s)
      PROVE  TypeOK'
  BY <1>0, <1>5, TypesAt DEF Insert, TypeOK
<1>6. ASSUME NEW s \in Sessions, Unlock(s)
      PROVE  TypeOK'
  <2>1. Value(Memory(left[s], order.server), order.client[s]) \in Number
    BY <1>0, TypesAt, MemoryAndValue
  <2>2. answers[s] + 1 \in 0 .. MaxRequests
    BY <1>0, <1>6, TypesAt DEF Unlock, IInv, Bounded, InFooter
  <2>3. Position(s) \in 1 .. MaxTime + 1
    <3>1. durations \in SUBSET (0 .. MaxTime) /\ duration[s] \in 0 .. MaxTime
      BY <1>0, TypesAt DEF TypeOK
    <3>2. Cardinality({d \in durations : d < duration[s]}) \in 0 .. MaxTime
      BY <3>1, ShorterCounted
    <3> QED
      BY <3>2, BoundsAssumption DEF Position
  <2>4. /\ answers' = [answers EXCEPT ![s] = answers[s] + 1]
        /\ shown' = [shown EXCEPT ![s] = Value(Memory(left[s], order.server), order.client[s])]
        /\ told' = Append(told, [duration |-> duration[s], position |-> Position(s)])
        /\ locker' = Free
        /\ shut' = shut \cup {s}
        /\ at' = [at EXCEPT ![s] = "open"]
        /\ UNCHANGED << order, asked, left, startedAt, duration, durations, clock >>
    BY <1>6 DEF Unlock, Answer
  <2>5. /\ answers' \in [Sessions -> 0 .. MaxRequests]
        /\ shown' \in [Sessions -> Number]
    BY <1>0, <2>1, <2>2, <2>4 DEF TypeOK
  <2>6. told' \in Seq([duration : 0 .. MaxTime, position : 1 .. MaxTime + 1])
    <3>1. [duration |-> duration[s], position |-> Position(s)]
            \in [duration : 0 .. MaxTime, position : 1 .. MaxTime + 1]
      BY <1>0, <2>3, TypesAt
    <3> QED
      BY <1>0, <2>4, <3>1 DEF TypeOK
  <2>7. at' \in [Sessions -> {"new", "open", "footer", "locked", "inserted", "over"}]
    BY <1>0, <2>4 DEF TypeOK
  <2>8. locker' \in Sessions \cup {Free} /\ shut' \subseteq Sessions
    BY <1>0, <2>4 DEF TypeOK
  <2> QED
    BY <1>0, <2>4, <2>5, <2>6, <2>7, <2>8 DEF TypeOK
<1>7. CASE Tick
  <2>1. clock' \in 0 .. MaxTime
    BY <1>0, <1>7, BoundsAssumption DEF Tick, TypeOK
  <2> QED
    BY <1>0, <1>7, <2>1 DEF Tick, TypeOK
<1>8. CASE UNCHANGED vars
  BY <1>0, <1>8 DEF vars, TypeOK
<1> QED
  BY <1>1, <1>2, <1>3, <1>4, <1>5, <1>6, <1>7, <1>8 DEF Next

\* A step counts for the session it is about.
LEMMA CountStep == IInv /\ [Next]_vars => \A s \in Sessions : Counted(s)' /\ Bounded(s)'
<1> SUFFICES ASSUME IInv, [Next]_vars, NEW q \in Sessions
             PROVE  Counted(q)' /\ Bounded(q)'
  OBVIOUS
<1>0. TypeOK /\ Counted(q) /\ Bounded(q)
  BY DEF IInv
<1>frame. ASSUME at'[q] = at[q], asked'[q] = asked[q], left'[q] = left[q],
                 answers'[q] = answers[q], shown'[q] = shown[q], q \in shut' <=> q \in shut,
                 startedAt'[q] = startedAt[q], order' = order, clock' \in Nat, clock <= clock'
          PROVE  Counted(q)' /\ Bounded(q)'
  <2>1. InFooter(q)' = InFooter(q) /\ Served(q)' = Served(q)
    BY <1>frame DEF InFooter, Served
  <2>2. Counted(q)'
    BY <1>0, <1>frame, <2>1 DEF Counted, Wanted
  <2>3. Bounded(q)'
    BY <1>0, <1>frame, <2>1, TypesAt DEF Bounded
  <2> QED
    BY <2>2, <2>3
<1>types. /\ asked[q] \in Number /\ asked[q] \in Nat
          /\ left[q] \in Number /\ left[q] \in Nat /\ answers[q] \in Nat
          /\ startedAt[q] \in Nat /\ clock \in Nat /\ MaxRequests \in Nat
          /\ Modulus \in Nat /\ Modulus > 0 /\ Wanted(asked[q]) \in Nat
  BY <1>0, TypesAt, ModulusInNat, WantedIsSome DEF Number
<1>same. order.client[q] = order.server =>
           \A x \in Number : Value(Memory(x, order.server), order.client[q]) = x
  BY MemoryAndValue
<1>1. ASSUME NEW s \in Sessions, NEW n \in Numbers, Connect(s, n)
      PROVE  Counted(q)' /\ Bounded(q)'
  <2>1. CASE q # s
    BY <1>0, <1>1, <1>frame, <1>types, <2>1 DEF Connect, TypeOK
  <2>2. CASE q = s
    <3>1. n \in Number /\ n \in Nat
      BY BaseAssumption, ModulusInNat DEF Number, Modulus
    <3>2. left' = [left EXCEPT ![s] = n]
      BY <1>1, <3>1, RequestsArrive DEF Connect
    <3>3. answers[q] = 0 /\ q \notin shut
      BY <1>1, <2>2 DEF IInv, NewHasNone, Connect
    <3>4. /\ left'[q] = n /\ asked'[q] = n /\ shown'[q] = n /\ answers'[q] = 0
          /\ q \notin shut' /\ at'[q] = "open" /\ startedAt'[q] = clock /\ clock' = clock
      BY <1>0, <1>1, <2>2, <3>2, <3>3 DEF Connect, TypeOK
    <3>5. (n + 0) % Modulus = n
      BY <3>1, SameRemainder
    <3>6. Wanted(n) \in Nat /\ Wanted(n) > 0 /\ (n # 0 => Wanted(n) = n)
      BY <3>1, WantedIsSome DEF Wanted
    <3>7. ~InFooter(q)' /\ Served(q)' = 0 /\ Wanted(asked[q])' = Wanted(n)
      BY <3>4 DEF InFooter, Served, Wanted
    <3>8. Counted(q)'
      BY <3>1, <3>4, <3>5, <3>6, <3>7 DEF Counted
    <3>9. Bounded(q)'
      BY <1>types, <3>4, <3>7 DEF Bounded
    <3> QED
      BY <3>8, <3>9
  <2> QED
    BY <2>1, <2>2
<1>2. ASSUME NEW s \in Sessions, Request(s)
      PROVE  Counted(q)' /\ Bounded(q)'
  <2>1. CASE q # s
    BY <1>0, <1>2, <1>frame, <1>types, <2>1 DEF Request, Answer, TypeOK
  <2>2. CASE q = s
    <3> DEFINE x == Decremented(left[q])
    <3>1. /\ x \in Number /\ x \in Nat
          /\ left[q] # 0 => x = left[q] - 1
          /\ left[q] = 0 => x = Modulus - 1
      BY <1>types, OneLess DEF Number
    <3>2. (x + (answers[q] + 1)) % Modulus = (left[q] + answers[q]) % Modulus
      BY <1>types, SumIsKept
    <3> HIDE DEF x
    <3>3. /\ left'[q] = x /\ x # 0 /\ answers'[q] = answers[q] + 1
          /\ shown'[q] = Value(Memory(x, order.server), order.client[q])
          /\ at[q] = "open"
          /\ UNCHANGED << order, at, asked, shut, startedAt, clock >>
      BY <1>0, <1>2, <2>2 DEF Request, Answer, TypeOK, x
    <3>4. order.client[q] = order.server => shown'[q] = x
      BY <1>same, <3>1, <3>3
    <3>5. /\ ~InFooter(q) /\ ~InFooter(q)'
          /\ Served(q) = answers[q] /\ Served(q)' = answers[q] + 1
          /\ Wanted(asked[q])' = Wanted(asked[q])
      BY <3>3 DEF InFooter, Served, Wanted
    <3>6. Bounded(q)'
      BY <1>0, <3>3, <3>5 DEF Bounded
    <3>7. /\ q \in shut <=> answers[q] >= Wanted(asked[q])
          /\ (left[q] + answers[q]) % Modulus = asked[q]
          /\ q \notin shut =>
               \/ left[q] + answers[q] = Wanted(asked[q])
               \/ left[q] = 0 /\ answers[q] = 0 /\ asked[q] = 0
      BY <1>0, <3>3, <3>5 DEF Counted
    <3>8. q \notin shut => x + (answers[q] + 1) = Wanted(asked[q])
      <4>1. asked[q] = 0 => Wanted(asked[q]) = Modulus
        BY DEF Wanted
      <4> QED
        BY <1>types, <3>1, <3>7, <4>1
    <3>9. q \in shut <=> answers[q] + 1 >= Wanted(asked[q])
      BY <1>types, <3>1, <3>3, <3>7, <3>8
    <3>10. Counted(q)'
      BY <3>2, <3>3, <3>4, <3>5, <3>7, <3>8, <3>9 DEF Counted
    <3> QED
      BY <3>6, <3>10
  <2> QED
    BY <2>1, <2>2
<1>3. ASSUME NEW s \in Sessions, LastRequest(s)
      PROVE  Counted(q)' /\ Bounded(q)'
  <2>1. CASE q # s
    BY <1>0, <1>3, <1>frame, <1>types, <2>1 DEF LastRequest, TypeOK
  <2>2. CASE q = s
    <3> DEFINE x == Decremented(left[q])
    <3>1. /\ left[q] # 0 => x = left[q] - 1
          /\ left[q] = 0 => x = Modulus - 1
      BY <1>types, OneLess
    <3>2. (x + (answers[q] + 1)) % Modulus = (left[q] + answers[q]) % Modulus
      BY <1>types, SumIsKept
    <3> HIDE DEF x
    <3>3. /\ left'[q] = x /\ x = 0 /\ answers[q] < MaxRequests
          /\ at[q] = "open" /\ at'[q] = "footer"
          /\ UNCHANGED << order, asked, answers, shown, shut, startedAt, clock >>
      BY <1>0, <1>3, <2>2 DEF LastRequest, TypeOK, x
    <3>4. /\ ~InFooter(q) /\ InFooter(q)'
          /\ Served(q) = answers[q] /\ Served(q)' = answers[q] + 1
          /\ Wanted(asked[q])' = Wanted(asked[q])
      BY <3>3 DEF InFooter, Served, Wanted
    <3>5. Bounded(q)'
      BY <1>0, <3>3, <3>4 DEF Bounded
    <3>6. /\ q \in shut <=> answers[q] >= Wanted(asked[q])
          /\ q \notin shut =>
               \/ left[q] + answers[q] = Wanted(asked[q])
               \/ left[q] = 0 /\ answers[q] = 0 /\ asked[q] = 0
      BY <1>0, <3>3, <3>4 DEF Counted
    <3>7. q \notin shut => x + (answers[q] + 1) = Wanted(asked[q])
      <4>1. asked[q] = 0 => Wanted(asked[q]) = Modulus
        BY DEF Wanted
      <4> QED
        BY <1>types, <3>1, <3>3, <3>6, <4>1
    <3>8. Counted(q)'
      BY <1>0, <3>2, <3>3, <3>4, <3>7 DEF Counted
    <3> QED
      BY <3>5, <3>8
  <2> QED
    BY <2>1, <2>2
<1>4. ASSUME NEW s \in Sessions, Lock(s) \/ Insert(s) \/ End(s)
      PROVE  Counted(q)' /\ Bounded(q)'
  <2>1. CASE q # s
    BY <1>0, <1>4, <1>frame, <1>types, <2>1 DEF Lock, Insert, End, TypeOK
  <2>2. CASE q = s
    <3>1. /\ InFooter(q)' = InFooter(q) /\ at[q] # "new" /\ at'[q] # "new"
          /\ UNCHANGED << order, asked, left, answers, shown, shut, startedAt, clock >>
      BY <1>0, <1>4, <2>2 DEF Lock, Insert, End, InFooter, TypeOK
    <3>2. Served(q)' = Served(q) /\ Wanted(asked[q])' = Wanted(asked[q])
      BY <3>1 DEF Served, Wanted
    <3> QED
      BY <1>0, <3>1, <3>2 DEF Counted, Bounded
  <2> QED
    BY <2>1, <2>2
<1>5. ASSUME NEW s \in Sessions, Unlock(s)
      PROVE  Counted(q)' /\ Bounded(q)'
  <2>1. CASE q # s
    BY <1>0, <1>5, <1>frame, <1>types, <2>1 DEF Unlock, Answer, TypeOK
  <2>2. CASE q = s
    <3>1. /\ answers'[q] = answers[q] + 1
          /\ shown'[q] = Value(Memory(left[q], order.server), order.client[q])
          /\ at[q] = "inserted" /\ at'[q] = "open" /\ q \in shut'
          /\ UNCHANGED << order, left, asked, startedAt, clock >>
      BY <1>0, <1>5, <2>2 DEF Unlock, Answer, TypeOK
    <3>2. /\ InFooter(q) /\ ~InFooter(q)'
          /\ Served(q) = answers[q] + 1 /\ Served(q)' = answers[q] + 1
          /\ Wanted(asked[q])' = Wanted(asked[q])
      BY <3>1 DEF InFooter, Served, Wanted
    <3>3. order.client[q] = order.server => shown'[q] = left[q]
      BY <1>types, <1>same, <3>1
    <3>4. answers[q] + 1 >= Wanted(asked[q])
      BY <1>0, <1>types, <3>1, <3>2 DEF Counted
    <3> QED
      BY <1>0, <3>1, <3>2, <3>3, <3>4 DEF Counted, Bounded
  <2> QED
    BY <2>1, <2>2
<1>6. CASE Tick \/ UNCHANGED vars
  BY <1>6, <1>frame, <1>types DEF Tick, vars
<1> QED
  BY <1>1, <1>2, <1>3, <1>4, <1>5, <1>6 DEF Next

LEMMA NewStep == IInv /\ [Next]_vars => NewHasNone'
<1> SUFFICES ASSUME IInv, [Next]_vars, NEW q \in Sessions
             PROVE  at'[q] = "new" => answers'[q] = 0 /\ q \notin shut'
  BY DEF NewHasNone
<1>0. /\ at[q] = "new" => answers[q] = 0 /\ q \notin shut
      /\ at \in [Sessions -> {"new", "open", "footer", "locked", "inserted", "over"}]
      /\ answers \in [Sessions -> 0 .. MaxRequests]
  BY DEF IInv, NewHasNone, TypeOK
<1>1. ASSUME NEW s \in Sessions,
             \/ (\E n \in Numbers : Connect(s, n)) \/ Request(s) \/ LastRequest(s)
             \/ Lock(s) \/ Insert(s) \/ Unlock(s) \/ End(s)
      PROVE  at'[q] = "new" => answers'[q] = 0 /\ q \notin shut'
  BY <1>0, <1>1 DEF Connect, Request, LastRequest, Lock, Insert, Unlock, End, Answer
<1>2. CASE Tick \/ UNCHANGED vars
  BY <1>0, <1>2 DEF Tick, vars
<1> QED
  BY <1>1, <1>2 DEF Next

LEMMA MutexStep == IInv /\ [Next]_vars => MutexHeld'
<1> SUFFICES ASSUME IInv, [Next]_vars PROVE MutexHeld'
  OBVIOUS
<1>0. /\ MutexHeld
      /\ at \in [Sessions -> {"new", "open", "footer", "locked", "inserted", "over"}]
  BY DEF IInv, TypeOK
<1>1. ASSUME NEW s \in Sessions,
             \/ (\E n \in Numbers : Connect(s, n)) \/ Request(s) \/ LastRequest(s)
             \/ Insert(s) \/ End(s)
      PROVE  MutexHeld'
  BY <1>0, <1>1 DEF Connect, Request, LastRequest, Insert, End, MutexHeld
<1>2. ASSUME NEW s \in Sessions, Lock(s) \/ Unlock(s)
      PROVE  MutexHeld'
  BY <1>0, <1>2, FreeAssumption DEF Lock, MutexIsFree, Unlock, MutexHeld
<1>3. CASE Tick \/ UNCHANGED vars
  BY <1>0, <1>3 DEF Tick, vars, MutexHeld
<1> QED
  BY <1>1, <1>2, <1>3 DEF Next

\* Appending to what was told.
LEMMA OneMoreTold ==
    ASSUME TypeOK, NEW s \in Sessions, Unlock(s)
    PROVE  /\ Len(told) \in Nat /\ Len(told') = Len(told) + 1
           /\ \A i \in 1 .. Len(told) : told'[i] = told[i]
           /\ told'[Len(told) + 1] = [duration |-> duration[s], position |-> Position(s)]
           /\ \A i \in 1 .. Len(told') : i \in 1 .. Len(told) \/ i = Len(told) + 1
           /\ \A i \in 1 .. Len(told) : i \in 1 .. Len(told')
           /\ Len(told) + 1 \in 1 .. Len(told')
<1>1. told \in Seq([duration : 0 .. MaxTime, position : 1 .. MaxTime + 1]) /\ Len(told) \in Nat
  BY DEF TypeOK
<1> DEFINE e == [duration |-> duration[s], position |-> Position(s)]
<1>2. told' = Append(told, e)
  BY DEF Unlock
<1> HIDE DEF e
<1>3. /\ Len(told') = Len(told) + 1
      /\ \A i \in 1 .. Len(told) : told'[i] = told[i]
      /\ told'[Len(told) + 1] = e
  BY <1>1, <1>2
<1> QED
  BY <1>1, <1>3 DEF e

\* What is in the set.
LEMMA DurationsStep == IInv /\ [Next]_vars => DurationsAreTold'
<1> SUFFICES ASSUME IInv, [Next]_vars PROVE DurationsAreTold'
  OBVIOUS
<1>0. /\ TypeOK /\ DurationsAreTold
      /\ at \in [Sessions -> {"new", "open", "footer", "locked", "inserted", "over"}]
      /\ duration \in [Sessions -> 0 .. MaxTime]
  BY DEF IInv, TypeOK
<1>1. ASSUME NEW s \in Sessions,
             \/ (\E n \in Numbers : Connect(s, n)) \/ Request(s) \/ LastRequest(s)
             \/ Lock(s) \/ End(s)
      PROVE  DurationsAreTold'
  <2>1. /\ UNCHANGED << durations, told >>
        /\ at[s] \in {"new", "open", "footer"} /\ at'[s] \in {"open", "footer", "locked", "over"}
        /\ \A q \in Sessions : q # s => at'[q] = at[q] /\ duration'[q] = duration[q]
    BY <1>0, <1>1 DEF Connect, Request, LastRequest, Lock, End
  <2> QED
    BY <1>0, <2>1 DEF DurationsAreTold
<1>2. ASSUME NEW s \in Sessions, Insert(s)
      PROVE  DurationsAreTold'
  <2>1. /\ durations' = durations \cup {duration[s]} /\ UNCHANGED << duration, told >>
        /\ at'[s] = "inserted" /\ at[s] = "locked"
        /\ \A q \in Sessions : q # s => at'[q] = at[q]
    BY <1>0, <1>2 DEF Insert
  <2> QED
    BY <1>0, <2>1 DEF DurationsAreTold
<1>3. ASSUME NEW s \in Sessions, Unlock(s)
      PROVE  DurationsAreTold'
  <2>1. /\ UNCHANGED << durations, duration >>
        /\ at'[s] = "open" /\ at[s] = "inserted"
        /\ \A q \in Sessions : q # s => at'[q] = at[q]
    BY <1>0, <1>3 DEF Unlock
  <2>2. /\ \A i \in 1 .. Len(told') : i \in 1 .. Len(told) \/ i = Len(told) + 1
        /\ \A i \in 1 .. Len(told) : i \in 1 .. Len(told') /\ told'[i] = told[i]
        /\ Len(told) + 1 \in 1 .. Len(told')
        /\ told'[Len(told) + 1] = [duration |-> duration[s], position |-> Position(s)]
    BY <1>0, <1>3, OneMoreTold
  <2>d. told'[Len(told) + 1].duration = duration[s]
    BY <2>2
  <2>3. \A i \in 1 .. Len(told') : told'[i].duration \in durations'
    BY <1>0, <2>1, <2>2, <2>d DEF DurationsAreTold
  <2>4. \A q \in Sessions : at'[q] = "inserted" => duration'[q] \in durations'
    BY <1>0, <2>1 DEF DurationsAreTold
  <2>5. ASSUME NEW d \in durations'
        PROVE  \/ \E i \in 1 .. Len(told') : told'[i].duration = d
               \/ \E q \in Sessions : at'[q] = "inserted" /\ duration'[q] = d
    <3>1. CASE \E i \in 1 .. Len(told) : told[i].duration = d
      BY <2>2, <3>1
    <3>2. CASE \E q \in Sessions : at[q] = "inserted" /\ duration[q] = d
      BY <2>1, <2>2, <2>d, <3>2
    <3> QED
      BY <1>0, <2>1, <2>5, <3>1, <3>2 DEF DurationsAreTold
  <2> QED
    BY <2>3, <2>4, <2>5 DEF DurationsAreTold
<1>4. CASE Tick \/ UNCHANGED vars
  BY <1>0, <1>4 DEF Tick, vars, DurationsAreTold
<1> QED
  BY <1>1, <1>2, <1>3, <1>4 DEF Next

\* What PositionIsExact says of the i-th duration that was told.
Before(i) == {told[j].duration : j \in 1 .. i}
ExactAt(i) ==
    told[i].position = 1 + Cardinality({d \in Before(i) : d < told[i].duration})

LEMMA PositionStep == IInv /\ [Next]_vars => PositionIsExact'
<1> SUFFICES ASSUME IInv, [Next]_vars PROVE PositionIsExact'
  OBVIOUS
<1>0. TypeOK /\ MutexHeld /\ DurationsAreTold
  BY DEF IInv
<1>len. DOMAIN told = 1 .. Len(told) /\ Len(told) \in Nat
  BY <1>0 DEF TypeOK
<1>1. \A i \in 1 .. Len(told) : ExactAt(i)
  BY <1>len DEF IInv, PositionIsExact, ExactAt, Before
<1>2. ASSUME UNCHANGED told
      PROVE  PositionIsExact'
  BY <1>2 DEF IInv, PositionIsExact
<1>3. ASSUME NEW s \in Sessions, Unlock(s)
      PROVE  PositionIsExact'
  <2>n. PICK n \in Nat : n = Len(told) + 1
    BY <1>len
  <2>1. /\ at[s] = "inserted" /\ UNCHANGED << duration, durations >>
        /\ \A q \in Sessions : at[q] = "inserted" => q = s
    BY <1>0, <1>3 DEF Unlock, MutexHeld
  <2>2. /\ Len(told') = n
        /\ \A i \in 1 .. Len(told) : told'[i] = told[i]
        /\ told'[n] = [duration |-> duration[s], position |-> Position(s)]
        /\ \A i \in 1 .. n : i \in 1 .. Len(told) \/ i = n
        /\ \A i \in 1 .. Len(told) : i \in 1 .. n
        /\ n \in 1 .. n
    BY <1>0, <1>3, <2>n, OneMoreTold
  <2>3. DOMAIN told' = 1 .. n
    <3>1. TypeOK'
      BY <1>0, <1>3, TypesStep DEF Next
    <3> QED
      BY <2>2, <3>1 DEF TypeOK
  <2>5. ASSUME NEW i \in 1 .. Len(told)
        PROVE  ExactAt(i)'
    <3>1. \A j \in 1 .. i : j \in 1 .. Len(told)
      BY <1>len
    <3>2. Before(i)' = Before(i)
      BY <2>2, <3>1 DEF Before
    <3> QED
      BY <1>1, <2>2, <3>2 DEF ExactAt
\* The mutex has kept the others out since Insert: what precedes is the set.
  <2>6. told'[n].position
          = 1 + Cardinality({d \in {told'[j].duration : j \in 1 .. n} : d < told'[n].duration})
    <3>1. \A j \in 1 .. n : told'[j].duration \in durations
      BY <1>0, <2>1, <2>2 DEF DurationsAreTold
    <3>2. ASSUME NEW d \in durations
          PROVE  \E j \in 1 .. n : told'[j].duration = d
      <4>1. CASE \E i \in 1 .. Len(told) : told[i].duration = d
        BY <2>2, <4>1
      <4>2. CASE \E q \in Sessions : at[q] = "inserted" /\ duration[q] = d
        BY <2>1, <2>2, <4>2
      <4> QED
        BY <1>0, <4>1, <4>2 DEF DurationsAreTold
    <3>3. {told'[j].duration : j \in 1 .. n} = durations
      BY <3>1, <3>2
    <3>4. Position(s) = 1 + Cardinality({d \in durations : d < duration[s]})
      <4>1. durations \in SUBSET (0 .. MaxTime) /\ duration[s] \in 0 .. MaxTime
        BY <1>0, TypesAt DEF TypeOK
      <4>2. Cardinality({d \in durations : d < duration[s]}) \in 0 .. MaxTime
        BY <4>1, ShorterCounted
      <4>3. MaxTime \in Nat
        BY BoundsAssumption
      <4> QED
        BY <4>2, <4>3 DEF Position
    <3>5. told'[n].duration = duration[s] /\ told'[n].position = Position(s)
      BY <2>2
    <3> QED
      BY <3>3, <3>4, <3>5
  <2>7. \A i \in 1 .. n :
          told'[i].position
            = 1 + Cardinality({d \in {told'[j].duration : j \in 1 .. i} : d < told'[i].duration})
    BY <2>2, <2>5, <2>6 DEF ExactAt, Before
  <2> QED
    BY <2>3, <2>7 DEF PositionIsExact
<1>4. ASSUME NEW s \in Sessions,
             \/ (\E n \in Numbers : Connect(s, n)) \/ Request(s) \/ LastRequest(s)
             \/ Lock(s) \/ Insert(s) \/ End(s)
      PROVE  UNCHANGED told
  BY <1>4 DEF Connect, Request, LastRequest, Lock, Insert, End
<1>5. ASSUME Tick \/ UNCHANGED vars
      PROVE  UNCHANGED told
  BY <1>5 DEF Tick, vars
<1> QED
  BY <1>2, <1>3, <1>4, <1>5 DEF Next

LEMMA Invariance == Spec => []IInv
<1>1. IInv /\ [Next]_vars => IInv'
  BY TypesStep, CountStep, NewStep, MutexStep, DurationsStep, PositionStep DEF IInv
<1> QED
  BY <1>1, InitInv, PTL DEF Spec

(****************************************************************************)
(* The theorems.                                                            *)
(****************************************************************************)

\* Every variable keeps its type: no count leaves the range of its integer type.
THEOREM TypeCorrect == Spec => []TypeOK
<1>1. IInv => TypeOK
  BY DEF IInv
<1> QED
  BY <1>1, Invariance, PTL

\* The server stops receiving with the answer that completes what was asked for, and
\* the prompts count down to it and on, modulo the range of the counter.
THEOREM CountIsKept == Spec => []CountedAsAsked
<1>1. IInv => CountedAsAsked
  BY DEF IInv, Counted, CountedAsAsked
<1> QED
  BY <1>1, Invariance, PTL

\* The position that is told with a duration is the one it has among those told so
\* far.
THEOREM PositionsAreExact == Spec => []PositionIsExact
<1>1. IInv => PositionIsExact
  BY DEF IInv
<1> QED
  BY <1>1, Invariance, PTL
=============================================================================
