---------------------------- MODULE SuchATricky1 ----------------------------
(****************************************************************************)
(* The example suchATricky1 (and suchATricky1Wrong, which differs in how    *)
(* the payload gets at the durations): a session header says how many       *)
(* requests the session is to have, sessionSpecific counts them down, every *)
(* answer's header says how many are left, and the last one also how long   *)
(* the session took and the position of that among all sessions'.  The last *)
(* one only shuts the receiving side of the socket down: the session goes   *)
(* on reading, and a request that has already come is served like any       *)
(* other, so that the count goes below 0.  Sessions are served by as many   *)
(* workers, each by one at a time; what they share is Durations, a set      *)
(* behind a mutex.                                                          *)
(****************************************************************************)
EXTENDS Naturals, Sequences, FiniteSets

CONSTANTS
    Sessions,     \* the connections
    Base,         \* a number of two digits of this base stands for a uint32_t
    Numbers,      \* what the users of clients ask for (option --num)
    MaxRequests,  \* bound: requests served in a session
    MaxTime,      \* bound: of the clock
    Free          \* the mutex's owner when there is none

ASSUME BaseAssumption == Base \in Nat \ {0} /\ Numbers \subseteq 0 .. Base * Base - 1
ASSUME FreeAssumption == Free \notin Sessions
ASSUME BoundsAssumption == MaxRequests \in Nat /\ MaxTime \in Nat

Modulus == Base * Base
Orders == {"big", "little"}

VARIABLES
    order,      \* byte order of each client's host, and of the server's
    at,         \* "new", "open", "footer", "locked", "inserted", "over"
    asked,      \* the number in the session's header, as its user means it
    left,       \* sessionSpecific.numOfRequestsLeft
    startedAt,  \* sessionSpecific.startedAt
    answers,    \* answers sent
    shown,      \* numOfRequests in the client's prompt, from the last of them
    shut,       \* sessions whose socket does not receive any more
    duration,   \* of a session that is at "footer", "locked" or "inserted"
    told,       \* the durations and positions told, in the order of the mutex
    durations,  \* Durations: the set
    locker,     \*            and the mutex
    clock       \* time(0)

vars == << order, at, asked, left, startedAt, answers, shown, shut, duration, told,
           durations, locker, clock >>

Number == 0 .. Modulus - 1

TypeOK ==
    /\ order \in [client : [Sessions -> Orders], server : Orders]
    /\ at \in [Sessions -> {"new", "open", "footer", "locked", "inserted", "over"}]
    /\ {asked, left, shown} \subseteq [Sessions -> Number]
    /\ {startedAt, duration} \subseteq [Sessions -> 0 .. MaxTime]
    /\ answers \in [Sessions -> 0 .. MaxRequests]
    /\ shut \subseteq Sessions
    /\ told \in Seq([duration : 0 .. MaxTime, position : 1 .. MaxTime + 1])
    /\ durations \subseteq 0 .. MaxTime
    /\ locker \in Sessions \cup {Free}
    /\ clock \in 0 .. MaxTime

Init ==
    /\ order \in [client : [Sessions -> Orders], server : Orders]
    /\ at = [s \in Sessions |-> "new"]
    /\ asked = [s \in Sessions |-> 0] /\ left = asked /\ shown = asked
    /\ startedAt = asked /\ answers = asked /\ duration = asked
    /\ shut = {} /\ told = << >> /\ durations = {} /\ locker = Free
    /\ clock = 0

----------------------------------------------------------------------------
(* Numbers in memory.  A number's bytes are written down as the number that *)
(* a host of byte order "big" would see in them.                            *)

Reversed(x) == Base * (x % Base) + x \div Base

Memory(x, host) == IF host = "little" THEN Reversed(x) ELSE x
Value(bytes, host) == IF host = "little" THEN Reversed(bytes) ELSE bytes

\* htonl and ntohl: a number whose memory is the one of x in network byte order.
Htonl(x, host) == Value(x, host)
Ntohl(x, host) == Memory(x, host)

\* Client: the number in the session header, in network byte order.
SessionHdr(n, host) == Memory(Htonl(n, host), host)

\* InitAnySessionSpecific.
MutantHostOrder(hdr) == Value(hdr, order.server)

RequestsOf(hdr) == Ntohl(Value(hdr, order.server), order.server)

Connect(s, n) ==
    /\ at[s] = "new"
    /\ asked' = [asked EXCEPT ![s] = n]
    /\ shown' = [shown EXCEPT ![s] = n]
    /\ left' = [left EXCEPT ![s] = RequestsOf(SessionHdr(n, order.client[s]))]
    /\ startedAt' = [startedAt EXCEPT ![s] = clock]
    /\ at' = [at EXCEPT ![s] = "open"]
    /\ UNCHANGED << order, answers, shut, duration, told, durations, locker, clock >>

----------------------------------------------------------------------------
\* The answer's header goes to the client as it is in the server's memory.
Answer(s, number) ==
    /\ answers' = [answers EXCEPT ![s] = @ + 1]
    /\ shown' = [shown EXCEPT ![s] = Value(Memory(number, order.server), order.client[s])]

\* -- sessionSpecific.numOfRequestsLeft, of type uint32_t.
MutantWider(number) == number + Modulus - 1

Decremented(number) == (number + Modulus - 1) % Modulus

\* doSomething, for any request but the last; also for one that has come before or
\* after the socket was shut down, when readRequestSw finds it there.
Request(s) ==
    /\ at[s] = "open"
    /\ answers[s] < MaxRequests
    /\ left' = [left EXCEPT ![s] = Decremented(@)]
    /\ Decremented(left[s]) # 0
    /\ Answer(s, Decremented(left[s]))
    /\ UNCHANGED << order, at, asked, startedAt, shut, duration, told, durations, locker,
                    clock >>

\* For the last one: first the duration, ...
LastRequest(s) ==
    /\ at[s] = "open"
    /\ answers[s] < MaxRequests
    /\ left' = [left EXCEPT ![s] = Decremented(@)]
    /\ Decremented(left[s]) = 0
    /\ duration' = [duration EXCEPT ![s] = clock - startedAt[s]]
    /\ at' = [at EXCEPT ![s] = "footer"]
    /\ UNCHANGED << order, asked, startedAt, answers, shown, shut, told, durations, locker,
                    clock >>

\* ... then, with the mutex locked, ...
MutantUnguarded == TRUE

MutexIsFree == locker = Free

Lock(s) ==
    /\ at[s] = "footer"
    /\ MutexIsFree
    /\ locker' = s
    /\ at' = [at EXCEPT ![s] = "locked"]
    /\ UNCHANGED << order, asked, left, startedAt, answers, shown, shut, duration, told,
                    durations, clock >>

\* ... insert, ...
Insert(s) ==
    /\ at[s] = "locked"
    /\ durations' = durations \cup {duration[s]}
    /\ at' = [at EXCEPT ![s] = "inserted"]
    /\ UNCHANGED << order, asked, left, startedAt, answers, shown, shut, duration, told,
                    locker, clock >>

\* ... and distance to what was inserted.  The payload returns 0: the receiving
\* side is shut down, the answer sent, and the next request read.
Position(s) == Cardinality({d \in durations : d < duration[s]}) + 1

Unlock(s) ==
    /\ at[s] = "inserted"
    /\ told' = Append(told, [duration |-> duration[s], position |-> Position(s)])
    /\ locker' = Free
    /\ shut' = shut \cup {s}
    /\ Answer(s, left[s])
    /\ at' = [at EXCEPT ![s] = "open"]
    /\ UNCHANGED << order, asked, left, startedAt, duration, durations, clock >>

\* The read fails: the socket was shut down and nothing is there to be read, or the
\* client is gone, or the connection lost.
End(s) ==
    /\ at[s] = "open"
    /\ at' = [at EXCEPT ![s] = "over"]
    /\ UNCHANGED << order, asked, left, startedAt, answers, shown, shut, duration, told,
                    durations, locker, clock >>

Tick ==
    /\ clock < MaxTime
    /\ clock' = clock + 1
    /\ UNCHANGED << order, at, asked, left, startedAt, answers, shown, shut, duration, told,
                    durations, locker >>

Next ==
    \/ \E s \in Sessions :
         \/ \E n \in Numbers : Connect(s, n)
         \/ Request(s) \/ LastRequest(s) \/ Lock(s) \/ Insert(s) \/ Unlock(s) \/ End(s)
    \/ Tick

Spec == Init /\ [][Next]_vars

----------------------------------------------------------------------------
(* Properties.                                                              *)

\* Who asks for none gets the whole range of the counter before it comes to 0.
Wanted(n) == IF n = 0 THEN Modulus ELSE n

\* The server stops receiving with the answer that completes what the user has asked
\* for, neither before nor after it, whatever the byte orders; with equal byte orders
\* the prompt says how many answers remain, modulo the range of the counter.  More
\* answers than were asked for are possible: for requests that are there when the
\* session reads on, with a prompt that starts again from the largest number.
CountedAsAsked ==
    \A s \in Sessions : at[s] # "new" =>
      /\ s \in shut <=> answers[s] >= Wanted(asked[s])
      /\ order.client[s] = order.server => (shown[s] + answers[s]) % Modulus = asked[s]

\* The position that is told with a duration is that of the duration among those
\* told before, equal ones counting once, although other workers may insert theirs
\* at the same time.
PositionIsExact ==
    \A i \in DOMAIN told :
      LET before == {told[j].duration : j \in 1 .. i}
      IN  told[i].position = 1 + Cardinality({d \in before : d < told[i].duration})
=============================================================================
