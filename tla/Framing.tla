------------------------------- MODULE Framing -------------------------------
(****************************************************************************)
(* What reading with a completion function promises, without buffers: the   *)
(* bytes a peer sends are cut after each null byte, and the pieces are      *)
(* handed over one by one, in order and whole, until the connection fails.  *)
(****************************************************************************)
EXTENDS Naturals, Sequences

CONSTANTS
    Bytes,    \* the values of a byte; 0 ends a request
    MaxSent   \* bound: bytes the peer sends

VARIABLES
    sent,       \* everything the peer has sent
    consumed,   \* how many of those bytes belong to delivered requests
    delivered,  \* the requests handed over, in order
    failed      \* the connection is gone

vars == << sent, consumed, delivered, failed >>

Init ==
    /\ sent = << >>
    /\ consumed = 0
    /\ delivered = << >>
    /\ failed = FALSE

Send(b) ==
    /\ Len(sent) < MaxSent
    /\ sent' = Append(sent, b)
    /\ UNCHANGED << consumed, delivered, failed >>

\* Hand over the bytes up to the first null byte that was not consumed.
Deliver ==
    /\ ~failed
    /\ consumed' \in { i \in consumed + 1 .. Len(sent) : sent[i] = 0 }
    /\ \A i \in consumed + 1 .. consumed' - 1 : sent[i] # 0
    /\ delivered' = Append(delivered, SubSeq(sent, consumed + 1, consumed'))
    /\ UNCHANGED << sent, failed >>

Fail ==
    /\ ~failed
    /\ failed' = TRUE
    /\ UNCHANGED << sent, consumed, delivered >>

Next == (\E b \in Bytes : Send(b)) \/ Deliver \/ Fail

Spec == Init /\ [][Next]_vars

\* A whole request does not wait for bytes that come after it.
FairSpec == Spec /\ WF_vars(Deliver)
=============================================================================
