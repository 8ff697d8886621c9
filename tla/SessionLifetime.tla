--------------------------- MODULE SessionLifetime ---------------------------
(****************************************************************************)
(* What a Server and its session manager promise about Session objects,     *)
(* without threads, locks, maps or reference counts: a session opens once,  *)
(* closes once, and a server that is gone has left no session behind.       *)
(****************************************************************************)
CONSTANT Sessions

VARIABLES
    session,  \* "unborn", "open" or "closed"
    phase     \* of the server: "up", "stopping" or "gone"

vars == << session, phase >>

Init ==
    /\ session = [s \in Sessions |-> "unborn"]
    /\ phase = "up"

Open(s) ==
    /\ phase = "up"
    /\ session[s] = "unborn"
    /\ session' = [session EXCEPT ![s] = "open"]
    /\ UNCHANGED phase

\* By its peer, by an error, by its payload or by the end of the server.
Close(s) ==
    /\ phase # "gone"
    /\ session[s] = "open"
    /\ session' = [session EXCEPT ![s] = "closed"]
    /\ UNCHANGED phase

Stop ==
    /\ phase = "up"
    /\ phase' = "stopping"
    /\ UNCHANGED session

Vanish ==
    /\ phase = "stopping"
    /\ \A s \in Sessions : session[s] # "open"
    /\ phase' = "gone"
    /\ UNCHANGED session

Next == (\E s \in Sessions : Open(s) \/ Close(s)) \/ Stop \/ Vanish

Spec == Init /\ [][Next]_vars
=============================================================================
