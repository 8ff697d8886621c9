------------------------ MODULE ParallelOwners_proofs ------------------------
(* Machine-checked: sessions without a manager live exactly as long as their  *)
(* operations and tasks, for any number of sessions, threads and requests.    *)
EXTENDS ParallelRequests_proofs, FiniteSetTheorems

(****************************************************************************)
(* The inductive invariant, on top of that of the buffers.                  *)
(****************************************************************************)

RestTyped ==
    /\ pool \in Pools
    /\ server \in {"up", "stopped", "joining", "dying", "gone"}
    /\ accepting \subseteq Sessions /\ starting \subseteq accepting
    /\ shut \subseteq Sessions /\ refused \subseteq Sessions
    /\ peer \in [Sessions -> {"open", "gone"}]
    /\ running \subseteq Run
    /\ specific \in [Sessions -> Nat]
    /\ done \in [Sessions -> SUBSET Requests]
    /\ owners \in [Sessions -> Int]
    /\ IsFiniteSet(queue) /\ IsFiniteSet(running)

\* Who keeps a session, as numbers.
TasksIn(S, s) == {t \in S : t.of = s}
RunsIn(S, s) == {r \in S : r.task.of = s}
Queued(s) == TasksIn(queue, s)
RunningOf(s) == RunsIn(running, s)
OneIf(condition) == IF condition THEN 1 ELSE 0
Kept(s) ==
    OneIf(s \in accepting) + OneIf(chain[s] \in Active)
        + Cardinality(Queued(s)) + Cardinality(RunningOf(s))

\* Nobody has a session before it was accepted.
UnbornIsUnknown == \A s \in Sessions : chain[s] = "unborn" => owners[s] = 0

\* The end of the server goes in stages, each of which leaves less behind.
Stages ==
    /\ server \in {"joining", "dying", "gone"} =>
         accepting = {} /\ \A s \in Sessions : chain[s] # "call"
    /\ server \in {"dying", "gone"} => queue = {} /\ running = {}
    /\ server = "gone" => \A s \in Sessions : chain[s] \notin Reads

OInv ==
    /\ IInv
    /\ RestTyped
    /\ \A s \in Sessions : owners[s] = Kept(s)
    /\ UnbornIsUnknown
    /\ Stages

(****************************************************************************)
(* Counting.                                                                *)
(****************************************************************************)

LEMMA CountQueued ==
    ASSUME NEW S, IsFiniteSet(S), NEW t, NEW s
    PROVE  /\ Cardinality(TasksIn(S, s)) \in Nat
           /\ t \notin S =>
                Cardinality(TasksIn(S \cup {t}, s)) = Cardinality(TasksIn(S, s)) + OneIf(t.of = s)
           /\ t \in S =>
                Cardinality(TasksIn(S \ {t}, s)) = Cardinality(TasksIn(S, s)) - OneIf(t.of = s)
<1>2. IsFiniteSet(TasksIn(S, s))
  <2>1. TasksIn(S, s) \in SUBSET S
    BY DEF TasksIn
  <2> QED
    BY <2>1, FS_Subset
<1>3. Cardinality(TasksIn(S, s)) \in Nat
  BY <1>2, FS_CardinalityType
<1>4. ASSUME t \notin S
      PROVE  Cardinality(TasksIn(S \cup {t}, s)) = Cardinality(TasksIn(S, s)) + OneIf(t.of = s)
  <2>1. CASE t.of = s
    <3>1. TasksIn(S \cup {t}, s) = TasksIn(S, s) \cup {t} /\ t \notin TasksIn(S, s)
      BY <1>4, <2>1 DEF TasksIn
    <3>2. Cardinality(TasksIn(S, s) \cup {t}) = Cardinality(TasksIn(S, s)) + 1
      BY <1>2, <3>1, FS_AddElement
    <3> QED
      BY <2>1, <3>1, <3>2 DEF OneIf
  <2>2. CASE t.of # s
    <3>1. TasksIn(S \cup {t}, s) = TasksIn(S, s)
      BY <2>2 DEF TasksIn
    <3> QED
      BY <1>3, <2>2, <3>1 DEF OneIf
  <2> QED
    BY <2>1, <2>2
<1>5. ASSUME t \in S
      PROVE  Cardinality(TasksIn(S \ {t}, s)) = Cardinality(TasksIn(S, s)) - OneIf(t.of = s)
  <2>1. CASE t.of = s
    <3>1. TasksIn(S \ {t}, s) = TasksIn(S, s) \ {t} /\ t \in TasksIn(S, s)
      BY <1>5, <2>1 DEF TasksIn
    <3>2. Cardinality(TasksIn(S, s) \ {t}) = Cardinality(TasksIn(S, s)) - 1
      BY <1>2, <3>1, FS_RemoveElement
    <3> QED
      BY <2>1, <3>1, <3>2 DEF OneIf
  <2>2. CASE t.of # s
    <3>1. TasksIn(S \ {t}, s) = TasksIn(S, s)
      BY <2>2 DEF TasksIn
    <3> QED
      BY <1>3, <2>2, <3>1 DEF OneIf
  <2> QED
    BY <2>1, <2>2
<1> QED
  BY <1>3, <1>4, <1>5

LEMMA CountRunning ==
    ASSUME NEW S, IsFiniteSet(S), NEW r, NEW s
    PROVE  /\ Cardinality(RunsIn(S, s)) \in Nat
           /\ r \notin S =>
                Cardinality(RunsIn(S \cup {r}, s))
                    = Cardinality(RunsIn(S, s)) + OneIf(r.task.of = s)
           /\ r \in S =>
                Cardinality(RunsIn(S \ {r}, s)) = Cardinality(RunsIn(S, s)) - OneIf(r.task.of = s)
<1>2. IsFiniteSet(RunsIn(S, s))
  <2>1. RunsIn(S, s) \in SUBSET S
    BY DEF RunsIn
  <2> QED
    BY <2>1, FS_Subset
<1>3. Cardinality(RunsIn(S, s)) \in Nat
  BY <1>2, FS_CardinalityType
<1>4. ASSUME r \notin S
      PROVE  Cardinality(RunsIn(S \cup {r}, s)) = Cardinality(RunsIn(S, s)) + OneIf(r.task.of = s)
  <2>1. CASE r.task.of = s
    <3>1. RunsIn(S \cup {r}, s) = RunsIn(S, s) \cup {r} /\ r \notin RunsIn(S, s)
      BY <1>4, <2>1 DEF RunsIn
    <3>2. Cardinality(RunsIn(S, s) \cup {r}) = Cardinality(RunsIn(S, s)) + 1
      BY <1>2, <3>1, FS_AddElement
    <3> QED
      BY <2>1, <3>1, <3>2 DEF OneIf
  <2>2. CASE r.task.of # s
    <3>1. RunsIn(S \cup {r}, s) = RunsIn(S, s)
      BY <2>2 DEF RunsIn
    <3> QED
      BY <1>3, <2>2, <3>1 DEF OneIf
  <2> QED
    BY <2>1, <2>2
<1>5. ASSUME r \in S
      PROVE  Cardinality(RunsIn(S \ {r}, s)) = Cardinality(RunsIn(S, s)) - OneIf(r.task.of = s)
  <2>1. CASE r.task.of = s
    <3>1. RunsIn(S \ {r}, s) = RunsIn(S, s) \ {r} /\ r \in RunsIn(S, s)
      BY <1>5, <2>1 DEF RunsIn
    <3>2. Cardinality(RunsIn(S, s) \ {r}) = Cardinality(RunsIn(S, s)) - 1
      BY <1>2, <3>1, FS_RemoveElement
    <3> QED
      BY <2>1, <3>1, <3>2 DEF OneIf
  <2>2. CASE r.task.of # s
    <3>1. RunsIn(S \ {r}, s) = RunsIn(S, s)
      BY <2>2 DEF RunsIn
    <3> QED
      BY <1>3, <2>2, <3>1 DEF OneIf
  <2> QED
    BY <2>1, <2>2
<1> QED
  BY <1>3, <1>4, <1>5

\* What that means for the variables.
LEMMA QueuedStep ==
    ASSUME IsFiniteSet(queue), NEW t, NEW s
    PROVE  /\ t \notin queue /\ queue' = queue \cup {t} =>
                Cardinality(Queued(s)') = Cardinality(Queued(s)) + OneIf(t.of = s)
           /\ t \in queue /\ queue' = queue \ {t} =>
                Cardinality(Queued(s)') = Cardinality(Queued(s)) - OneIf(t.of = s)
<1>1. CASE t \notin queue /\ queue' = queue \cup {t}
  <2>1. Cardinality(TasksIn(queue \cup {t}, s)) =
          Cardinality(TasksIn(queue, s)) + OneIf(t.of = s)
    BY <1>1, CountQueued
  <2> QED
    BY <1>1, <2>1 DEF Queued
<1>2. CASE t \in queue /\ queue' = queue \ {t}
  <2>1. Cardinality(TasksIn(queue \ {t}, s)) =
          Cardinality(TasksIn(queue, s)) - OneIf(t.of = s)
    BY <1>2, CountQueued
  <2> QED
    BY <1>2, <2>1 DEF Queued
<1> QED
  BY <1>1, <1>2

LEMMA RunningStep ==
    ASSUME IsFiniteSet(running), NEW r, NEW s
    PROVE  /\ r \notin running /\ running' = running \cup {r} =>
                Cardinality(RunningOf(s)') = Cardinality(RunningOf(s)) + OneIf(r.task.of = s)
           /\ r \in running /\ running' = running \ {r} =>
                Cardinality(RunningOf(s)') = Cardinality(RunningOf(s)) - OneIf(r.task.of = s)
<1>1. CASE r \notin running /\ running' = running \cup {r}
  <2>1. Cardinality(RunsIn(running \cup {r}, s)) =
          Cardinality(RunsIn(running, s)) + OneIf(r.task.of = s)
    BY <1>1, CountRunning
  <2> QED
    BY <1>1, <2>1 DEF RunningOf
<1>2. CASE r \in running /\ running' = running \ {r}
  <2>1. Cardinality(RunsIn(running \ {r}, s)) =
          Cardinality(RunsIn(running, s)) - OneIf(r.task.of = s)
    BY <1>2, CountRunning
  <2> QED
    BY <1>2, <2>1 DEF RunningOf
<1> QED
  BY <1>1, <1>2

\* OwnersExact counts with sets of at most one element where Kept has numbers.
LEMMA KeptIsExact == (\A s \in Sessions : owners[s] = Kept(s)) <=> OwnersExact
<1>1. ASSUME NEW s \in Sessions
      PROVE  /\ Cardinality(accepting \cap {s}) = OneIf(s \in accepting)
             /\ Cardinality({x \in {s} : chain[x] \in Active}) = OneIf(chain[s] \in Active)
  <2>1. accepting \cap {s} = IF s \in accepting THEN {s} ELSE {}
    OBVIOUS
  <2>2. {x \in {s} : chain[x] \in Active} = IF chain[s] \in Active THEN {s} ELSE {}
    OBVIOUS
  <2> QED
    BY <2>1, <2>2, FS_EmptySet, FS_Singleton DEF OneIf
<1> QED
  BY <1>1 DEF OwnersExact, Kept, Queued, RunningOf, TasksIn, RunsIn

(****************************************************************************)
(* Typing of what buffers do not depend on.                                 *)
(****************************************************************************)

LEMMA OwnersInit == Init => OInv
<1> SUFFICES ASSUME Init PROVE OInv
  OBVIOUS
<1>1. RestTyped
  BY FS_EmptySet DEF Init, RestTyped
<1>2. UnbornIsUnknown /\ Stages
  BY DEF Init, UnbornIsUnknown, Stages
<1>3. ASSUME NEW s \in Sessions
      PROVE  owners[s] = Kept(s)
  <2>1. Queued(s) = {} /\ RunningOf(s) = {}
    BY DEF Init, Queued, RunningOf, TasksIn, RunsIn
  <2>2. OneIf(s \in accepting) = 0 /\ OneIf(chain[s] \in Active) = 0
    BY DEF Init, OneIf, Active, Reads
  <2> QED
    BY <2>1, <2>2, FS_EmptySet DEF Init, Kept
<1> QED
  BY <1>1, <1>2, <1>3, InvInit DEF OInv

LEMMA RestStep == OInv /\ [Next]_vars => RestTyped'
<1> SUFFICES ASSUME OInv, [Next]_vars PROVE RestTyped'
  OBVIOUS
<1> USE DEF RestTyped
<1>0. RestTyped /\ Tasks \subseteq Task
  BY DEF OInv, IInv, BuffersTyped
<1>1. ASSUME NEW s \in Sessions, \/ Accept(s) \/ AcceptAgain(s) \/ DropSession(s)
                                 \/ ReadRequestHdr(s) \/ ReadRequestData(s)
                                 \/ ReadFails(s) \/ DestroyOperation(s)
                                 \/ \E n \in Requests : ReceiveRequests(s, n)
                                 \/ PeerSends(s) \/ PeerGoes(s)
      PROVE  RestTyped'
  BY <1>0, <1>1 DEF Accept, AcceptAgain, DropSession, ReadRequestHdr, ReadRequestData, ReadFails,
     DestroyOperation, ReceiveRequests, PeerSends, PeerGoes
<1>2. ASSUME NEW s \in Sessions, ProcessRequest(s)
      PROVE  RestTyped'
  <2>1. \E t : queue' = queue \cup {t}
    BY <1>2 DEF ProcessRequest, Schedule
  <2>2. IsFiniteSet(queue')
    BY <1>0, <2>1, FS_AddElement
  <2> QED
    BY <1>0, <1>2, <2>2 DEF ProcessRequest, Schedule
<1>3. ASSUME NEW p \in PoolThreads, NEW t \in queue, StartPayload(p, t)
      PROVE  RestTyped'
  <2> DEFINE new == [thread |-> p, task |-> t, loaded |-> specific[t.of]]
  <2>1. t \in Task /\ t.of \in Sessions
    BY <1>0 DEF Tasks, Task
  <2>2. new \in Run
    BY <1>0, <2>1 DEF Run
  <2>3. queue' = queue \ {t} /\ running' = running \cup {new}
    BY <1>3 DEF StartPayload
  <2> HIDE DEF new
  <2>4. IsFiniteSet(queue') /\ IsFiniteSet(running') /\ running' \subseteq Run
    BY <1>0, <2>2, <2>3, FS_AddElement, FS_RemoveElement
  <2> QED
    BY <1>0, <1>3, <2>4 DEF StartPayload
<1>4. ASSUME NEW r \in running, NEW retCode \in Results, FinishPayload(r, retCode)
      PROVE  RestTyped'
  <2>1. /\ r.task.of \in Sessions /\ r.task.request \in Requests
        /\ r.loaded + 1 \in Nat
    BY <1>0 DEF Run, Task
  <2>2. IsFiniteSet(running') /\ running' \subseteq Run
    BY <1>0, <1>4, FS_RemoveElement DEF FinishPayload
  <2>3. specific' \in [Sessions -> Nat] /\ done' \in [Sessions -> SUBSET Requests]
    BY <1>0, <1>4, <2>1 DEF FinishPayload
  <2> QED
    BY <1>0, <1>4, <2>1, <2>2, <2>3 DEF FinishPayload, ShutDownIfZero
<1>5. ASSUME NEW t \in queue, DiscardTask(t)
      PROVE  RestTyped'
  <2>1. queue' = queue \ {t} /\ t.of \in Sessions
    BY <1>0, <1>5 DEF DiscardTask, Tasks, Task
  <2>2. IsFiniteSet(queue')
    BY <1>0, <2>1, FS_RemoveElement
  <2> QED
    BY <1>0, <1>5, <2>1, <2>2 DEF DiscardTask
<1>6. CASE Stop \/ WorkersGone \/ JoinPool \/ ServerDestroyed \/ UNCHANGED vars
  BY <1>0, <1>6 DEF Stop, WorkersGone, JoinPool, ServerDestroyed, vars
<1> QED
  BY <1>1, <1>2, <1>3, <1>4, <1>5, <1>6 DEF Next, WorkerStep, PoolStep, EndStep

(****************************************************************************)
(* Who owns a session.                                                      *)
(****************************************************************************)

\* What OInv says of one session and of the task that is to be scheduled.
LEMMA OwnersAt ==
    ASSUME OInv, NEW s \in Sessions
    PROVE  /\ owners[s] \in Nat
           /\ owners[s] = Kept(s)
           /\ Cardinality(Queued(s)) \in Nat
           /\ Cardinality(RunningOf(s)) \in Nat
           /\ s \in accepting => owners[s] >= 1
           /\ chain[s] \in Active => owners[s] >= 1
           /\ \A t \in queue : t.of = s => owners[s] >= 1
           /\ \A r \in running : r.task.of = s => owners[s] >= 1
<1>1. IsFiniteSet(queue) /\ IsFiniteSet(running)
  BY DEF OInv, RestTyped
<1>2. IsFiniteSet(Queued(s)) /\ IsFiniteSet(RunningOf(s))
  <2>1. Queued(s) \in SUBSET queue /\ RunningOf(s) \in SUBSET running
    BY DEF Queued, RunningOf, TasksIn, RunsIn
  <2> QED
    BY <1>1, <2>1, FS_Subset
<1>3. Cardinality(Queued(s)) \in Nat /\ Cardinality(RunningOf(s)) \in Nat
  BY <1>2, FS_CardinalityType
<1>4. \A t \in queue : t.of = s => Cardinality(Queued(s)) # 0
  <2>1. \A t \in queue : t.of = s => Queued(s) # {}
    BY DEF Queued, TasksIn, RunsIn
  <2> QED
    BY <1>2, <2>1, FS_EmptySet
<1>5. \A r \in running : r.task.of = s => Cardinality(RunningOf(s)) # 0
  <2>1. \A r \in running : r.task.of = s => RunningOf(s) # {}
    BY DEF RunningOf, TasksIn, RunsIn
  <2> QED
    BY <1>2, <2>1, FS_EmptySet
<1>6. owners[s] = Kept(s)
  BY DEF OInv
<1> QED
  BY <1>3, <1>4, <1>5, <1>6 DEF Kept, OneIf

\* A step that changes neither what keeps sessions nor their counts.
LEMMA KeptFrame ==
    ASSUME NEW s \in Sessions, UNCHANGED << queue, running >>,
           s \in accepting' <=> s \in accepting,
           chain'[s] \in Active <=> chain[s] \in Active
    PROVE  Kept(s)' = Kept(s)
  BY DEF Kept, Queued, RunningOf, TasksIn, RunsIn, OneIf

LEMMA CountStep ==
    ASSUME OInv, [Next]_vars, NEW r \in Sessions
    PROVE  owners'[r] = Kept(r)'
<1>0. /\ owners \in [Sessions -> Int] /\ accepting \subseteq Sessions
      /\ IsFiniteSet(queue) /\ IsFiniteSet(running)
      /\ chain \in [Sessions -> Active \cup {"unborn", "over"}]
      /\ Tasks \subseteq Task
      /\ owners[r] = Kept(r)
  BY DEF OInv, RestTyped, IInv, BuffersTyped
<1>kept. /\ owners[r] \in Nat
         /\ Cardinality(Queued(r)) \in Nat /\ Cardinality(RunningOf(r)) \in Nat
  BY OwnersAt
\* One owner more or less, of one kind.
<1>other. ASSUME UNCHANGED << queue, running, owners >>,
                 r \in accepting' <=> r \in accepting,
                 chain'[r] \in Active <=> chain[r] \in Active
          PROVE  owners'[r] = Kept(r)'
  BY <1>0, <1>other, KeptFrame
<1>1. ASSUME NEW s \in Sessions, Accept(s)
      PROVE  owners'[r] = Kept(r)'
  <2>1. CASE r = s
    <3>1. owners[s] = 0 /\ chain[s] \notin Active /\ s \notin accepting
      BY <1>1, OwnersAt DEF Accept, OInv, UnbornIsUnknown, Active, Reads
    <3>2. Cardinality(Queued(s)) = 0 /\ Cardinality(RunningOf(s)) = 0
      BY <1>0, <1>kept, <2>1, <3>1 DEF Kept, OneIf
    <3>3. owners'[s] = 2 /\ chain'[s] \in Active /\ s \in accepting'
      BY <1>0, <1>1 DEF Accept, FirstRead, Active, Reads
    <3>4. Queued(s)' = Queued(s) /\ RunningOf(s)' = RunningOf(s)
      BY <1>1 DEF Accept, Queued, RunningOf, TasksIn, RunsIn
    <3> QED
      BY <2>1, <3>2, <3>3, <3>4 DEF Kept, OneIf
  <2>2. CASE r # s
    <3>1. /\ owners'[r] = owners[r] /\ chain'[r] = chain[r]
          /\ r \in accepting' <=> r \in accepting
          /\ UNCHANGED << queue, running >>
      BY <1>0, <1>1, <2>2 DEF Accept
    <3> QED
      BY <1>0, <3>1, KeptFrame
  <2> QED
    BY <2>1, <2>2
<1>2. ASSUME NEW s \in Sessions, DropSession(s)
      PROVE  owners'[r] = Kept(r)'
  <2>1. /\ owners'[r] = owners[r] - OneIf(r = s)
        /\ r \in accepting <=> r \in accepting' \/ r = s
        /\ s \notin accepting'
        /\ UNCHANGED << chain, queue, running >>
    BY <1>0, <1>2 DEF DropSession, OneIf
  <2>2. Queued(r)' = Queued(r) /\ RunningOf(r)' = RunningOf(r)
    BY <2>1 DEF Queued, RunningOf, TasksIn, RunsIn
  <2> QED
    BY <1>0, <1>kept, <2>1, <2>2 DEF Kept, OneIf
<1>3. ASSUME NEW s \in Sessions, ReadFails(s) \/ DestroyOperation(s)
      PROVE  owners'[r] = Kept(r)'
  <2>1. /\ owners'[r] = owners[r] - OneIf(r = s)
        /\ r # s => chain'[r] = chain[r]
        /\ chain[s] \in Active /\ chain'[s] \notin Active
        /\ UNCHANGED << accepting, queue, running >>
    BY <1>0, <1>3 DEF ReadFails, DestroyOperation, OneIf, Active, Reads
  <2>2. Queued(r)' = Queued(r) /\ RunningOf(r)' = RunningOf(r)
    BY <2>1 DEF Queued, RunningOf, TasksIn, RunsIn
  <2> QED
    BY <1>0, <1>kept, <2>1, <2>2 DEF Kept, OneIf
<1>4. ASSUME NEW s \in Sessions, \/ ReadRequestHdr(s) \/ ReadRequestData(s)
                                 \/ \E n \in Requests : ReceiveRequests(s, n)
      PROVE  owners'[r] = Kept(r)'
  <2>1. /\ UNCHANGED << queue, running, owners, accepting >>
        /\ chain'[r] \in Active <=> chain[r] \in Active
    BY <1>0, <1>4 DEF ReadRequestHdr, ReadRequestData, ReceiveRequests, Received, Active,
       Reads
  <2> QED
    BY <1>other, <2>1
<1>5. ASSUME NEW s \in Sessions, ProcessRequest(s)
      PROVE  owners'[r] = Kept(r)'
  <2> DEFINE new == [of |-> s, request |-> read[s], buffers |-> read[s]]
  <2>1. queue' = queue \cup {new} /\ UNCHANGED << accepting, running >>
    BY <1>5 DEF ProcessRequest, Schedule, GetPrivate
  <2>2. new \notin queue
    BY <1>5, AtSession DEF OInv, ProcessRequest, Tasks, IInv, TasksBehind, BuffersTyped, Task
  <2>3. owners'[r] = owners[r] + OneIf(r = s)
    BY <1>0, <1>5 DEF ProcessRequest, Schedule, OneIf
  <2>4. chain'[r] \in Active <=> chain[r] \in Active
    BY <1>0, <1>5 DEF ProcessRequest, ReadRequest, FirstRead, Active, Reads
  <2>5. new.of = s
    OBVIOUS
  <2> HIDE DEF new
  <2>6. Cardinality(Queued(r)') = Cardinality(Queued(r)) + OneIf(r = s)
    BY <1>0, <2>1, <2>2, <2>5, QueuedStep DEF OneIf
  <2>7. RunningOf(r)' = RunningOf(r)
    BY <2>1 DEF RunningOf, TasksIn, RunsIn
  <2> QED
    BY <1>0, <1>kept, <2>1, <2>3, <2>4, <2>6, <2>7 DEF Kept, OneIf
\* A task that is taken from the queue goes on as a payload that runs.
<1>6. ASSUME NEW p \in PoolThreads, NEW t \in queue, StartPayload(p, t)
      PROVE  owners'[r] = Kept(r)'
  <2> DEFINE new == [thread |-> p, task |-> t, loaded |-> specific[t.of]]
  <2>1. /\ queue' = queue \ {t} /\ running' = running \cup {new}
        /\ UNCHANGED << accepting, chain, owners >>
    BY <1>6 DEF StartPayload
  <2>2. new \notin running /\ new.task.of = t.of
    BY <1>6 DEF StartPayload, ThreadIsFree
  <2> HIDE DEF new
  <2>3. Cardinality(Queued(r)') = Cardinality(Queued(r)) - OneIf(t.of = r)
    BY <1>0, <2>1, QueuedStep
  <2>4. Cardinality(RunningOf(r)') = Cardinality(RunningOf(r)) + OneIf(t.of = r)
    BY <1>0, <2>1, <2>2, RunningStep
  <2> QED
    BY <1>0, <1>kept, <2>1, <2>3, <2>4 DEF Kept, OneIf
<1>7. ASSUME NEW x \in running, NEW retCode \in Results, FinishPayload(x, retCode)
      PROVE  owners'[r] = Kept(r)'
  <2>1. /\ running' = running \ {x}
        /\ UNCHANGED << accepting, chain, queue >>
        /\ owners'[r] = owners[r] - OneIf(x.task.of = r)
    BY <1>0, <1>7 DEF FinishPayload, OneIf
  <2>2. Cardinality(RunningOf(r)') = Cardinality(RunningOf(r)) - OneIf(x.task.of = r)
    BY <1>0, <2>1, RunningStep
  <2>3. Queued(r)' = Queued(r)
    BY <2>1 DEF Queued, TasksIn, RunsIn
  <2> QED
    BY <1>0, <1>kept, <2>1, <2>2, <2>3 DEF Kept, OneIf
<1>8. ASSUME NEW t \in queue, DiscardTask(t)
      PROVE  owners'[r] = Kept(r)'
  <2>1. /\ queue' = queue \ {t}
        /\ UNCHANGED << accepting, chain, running >>
        /\ owners'[r] = owners[r] - OneIf(t.of = r)
    BY <1>0, <1>8 DEF DiscardTask, OneIf
  <2>2. Cardinality(Queued(r)') = Cardinality(Queued(r)) - OneIf(t.of = r)
    BY <1>0, <2>1, QueuedStep
  <2>3. RunningOf(r)' = RunningOf(r)
    BY <2>1 DEF RunningOf, TasksIn, RunsIn
  <2> QED
    BY <1>0, <1>kept, <2>1, <2>2, <2>3 DEF Kept, OneIf
<1>9. CASE \/ Stop \/ WorkersGone \/ JoinPool \/ ServerDestroyed \/ UNCHANGED vars
           \/ \E s \in Sessions : AcceptAgain(s) \/ PeerSends(s) \/ PeerGoes(s)
  <2>1. UNCHANGED << queue, running, owners, accepting, chain >>
    BY <1>9 DEF AcceptAgain, Stop, WorkersGone, JoinPool, ServerDestroyed, vars, PeerSends, PeerGoes
  <2> QED
    BY <1>other, <2>1
<1> QED
  BY <1>1, <1>2, <1>3, <1>4, <1>5, <1>6, <1>7, <1>8, <1>9
  DEF Next, WorkerStep, PoolStep, EndStep

LEMMA StagesStep == OInv /\ [Next]_vars => Stages' /\ UnbornIsUnknown'
<1> SUFFICES ASSUME OInv, [Next]_vars PROVE Stages' /\ UnbornIsUnknown'
  OBVIOUS
<1>0. /\ Stages /\ UnbornIsUnknown
      /\ owners \in [Sessions -> Int] /\ accepting \subseteq Sessions
      /\ chain \in [Sessions -> Active \cup {"unborn", "over"}]
      /\ \A t \in Tasks : t.of \in Sessions
      /\ server \in {"up", "stopped", "joining", "dying", "gone"}
  BY DEF OInv, RestTyped, IInv, BuffersTyped, Task
<1> USE DEF Stages, UnbornIsUnknown
<1>1. ASSUME NEW s \in Sessions, \/ Accept(s) \/ AcceptAgain(s) \/ DropSession(s)
                                 \/ ReadRequestHdr(s) \/ ReadRequestData(s)
                                 \/ ReadFails(s) \/ DestroyOperation(s)
                                 \/ \E n \in Requests : ReceiveRequests(s, n)
      PROVE  Stages' /\ UnbornIsUnknown'
  <2>1. Stages'
    BY <1>0, <1>1 DEF Accept, AcceptAgain, DropSession, ReadRequestHdr, ReadRequestData, ReadFails,
       DestroyOperation, ReceiveRequests, Received, FirstRead, Reads
  <2>2. s \in accepting => chain[s] # "unborn"
    BY <1>0, OwnersAt
  <2>3. UnbornIsUnknown'
    BY <1>0, <1>1, <2>2 DEF Accept, AcceptAgain, DropSession, ReadRequestHdr,
       ReadRequestData, ReadFails, DestroyOperation, ReceiveRequests, Received, FirstRead,
       Reads
  <2> QED
    BY <2>1, <2>3
<1>2. ASSUME NEW s \in Sessions, ProcessRequest(s)
      PROVE  Stages' /\ UnbornIsUnknown'
  <2>1. /\ chain[s] = "call"
        /\ chain' = [chain EXCEPT ![s] = "call"] \/ chain' = [chain EXCEPT ![s] = FirstRead]
        /\ owners' = [owners EXCEPT ![s] = @ + 1]
        /\ UNCHANGED << server, accepting, running >>
    BY <1>0, <1>2 DEF ProcessRequest, ReadRequest, Schedule
  <2> QED
    BY <1>0, <2>1 DEF FirstRead
<1>3. ASSUME NEW p \in PoolThreads, NEW t \in queue, StartPayload(p, t)
      PROVE  Stages' /\ UnbornIsUnknown'
  BY <1>0, <1>3 DEF StartPayload
<1>4. ASSUME NEW r \in running, NEW retCode \in Results, FinishPayload(r, retCode)
      PROVE  Stages' /\ UnbornIsUnknown'
  <2>1. r.task.of \in Sessions /\ chain[r.task.of] # "unborn"
    BY <1>0, OwnersAt DEF Tasks
  <2> QED
    BY <1>0, <1>4, <2>1 DEF FinishPayload
<1>5. ASSUME NEW t \in queue, DiscardTask(t)
      PROVE  Stages' /\ UnbornIsUnknown'
  <2>1. t.of \in Sessions /\ chain[t.of] # "unborn"
    BY <1>0, OwnersAt DEF Tasks
  <2> QED
    BY <1>0, <1>5, <2>1 DEF DiscardTask
<1>6. CASE Stop \/ WorkersGone \/ JoinPool \/ ServerDestroyed
  BY <1>0, <1>6 DEF Stop, WorkersGone, JoinPool, PoolIsDone, ServerDestroyed
<1>7. CASE UNCHANGED vars \/ \E s \in Sessions : PeerSends(s) \/ PeerGoes(s)
  BY <1>0, <1>7 DEF vars, PeerSends, PeerGoes
<1> QED
  BY <1>1, <1>2, <1>3, <1>4, <1>5, <1>6, <1>7 DEF Next, WorkerStep, PoolStep, EndStep

LEMMA OwnersStep == OInv /\ [Next]_vars => OInv'
<1> SUFFICES ASSUME OInv, [Next]_vars PROVE OInv'
  OBVIOUS
<1>1. IInv' /\ RestTyped' /\ Stages' /\ UnbornIsUnknown'
  BY InvStep, RestStep, StagesStep DEF OInv
<1>2. \A s \in Sessions : owners'[s] = Kept(s)'
  BY CountStep
<1> QED
  BY <1>1, <1>2 DEF OInv

LEMMA OwnersInvariant == Spec => []OInv
  BY OwnersInit, OwnersStep, PTL DEF Spec

(****************************************************************************)
(* The theorems.                                                            *)
(****************************************************************************)

\* Every variable keeps its type; in particular no use count falls below zero.
THEOREM TypeCorrect == Spec => []TypeOK
<1>1. ASSUME OInv PROVE TypeOK
  <2>1. /\ \A s \in Sessions : owners[s] \in Nat
        /\ DOMAIN owners = Sessions /\ owners \in [Sessions -> Int]
    BY <1>1, OwnersAt DEF OInv, RestTyped
  <2>2. owners \in [Sessions -> Nat]
    BY <2>1
  <2>3. queue \subseteq Task
    BY <1>1 DEF OInv, IInv, BuffersTyped, Tasks
  <2> QED
    BY <1>1, <2>2, <2>3 DEF OInv, RestTyped, IInv, BuffersTyped, TypeOK
<1> QED
  BY <1>1, OwnersInvariant, PTL

\* Nothing but the chain, the tasks and the accepting handler keeps a session, and
\* each of them does.
THEOREM ExactOwners == Spec => []OwnersExact
<1>1. OInv => OwnersExact
  BY KeptIsExact DEF OInv
<1> QED
  BY <1>1, OwnersInvariant, PTL

LEMMA LifetimeInit == Init => Lifetime!Init
  BY DEF Init, Lifetime!Init, lifeOf, phaseOf

\* Steps that leave what SessionLifetime sees.
LEMMA LifetimeStutter ==
    ASSUME UNCHANGED phaseOf,
           \A s \in Sessions : (owners'[s] > 0 <=> owners[s] > 0)
                               /\ (chain'[s] = "unborn" <=> chain[s] = "unborn")
    PROVE  UNCHANGED Lifetime!vars
  BY DEF Lifetime!vars, lifeOf

\* Steps that change what it sees of one session.
LEMMA LifeChanges ==
    ASSUME NEW s \in Sessions,
           \A r \in Sessions : r # s =>
               owners'[r] = owners[r] /\ (chain'[r] = "unborn" <=> chain[r] = "unborn")
    PROVE  /\ owners'[s] = 2 => lifeOf' = [lifeOf EXCEPT ![s] = "open"]
           /\ owners'[s] = 0 /\ chain'[s] # "unborn" =>
                lifeOf' = [lifeOf EXCEPT ![s] = "closed"]
<1>1. /\ DOMAIN lifeOf = Sessions /\ DOMAIN lifeOf' = Sessions
      /\ \A r \in Sessions : r # s => lifeOf'[r] = lifeOf[r]
      /\ lifeOf = [r \in Sessions |-> lifeOf[r]] /\ lifeOf' = [r \in Sessions |-> lifeOf'[r]]
  BY DEF lifeOf
<1>2. owners'[s] = 2 => lifeOf'[s] = "open"
  BY DEF lifeOf
<1>3. owners'[s] = 0 /\ chain'[s] # "unborn" => lifeOf'[s] = "closed"
  BY DEF lifeOf
<1> QED
  BY <1>1, <1>2, <1>3

LEMMA LifetimeStep == OInv /\ [Next]_vars => [Lifetime!Next]_(Lifetime!vars)
<1> SUFFICES ASSUME OInv, [Next]_vars
             PROVE  Lifetime!Next \/ UNCHANGED Lifetime!vars
  OBVIOUS
<1>0. /\ Stages /\ UnbornIsUnknown
      /\ owners \in [Sessions -> Int] /\ accepting \subseteq Sessions
      /\ chain \in [Sessions -> Active \cup {"unborn", "over"}]
      /\ \A t \in Tasks : t.of \in Sessions
      /\ server \in {"up", "stopped", "joining", "dying", "gone"}
  BY DEF OInv, RestTyped, IInv, BuffersTyped, Task
\* One owner less ends the session or leaves it open.
<1>drop. ASSUME NEW s \in Sessions, owners[s] >= 1, server # "gone",
                owners' = [owners EXCEPT ![s] = @ - 1],
                UNCHANGED server,
                \A r \in Sessions : chain'[r] = "unborn" <=> chain[r] = "unborn"
         PROVE  Lifetime!Next \/ UNCHANGED Lifetime!vars
  <2>1. UNCHANGED phaseOf
    BY <1>drop DEF phaseOf
  <2>2. CASE owners[s] > 1
    <3>1. \A r \in Sessions : owners'[r] > 0 <=> owners[r] > 0
      BY <1>0, <1>drop, <2>2
    <3> QED
      BY <1>drop, <2>1, <3>1, LifetimeStutter
  <2>3. CASE owners[s] = 1
    <3>1. lifeOf[s] = "open" /\ phaseOf # "gone"
      BY <1>0, <1>drop, <2>3 DEF lifeOf, phaseOf
    <3>2. chain[s] # "unborn"
      BY <1>0, <2>3 DEF UnbornIsUnknown
    <3>3. /\ owners'[s] = 0 /\ chain'[s] # "unborn"
          /\ \A r \in Sessions : r # s => owners'[r] = owners[r]
      BY <1>0, <1>drop, <2>3, <3>2
    <3>4. lifeOf' = [lifeOf EXCEPT ![s] = "closed"]
      BY <1>drop, <3>3, LifeChanges
    <3> QED
      BY <2>1, <3>1, <3>4 DEF Lifetime!Next, Lifetime!Close
  <2> QED
    BY <1>0, <1>drop, <2>2, <2>3
<1>1. ASSUME NEW s \in Sessions, Accept(s)
      PROVE  Lifetime!Next \/ UNCHANGED Lifetime!vars
  <2>1. owners[s] = 0 /\ chain[s] = "unborn" /\ server = "up" /\ server' = "up"
    BY <1>0, <1>1 DEF Accept, UnbornIsUnknown
  <2>2. /\ owners' = [owners EXCEPT ![s] = 2]
        /\ \A r \in Sessions : r # s => chain'[r] = chain[r]
    BY <1>0, <1>1 DEF Accept
  <2>3. lifeOf[s] = "unborn" /\ phaseOf = "up" /\ phaseOf' = "up"
    BY <2>1 DEF lifeOf, phaseOf
  <2>4. owners'[s] = 2 /\ \A r \in Sessions : r # s => owners'[r] = owners[r]
    BY <1>0, <2>2
  <2>5. lifeOf' = [lifeOf EXCEPT ![s] = "open"]
    BY <2>2, <2>4, LifeChanges
  <2> QED
    BY <2>3, <2>5 DEF Lifetime!Next, Lifetime!Open
<1>2. ASSUME NEW s \in Sessions, DropSession(s) \/ ReadFails(s) \/ DestroyOperation(s)
      PROVE  Lifetime!Next \/ UNCHANGED Lifetime!vars
  <2>1. owners[s] >= 1 /\ server # "gone"
    BY <1>0, <1>2, OwnersAt DEF DropSession, ReadFails, DestroyOperation, Active, Stages
  <2>2. /\ owners' = [owners EXCEPT ![s] = @ - 1] /\ UNCHANGED server
        /\ \A r \in Sessions : chain'[r] = "unborn" <=> chain[r] = "unborn"
    BY <1>0, <1>2 DEF DropSession, ReadFails, DestroyOperation, Reads
  <2> QED
    BY <1>drop, <2>1, <2>2
<1>3. ASSUME NEW s \in Sessions, ProcessRequest(s)
      PROVE  Lifetime!Next \/ UNCHANGED Lifetime!vars
  <2>1. /\ chain[s] = "call"
        /\ chain' = [chain EXCEPT ![s] = "call"] \/ chain' = [chain EXCEPT ![s] = FirstRead]
        /\ owners' = [owners EXCEPT ![s] = @ + 1]
        /\ UNCHANGED server
    BY <1>0, <1>3 DEF ProcessRequest, ReadRequest, Schedule
  <2>2. owners[s] >= 1
    BY <2>1, OwnersAt DEF Active
  <2>3. \A r \in Sessions : (owners'[r] > 0 <=> owners[r] > 0)
                            /\ (chain'[r] = "unborn" <=> chain[r] = "unborn")
    BY <1>0, <2>1, <2>2 DEF FirstRead
  <2>4. UNCHANGED phaseOf
    BY <2>1 DEF phaseOf
  <2> QED
    BY <2>3, <2>4, LifetimeStutter
<1>4. ASSUME NEW r \in running, NEW retCode \in Results, FinishPayload(r, retCode)
      PROVE  Lifetime!Next \/ UNCHANGED Lifetime!vars
  <2>1. r.task.of \in Sessions /\ server # "gone"
    BY <1>0 DEF Tasks, Stages
  <2>2. owners[r.task.of] >= 1
    BY <2>1, OwnersAt
  <2>3. /\ owners' = [owners EXCEPT ![r.task.of] = @ - 1]
        /\ UNCHANGED << server, chain >>
    BY <1>4 DEF FinishPayload
  <2> QED
    BY <1>drop, <2>1, <2>2, <2>3
<1>5. ASSUME NEW t \in queue, DiscardTask(t)
      PROVE  Lifetime!Next \/ UNCHANGED Lifetime!vars
  <2>1. t.of \in Sessions /\ server # "gone"
    BY <1>0 DEF Tasks, Stages
  <2>2. owners[t.of] >= 1
    BY <2>1, OwnersAt
  <2>3. /\ owners' = [owners EXCEPT ![t.of] = @ - 1]
        /\ UNCHANGED << server, chain >>
    BY <1>5 DEF DiscardTask
  <2> QED
    BY <1>drop, <2>1, <2>2, <2>3
<1>6. CASE Stop
  <2>1. UNCHANGED lifeOf /\ phaseOf = "up" /\ phaseOf' = "stopping"
    BY <1>6 DEF Stop, lifeOf, phaseOf
  <2> QED
    BY <2>1 DEF Lifetime!Next, Lifetime!Stop
\* When the server vanishes nothing keeps a session any more.
<1>7. CASE ServerDestroyed
  <2>1. \A s \in Sessions : Kept(s) = 0
    <3>1. ASSUME NEW s \in Sessions
          PROVE  Kept(s) = 0
      <4>1. s \notin accepting /\ chain[s] \notin Active
        BY <1>0, <1>7 DEF ServerDestroyed, Stages, Active
      <4>2. Queued(s) = {} /\ RunningOf(s) = {}
        BY <1>0, <1>7 DEF ServerDestroyed, Stages, Queued, RunningOf, TasksIn, RunsIn
      <4> QED
        BY <4>1, <4>2, FS_EmptySet DEF Kept, OneIf
    <3> QED
      BY <3>1
  <2>2. \A s \in Sessions : owners[s] = 0
    BY <2>1 DEF OInv
  <2>3. \A s \in Sessions : lifeOf[s] # "open"
    BY <2>2 DEF lifeOf
  <2>4. UNCHANGED lifeOf /\ phaseOf = "stopping" /\ phaseOf' = "gone"
    BY <1>7 DEF ServerDestroyed, lifeOf, phaseOf
  <2> QED
    BY <2>3, <2>4 DEF Lifetime!Next, Lifetime!Vanish
\* The other steps leave the variables of SessionLifetime alone.
<1>8. ASSUME NEW s \in Sessions,
             \/ AcceptAgain(s) \/ ReadRequestHdr(s) \/ ReadRequestData(s)
             \/ \E n \in Requests : ReceiveRequests(s, n)
             \/ PeerSends(s) \/ PeerGoes(s)
      PROVE  UNCHANGED Lifetime!vars
  <2>1. UNCHANGED owners /\ UNCHANGED phaseOf
    BY <1>8 DEF AcceptAgain, ReadRequestHdr, ReadRequestData, ReceiveRequests, Received, PeerSends,
       PeerGoes, phaseOf
  <2>2. \A r \in Sessions : chain'[r] = "unborn" <=> chain[r] = "unborn"
    BY <1>0, <1>8 DEF AcceptAgain, ReadRequestHdr, ReadRequestData, ReceiveRequests,
       Received, PeerSends, PeerGoes
  <2> QED
    BY <2>1, <2>2, LifetimeStutter
<1>9. CASE \/ \E p \in PoolThreads, t \in queue : StartPayload(p, t)
           \/ WorkersGone \/ JoinPool \/ UNCHANGED vars
  <2>1. UNCHANGED << owners, chain >> /\ UNCHANGED phaseOf
    BY <1>9 DEF StartPayload, WorkersGone, JoinPool, vars, phaseOf
  <2> QED
    BY <2>1, LifetimeStutter
<1>10. ASSUME NEW s \in Sessions, Accept(s) \/ WorkerStep(s) \/ PeerSends(s) \/ PeerGoes(s)
       PROVE  Lifetime!Next \/ UNCHANGED Lifetime!vars
  <2>1. CASE Accept(s)
    BY <2>1, <1>1
  <2>2. CASE DropSession(s) \/ ReadFails(s) \/ DestroyOperation(s)
    BY <2>2, <1>2
  <2>3. CASE ProcessRequest(s)
    BY <2>3, <1>3
  <2>4. CASE \/ AcceptAgain(s) \/ ReadRequestHdr(s) \/ ReadRequestData(s)
             \/ \E n \in Requests : ReceiveRequests(s, n)
             \/ PeerSends(s) \/ PeerGoes(s)
    BY <2>4, <1>8
  <2> QED
    BY <1>10, <2>1, <2>2, <2>3, <2>4 DEF WorkerStep
<1>11. CASE PoolStep
  <2>1. CASE \E p \in PoolThreads, t \in queue : StartPayload(p, t)
    BY <2>1, <1>9
  <2>2. CASE \E r \in running, retCode \in Results : FinishPayload(r, retCode)
    BY <2>2, <1>4
  <2> QED
    BY <1>11, <2>1, <2>2 DEF PoolStep
<1>12. CASE EndStep
  <2>1. CASE WorkersGone \/ JoinPool
    BY <2>1, <1>9
  <2>2. CASE \E t \in queue : DiscardTask(t)
    BY <2>2, <1>5
  <2> QED
    BY <1>12, <2>1, <2>2, <1>7 DEF EndStep
<1> QED
  <2>1. \/ \E s \in Sessions : Accept(s) \/ WorkerStep(s) \/ PeerSends(s) \/ PeerGoes(s)
        \/ PoolStep \/ Stop \/ EndStep \/ UNCHANGED vars
    BY DEF Next
  <2> QED
    BY <2>1, <1>6, <1>9, <1>10, <1>11, <1>12

\* Sessions without a manager, too, open once, end once, and are gone before their
\* server is.
THEOREM LifetimeImplemented == Spec => ImplementsLifetime
<1>1. Init => Lifetime!Init
  BY LifetimeInit
<1> QED
  BY <1>1, LifetimeStep, OwnersInvariant, PTL DEF Spec, ImplementsLifetime, Lifetime!Spec

(****************************************************************************)
(* Requests: each in one place, and counted once.                           *)
(****************************************************************************)

\* Where request k of session s may be.
InQueue(s, k) == \E t \in queue : t.of = s /\ t.request = k
InPool(s, k) == \E r \in running : r.task.of = s /\ r.task.request = k
InCall(s, k) == chain[s] = "call" /\ read[s] = k

\* What is done was read and is not to be scheduled any more.
DoneBehind ==
    \A s \in Sessions :
      /\ done[s] \subseteq 1 .. read[s]
      /\ chain[s] = "call" => read[s] \notin done[s]

\* No request is in two places.
TasksApart ==
    /\ \A r1, r2 \in running : r1.task = r2.task => r1 = r2
    /\ \A r \in running : r.task \notin queue
    /\ \A t \in Tasks : t.request \notin done[t.of]

\* Until the server ends, every request that was read is in some place.
NoneLost ==
    server \in {"up", "stopped"} =>
      \A s \in Sessions : \A k \in 1 .. read[s] :
        InQueue(s, k) \/ InPool(s, k) \/ InCall(s, k) \/ k \in done[s]

\* A thread of the pool runs one payload at a time; when there is only one thread,
\* the payload has what sessionSpecific is.
ThreadsBusy ==
    /\ \A r \in running : r.thread \in pool
    /\ \A r1, r2 \in running : r1.thread = r2.thread => r1 = r2

SpecificFresh ==
    Cardinality(pool) = 1 =>
      /\ \A r \in running : r.loaded = specific[r.task.of]
      /\ \A s \in Sessions : specific[s] = Cardinality(done[s])

RInv == OInv /\ DoneBehind /\ TasksApart /\ NoneLost /\ ThreadsBusy /\ SpecificFresh

\* A task is told by its session and its request, as its buffers have the same number.
LEMMA TaskIsTold ==
    ASSUME OInv, NEW t \in Tasks, NEW u \in Tasks, t.of = u.of, t.request = u.request
    PROVE  t = u
<1>1. t \in Task /\ u \in Task /\ t.buffers = t.request /\ u.buffers = u.request
  BY DEF OInv, IInv, BuffersTyped, TasksBehind
<1>2. /\ t = [of |-> t.of, request |-> t.request, buffers |-> t.buffers]
      /\ u = [of |-> u.of, request |-> u.request, buffers |-> u.buffers]
  BY <1>1 DEF Task
<1> QED
  BY <1>1, <1>2

\* A pool with one thread runs one payload at most.
LEMMA OneThread ==
    ASSUME OInv, ThreadsBusy, Cardinality(pool) = 1, NEW r1 \in running, NEW r2 \in running
    PROVE  r1 = r2
<1>1. IsFiniteSet(pool)
  <2>1. pool \in SUBSET PoolThreads /\ IsFiniteSet(PoolThreads)
    BY PoolsAssumption DEF OInv, RestTyped
  <2> QED
    BY <2>1, FS_Subset
<1>2. PICK x : pool = {x}
  BY <1>1, FS_Singleton
<1> QED
  BY <1>2 DEF ThreadsBusy

\* What the invariant says of one session and of one task.
LEMMA RequestsAt ==
    ASSUME RInv, NEW s \in Sessions
    PROVE  /\ read[s] \in 0 .. MaxRequests
           /\ done[s] \in SUBSET Requests /\ IsFiniteSet(done[s])
           /\ specific[s] \in Nat
           /\ chain[s] = "call" => read[s] # 0
           /\ \A t \in Tasks : t.of = s =>
                t.request \in 1 .. read[s] /\ (chain[s] = "call" => t.request < read[s])
<1>1. IInv /\ RestTyped
  BY DEF RInv, OInv
<1>2. done[s] \in SUBSET Requests /\ specific[s] \in Nat
  BY <1>1 DEF RestTyped
<1>3. IsFiniteSet(done[s])
  <2>1. 1 \in Int /\ MaxRequests \in Int
    BY MaxRequestsAssumption
  <2>2. IsFiniteSet(Requests)
    BY <2>1, FS_Interval DEF Requests
  <2> QED
    BY <1>2, <2>2, FS_Subset
<1>4. /\ read[s] \in 0 .. MaxRequests
      /\ chain[s] = "call" => read[s] # 0
  BY <1>1, AtSession DEF Counted
<1>5. ASSUME NEW t \in Tasks, t.of = s
      PROVE  t.request \in 1 .. read[s] /\ (chain[s] = "call" => t.request < read[s])
  <2>1. t.request \in Requests /\ t.request <= read[s] /\ (chain[s] = "call" => t.request < read[s])
    BY <1>1, <1>5, AtSession
  <2> QED
    BY <1>4, <2>1, MaxRequestsAssumption DEF Requests
<1> QED
  BY <1>2, <1>3, <1>4, <1>5

LEMMA RequestsInit == Init => RInv
<1> SUFFICES ASSUME Init PROVE RInv
  OBVIOUS
<1>1. OInv
  BY OwnersInit
<1>2. DoneBehind /\ TasksApart /\ ThreadsBusy
  BY DEF Init, DoneBehind, TasksApart, ThreadsBusy, Tasks
<1>3. NoneLost
  BY DEF Init, NoneLost
<1>4. SpecificFresh
  BY FS_EmptySet DEF Init, SpecificFresh
<1> QED
  BY <1>1, <1>2, <1>3, <1>4 DEF RInv

\* Steps which no task and no payload takes part in.
LEMMA RequestsReading ==
    ASSUME RInv, NEW s \in Sessions,
           \/ Accept(s) \/ AcceptAgain(s) \/ DropSession(s)
           \/ ReadRequestHdr(s) \/ ReadRequestData(s)
           \/ (\E n \in Requests : ReceiveRequests(s, n)) \/ ReadFails(s) \/ DestroyOperation(s)
           \/ PeerSends(s) \/ PeerGoes(s)
    PROVE  DoneBehind' /\ TasksApart' /\ NoneLost' /\ ThreadsBusy' /\ SpecificFresh'
<1>1. UNCHANGED << queue, running, done, pool, specific, server >>
  BY DEF Accept, AcceptAgain, DropSession, ReadRequestHdr, ReadRequestData,
     ReceiveRequests, ReadFails, DestroyOperation, PeerSends, PeerGoes
<1>2. TasksApart' /\ ThreadsBusy' /\ SpecificFresh'
  BY <1>1 DEF RInv, TasksApart, ThreadsBusy, SpecificFresh, Tasks
<1>3. \/ /\ read' = read
         /\ \A q \in Sessions : chain'[q] = "call" <=> chain[q] = "call"
      \/ /\ chain[s] # "call"
         /\ read' = [read EXCEPT ![s] = read[s] + 1]
         /\ \A q \in Sessions : q # s => chain'[q] = chain[q]
         /\ chain'[s] = "call"
  BY DEF Accept, AcceptAgain, DropSession, ReadRequestHdr, ReadRequestData,
     ReceiveRequests, Received, ReadFails, DestroyOperation, PeerSends, PeerGoes,
     FirstRead, Reads, RInv, OInv, IInv, BuffersTyped
<1>4. CASE /\ read' = read
           /\ \A q \in Sessions : chain'[q] = "call" <=> chain[q] = "call"
  BY <1>1, <1>2, <1>4 DEF RInv, DoneBehind, NoneLost, InQueue, InPool, InCall
<1>5. CASE /\ chain[s] # "call"
           /\ read' = [read EXCEPT ![s] = read[s] + 1]
           /\ \A q \in Sessions : q # s => chain'[q] = chain[q]
           /\ chain'[s] = "call"
  <2>1. /\ \A q \in Sessions : q # s => read'[q] = read[q]
        /\ read'[s] = read[s] + 1 /\ read[s] \in Nat
    BY <1>5, RequestsAt DEF RInv, OInv, IInv, BuffersTyped
  <2>2. DoneBehind'
    <3>1. done[s] \subseteq 1 .. read[s]
      BY DEF RInv, DoneBehind
    <3>2. done[s] \subseteq 1 .. read'[s] /\ read'[s] \notin done[s]
      BY <2>1, <3>1
    <3> QED
      BY <1>1, <1>5, <2>1, <3>2 DEF RInv, DoneBehind
  <2>3. NoneLost'
    <3> SUFFICES ASSUME server \in {"up", "stopped"},
                        NEW q \in Sessions, NEW k \in 1 .. read'[q]
                 PROVE  (InQueue(q, k) \/ InPool(q, k) \/ InCall(q, k) \/ k \in done[q])'
      BY <1>1 DEF NoneLost
    <3>1. CASE k \in 1 .. read[q]
      <4>1. InQueue(q, k) \/ InPool(q, k) \/ InCall(q, k) \/ k \in done[q]
        BY <3>1 DEF RInv, NoneLost
      <4>2. InCall(q, k) => InCall(q, k)'
        BY <1>5, <2>1 DEF InCall
      <4> QED
        BY <1>1, <4>1, <4>2 DEF InQueue, InPool
    <3>2. CASE k \notin 1 .. read[q]
      <4>1. q = s /\ k = read'[s]
        BY <2>1, <3>2
      <4> QED
        BY <1>5, <4>1 DEF InCall
    <3> QED
      BY <3>1, <3>2
  <2> QED
    BY <1>2, <2>2, <2>3
<1> QED
  BY <1>3, <1>4, <1>5

\* processRequest moves the request into the queue; the next one may be called.
LEMMA RequestsProcess ==
    ASSUME RInv, NEW s \in Sessions, ProcessRequest(s)
    PROVE  DoneBehind' /\ TasksApart' /\ NoneLost' /\ ThreadsBusy' /\ SpecificFresh'
<1> DEFINE k == read[s]
           new == [of |-> s, request |-> k, buffers |-> k]
<1>1. /\ queue' = queue \cup {new} /\ chain[s] = "call"
      /\ UNCHANGED << running, done, pool, specific, server >>
  BY DEF ProcessRequest, GetPrivate, Schedule
<1>2. /\ k \in Nat /\ k # 0 /\ done[s] \subseteq 1 .. k /\ k \notin done[s]
      /\ \A t \in Tasks : t.of = s => t.request < k
  BY <1>1, RequestsAt DEF RInv, DoneBehind
<1>3. new \notin Tasks /\ new.of = s /\ new.request = k
  BY <1>2
<1>4. \/ /\ read' = read /\ chain'[s] # "call"
      \/ /\ read'[s] = k + 1 /\ chain'[s] = "call"
  BY <1>1, <1>2 DEF ProcessRequest, ReadRequest, FirstRead, RInv, OInv, IInv, BuffersTyped
<1>5. \A q \in Sessions : q # s => read'[q] = read[q] /\ chain'[q] = chain[q]
  BY DEF ProcessRequest, ReadRequest, RInv, OInv, IInv, BuffersTyped
<1> HIDE DEF new
<1>6. Tasks' = Tasks \cup {new}
  BY <1>1 DEF Tasks
<1>7. TasksApart'
  <2>1. \A r \in running : r.task \in Tasks
    BY DEF Tasks
  <2> QED
    BY <1>1, <1>2, <1>3, <1>6, <2>1 DEF RInv, TasksApart
<1>8. DoneBehind'
  <2>1. done[s] \subseteq 1 .. read'[s] /\ (chain'[s] = "call" => read'[s] \notin done[s])
    BY <1>2, <1>4
  <2> QED
    BY <1>1, <1>5, <2>1 DEF RInv, DoneBehind
<1>9. NoneLost'
  <2> SUFFICES ASSUME server \in {"up", "stopped"},
                      NEW q \in Sessions, NEW j \in 1 .. read'[q]
               PROVE  (InQueue(q, j) \/ InPool(q, j) \/ InCall(q, j) \/ j \in done[q])'
    BY <1>1 DEF NoneLost
  <2>1. CASE q = s /\ j = k
    BY <1>1, <1>3, <2>1 DEF InQueue
  <2>2. CASE q = s /\ j \notin 1 .. k
    <3>1. j = read'[s] /\ chain'[s] = "call"
      BY <1>2, <1>4, <2>2
    <3> QED
      BY <2>2, <3>1 DEF InCall
  <2>3. CASE j \in 1 .. read[q] /\ ~(q = s /\ j = k)
    <3>1. InQueue(q, j) \/ InPool(q, j) \/ InCall(q, j) \/ j \in done[q]
      BY <2>3 DEF RInv, NoneLost
    <3>2. InCall(q, j) => InCall(q, j)'
      BY <1>5, <2>3 DEF InCall
    <3> QED
      BY <1>1, <3>1, <3>2 DEF InQueue, InPool
  <2> QED
    BY <1>5, <2>1, <2>2, <2>3
<1>10. ThreadsBusy' /\ SpecificFresh'
  BY <1>1 DEF RInv, ThreadsBusy, SpecificFresh
<1> QED
  BY <1>7, <1>8, <1>9, <1>10

\* A task that is queued becomes one that runs.
LEMMA RequestsStart ==
    ASSUME RInv, NEW p \in PoolThreads, NEW t \in queue, StartPayload(p, t)
    PROVE  DoneBehind' /\ TasksApart' /\ NoneLost' /\ ThreadsBusy' /\ SpecificFresh'
<1> DEFINE new == [thread |-> p, task |-> t, loaded |-> specific[t.of]]
<1>1. /\ queue' = queue \ {t} /\ running' = running \cup {new}
      /\ p \in pool /\ \A r \in running : r.thread # p
      /\ UNCHANGED << done, pool, specific, server, chain, read >>
  BY DEF StartPayload, ThreadIsFree
<1>2. new.thread = p /\ new.task = t /\ new.loaded = specific[t.of]
  OBVIOUS
<1> HIDE DEF new
<1>3. Tasks' = Tasks
  BY <1>1, <1>2 DEF Tasks
<1>4. TasksApart'
  BY <1>1, <1>2, <1>3 DEF RInv, TasksApart
<1>5. NoneLost'
  <2> SUFFICES ASSUME server \in {"up", "stopped"},
                      NEW s \in Sessions, NEW k \in 1 .. read[s]
               PROVE  (InQueue(s, k) \/ InPool(s, k) \/ InCall(s, k) \/ k \in done[s])'
    BY <1>1 DEF NoneLost
  <2>1. InQueue(s, k) \/ InPool(s, k) \/ InCall(s, k) \/ k \in done[s]
    BY DEF RInv, NoneLost
  <2>2. InQueue(s, k) => InQueue(s, k)' \/ InPool(s, k)'
    BY <1>1, <1>2 DEF InQueue, InPool
  <2> QED
    BY <1>1, <2>1, <2>2 DEF InPool, InCall
<1>6. ThreadsBusy'
  BY <1>1, <1>2 DEF RInv, ThreadsBusy
<1>7. DoneBehind' /\ SpecificFresh'
  BY <1>1, <1>2 DEF RInv, DoneBehind, SpecificFresh
<1> QED
  BY <1>4, <1>5, <1>6, <1>7

\* A payload that returns: its request is done, and told from all the others.
LEMMA RequestsFinish ==
    ASSUME RInv, NEW r \in running, NEW retCode \in Results, FinishPayload(r, retCode)
    PROVE  DoneBehind' /\ TasksApart' /\ NoneLost' /\ ThreadsBusy' /\ SpecificFresh'
<1> DEFINE s == r.task.of
           k == r.task.request
<1>1. /\ running' = running \ {r}
      /\ UNCHANGED << queue, pool, server, chain, read >>
  BY DEF FinishPayload
<1>2. r.task \in Tasks /\ s \in Sessions
  BY DEF Tasks, RInv, OInv, IInv, BuffersTyped, Task
<1>3. k \in 1 .. read[s] /\ (chain[s] = "call" => k < read[s]) /\ read[s] \in Nat
  BY <1>2, RequestsAt
<1>4. /\ \A q \in Sessions : q # s => done'[q] = done[q] /\ specific'[q] = specific[q]
      /\ done'[s] = done[s] \cup {k} /\ specific'[s] = r.loaded + 1
  BY <1>2 DEF FinishPayload, RInv, OInv, RestTyped
<1>5. DoneBehind'
  <2>1. done[s] \subseteq 1 .. read[s] /\ (chain[s] = "call" => read[s] \notin done[s])
    BY <1>2 DEF RInv, DoneBehind
  <2>2. done'[s] \subseteq 1 .. read[s] /\ (chain[s] = "call" => read[s] \notin done'[s])
    BY <1>3, <1>4, <2>1
  <2> QED
    BY <1>1, <1>4, <2>2 DEF RInv, DoneBehind
<1>6. TasksApart'
  <2>1. ASSUME NEW t \in Tasks'
        PROVE  t.request \notin done'[t.of]
    <3>1. t \in Tasks /\ t.of \in Sessions /\ t # r.task
      BY <1>1 DEF Tasks, RInv, TasksApart, OInv, IInv, BuffersTyped, Task
    <3>2. ~(t.of = s /\ t.request = k)
      BY <1>2, <3>1, TaskIsTold DEF RInv
    <3>3. t.request \notin done[t.of]
      BY <3>1 DEF RInv, TasksApart
    <3> QED
      BY <1>4, <3>1, <3>2, <3>3
  <2> QED
    BY <1>1, <2>1 DEF RInv, TasksApart
<1>7. NoneLost'
  <2> SUFFICES ASSUME server \in {"up", "stopped"},
                      NEW q \in Sessions, NEW j \in 1 .. read[q]
               PROVE  (InQueue(q, j) \/ InPool(q, j) \/ InCall(q, j) \/ j \in done[q])'
    BY <1>1 DEF NoneLost
  <2>1. InQueue(q, j) \/ InPool(q, j) \/ InCall(q, j) \/ j \in done[q]
    BY DEF RInv, NoneLost
  <2>2. InPool(q, j) => InPool(q, j)' \/ j \in done'[q]
    BY <1>1, <1>4 DEF InPool
  <2>3. j \in done[q] => j \in done'[q]
    BY <1>4
  <2> QED
    BY <1>1, <2>1, <2>2, <2>3 DEF InQueue, InCall
<1>8. ThreadsBusy'
  BY <1>1 DEF RInv, ThreadsBusy
<1>9. SpecificFresh'
  <2> SUFFICES ASSUME Cardinality(pool) = 1
               PROVE  /\ \A x \in running' : x.loaded = specific'[x.task.of]
                      /\ \A q \in Sessions : specific'[q] = Cardinality(done'[q])
    BY <1>1 DEF SpecificFresh
  <2>1. running' = {}
    BY <1>1, OneThread DEF RInv
  <2>2. r.loaded = specific[s] /\ \A q \in Sessions : specific[q] = Cardinality(done[q])
    BY <1>2 DEF RInv, SpecificFresh
  <2>3. k \notin done[s]
    BY <1>2 DEF RInv, TasksApart
  <2>4. Cardinality(done[s] \cup {k}) = Cardinality(done[s]) + 1
    BY <1>2, <2>3, RequestsAt, FS_AddElement
  <2> QED
    BY <1>2, <1>4, <2>1, <2>2, <2>4
<1> QED
  BY <1>5, <1>6, <1>7, <1>8, <1>9

\* The end of the server.
LEMMA RequestsEnd ==
    ASSUME RInv, Stop \/ EndStep \/ UNCHANGED vars
    PROVE  DoneBehind' /\ TasksApart' /\ NoneLost' /\ ThreadsBusy' /\ SpecificFresh'
<1>1. /\ queue' \subseteq queue
      /\ UNCHANGED << running, done, pool, specific, chain, read >>
      /\ server' \in {"up", "stopped"} => server \in {"up", "stopped"} /\ queue' = queue
  BY DEF Stop, EndStep, WorkersGone, DiscardTask, JoinPool, ServerDestroyed, vars
<1>2. Tasks' \subseteq Tasks
  BY <1>1 DEF Tasks
<1>3. DoneBehind' /\ ThreadsBusy' /\ SpecificFresh'
  BY <1>1 DEF RInv, DoneBehind, ThreadsBusy, SpecificFresh
<1>4. TasksApart'
  BY <1>1, <1>2 DEF RInv, TasksApart
<1>5. NoneLost'
  BY <1>1 DEF RInv, NoneLost, InQueue, InPool, InCall
<1> QED
  BY <1>3, <1>4, <1>5

LEMMA RequestsStep == RInv /\ [Next]_vars => RInv'
<1> SUFFICES ASSUME RInv, [Next]_vars PROVE RInv'
  OBVIOUS
<1>1. ASSUME NEW s \in Sessions, Accept(s) \/ WorkerStep(s) \/ PeerSends(s) \/ PeerGoes(s)
      PROVE  DoneBehind' /\ TasksApart' /\ NoneLost' /\ ThreadsBusy' /\ SpecificFresh'
  <2>1. CASE ProcessRequest(s)
    BY <2>1, RequestsProcess
  <2>2. CASE \/ Accept(s) \/ AcceptAgain(s) \/ DropSession(s)
             \/ ReadRequestHdr(s) \/ ReadRequestData(s)
             \/ (\E n \in Requests : ReceiveRequests(s, n)) \/ ReadFails(s)
             \/ DestroyOperation(s) \/ PeerSends(s) \/ PeerGoes(s)
    BY <2>2, RequestsReading
  <2> QED
    BY <1>1, <2>1, <2>2 DEF WorkerStep
<1>2. ASSUME PoolStep
      PROVE  DoneBehind' /\ TasksApart' /\ NoneLost' /\ ThreadsBusy' /\ SpecificFresh'
  BY <1>2, RequestsStart, RequestsFinish DEF PoolStep
<1>3. ASSUME Stop \/ EndStep \/ UNCHANGED vars
      PROVE  DoneBehind' /\ TasksApart' /\ NoneLost' /\ ThreadsBusy' /\ SpecificFresh'
  BY <1>3, RequestsEnd
<1>4. DoneBehind' /\ TasksApart' /\ NoneLost' /\ ThreadsBusy' /\ SpecificFresh'
  BY <1>1, <1>2, <1>3 DEF Next
<1> QED
  BY <1>4, OwnersStep DEF RInv

LEMMA RequestsInvariant == Spec => []RInv
  BY RequestsInit, RequestsStep, PTL DEF Spec

\* A request that was read is in exactly one place: no request is lost, and none is
\* scheduled twice, until the server ends.
THEOREM EachOnce == Spec => []EachRequestOnce
<1>1. ASSUME RInv, server \in {"up", "stopped"}, NEW s \in Sessions, NEW k \in 1 .. read[s]
      PROVE  Places(s, k) = 1
  <2> DEFINE queued == {t \in queue : t.of = s /\ t.request = k}
             run == {r \in running : r.task.of = s /\ r.task.request = k}
             called == {x \in {s} : chain[x] = "call" /\ read[x] = k}
             finished == done[s] \cap {k}
  <2>1. queued = {} \/ \E t : queued = {t}
    <3>1. \A t, u \in queued : t = u
      BY <1>1, TaskIsTold DEF RInv, Tasks
    <3> QED
      BY <3>1
  <2>2. run = {} \/ \E r : run = {r}
    <3>1. \A x, y \in run : x.task = y.task
      BY <1>1, TaskIsTold DEF RInv, Tasks
    <3>2. \A x, y \in run : x = y
      BY <1>1, <3>1 DEF RInv, TasksApart
    <3> QED
      BY <3>2
  <2>3. /\ called = IF InCall(s, k) THEN {s} ELSE {}
        /\ finished = IF k \in done[s] THEN {k} ELSE {}
    BY DEF InCall
  <2>4. (queued # {} <=> InQueue(s, k)) /\ (run # {} <=> InPool(s, k))
    BY DEF InQueue, InPool
  <2>5. InQueue(s, k) \/ InPool(s, k) \/ InCall(s, k) \/ k \in done[s]
    BY <1>1 DEF RInv, NoneLost
  <2>6. ~(InQueue(s, k) /\ InPool(s, k))
    BY <1>1, TaskIsTold DEF RInv, Tasks, TasksApart, InQueue, InPool
  <2>7. InQueue(s, k) \/ InPool(s, k) => ~InCall(s, k) /\ k \notin done[s]
    <3>1. ASSUME InQueue(s, k) \/ InPool(s, k)
          PROVE  \E t \in Tasks : t.of = s /\ t.request = k
      BY <3>1 DEF InQueue, InPool, Tasks
    <3>2. ASSUME NEW t \in Tasks, t.of = s, t.request = k
          PROVE  ~InCall(s, k) /\ k \notin done[s]
      <4>1. read[s] \in Nat /\ (chain[s] = "call" => t.request < read[s])
        BY <1>1, <3>2, RequestsAt
      <4> QED
        BY <1>1, <3>2, <4>1 DEF RInv, TasksApart, InCall
    <3> QED
      BY <3>1, <3>2
  <2>8. ~(InCall(s, k) /\ k \in done[s])
    BY <1>1 DEF RInv, DoneBehind, InCall
  <2>9. /\ Cardinality(queued) = IF InQueue(s, k) THEN 1 ELSE 0
        /\ Cardinality(run) = IF InPool(s, k) THEN 1 ELSE 0
        /\ Cardinality(called) = IF InCall(s, k) THEN 1 ELSE 0
        /\ Cardinality(finished) = IF k \in done[s] THEN 1 ELSE 0
    <3> HIDE DEF queued, run, called, finished
    <3>1. Cardinality({}) = 0 /\ \A x : Cardinality({x}) = 1
      BY FS_EmptySet, FS_Singleton
    <3> QED
      BY <2>1, <2>2, <2>3, <2>4, <3>1
  <2>10. Places(s, k) = Cardinality(queued) + Cardinality(run) + Cardinality(called)
                          + Cardinality(finished)
    BY DEF Places
  <2> HIDE DEF queued, run, called, finished
  <2> QED
    BY <2>5, <2>6, <2>7, <2>8, <2>9, <2>10
<1>2. RInv => EachRequestOnce
  BY <1>1 DEF EachRequestOnce
<1> QED
  BY <1>2, RequestsInvariant, PTL

\* With one thread in the session pool, sessionSpecific needs no lock: it has
\* counted every request of the session whose payload has returned.
THEOREM SpecificCounts == Spec => []SpecificExact
<1>1. RInv => SpecificExact
  BY DEF RInv, SpecificFresh, SpecificExact
<1> QED
  BY <1>1, RequestsInvariant, PTL
=============================================================================
