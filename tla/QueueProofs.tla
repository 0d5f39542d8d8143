----------------------------- MODULE QueueProofs -----------------------------
(* The coordinator, with its clients, wires, lists and timers, implements   *)
(* WorkQueue.                                                               *)
(*                                                                          *)
(* Each step of the coordinator is one action of WorkQueue, or changes      *)
(* neither who is registered nor a task.  What the mapping needs beyond the *)
(* types is the invariant Consistent: of an agent that leaves, every        *)
(* claimed task is on the list that is queued again, and an agent that the  *)
(* registry calls ready has claimed nothing.                                *)
EXTENDS NexusServerProofs

-----------------------------------------------------------------------------
(* The tables seen as work.                                                 *)

\* A step that changes neither a task nor who is registered is not seen.
LEMMA Unseen ==
    ASSUME UNCHANGED tasks, SameOnline
    PROVE  UNCHANGED Q!work
  <1>1. UNCHANGED {a \in Agents : Online(a)}
    BY DEF SameOnline, Online
  <1>2. UNCHANGED [t \in Tasks |-> tasks[t].status]
    OBVIOUS
  <1>3. UNCHANGED [t \in Tasks |-> Owner(t)]
    BY DEF Owner
  <1> QED  BY <1>1, <1>2, <1>3 DEF Q!work

\* The tasks of T get a status, and no other does.
LEMMA Becomes ==
    ASSUME NEW T \in SUBSET Tasks, NEW s,
           \A t \in Tasks : tasks'[t].status = IF t \in T THEN s ELSE tasks[t].status
    PROVE  Q!Become(T, s)
  BY DEF Q!Become

\* Every task keeps its agent.
LEMMA OwnersStay ==
    ASSUME \A t \in Tasks : tasks'[t].assignedAgentId = tasks[t].assignedAgentId
    PROVE  UNCHANGED [t \in Tasks |-> Owner(t)]
  BY DEF Owner

\* Nobody registers or leaves.
LEMMA PresentStay ==
    ASSUME SameOnline
    PROVE  UNCHANGED {a \in Agents : Online(a)}
  BY DEF SameOnline, Online

\* Task t gets agent a.
LEMMA OwnerChanges ==
    ASSUME NEW t \in Tasks, NEW a,
           \A u \in Tasks : tasks'[u].assignedAgentId =
                               IF u = t THEN a ELSE tasks[u].assignedAgentId
    PROVE  [u \in Tasks |-> Owner(u)]' = [[u \in Tasks |-> Owner(u)] EXCEPT ![t] = a]
  BY DEF Owner

\* An agent that may be given work has claimed none.
LEMMA CandidatesAreIdle ==
    ASSUME TypeOK, ReadyMeansIdle, InProgressIsHeld
    PROVE  Candidates \subseteq Q!Idle
  <1>1. ASSUME NEW a \in Candidates  PROVE a \in Q!Idle
    <2>1. a \in Agents /\ Online(a) /\ agents[a].activeTasks = {}
      BY <1>1 DEF Candidates, ReadyMeansIdle
    <2>2. Q!ClaimedBy(a) = {}
      BY <2>1 DEF Q!ClaimedBy, InProgressIsHeld
    <2> QED  BY <2>1, <2>2 DEF Q!Idle
  <1> QED  BY <1>1

-----------------------------------------------------------------------------
(* One step of the tables after the other.                                  *)

\* register
LEMMA RegisterJoins ==
    ASSUME TypeOK, SocketIsBound, NEW a \in Agents, OnRegister(a)
    PROVE  Q!Join(a)
  <1>1. ~ Online(a)
    BY DEF SocketIsBound, OnRegister
  <1>2. {b \in Agents : Online(b)}' = {b \in Agents : Online(b)} \union {a}
    BY DEF OnRegister, TypeOK, Online, Registered
  <1>3. UNCHANGED <<[t \in Tasks |-> tasks[t].status], [t \in Tasks |-> Owner(t)]>>
    BY DEF OnRegister, Owner
  <1> QED  BY <1>1, <1>2, <1>3 DEF Q!Join

\* claim
LEMMA ClaimIsClaim ==
    ASSUME Tables, NEW t \in Tasks, NEW a \in Agents, Online(a), SameOnline, Claim(t, a)
    PROVE  Q!Claim(t, a) \/ UNCHANGED Q!work
  <1>1. CASE tasks[t].status = "queued"
    <2>1. t \in Q!Queue
      BY <1>1 DEF Q!Queue
    <2>2. Q!Become({t}, "in_progress")
      <3>1. \A u \in Tasks : tasks'[u].status =
                                IF u \in {t} THEN "in_progress" ELSE tasks[u].status
        BY <1>1 DEF Claim, Tables
      <3> QED  BY <3>1, Becomes
    <2>3. [u \in Tasks |-> Owner(u)]' = [[u \in Tasks |-> Owner(u)] EXCEPT ![t] = a]
      <3>1. \A u \in Tasks : tasks'[u].assignedAgentId =
                                IF u = t THEN a ELSE tasks[u].assignedAgentId
        BY <1>1 DEF Claim, Tables
      <3> QED  BY <3>1, OwnerChanges
    <2> QED  BY <2>1, <2>2, <2>3, PresentStay DEF Q!Claim
  <1>2. CASE tasks[t].status # "queued"
    BY <1>2, Unseen DEF Claim
  <1> QED  BY <1>1, <1>2

\* complete and approve
LEMMA FinishIsFinish ==
    ASSUME Tables, NEW t \in Tasks, tasks[t].status \in {"in_progress", "debating"},
           SameOnline, Finish(t)
    PROVE  Q!Finish(t)
  <1>1. \A u \in Tasks : tasks'[u].status =
                            IF u \in {t} THEN "completed" ELSE tasks[u].status
    BY DEF Finish, Tables, TaskRecord
  <1>2. \A u \in Tasks : tasks'[u].assignedAgentId = tasks[u].assignedAgentId
    BY DEF Finish, Tables, TaskRecord
  <1>3. Q!Become({t}, "completed")
    BY <1>1, Becomes
  <1> QED  BY <1>2, <1>3, OwnersStay, PresentStay DEF Q!Finish

\* submitResult, when a reviewer is asked and when there is none
LEMMA ReviewIsReview ==
    ASSUME Tables, AllSound, NEW t \in Tasks, tasks[t].status = "in_progress",
           NEW a \in Agents, Review(t, a)
    PROVE  Q!Review(t) \/ Q!Finish(t)
  <1>1. CASE Reviewers(a) = {}
    BY <1>1, FinishSound, FinishIsFinish DEF Review
  <1>2. CASE Reviewers(a) # {}
    <2>1. /\ \A u \in Tasks : tasks'[u].status =
                                 IF u \in {t} THEN "debating" ELSE tasks[u].status
          /\ \A u \in Tasks : tasks'[u].assignedAgentId = tasks[u].assignedAgentId
          /\ UNCHANGED agents
      BY <1>2 DEF Review, Tables, TaskRecord
    <2>2. Q!Become({t}, "debating")
      BY <2>1, Becomes
    <2>3. SameOnline
      BY <2>1 DEF SameOnline
    <2> QED  BY <2>1, <2>2, <2>3, OwnersStay, PresentStay DEF Q!Review
  <1> QED  BY <1>1, <1>2

\* submit, with the assignment that is tried at once
LEMMA SubmitIsSubmit ==
    ASSUME TypeOK, ReadyMeansIdle, InProgressIsHeld, SameOnline,
           NEW t \in Tasks, ~ Exists(t), Owner(t) = NoAgent,
           NEW a \in Candidates \union {NoAgent}, SubmitTo(t, a)
    PROVE  Q!Submit(t) \/ \E b \in {b \in Agents : Online(b)} : Q!SubmitTo(t, b)
  <1>1. tasks[t].status = "none" /\ tasks \in [Tasks -> TaskRecord]
    BY DEF Exists, TypeOK
  <1>2. CASE a = NoAgent
    <2>1. \A u \in Tasks : tasks'[u].status =
                              IF u \in {t} THEN "queued" ELSE tasks[u].status
      BY <1>1, <1>2 DEF SubmitTo, Queued
    <2>2. \A u \in Tasks : tasks'[u].assignedAgentId = tasks[u].assignedAgentId
      BY <1>1, <1>2 DEF SubmitTo, Queued, Owner
    <2>3. Q!Become({t}, "queued")
      BY <2>1, Becomes
    <2> QED  BY <1>1, <2>2, <2>3, OwnersStay, PresentStay DEF Q!Submit
  <1>3. CASE a # NoAgent
    <2>1. a \in Candidates /\ a \in Q!Idle
      BY <1>3, CandidatesAreIdle
    <2>2. \A u \in Tasks : tasks'[u].status =
                              IF u \in {t} THEN "assigned" ELSE tasks[u].status
      BY <1>1, <1>3 DEF SubmitTo
    <2>3. \A u \in Tasks : tasks'[u].assignedAgentId =
                              IF u = t THEN a ELSE tasks[u].assignedAgentId
      BY <1>1, <1>3 DEF SubmitTo
    <2>4. Q!Become({t}, "assigned")
      BY <2>2, Becomes
    <2>5. Q!SubmitTo(t, a)
      BY <1>1, <2>1, <2>3, <2>4, OwnerChanges, PresentStay DEF Q!SubmitTo
    <2> QED  BY <2>1, <2>5 DEF Candidates
  <1> QED  BY <1>2, <1>3

-----------------------------------------------------------------------------
(* The assignment timer.                                                    *)

\* The order of the queue is total, and a more urgent task comes first.
LEMMA QueueOrder ==
    /\ \A t, u \in Tasks : t # u => Before(t, u) \/ Before(u, t)
    /\ \A t, u, v \in Tasks : Before(t, u) /\ Before(u, v) => Before(t, v)
    /\ \A t, u \in Tasks : Priority[t] < Priority[u] => Before(t, u)
  <1>1. \A t \in Tasks : t \in Nat /\ Priority[t] \in Nat
    BY TasksAreNumbered, PriorityType
  <1> QED  BY <1>1 DEF Before

\* The agents that are left when it is t's turn.
Free(f, t) == Candidates \ {f[u] : u \in {v \in QueuedTasks : Before(v, t)}}

\* A task gets an agent exactly when it is in the queue and an agent is left.
LEMMA OneOfTheFree ==
    ASSUME NEW f, IsAssignment(f), NEW t \in Tasks
    PROVE  /\ t \in QueuedTasks /\ f[t] # NoAgent => f[t] \in Free(f, t)
           /\ f[t] # NoAgent => t \in QueuedTasks /\ Free(f, t) # {}
           /\ t \in QueuedTasks /\ Free(f, t) # {} => f[t] # NoAgent
  <1>1. f[t] \in IF t \in QueuedTasks /\ Free(f, t) # {}
                 THEN BestFor(t, Free(f, t)) ELSE {NoAgent}
    BY DEF IsAssignment, Free
  <1>2. BestFor(t, Free(f, t)) \subseteq Free(f, t)
    BY DEF BestFor
  <1>3. NoAgent \notin Free(f, t)
    BY NoAgentIsNoAgent DEF Free, Candidates
  <1> HIDE DEF Free
  <1> QED  BY <1>1, <1>2, <1>3

\* autoAssignQueued
LEMMA AssignmentIsOffer ==
    ASSUME TypeOK, ReadyMeansIdle, InProgressIsHeld, SameOnline,
           NEW f \in [Tasks -> Agents \union {NoAgent}], IsAssignment(f), AssignAll(f)
    PROVE  \E T \in SUBSET Q!Queue : \E g \in [T -> Q!Idle] : Q!Offer(T, g)
  <1> DEFINE T == {t \in Tasks : f[t] # NoAgent}
             g == [t \in T |-> f[t]]
  <1>1. T \subseteq Tasks /\ T \subseteq QueuedTasks /\ T \subseteq Q!Queue
    BY OneOfTheFree DEF QueuedTasks, Q!Queue
  <1>2. \A t \in T : f[t] \in Free(f, t)
    BY <1>1, OneOfTheFree
  <1>3. g \in [T -> Q!Idle]
    BY <1>2, CandidatesAreIdle DEF Free
  <1>4. \A t, u \in T : g[t] = g[u] => t = u
    <2>1. \A t, u \in T : Before(t, u) => f[u] # f[t]
      BY <1>1, <1>2 DEF Free
    <2> QED  BY <1>1, <2>1, QueueOrder
  <1>5. ASSUME NEW u \in T, NEW t \in Q!Queue, Priority[t] < Priority[u], t \notin T
        PROVE  FALSE
    <2>1. t \in Tasks /\ t \in QueuedTasks /\ u \in Tasks /\ Before(t, u)
      BY <1>1, <1>5, QueueOrder DEF Q!Queue, QueuedTasks
    <2>2. Free(f, t) = {}
      BY <1>5, <2>1, OneOfTheFree
    <2>3. Candidates \subseteq {f[v] : v \in {w \in QueuedTasks : Before(w, t)}}
      BY <2>2 DEF Free
    <2>4. \A v \in QueuedTasks : Before(v, t) => Before(v, u)
      BY <2>1, QueueOrder DEF QueuedTasks
    <2>5. Free(f, u) = {}
      BY <2>3, <2>4 DEF Free
    <2> QED  BY <1>2, <2>5
  <1>6. \A u \in T, t \in Q!Queue :
           <<t, u>> \in {p \in Tasks \X Tasks : Priority[p[1]] < Priority[p[2]]} => t \in T
    BY <1>5
  <1>7. Q!Become(T, "assigned")
    <2>1. \A t \in Tasks : tasks'[t].status =
                              IF t \in T THEN "assigned" ELSE tasks[t].status
      BY DEF AssignAll
    <2> QED  BY <1>1, <2>1, Becomes
  <1>8. [t \in Tasks |-> Owner(t)]' = [t \in Tasks |-> IF t \in T THEN g[t] ELSE Owner(t)]
    <2>1. \A t \in Tasks : tasks'[t].assignedAgentId = IF t \in T THEN g[t] ELSE Owner(t)
      BY DEF AssignAll, Owner
    <2> QED  BY <2>1 DEF Owner
  <1> HIDE DEF T, g
  <1>9. Q!Offer(T, g)
    BY <1>4, <1>6, <1>7, <1>8, PresentStay DEF Q!Offer
  <1> QED  BY <1>1, <1>3, <1>9

-----------------------------------------------------------------------------
(* Departures and late tasks.                                               *)

\* handleDisconnect and reassign: of an agent that leaves, what it has claimed
\* is on its list.
LEMMA DisconnectIsRequeue ==
    ASSUME TypeOK, InProgressIsHeld, AllSound,
           NEW S \in SUBSET Agents, \A a \in S : Online(a),
           NEW T \in SUBSET Tasks, \A t \in T : MayBeStale(t),
           HandleDisconnect(S, T)
    PROVE  \E R \in SUBSET {a \in Agents : Online(a)}, U \in SUBSET Tasks : Q!Requeue(R, U)
  <1>0. PICK U \in SUBSET Tasks : U = Listed(S) \union T
    BY DEF Listed
  <1>1. Requeue(U, S)
    BY <1>0 DEF HandleDisconnect
  <1>2. \A a \in S : Q!ClaimedBy(a) \subseteq U
    BY <1>0 DEF Q!ClaimedBy, InProgressIsHeld, Listed, Exists
  <1>3. \A t \in U : tasks[t].status # "none"
    BY <1>0 DEF Listed, Exists, MayBeStale
  <1>4. S = {} => \A t \in U : tasks[t].status \in {"assigned", "in_progress"}
    BY <1>0 DEF Listed, MayBeStale
  <1>5. {a \in Agents : Online(a)}' = {a \in Agents : Online(a)} \ S
    <2>1. \A a \in Agents : agents'[a].online = (agents[a].online /\ a \notin S)
      BY <1>1, RequeueSound DEF Tables, TypeOK
    <2> QED  BY <2>1 DEF Online
  <1>6. Q!Become(U, "queued")
    <2>1. \A t \in Tasks : tasks'[t].status = IF t \in U THEN "queued" ELSE tasks[t].status
      BY <1>1 DEF Requeue, Queued
    <2> QED  BY <1>1, <2>1, Becomes
  <1>7. [t \in Tasks |-> Owner(t)]' = [t \in Tasks |-> IF t \in U THEN NoAgent ELSE Owner(t)]
    <2>1. \A t \in Tasks : tasks'[t].assignedAgentId = IF t \in U THEN NoAgent ELSE Owner(t)
      BY <1>1 DEF Requeue, Queued, Owner
    <2> QED  BY <2>1 DEF Owner
  <1>8. Q!Requeue(S, U)
    BY <1>1, <1>2, <1>3, <1>4, <1>5, <1>6, <1>7 DEF Q!Requeue
  <1> QED  BY <1>8

-----------------------------------------------------------------------------
(* The refinement.                                                          *)

\* A disconnect is a step of WorkQueue.
LEMMA DisconnectStep ==
    ASSUME ClaimsInv, NEW S \in SUBSET Agents, \A a \in S : Online(a),
           NEW T \in SUBSET Tasks, \A t \in T : MayBeStale(t),
           HandleDisconnect(S, T)
    PROVE  Q!Next
  BY DisconnectIsRequeue DEF ClaimsInv, RegistryInv, Q!Next

\* A handler makes one step of WorkQueue, or none.
LEMMA HandlerStep ==
    ASSUME ClaimsInv, OwnerInv, NEW a \in Agents, ServerStep(a)
    PROVE  [Q!Next]_(Q!work)
  <1>0. /\ TypeOK /\ Tables /\ AllSound /\ SocketIsBound
        /\ ReadyMeansIdle /\ InProgressIsHeld
    BY RegistryInvMeans DEF ClaimsInv, RegistryInv, TypeOK, Tables
  <1>1. CASE OnRegister(a)
    BY <1>0, <1>1, RegisterJoins DEF Q!Next
  <1>2. CASE OnHeartbeat(a)
    <2>1. SameOnline
      BY <1>0, <1>2 DEF OnHeartbeat, HeartbeatOn, SameOnline, Tables, AgentRecord
    <2> QED  BY <1>2, <2>1, Unseen DEF OnHeartbeat
  <1>3. CASE OnClaim(a)
    <2>1. PICK t \in Tasks : Claim(t, a)
      BY <1>0, <1>3, ReceivedIsMessage, MessageFields DEF OnClaim
    <2>2. Online(a)
      BY <1>0, <1>3 DEF OnClaim, Receives, SocketIsBound
    <2>3. Q!Claim(t, a) \/ UNCHANGED Q!work
      BY <1>0, <2>1, <2>2, ClaimSound, ClaimIsClaim
    <2>4. a \in {b \in Agents : Online(b)}
      BY <2>2
    <2> QED  BY <2>1, <2>3, <2>4 DEF Q!Next
  <1>4. CASE OnResult(a)
    <2>1. PICK t \in Tasks : t = Head(wire[a]).taskId
      BY <1>0, <1>4, ReceivedIsMessage, MessageFields DEF OnResult
    <2>2. \/ UNCHANGED <<agents, tasks>>
          \/ tasks[t].status = "in_progress" /\ (Finish(t) \/ Review(t, a))
      BY <1>4, <2>1 DEF OnResult, server
    <2>3. CASE UNCHANGED <<agents, tasks>>
      BY <2>3, Unseen DEF SameOnline
    <2>4. CASE tasks[t].status = "in_progress" /\ Finish(t)
      BY <1>0, <2>1, <2>4, FinishSound, FinishIsFinish DEF Q!Next
    <2>5. CASE tasks[t].status = "in_progress" /\ Review(t, a)
      BY <1>0, <2>1, <2>5, ReviewIsReview DEF Q!Next
    <2> QED  BY <2>2, <2>3, <2>4, <2>5
  <1>5. CASE OnDeregister(a) \/ OnClose(a)
    <2>1. Online(a) /\ HandleDisconnect({a}, {})
      BY <1>0, <1>5 DEF OnDeregister, OnClose, SocketIsBound
    <2> QED  BY <2>1, DisconnectStep
  <1>6. ASSUME NEW t \in Tasks, OnSubmit(a, t)
        PROVE  [Q!Next]_(Q!work)
    <2>1. PICK b \in Candidates \union {NoAgent} : SubmitTo(t, b)
      BY <1>6 DEF OnSubmit, BestFor
    <2>2. SameOnline
      BY <1>0, <2>1, SubmitSound DEF Candidates
    <2>3. ~ Exists(t) /\ Owner(t) = NoAgent
      BY <1>6 DEF OnSubmit, Exists, OwnerInv, QueuedHasNoOwner
    <2>4. Q!Submit(t) \/ \E c \in {c \in Agents : Online(c)} : Q!SubmitTo(t, c)
      BY <1>0, <2>1, <2>2, <2>3, SubmitIsSubmit
    <2> QED  BY <2>4 DEF Q!Next
  <1>7. ASSUME NEW d \in D!DebateIds, OnArgument(a, d)
        PROVE  [Q!Next]_(Q!work)
    <2>1. PICK t \in Tasks : t = debates[d].taskId
      <3>1. debates[d] \in D!Session
        BY <1>0, <1>7 DEF OnArgument, TypeOK
      <3> QED  BY <3>1 DEF D!Session
    <2>2. UNCHANGED <<agents, tasks>> \/ (tasks[t].status = "debating" /\ Finish(t))
      BY <1>7, <2>1 DEF OnArgument
    <2>3. CASE UNCHANGED <<agents, tasks>>
      BY <2>3, Unseen DEF SameOnline
    <2>4. CASE tasks[t].status = "debating" /\ Finish(t)
      BY <1>0, <2>1, <2>4, FinishSound, FinishIsFinish DEF Q!Next
    <2> QED  BY <2>2, <2>3, <2>4
  <1> QED  BY <1>1, <1>2, <1>3, <1>4, <1>5, <1>6, <1>7 DEF ServerStep, Receive

\* Every step of the coordinator and its clients makes one step of WorkQueue,
\* or none.
LEMMA WorkStep ==
    ASSUME ClaimsInv, OwnerInv, [Next]_vars
    PROVE  [Q!Next]_(Q!work)
  <1>0. /\ TypeOK /\ Tables /\ AllSound /\ ReadyMeansIdle /\ InProgressIsHeld
    BY RegistryInvMeans DEF ClaimsInv, RegistryInv, TypeOK, Tables
  <1>1. ASSUME UNCHANGED <<agents, tasks>>  PROVE [Q!Next]_(Q!work)
    BY <1>1, Unseen DEF SameOnline
  <1>2. ASSUME NEW a \in Agents, ClientStep(a)  PROVE [Q!Next]_(Q!work)
    BY <1>1, <1>2 DEF ClientStep, ClaimTool, ResultTool, HeartbeatTick, Stop, Crash, server
  <1>3. CASE AutoAssign
    <2>1. PICK f \in [Tasks -> Agents \union {NoAgent}] : IsAssignment(f) /\ AssignAll(f)
      BY <1>3 DEF AutoAssign, AutoAssignQueued
    <2>2. SameOnline
      BY <1>0, <2>1, AssignAllSound
    <2>3. \E T \in SUBSET Q!Queue : \E g \in [T -> Q!Idle] : Q!Offer(T, g)
      BY <1>0, <2>1, <2>2, AssignmentIsOffer
    <2> QED  BY <2>3 DEF Q!Next
  <1>4. CASE HealthCheckTimer
    <2>1. PICK S \in SUBSET Agents, T \in SUBSET Tasks, E \in SUBSET DOMAIN debates :
              HealthCheck(S, T, E)
      BY <1>4 DEF HealthCheckTimer
    <2> QED  BY <2>1, DisconnectStep DEF HealthCheck
  <1>5. CASE UNCHANGED vars
    BY <1>1, <1>5 DEF vars
  <1> QED  BY <1>2, <1>3, <1>4, <1>5, HandlerStep DEF Next

\* Initially nobody is there and nothing is to be done.
LEMMA WorkInit ==
    ASSUME Init
    PROVE  Q!Init
  BY DEF Init, Q!Init, Online, Owner, Absent, Unsubmitted

\* Whatever clients claim, report or list, and however they leave, the tables of
\* the server go through the steps of WorkQueue: claimed work never stays with
\* an agent that has left, nobody who has claimed work is offered more, and the
\* timer passes over no task for a less urgent one.
THEOREM ServerServesQueue == Spec => WorkAsPromised
  <1>1. Init => Q!Init
    BY WorkInit
  <1>2. ClaimsInv /\ OwnerInv /\ [Next]_vars => [Q!Next]_(Q!work)
    BY WorkStep
  <1> QED  BY <1>1, <1>2, ClaimsCorrect, OwnerCorrect, PTL
           DEF Spec, WorkAsPromised, Q!Spec
=============================================================================
