-------------------------- MODULE NexusServerProofs --------------------------
(***************************************************************************)
(* Proofs about NexusServer, for any set of agents, tasks and bounds.      *)
(***************************************************************************)
EXTENDS NexusServer, TLAPS

\* What an agent record is made of, after each of the registry's operations.
LEMMA RecordTypes ==
    ASSUME NEW rec \in AgentRecord, NEW t \in Tasks, NEW T \in SUBSET Tasks
    PROVE  /\ AddOn(rec, t) \in AgentRecord
           /\ RemoveOn(rec, T) \in AgentRecord
           /\ AddOn(rec, t).online = rec.online
           /\ RemoveOn(rec, T).online = rec.online
  BY DEF AddOn, RemoveOn, AgentRecord

\* The entries of an unknown agent and of a new one are agent records.
LEMMA AbsentType == Absent \in AgentRecord /\ Registered \in AgentRecord
  BY DEF Absent, Registered, AgentRecord

\* Every record the task operations write is a task record.
LEMMA TaskRecordTypes ==
    /\ Unsubmitted \in TaskRecord
    /\ Queued \in TaskRecord
    /\ \A a \in Agents : [status |-> "assigned", assignedAgentId |-> a] \in TaskRecord
    /\ \A a \in Agents : [status |-> "in_progress", assignedAgentId |-> a] \in TaskRecord
    /\ \A r \in TaskRecord, s \in TaskStatus : [r EXCEPT !.status = s] \in TaskRecord
  BY DEF Unsubmitted, Queued, TaskRecord, TaskStatus

Tables == agents \in [Agents -> AgentRecord] /\ tasks \in [Tasks -> TaskRecord]

\* claim() keeps the types of the two tables.
LEMMA ClaimType ==
    ASSUME Tables, NEW t \in Tasks, NEW a \in Agents, Claim(t, a)
    PROVE  Tables'
  BY RecordTypes, TaskRecordTypes DEF Tables, Claim

\* complete() and approve() keep the types of the two tables.
LEMMA FinishType ==
    ASSUME Tables, NEW t \in Tasks, Finish(t)
    PROVE  Tables'
  <1>1. "completed" \in TaskStatus
    BY DEF TaskStatus
  <1>2. tasks' \in [Tasks -> TaskRecord]
    BY <1>1, TaskRecordTypes DEF Tables, Finish
  <1>3. agents' \in [Agents -> AgentRecord]
    BY RecordTypes DEF Tables, Finish
  <1> QED  BY <1>2, <1>3 DEF Tables

\* deregister() and reassign() keep the types of the two tables.
LEMMA RequeueType ==
    ASSUME Tables, NEW T \in SUBSET Tasks, NEW S \in SUBSET Agents, Requeue(T, S)
    PROVE  Tables'
  <1>1. tasks' \in [Tasks -> TaskRecord]
    BY TaskRecordTypes DEF Tables, Requeue
  <1>2. agents' \in [Agents -> AgentRecord]
    <2>2. ASSUME NEW a \in Agents, NEW U \in SUBSET Tasks
          PROVE  RemoveOn(agents[a], U) \in AgentRecord
      BY DEF Tables, RemoveOn, AgentRecord
    <2> QED  BY <2>2, AbsentType DEF Tables, Requeue
  <1> QED  BY <1>1, <1>2 DEF Tables

\* A round of assignments keeps the types of the two tables.
LEMMA AssignAllType ==
    ASSUME Tables, NEW f \in [Tasks -> Agents \union {NoAgent}], AssignAll(f)
    PROVE  Tables'
  <1>1. tasks' \in [Tasks -> TaskRecord]
    BY TaskRecordTypes DEF Tables, AssignAll
  <1>2. agents' \in [Agents -> AgentRecord]
    BY RecordTypes DEF Tables, AssignAll
  <1> QED  BY <1>1, <1>2 DEF Tables

\* submit(), with its attempt to assign, keeps the types of the two tables.
LEMMA SubmitType ==
    ASSUME Tables, NEW t \in Tasks, NEW a \in Agents \union {NoAgent}, SubmitTo(t, a)
    PROVE  Tables'
  BY RecordTypes, TaskRecordTypes DEF Tables, SubmitTo

-----------------------------------------------------------------------------
(* Type correctness.                                                        *)

\* The part of TypeOK that the client's own steps change.
Links ==
    /\ phase \in [Agents -> {"new", "up", "gone"}]
    /\ mine \in [Agents -> SUBSET Tasks]
    /\ wire \in [Agents -> Seq(Message)]
    /\ lowSent \in 0 .. MaxDebates

Debates == debates \in Seq(D!Session)

\* What the client sends is a message.
LEMMA MessageTypes ==
    /\ \A t \in Tasks : Claimed(t) \in Message
    /\ \A t \in Tasks, sure \in BOOLEAN : Result(t, sure) \in Message
    /\ Deregister \in Message
    /\ mine \in [Agents -> SUBSET Tasks] => \A a \in Agents : Heartbeat(a) \in Message
  BY DEF Claimed, Result, Deregister, Heartbeat, Message, HeartbeatMessage,
         ClaimMessage, ResultMessage, DeregisterMessage

\* Sending a message keeps every wire a sequence of messages.
LEMMA SendType ==
    ASSUME wire \in [Agents -> Seq(Message)], NEW a \in Agents, NEW m \in Message,
           Send(a, m)
    PROVE  wire' \in [Agents -> Seq(Message)]
  BY DEF Send

\* Taking the first message off a wire keeps the client side well typed.
LEMMA ReceiveType ==
    ASSUME Links, NEW a \in Agents, NEW type, Receives(a, type), UNCHANGED client
    PROVE  Links' /\ Head(wire[a]) \in Message
  BY DEF Links, Receives, client

\* A step of a client, from a claim to a crash, keeps every type.
LEMMA ClientType ==
    ASSUME TypeOK, NEW a \in Agents, ClientStep(a)
    PROVE  TypeOK'
  <1> USE DEF Links, TypeOK, Tables, Debates, server
  <1>1. ASSUME NEW t \in Tasks, ClaimTool(a, t)  PROVE TypeOK'
    BY <1>1, SendType, MessageTypes DEF ClaimTool
  <1>2. ASSUME NEW t \in Tasks, NEW sure \in BOOLEAN, ResultTool(a, t, sure)
        PROVE  TypeOK'
    <2>1. lowSent' \in 0 .. MaxDebates
      BY <1>2, DebateBounds DEF ResultTool
    <2> QED  BY <1>2, <2>1, SendType, MessageTypes DEF ResultTool
  <1>3. CASE HeartbeatTick(a)
    BY <1>3, SendType, MessageTypes DEF HeartbeatTick, client
  <1>4. CASE Stop(a)
    BY <1>4, SendType, MessageTypes DEF Stop
  <1>5. CASE Crash(a)
    <2>1. \A n \in 0 .. Len(wire[a]) : SubSeq(wire[a], 1, n) \in Seq(Message)
      OBVIOUS
    <2>2. wire' \in [Agents -> Seq(Message)]
      BY <1>5, <2>1 DEF Crash
    <2> QED  BY <1>5, <2>2 DEF Crash
  <1> QED  BY <1>1, <1>2, <1>3, <1>4, <1>5 DEF ClientStep

\* initiate() opens a well-typed debate.
LEMMA InitiateType ==
    ASSUME Debates, NEW t \in Tasks, NEW P \in SUBSET Agents, D!Initiate(t, P)
    PROVE  Debates'
  <1> DEFINE s == [taskId |-> t, participants |-> P, currentRound |-> 1,
                   argued |-> {}, status |-> "active"]
  <1>1. s \in D!Session
    BY DebateBounds DEF D!Session
  <1> HIDE DEF s
  <1>2. Append(debates, s) \in Seq(D!Session)
    BY <1>1 DEF Debates
  <1> QED  BY <1>2 DEF D!Initiate, Debates, s

\* An argument keeps a debate well typed: the round counter stops at its limit.
LEMMA SubmitArgumentType ==
    ASSUME Debates, NEW d \in DOMAIN debates, NEW a \in Agents, D!SubmitArgument(d, a)
    PROVE  Debates'
  <1> DEFINE s == debates[d]
             argued == s.argued \union {a}
             new == IF ~ (s.participants \subseteq argued)
                    THEN [s EXCEPT !.argued = argued]
                    ELSE IF s.currentRound >= MaxRounds
                    THEN [s EXCEPT !.argued = argued, !.status = "resolved"]
                    ELSE [s EXCEPT !.argued = {}, !.currentRound = @ + 1]
  <1>1. s \in D!Session
    BY DEF Debates
  <1>2. new \in D!Session
    <2>1. argued \in SUBSET Agents
      BY <1>1 DEF D!Session
    <2>2. [s EXCEPT !.argued = argued] \in D!Session
      BY <1>1, <2>1 DEF D!Session
    <2>3. [s EXCEPT !.argued = argued, !.status = "resolved"] \in D!Session
      BY <1>1, <2>1 DEF D!Session
    <2>4. ASSUME ~ s.currentRound >= MaxRounds
          PROVE  [s EXCEPT !.argued = {}, !.currentRound = @ + 1] \in D!Session
      <3>1. s.currentRound \in 1 .. MaxRounds
        BY <1>1 DEF D!Session
      <3>2. s.currentRound + 1 \in 1 .. MaxRounds
        BY <2>4, <3>1, DebateBounds
      <3> QED  BY <1>1, <3>2 DEF D!Session
    <2> QED  BY <2>2, <2>3, <2>4
  <1>3. debates' = [debates EXCEPT ![d] = new]
    BY DEF D!SubmitArgument
  <1> HIDE DEF new
  <1> QED  BY <1>2, <1>3 DEF Debates

\* The health check's verdicts keep the debates well typed.
LEMMA EvaluateAllType ==
    ASSUME Debates, NEW E \in SUBSET DOMAIN debates, D!EvaluateAll(E)
    PROVE  Debates'
  <1>1. \A s \in D!Session : [s EXCEPT !.status = "resolved"] \in D!Session
    BY DEF D!Session
  <1>2. \A d \in DOMAIN debates : debates'[d] \in D!Session
    BY <1>1 DEF Debates, D!EvaluateAll
  <1>3. DOMAIN debates = 1 .. Len(debates) /\ Len(debates) \in Nat
    BY DEF Debates
  <1>4. debates' = [d \in 1 .. Len(debates) |-> debates'[d]]
    BY <1>3 DEF D!EvaluateAll
  <1> QED  BY <1>2, <1>3, <1>4 DEF Debates

\* handleDisconnect keeps the tables and the client side well typed.
LEMMA DisconnectType ==
    ASSUME Tables, Links, NEW S \in SUBSET Agents, NEW T \in SUBSET Tasks,
           HandleDisconnect(S, T), UNCHANGED lowSent
    PROVE  Tables' /\ Links'
  <1>1. Listed(S) \union T \in SUBSET Tasks
    BY DEF Listed
  <1>2. Tables'
    BY <1>1, RequeueType DEF HandleDisconnect
  <1>3. <<>> \in Seq(Message)
    OBVIOUS
  <1>4. Links'
    BY <1>3 DEF HandleDisconnect, Links
  <1> QED  BY <1>2, <1>4

\* Every message handler of the server keeps every type.
LEMMA ServerType ==
    ASSUME TypeOK, NEW a \in Agents, ServerStep(a)
    PROVE  TypeOK'
  <1> SUFFICES Tables' /\ Debates' /\ Links'
    BY DEF TypeOK, Tables, Debates, Links
  <1>0. Tables /\ Debates /\ Links
    BY DEF TypeOK, Tables, Debates, Links
  <1>1. CASE OnRegister(a)
    BY <1>0, <1>1, AbsentType DEF OnRegister, Tables, Debates, Links
  <1>2. CASE OnHeartbeat(a)
    <2>1. Links' /\ Head(wire[a]) \in Message
      BY <1>0, <1>2, ReceiveType DEF OnHeartbeat
    <2>2. Head(wire[a]) \in HeartbeatMessage
      BY <1>2, <2>1 DEF OnHeartbeat, Receives, Message, HeartbeatMessage,
                        ClaimMessage, ResultMessage, DeregisterMessage
    <2>3. HeartbeatOn(agents[a], Head(wire[a])) \in AgentRecord
      BY <1>0, <2>2 DEF HeartbeatOn, AgentRecord, HeartbeatMessage, Tables
    <2> QED  BY <1>0, <1>2, <2>1, <2>3 DEF OnHeartbeat, Tables, Debates
  <1>3. CASE OnClaim(a)
    <2>1. Links' /\ Head(wire[a]) \in Message
      BY <1>0, <1>3, ReceiveType DEF OnClaim
    <2>2. Head(wire[a]).taskId \in Tasks
      BY <1>3, <2>1 DEF OnClaim, Receives, Message, HeartbeatMessage,
                        ClaimMessage, ResultMessage, DeregisterMessage
    <2> QED  BY <1>0, <1>3, <2>1, <2>2, ClaimType DEF OnClaim, Debates
  <1>4. CASE OnResult(a)
    <2> DEFINE t == Head(wire[a]).taskId
    <2>1. Links' /\ Head(wire[a]) \in Message
      BY <1>0, <1>4, ReceiveType DEF OnResult
    <2>2. t \in Tasks
      BY <1>4, <2>1 DEF OnResult, Receives, Message, HeartbeatMessage,
                        ClaimMessage, ResultMessage, DeregisterMessage
    <2> HIDE DEF t
    <2>3. \/ UNCHANGED server
          \/ Finish(t) /\ UNCHANGED debates
          \/ Review(t, a)
      BY <1>4 DEF OnResult, t
    <2>4. CASE UNCHANGED server
      BY <1>0, <2>1, <2>4 DEF server, Tables, Debates
    <2>5. CASE Finish(t) /\ UNCHANGED debates
      BY <1>0, <2>1, <2>2, <2>5, FinishType DEF Debates
    <2>6. CASE Review(t, a) /\ ~ (Finish(t) /\ UNCHANGED debates)
      <3>1. PICK r \in Reviewers(a) : D!Initiate(t, {a, r})
        BY <2>6 DEF Review
      <3>2. {a, r} \in SUBSET Agents
        BY DEF Reviewers
      <3>3. Debates'
        BY <1>0, <2>2, <3>1, <3>2, InitiateType
      <3>4. tasks' = [tasks EXCEPT ![t].status = "debating"] /\ UNCHANGED agents
        BY <2>6 DEF Review
      <3>5. Tables'
        BY <1>0, <2>2, <3>4, TaskRecordTypes DEF Tables, TaskStatus
      <3> QED  BY <2>1, <3>3, <3>5
    <2> QED  BY <2>3, <2>4, <2>5, <2>6
  <1>5. CASE OnDeregister(a)
    BY <1>0, <1>5, DisconnectType DEF OnDeregister, Debates
  <1>6. CASE OnClose(a)
    BY <1>0, <1>6, DisconnectType DEF OnClose, Debates
  <1>7. ASSUME NEW t \in Tasks, OnSubmit(a, t)
        PROVE  Tables' /\ Debates' /\ Links'
    <2>1. PICK b \in Agents \union {NoAgent} : SubmitTo(t, b)
      BY <1>7 DEF OnSubmit, BestFor, Candidates
    <2> QED  BY <1>0, <1>7, <2>1, SubmitType DEF OnSubmit, client, Debates, Links
  <1>8. ASSUME NEW d \in D!DebateIds, OnArgument(a, d)
        PROVE  Tables' /\ Debates' /\ Links'
    <2>1. Debates'
      BY <1>0, <1>8, SubmitArgumentType DEF OnArgument
    <2>2. debates[d].taskId \in Tasks
      <3>1. d \in DOMAIN debates
        BY <1>8 DEF OnArgument
      <3>2. debates[d] \in D!Session
        BY <1>0, <3>1 DEF Debates
      <3> QED  BY <3>2 DEF D!Session
    <2>3. Tables'
      BY <1>0, <1>8, <2>2, FinishType DEF OnArgument, Tables
    <2> QED  BY <1>0, <1>8, <2>1, <2>3 DEF OnArgument, client, Links
  <1> QED  BY <1>1, <1>2, <1>3, <1>4, <1>5, <1>6, <1>7, <1>8 DEF ServerStep, Receive

\* The assignment timer keeps every type.
LEMMA AutoAssignType ==
    ASSUME TypeOK, AutoAssign
    PROVE  TypeOK'
  <1>1. PICK f \in [Tasks -> Agents \union {NoAgent}] : AssignAll(f)
    BY DEF AutoAssign, AutoAssignQueued
  <1>2. Tables'
    BY <1>1, AssignAllType DEF TypeOK, Tables
  <1> QED  BY <1>2 DEF AutoAssign, client, TypeOK, Tables

\* The health check keeps every type.
LEMMA HealthCheckType ==
    ASSUME TypeOK, HealthCheckTimer
    PROVE  TypeOK'
  <1>1. PICK S \in SUBSET Agents, T \in SUBSET Tasks, E \in SUBSET DOMAIN debates :
            HealthCheck(S, T, E)
    BY DEF HealthCheckTimer
  <1>2. Tables' /\ Links'
    BY <1>1, DisconnectType DEF HealthCheck, TypeOK, Tables, Links
  <1>3. Debates'
    BY <1>1, EvaluateAllType DEF HealthCheck, TypeOK, Debates
  <1> QED  BY <1>2, <1>3 DEF TypeOK, Tables, Debates, Links

\* The initial state is well typed.
LEMMA InitType ==
    ASSUME Init
    PROVE  TypeOK
  BY AbsentType, TaskRecordTypes, DebateBounds DEF Init, TypeOK

\* No step breaks the types.
LEMMA TypeStep ==
    ASSUME TypeOK, [Next]_vars
    PROVE  TypeOK'
  <1>1. CASE Next
    BY <1>1, ClientType, ServerType, AutoAssignType, HealthCheckType DEF Next
  <1>2. CASE UNCHANGED vars
    BY <1>2 DEF vars, TypeOK
  <1> QED  BY <1>1, <1>2

\* Every variable keeps its type, whatever the agents, tasks and bounds.
THEOREM TypeCorrect == Spec => []TypeOK
  <1>1. Init => TypeOK
    BY InitType
  <1>2. TypeOK /\ [Next]_vars => TypeOK'
    BY TypeStep
  <1> QED  BY <1>1, <1>2, PTL DEF Spec

-----------------------------------------------------------------------------
(* The registry: ReadyMeansIdle, SocketIsBound and HeartbeatsAgree.         *)

\* What the invariants say of a single record.
Sound(rec) ==
    /\ rec.status = "ready" <=> rec.activeTasks = {}
    /\ ~ rec.online => rec = Absent

AllSound == \A a \in Agents : Sound(agents[a])

SameOnline == \A a \in Agents : agents'[a].online = agents[a].online

\* Adding to or removing from a task list keeps an agent ready exactly when
\* its list is empty.
LEMMA RecordsSound ==
    ASSUME NEW rec \in AgentRecord, Sound(rec), NEW t \in Tasks, NEW T \in SUBSET Tasks
    PROVE  Sound(AddOn(rec, t)) /\ Sound(RemoveOn(rec, T))
  BY DEF Sound, AddOn, RemoveOn, AgentRecord

\* Unknown and new agents are ready and have no task.
LEMMA NewRecordsSound == Sound(Absent) /\ Sound(Registered)
  BY DEF Sound, Absent, Registered

\* All that claim, assign, submit, approve and complete do to the registry.
ListsChange ==
    \A a \in Agents :
        \/ agents'[a] = agents[a]
        \/ \E t \in Tasks : agents'[a] = AddOn(agents[a], t)
        \/ \E t \in Tasks : agents'[a] = RemoveOn(agents[a], {t})

\* A step that only adds to lists and removes from them keeps every record
\* sound.
LEMMA ListsChangeSound ==
    ASSUME Tables, AllSound, ListsChange
    PROVE  AllSound' /\ SameOnline
  <1>1. ASSUME NEW a \in Agents
        PROVE  Sound(agents'[a]) /\ agents'[a].online = agents[a].online
    <2>1. agents[a] \in AgentRecord /\ Sound(agents[a])
      BY DEF Tables, AllSound
    <2>2. ASSUME NEW t \in Tasks, agents'[a] = AddOn(agents[a], t)
          PROVE  Sound(agents'[a]) /\ agents'[a].online = agents[a].online
      <3>1. {t} \in SUBSET Tasks
        OBVIOUS
      <3> QED  BY <2>1, <2>2, <3>1, RecordsSound, RecordTypes
    <2>3. ASSUME NEW t \in Tasks, agents'[a] = RemoveOn(agents[a], {t})
          PROVE  Sound(agents'[a]) /\ agents'[a].online = agents[a].online
      <3>1. {t} \in SUBSET Tasks
        OBVIOUS
      <3> QED  BY <2>1, <2>3, <3>1, RecordsSound, RecordTypes
    <2> QED  BY <2>1, <2>2, <2>3 DEF ListsChange
  <1> QED  BY <1>1 DEF AllSound, SameOnline

\* claim() keeps every agent record sound.
LEMMA ClaimSound ==
    ASSUME Tables, AllSound, NEW t \in Tasks, NEW a \in Agents, Claim(t, a)
    PROVE  AllSound' /\ SameOnline
  <1>1. ListsChange
    BY DEF Tables, Claim, ListsChange
  <1> QED  BY <1>1, ListsChangeSound

\* complete() and approve() keep every agent record sound.
LEMMA FinishSound ==
    ASSUME Tables, AllSound, NEW t \in Tasks, Finish(t)
    PROVE  AllSound' /\ SameOnline
  <1>1. ListsChange
    BY DEF Tables, Finish, ListsChange
  <1> QED  BY <1>1, ListsChangeSound

\* A round of assignments keeps every agent record sound.
LEMMA AssignAllSound ==
    ASSUME Tables, AllSound, NEW f \in [Tasks -> Agents \union {NoAgent}], AssignAll(f)
    PROVE  AllSound' /\ SameOnline
  <1>1. ListsChange
    BY DEF Tables, AssignAll, ListsChange
  <1> QED  BY <1>1, ListsChangeSound

\* submit() keeps every agent record sound.
LEMMA SubmitSound ==
    ASSUME Tables, AllSound, NEW t \in Tasks, NEW a \in Agents \union {NoAgent},
           SubmitTo(t, a)
    PROVE  AllSound' /\ SameOnline
  <1>1. ListsChange
    BY DEF Tables, SubmitTo, ListsChange
  <1> QED  BY <1>1, ListsChangeSound

\* deregister() and reassign() keep every agent record sound.
LEMMA RequeueSound ==
    ASSUME Tables, AllSound, NEW T \in SUBSET Tasks, NEW S \in SUBSET Agents,
           Requeue(T, S)
    PROVE  /\ AllSound'
           /\ \A a \in Agents : agents'[a].online = (agents[a].online /\ a \notin S)
  <1>1. ASSUME NEW a \in Agents
        PROVE  Sound(agents'[a]) /\ agents'[a].online = (agents[a].online /\ a \notin S)
    <2>1. CASE a \in S
      <3>1. agents'[a] = Absent
        BY <2>1 DEF Requeue
      <3>2. agents'[a].online = FALSE
        BY <3>1 DEF Absent
      <3>3. (agents[a].online /\ a \notin S) = FALSE
        BY <2>1
      <3>4. Sound(agents'[a])
        BY <3>1, NewRecordsSound
      <3> QED  BY <3>2, <3>3, <3>4
    <2>2. CASE a \notin S
      <3> DEFINE U == {t \in T : Owner(t) = a}
      <3>1. agents'[a] = RemoveOn(agents[a], U)
        BY <2>2 DEF Requeue
      <3>2. U \in SUBSET Tasks /\ agents[a] \in AgentRecord /\ Sound(agents[a])
        BY DEF Tables, AllSound
      <3> HIDE DEF U
      <3>3. Sound(RemoveOn(agents[a], U))
        BY <3>2 DEF Sound, RemoveOn, AgentRecord
      <3>4. RemoveOn(agents[a], U).online = agents[a].online
        BY <3>2 DEF RemoveOn, AgentRecord
      <3> QED  BY <2>2, <3>1, <3>2, <3>3, <3>4 DEF AgentRecord
    <2> QED  BY <2>1, <2>2
  <1> QED  BY <1>1 DEF AllSound

\* The other part of SocketIsBound.
Bound ==
    \A a \in Agents :
        /\ phase[a] = "up" \/ wire[a] # <<>> => agents[a].online
        /\ agents[a].online => phase[a] # "new"

RegistryInv == TypeOK /\ AllSound /\ Bound /\ HeartbeatsAgree

\* RegistryInv gives the registry's part of Consistent.
LEMMA RegistryInvMeans ==
    ASSUME RegistryInv
    PROVE  ReadyMeansIdle /\ SocketIsBound
  BY DEF RegistryInv, AllSound, Sound, Bound, ReadyMeansIdle, SocketIsBound, Online

\* handleDisconnect keeps RegistryInv.
LEMMA DisconnectSound ==
    ASSUME RegistryInv, NEW S \in SUBSET Agents, NEW T \in SUBSET Tasks,
           \A a \in S : agents[a].online, HandleDisconnect(S, T)
    PROVE  AllSound' /\ Bound' /\ HeartbeatsAgree'
  <1>1. /\ AllSound'
        /\ \A a \in Agents : agents'[a].online = (agents[a].online /\ a \notin S)
    <2>1. Listed(S) \union T \in SUBSET Tasks
      BY DEF Listed
    <2> QED  BY <2>1, RequeueSound DEF HandleDisconnect, RegistryInv, TypeOK, Tables
  <1>2. ASSUME NEW a \in Agents
        PROVE  /\ phase'[a] = IF a \in S THEN "gone" ELSE phase[a]
               /\ wire'[a] = IF a \in S THEN <<>> ELSE wire[a]
    BY DEF HandleDisconnect
  <1>3. Bound'
    BY <1>1, <1>2 DEF Bound, RegistryInv
  <1>4. HeartbeatsAgree'
    BY <1>2 DEF HeartbeatsAgree, RegistryInv
  <1> QED  BY <1>1, <1>3, <1>4

\* Receiving drops the first message of one wire, and sending adds a last one.
LEMMA ReceiveKeeps ==
    ASSUME RegistryInv, NEW a \in Agents, NEW type, Receives(a, type)
    PROVE  /\ HeartbeatsAgree'
           /\ agents[a].online
           /\ UNCHANGED client /\ SameOnline => Bound'
  <1>1. /\ wire[a] # <<>> /\ wire[a] \in Seq(Message)
        /\ wire' = [wire EXCEPT ![a] = Tail(@)]
    BY DEF Receives, RegistryInv, TypeOK
  <1>2. /\ Len(wire'[a]) = Len(wire[a]) - 1
        /\ \A k \in 1 .. Len(wire'[a]) :
              wire'[a][k] = wire[a][k + 1] /\ k + 1 \in 1 .. Len(wire[a])
    BY <1>1 DEF RegistryInv, TypeOK
  <1>3. \A b \in Agents \ {a} : wire'[b] = wire[b]
    BY <1>1 DEF RegistryInv, TypeOK
  <1>4. HeartbeatsAgree'
    BY <1>2, <1>3 DEF RegistryInv, HeartbeatsAgree
  <1>5. agents[a].online
    BY <1>1 DEF RegistryInv, Bound
  <1>6. ASSUME UNCHANGED client, SameOnline
        PROVE  Bound'
    BY <1>3, <1>5, <1>6 DEF RegistryInv, Bound, SameOnline, client
  <1> QED  BY <1>4, <1>5, <1>6

\* Sending m keeps HeartbeatsAgree when m itself agrees, and only a
\* registered agent sends.
LEMMA SendKeeps ==
    ASSUME RegistryInv, NEW a \in Agents, NEW m \in Message, MaySend(a), Send(a, m),
           m.type = "agent.heartbeat" => (m.status = "idle" <=> m.activeTasks = {})
    PROVE  HeartbeatsAgree' /\ agents[a].online
  <1>1. wire[a] \in Seq(Message) /\ wire' = [wire EXCEPT ![a] = Append(@, m)]
    BY DEF Send, RegistryInv, TypeOK
  <1>2. /\ Len(wire'[a]) = Len(wire[a]) + 1
        /\ \A k \in 1 .. Len(wire[a]) : wire'[a][k] = wire[a][k]
        /\ wire'[a][Len(wire[a]) + 1] = m
    BY <1>1 DEF RegistryInv, TypeOK
  <1>3. \A b \in Agents \ {a} : wire'[b] = wire[b]
    BY <1>1 DEF RegistryInv, TypeOK
  <1>4. Len(wire[a]) \in Nat
    BY <1>1
  <1>5. HeartbeatsAgree'
    BY <1>2, <1>3, <1>4 DEF RegistryInv, HeartbeatsAgree
  <1>6. agents[a].online
    BY DEF MaySend, RegistryInv, Bound
  <1> QED  BY <1>5, <1>6

\* A step of a client keeps RegistryInv.
LEMMA ClientKeepsRegistry ==
    ASSUME RegistryInv, NEW a \in Agents, ClientStep(a)
    PROVE  RegistryInv'
  <1>0. TypeOK /\ TypeOK'
    BY ClientType DEF RegistryInv
  <1>1. UNCHANGED agents /\ AllSound'
    BY DEF ClientStep, ClaimTool, ResultTool, HeartbeatTick, Stop, Crash, server,
           RegistryInv, AllSound
  <1>2. CASE Crash(a)
    <2>1. PICK n \in 0 .. Len(wire[a]) : wire' = [wire EXCEPT ![a] = SubSeq(@, 1, n)]
      BY <1>2 DEF Crash
    <2>2. wire[a] \in Seq(Message)
      BY <1>0 DEF TypeOK
    <2>3. wire'[a] = SubSeq(wire[a], 1, n)
      BY <1>0, <2>1 DEF TypeOK
    <2>4. /\ Len(wire'[a]) = n
          /\ \A k \in 1 .. n : wire'[a][k] = wire[a][k] /\ k \in 1 .. Len(wire[a])
      BY <2>2, <2>3
    <2>5. \A b \in Agents \ {a} : wire'[b] = wire[b] /\ phase'[b] = phase[b]
      BY <1>0, <1>2, <2>1 DEF Crash, TypeOK
    <2>6. HeartbeatsAgree'
      BY <2>4, <2>5 DEF RegistryInv, HeartbeatsAgree
    <2>7. agents[a].online /\ phase'[a] = "gone"
      BY <1>0, <1>2 DEF Crash, RegistryInv, Bound, TypeOK
    <2>8. Bound'
      BY <1>1, <2>5, <2>7 DEF RegistryInv, Bound
    <2> QED  BY <1>0, <1>1, <2>6, <2>8 DEF RegistryInv
  <1>3. CASE ~ Crash(a)
    <2>1. \A b \in Agents \ {a} : wire'[b] = wire[b] /\ phase'[b] = phase[b]
      BY <1>0, <1>3 DEF ClientStep, ClaimTool, ResultTool, HeartbeatTick, Stop, Send,
                        client, TypeOK
    <2>2. PICK m \in Message :
              /\ Send(a, m)
              /\ m.type = "agent.heartbeat" => (m.status = "idle" <=> m.activeTasks = {})
      <3>1. ASSUME NEW t \in Tasks, ClaimTool(a, t)
            PROVE  Send(a, Claimed(t)) /\ Claimed(t).type # "agent.heartbeat"
        BY <3>1 DEF ClaimTool, Claimed
      <3>2. ASSUME NEW t \in Tasks, NEW sure \in BOOLEAN, ResultTool(a, t, sure)
            PROVE  Send(a, Result(t, sure)) /\ Result(t, sure).type # "agent.heartbeat"
        BY <3>2 DEF ResultTool, Result
      <3>3. ASSUME Stop(a)
            PROVE  Send(a, Deregister) /\ Deregister.type # "agent.heartbeat"
        BY <3>3 DEF Stop, Deregister
      <3>4. ASSUME HeartbeatTick(a)
            PROVE  /\ Send(a, Heartbeat(a)) /\ Heartbeat(a) \in Message
                   /\ Heartbeat(a).status = "idle" <=> Heartbeat(a).activeTasks = {}
        BY <1>0, <3>4, MessageTypes DEF HeartbeatTick, Heartbeat, TypeOK
      <3> QED  BY <1>3, <3>1, <3>2, <3>3, <3>4, MessageTypes DEF ClientStep
    <2>3. MaySend(a) /\ phase'[a] # "new"
      BY <1>0, <1>3 DEF ClientStep, ClaimTool, ResultTool, HeartbeatTick, Stop, client,
                        MaySend, TypeOK
    <2>4. HeartbeatsAgree' /\ agents[a].online
      BY <2>2, <2>3, SendKeeps
    <2>5. Bound'
      BY <1>1, <2>1, <2>3, <2>4 DEF RegistryInv, Bound
    <2> QED  BY <1>0, <1>1, <2>4, <2>5 DEF RegistryInv
  <1> QED  BY <1>2, <1>3

\* A step that moves no message, changes no phase and keeps who is online.
LEMMA TablesKeepRegistry ==
    ASSUME RegistryInv, TypeOK', AllSound', SameOnline, UNCHANGED <<client, wire>>
    PROVE  RegistryInv'
  BY DEF RegistryInv, Bound, HeartbeatsAgree, SameOnline, client

\* A heartbeat overwrites status and list together, and keeps RegistryInv.
LEMMA HeartbeatKeepsRegistry ==
    ASSUME RegistryInv, NEW a \in Agents, OnHeartbeat(a)
    PROVE  AllSound' /\ SameOnline
  <1> DEFINE m == Head(wire[a])
  <1>1. /\ wire[a] \in Seq(Message) /\ wire[a] # <<>>
        /\ m.type = "agent.heartbeat"
        /\ agents' = [agents EXCEPT ![a] = HeartbeatOn(@, m)]
        /\ agents \in [Agents -> AgentRecord]
    BY DEF OnHeartbeat, Receives, RegistryInv, TypeOK
  <1>2. m \in Message /\ m = wire[a][1] /\ 1 \in 1 .. Len(wire[a])
    BY <1>1
  <1>3. m.status = "idle" <=> m.activeTasks = {}
    BY <1>1, <1>2 DEF RegistryInv, HeartbeatsAgree
  <1>4. m \in HeartbeatMessage
    BY <1>1, <1>2 DEF Message, HeartbeatMessage, ClaimMessage, ResultMessage,
                      DeregisterMessage
  <1>5. agents[a].online
    BY <1>1 DEF RegistryInv, Bound
  <1> HIDE DEF m
  <1>6. HeartbeatOn(agents[a], m).online = agents[a].online
    BY <1>1 DEF HeartbeatOn, AgentRecord
  <1>7. Sound(HeartbeatOn(agents[a], m))
    BY <1>1, <1>3, <1>4, <1>5 DEF HeartbeatOn, AgentRecord, HeartbeatMessage, Sound
  <1> QED  BY <1>1, <1>6, <1>7 DEF RegistryInv, AllSound, SameOnline

\* Every message handler of the server keeps RegistryInv.
LEMMA ServerKeepsRegistry ==
    ASSUME RegistryInv, NEW a \in Agents, ServerStep(a)
    PROVE  RegistryInv'
  <1>0. /\ TypeOK /\ TypeOK'
        /\ Tables /\ AllSound
    BY ServerType DEF RegistryInv, TypeOK, Tables
  <1>1. CASE OnRegister(a)
    <2>1. /\ agents' = [agents EXCEPT ![a] = Registered]
          /\ phase' = [phase EXCEPT ![a] = "up"]
          /\ UNCHANGED wire
      BY <1>1 DEF OnRegister
    <2>2. AllSound'
      BY <1>0, <2>1, NewRecordsSound DEF AllSound, Tables
    <2>3. Bound'
      BY <1>0, <2>1 DEF RegistryInv, Bound, TypeOK, Registered
    <2> QED  BY <1>0, <2>1, <2>2, <2>3 DEF RegistryInv, HeartbeatsAgree
  <1>2. CASE OnHeartbeat(a)
    <2>1. AllSound' /\ SameOnline
      BY <1>2, HeartbeatKeepsRegistry
    <2> QED  BY <1>0, <1>2, <2>1, ReceiveKeeps DEF OnHeartbeat, RegistryInv
  <1>3. CASE OnClaim(a)
    <2>1. Head(wire[a]).taskId \in Tasks
      <3>1. Head(wire[a]) \in Message /\ Head(wire[a]).type = "task.claimed"
        BY <1>0, <1>3 DEF OnClaim, Receives, TypeOK
      <3> QED  BY <3>1 DEF Message, HeartbeatMessage, ClaimMessage, ResultMessage,
                           DeregisterMessage
    <2>2. AllSound' /\ SameOnline
      BY <1>0, <1>3, <2>1, ClaimSound DEF OnClaim
    <2> QED  BY <1>0, <1>3, <2>2, ReceiveKeeps DEF OnClaim, RegistryInv
  <1>4. CASE OnResult(a)
    <2> DEFINE t == Head(wire[a]).taskId
    <2>1. t \in Tasks
      <3>1. Head(wire[a]) \in Message /\ Head(wire[a]).type = "task.result"
        BY <1>0, <1>4 DEF OnResult, Receives, TypeOK
      <3> QED  BY <3>1 DEF Message, HeartbeatMessage, ClaimMessage, ResultMessage,
                           DeregisterMessage
    <2> HIDE DEF t
    <2>2. UNCHANGED agents \/ Finish(t)
      BY <1>4 DEF OnResult, Review, server, t
    <2>3. AllSound' /\ SameOnline
      BY <1>0, <2>1, <2>2, FinishSound DEF AllSound, SameOnline
    <2> QED  BY <1>0, <1>4, <2>3, ReceiveKeeps DEF OnResult, RegistryInv
  <1>5. CASE OnDeregister(a) \/ OnClose(a)
    <2>1. HandleDisconnect({a}, {})
      BY <1>5 DEF OnDeregister, OnClose
    <2>2. agents[a].online
      BY <1>5 DEF OnDeregister, OnClose, RegistryInv, Bound, Online
    <2>3. AllSound' /\ Bound' /\ HeartbeatsAgree'
      BY <2>1, <2>2, DisconnectSound
    <2> QED  BY <1>0, <2>3 DEF RegistryInv
  <1>6. ASSUME NEW t \in Tasks, OnSubmit(a, t)
        PROVE  RegistryInv'
    <2>1. PICK b \in Agents \union {NoAgent} : SubmitTo(t, b)
      BY <1>6 DEF OnSubmit, BestFor, Candidates
    <2>2. AllSound' /\ SameOnline
      BY <1>0, <2>1, SubmitSound
    <2> QED  BY <1>0, <1>6, <2>2, TablesKeepRegistry DEF OnSubmit
  <1>7. ASSUME NEW d \in D!DebateIds, OnArgument(a, d)
        PROVE  RegistryInv'
    <2>1. debates[d].taskId \in Tasks
      <3>1. debates[d] \in D!Session
        BY <1>0, <1>7 DEF OnArgument, TypeOK
      <3> QED  BY <3>1 DEF D!Session
    <2>2. UNCHANGED agents \/ Finish(debates[d].taskId)
      BY <1>7 DEF OnArgument
    <2>3. AllSound' /\ SameOnline
      BY <1>0, <2>1, <2>2, FinishSound DEF AllSound, SameOnline
    <2> QED  BY <1>0, <1>7, <2>3, TablesKeepRegistry DEF OnArgument
  <1> QED  BY <1>1, <1>2, <1>3, <1>4, <1>5, <1>6, <1>7 DEF ServerStep, Receive

\* The timers keep RegistryInv.
LEMMA TimersKeepRegistry ==
    ASSUME RegistryInv, AutoAssign \/ HealthCheckTimer
    PROVE  RegistryInv'
  <1>0. /\ TypeOK /\ TypeOK'
        /\ Tables /\ AllSound
    BY AutoAssignType, HealthCheckType DEF RegistryInv, TypeOK, Tables
  <1>1. CASE AutoAssign
    <2>1. PICK f \in [Tasks -> Agents \union {NoAgent}] : AssignAll(f)
      BY <1>1 DEF AutoAssign, AutoAssignQueued
    <2>2. AllSound' /\ SameOnline
      BY <1>0, <2>1, AssignAllSound
    <2> QED  BY <1>0, <1>1, <2>2, TablesKeepRegistry DEF AutoAssign
  <1>2. CASE HealthCheckTimer
    <2>1. PICK S \in SUBSET Agents, T \in SUBSET Tasks, E \in SUBSET DOMAIN debates :
              HealthCheck(S, T, E)
      BY <1>2 DEF HealthCheckTimer
    <2>2. AllSound' /\ Bound' /\ HeartbeatsAgree'
      BY <2>1, DisconnectSound DEF HealthCheck, Online
    <2> QED  BY <1>0, <2>2 DEF RegistryInv
  <1> QED  BY <1>1, <1>2

\* RegistryInv holds initially.
LEMMA RegistryInit ==
    ASSUME Init
    PROVE  RegistryInv
  BY InitType, NewRecordsSound
     DEF Init, RegistryInv, AllSound, Bound, HeartbeatsAgree, Absent

\* RegistryInv is inductive.
LEMMA RegistryStep ==
    ASSUME RegistryInv, [Next]_vars
    PROVE  RegistryInv'
  <1>1. CASE Next
    BY <1>1, ClientKeepsRegistry, ServerKeepsRegistry, TimersKeepRegistry DEF Next
  <1>2. CASE UNCHANGED vars
    BY <1>2 DEF vars, RegistryInv, TypeOK, AllSound, Bound, HeartbeatsAgree
  <1> QED  BY <1>1, <1>2

\* RegistryInv holds in every reachable state.
LEMMA RegistryCorrect == Spec => []RegistryInv
  <1>1. Init => RegistryInv
    BY RegistryInit
  <1>2. RegistryInv /\ [Next]_vars => RegistryInv'
    BY RegistryStep
  <1> QED  BY <1>1, <1>2, PTL DEF Spec

\* The server takes an agent to be ready exactly when its list of tasks is
\* empty, although the client's heartbeats and the server both write the list.
THEOREM ReadyAgentsAreIdle == Spec => []ReadyMeansIdle
  <1>1. RegistryInv => ReadyMeansIdle
    BY RegistryInvMeans
  <1> QED  BY <1>1, RegistryCorrect, PTL

-----------------------------------------------------------------------------
(* Tasks: QueuedHasNoOwner and HandoverThroughQueue.                        *)

\* What a step may make of one task: back to the queue, to an agent from the
\* queue only, or on with the agent it has.
Moves(old, new) ==
    \/ new = old
    \/ new = Queued
    \/ /\ old.status \in {"none", "queued"}
       /\ new.status \in {"assigned", "in_progress"}
       /\ new.assignedAgentId \in Agents
    \/ /\ old.status \in {"in_progress", "debating"}
       /\ new.status \in {"debating", "completed"}
       /\ new.assignedAgentId = old.assignedAgentId

AllMove == \A t \in Tasks : Moves(tasks[t], tasks'[t])

\* claim() gives a task only to an agent that takes it from the queue.
LEMMA ClaimMoves ==
    ASSUME Tables, NEW t \in Tasks, NEW a \in Agents, Claim(t, a)
    PROVE  AllMove
  BY DEF Tables, Claim, AllMove, Moves, TaskRecord

\* A task that is completed keeps its agent.
LEMMA FinishMoves ==
    ASSUME Tables, NEW t \in Tasks, tasks[t].status \in {"in_progress", "debating"},
           Finish(t)
    PROVE  AllMove
  BY DEF Tables, Finish, AllMove, Moves, TaskRecord

\* A task that goes into review, or is approved for want of a reviewer, keeps
\* its agent.
LEMMA ReviewMoves ==
    ASSUME Tables, NEW t \in Tasks, tasks[t].status = "in_progress",
           NEW a \in Agents, Review(t, a)
    PROVE  AllMove
  BY FinishMoves DEF Tables, Review, AllMove, Moves, TaskRecord

\* A disconnect leaves a task as it is or queues it.
LEMMA DisconnectMoves ==
    ASSUME Tables, NEW S, NEW T, HandleDisconnect(S, T)
    PROVE  AllMove
  BY DEF Tables, HandleDisconnect, Requeue, AllMove, Moves

\* A new task is queued, or assigned at once.
LEMMA SubmitMoves ==
    ASSUME Tables, NEW t \in Tasks, ~ Exists(t), NEW a \in Agents \union {NoAgent},
           SubmitTo(t, a)
    PROVE  AllMove
  BY DEF Tables, SubmitTo, AllMove, Moves, Exists, TaskRecord

\* The assignment timer takes tasks from the queue only.
LEMMA AutoAssignMoves ==
    ASSUME Tables, AutoAssignQueued
    PROVE  AllMove
  <1>1. PICK f \in [Tasks -> Agents \union {NoAgent}] : IsAssignment(f) /\ AssignAll(f)
    BY DEF AutoAssignQueued
  <1>2. \A t \in Tasks : f[t] # NoAgent => tasks[t].status = "queued"
    BY <1>1 DEF IsAssignment, QueuedTasks
  <1> QED  BY <1>1, <1>2 DEF Tables, AssignAll, AllMove, Moves, TaskRecord

\* What a message says of the task it names.
LEMMA MessageFields ==
    /\ \A m \in Message : m.type = "agent.heartbeat" => m \in HeartbeatMessage
    /\ \A m \in Message : m.type \in {"task.claimed", "task.result"} => m.taskId \in Tasks
  BY DEF Message, HeartbeatMessage, ClaimMessage, ResultMessage, DeregisterMessage

\* What a handler receives is a message.
LEMMA ReceivedIsMessage ==
    ASSUME TypeOK, NEW a \in Agents, NEW type, Receives(a, type)
    PROVE  Head(wire[a]) \in Message /\ Head(wire[a]).type = type
  BY DEF TypeOK, Receives

\* Every step moves every task by AllMove.
LEMMA StepMoves ==
    ASSUME TypeOK, [Next]_vars
    PROVE  AllMove
  <1>0. Tables
    BY DEF TypeOK, Tables
  <1>1. ASSUME UNCHANGED tasks  PROVE AllMove
    BY <1>1 DEF AllMove, Moves
  <1>2. ASSUME NEW a \in Agents, ClientStep(a)  PROVE AllMove
    BY <1>1, <1>2 DEF ClientStep, ClaimTool, ResultTool, HeartbeatTick, Stop, Crash, server
  <1>3. ASSUME NEW a \in Agents, ServerStep(a)  PROVE AllMove
    <2>1. CASE OnRegister(a) \/ OnHeartbeat(a)
      BY <1>1, <2>1 DEF OnRegister, OnHeartbeat
    <2>2. CASE OnClaim(a)
      <3>1. Head(wire[a]).taskId \in Tasks
        BY <2>2, ReceivedIsMessage, MessageFields DEF OnClaim
      <3> QED  BY <1>0, <2>2, <3>1, ClaimMoves DEF OnClaim
    <2>3. CASE OnResult(a)
      <3> DEFINE t == Head(wire[a]).taskId
      <3>1. t \in Tasks
        BY <2>3, ReceivedIsMessage, MessageFields DEF OnResult
      <3>2. \/ UNCHANGED tasks
            \/ tasks[t].status = "in_progress" /\ (Finish(t) \/ Review(t, a))
        BY <2>3 DEF OnResult, server
      <3> HIDE DEF t
      <3> QED  BY <1>0, <1>1, <3>1, <3>2, FinishMoves, ReviewMoves
    <2>4. CASE OnDeregister(a) \/ OnClose(a)
      BY <1>0, <2>4, DisconnectMoves DEF OnDeregister, OnClose
    <2>5. ASSUME NEW t \in Tasks, OnSubmit(a, t)  PROVE AllMove
      <3>1. PICK b \in Agents \union {NoAgent} : SubmitTo(t, b)
        BY <2>5 DEF OnSubmit, BestFor, Candidates
      <3> QED  BY <1>0, <2>5, <3>1, SubmitMoves DEF OnSubmit
    <2>6. ASSUME NEW d \in D!DebateIds, OnArgument(a, d)  PROVE AllMove
      <3>1. debates[d].taskId \in Tasks
        <4>1. debates[d] \in D!Session
          BY <2>6 DEF OnArgument, TypeOK
        <4> QED  BY <4>1 DEF D!Session
      <3> QED  BY <1>0, <1>1, <2>6, <3>1, FinishMoves DEF OnArgument
    <2> QED  BY <1>3, <2>1, <2>2, <2>3, <2>4, <2>5, <2>6 DEF ServerStep, Receive
  <1>4. ASSUME AutoAssign  PROVE AllMove
    BY <1>0, <1>4, AutoAssignMoves DEF AutoAssign
  <1>5. ASSUME HealthCheckTimer  PROVE AllMove
    BY <1>0, <1>5, DisconnectMoves DEF HealthCheckTimer, HealthCheck
  <1>6. ASSUME UNCHANGED vars  PROVE AllMove
    BY <1>1, <1>6 DEF vars
  <1> QED  BY <1>2, <1>3, <1>4, <1>5, <1>6 DEF Next

OwnerInv == TypeOK /\ QueuedHasNoOwner

\* OwnerInv is inductive.
LEMMA OwnerStep ==
    ASSUME OwnerInv, [Next]_vars
    PROVE  OwnerInv'
  <1>1. TypeOK' /\ AllMove
    BY TypeStep, StepMoves DEF OwnerInv
  <1>2. QueuedHasNoOwner'
    BY <1>1, NoAgentIsNoAgent
       DEF OwnerInv, QueuedHasNoOwner, Owner, AllMove, Moves, Queued
  <1> QED  BY <1>1, <1>2 DEF OwnerInv

\* OwnerInv holds in every reachable state.
LEMMA OwnerCorrect == Spec => []OwnerInv
  <1>1. Init => OwnerInv
    BY InitType DEF Init, OwnerInv, QueuedHasNoOwner, Owner, Unsubmitted
  <1>2. OwnerInv /\ [Next]_vars => OwnerInv'
    BY OwnerStep
  <1> QED  BY <1>1, <1>2, PTL DEF Spec

\* A task has an agent exactly when it has left the queue, so that claim() and
\* assign(), which look at the status only, never overwrite an agent.
THEOREM TasksInQueueAreFree == Spec => []QueuedHasNoOwner
  <1>1. OwnerInv => QueuedHasNoOwner
    BY DEF OwnerInv
  <1> QED  BY <1>1, OwnerCorrect, PTL

\* No step gives a task of one agent to another agent.
THEOREM NoDirectHandover == Spec => HandoverThroughQueue
  <1> DEFINE Keeps == \A t \in Tasks :
                         Owner(t) # NoAgent => Owner(t)' \in {Owner(t), NoAgent}
  <1>1. OwnerInv /\ [Next]_vars => [Keeps]_vars
    <2> SUFFICES ASSUME OwnerInv, [Next]_vars
                 PROVE  Keeps
      OBVIOUS
    <2>1. AllMove
      BY StepMoves DEF OwnerInv
    <2> QED  BY <2>1 DEF OwnerInv, QueuedHasNoOwner, Owner, AllMove, Moves, Queued
  <1> QED  BY <1>1, OwnerCorrect, PTL DEF Spec, HandoverThroughQueue

-----------------------------------------------------------------------------
(* Reported work.                                                           *)

\* Task t is queued again in this step by the departure of an agent that
\* listed it.
LeftBehind(t) ==
    \E a \in Agents : Online(a) /\ ~ Online(a)' /\ t \in agents[a].activeTasks

\* No task of a certain status is queued again but by such a departure.
OthersKeepReported ==
    \A t \in Tasks :
        tasks[t].status \in {"debating", "completed"} /\ tasks'[t].status = "queued"
            => LeftBehind(t)

\* A disconnect of the agents of S with the stale tasks T.
LEMMA DisconnectKeepsReported ==
    ASSUME Tables, NEW S \in SUBSET Agents, NEW T \in SUBSET Tasks,
           \A a \in S : Online(a),
           \A t \in T : tasks[t].status \notin {"debating", "completed"},
           HandleDisconnect(S, T)
    PROVE  OthersKeepReported
  <1> SUFFICES ASSUME NEW t \in Tasks,
                      tasks[t].status \in {"debating", "completed"},
                      tasks'[t].status = "queued"
               PROVE  LeftBehind(t)
    BY DEF OthersKeepReported
  <1>1. t \in Listed(S) \union T
    BY DEF HandleDisconnect, Requeue
  <1>2. PICK a \in S : t \in agents[a].activeTasks
    BY <1>1 DEF Listed
  <1>3. ~ Online(a)'
    BY DEF HandleDisconnect, Requeue, Online, Absent
  <1> QED  BY <1>2, <1>3 DEF LeftBehind

\* Handlers other than a disconnect keep reported work where it is: none of
\* their moves leads from there to the queue.
LEMMA StepKeepsReported ==
    ASSUME TypeOK, RegistryInv, [Next]_vars
    PROVE  OthersKeepReported
  <1>0. Tables
    BY DEF TypeOK, Tables
  <1>1. ASSUME \A t \in Tasks : \/ tasks'[t] = tasks[t]
                                \/ tasks[t].status \in {"none", "queued"}
                                \/ tasks'[t].status \in {"debating", "completed"}
        PROVE  OthersKeepReported
    BY <1>0, <1>1 DEF OthersKeepReported, Tables
  <1>7. ASSUME NEW t \in Tasks, Finish(t)  PROVE OthersKeepReported
    BY <1>0, <1>1, <1>7 DEF Finish, Tables
  <1>2. ASSUME NEW a \in Agents, ServerStep(a)  PROVE OthersKeepReported
    <2>1. CASE OnRegister(a) \/ OnHeartbeat(a)
      BY <1>1, <2>1 DEF OnRegister, OnHeartbeat
    <2>2. CASE OnClaim(a)
      BY <1>0, <1>1, <2>2 DEF OnClaim, Claim, Tables
    <2>3. CASE OnResult(a)
      <3> DEFINE t == Head(wire[a]).taskId
      <3>1. UNCHANGED tasks \/ Finish(t) \/ Review(t, a)
        BY <2>3 DEF OnResult, server
      <3>2. t \in Tasks
        BY <2>3, ReceivedIsMessage, MessageFields DEF OnResult
      <3> HIDE DEF t
      <3>3. CASE Finish(t)
        BY <1>7, <3>2, <3>3
      <3>4. CASE Review(t, a) /\ ~ Finish(t)
        <4>1. tasks' = [tasks EXCEPT ![t].status = "debating"]
          BY <3>4 DEF Review
        <4>2. \A u \in Tasks : tasks'[u] = tasks[u] \/ tasks'[u].status = "debating"
          BY <1>0, <3>2, <4>1 DEF Tables, TaskRecord
        <4> QED  BY <1>1, <4>2
      <3> QED  BY <1>1, <3>1, <3>3, <3>4
    <2>4. CASE OnDeregister(a) \/ OnClose(a)
      <3>1. Online(a)
        BY <2>4, RegistryInvMeans DEF OnDeregister, OnClose, SocketIsBound
      <3>2. HandleDisconnect({a}, {})
        BY <2>4 DEF OnDeregister, OnClose
      <3> QED  BY <1>0, <3>1, <3>2, DisconnectKeepsReported
    <2>5. ASSUME NEW t \in Tasks, OnSubmit(a, t)  PROVE OthersKeepReported
      <3>1. PICK b : SubmitTo(t, b)
        BY <2>5 DEF OnSubmit
      <3> QED  BY <1>0, <1>1, <2>5, <3>1 DEF SubmitTo, OnSubmit, Exists, Tables
    <2>6. ASSUME NEW d \in D!DebateIds, OnArgument(a, d)  PROVE OthersKeepReported
      <3>1. debates[d].taskId \in Tasks
        <4>1. debates[d] \in D!Session
          BY <2>6 DEF OnArgument, TypeOK
        <4> QED  BY <4>1 DEF D!Session
      <3> QED  BY <1>1, <1>7, <2>6, <3>1 DEF OnArgument
    <2> QED  BY <1>2, <2>1, <2>2, <2>3, <2>4, <2>5, <2>6 DEF ServerStep, Receive
  <1>3. ASSUME NEW a \in Agents, ClientStep(a)  PROVE OthersKeepReported
    BY <1>1, <1>3 DEF ClientStep, ClaimTool, ResultTool, HeartbeatTick, Stop, Crash, server
  <1>4. ASSUME AutoAssign  PROVE OthersKeepReported
    <2>1. PICK f \in [Tasks -> Agents \union {NoAgent}] : IsAssignment(f) /\ AssignAll(f)
      BY <1>4 DEF AutoAssign, AutoAssignQueued
    <2>2. \A t \in Tasks : f[t] # NoAgent => tasks[t].status = "queued"
      BY <2>1 DEF IsAssignment, QueuedTasks
    <2> QED  BY <1>1, <2>1, <2>2 DEF AssignAll
  <1>5. ASSUME HealthCheckTimer  PROVE OthersKeepReported
    <2>1. PICK S \in SUBSET Agents, T \in SUBSET Tasks, E \in SUBSET DOMAIN debates :
              HealthCheck(S, T, E)
      BY <1>5 DEF HealthCheckTimer
    <2> QED  BY <1>0, <2>1, DisconnectKeepsReported DEF HealthCheck, MayBeStale
  <1>6. ASSUME UNCHANGED vars  PROVE OthersKeepReported
    BY <1>1, <1>6 DEF vars
  <1> QED  BY <1>2, <1>3, <1>4, <1>5, <1>6 DEF Next

\* Work that has been reported on goes back to the queue only with an agent
\* that listed it: claims, results, verdicts and the stale check never do that.
THEOREM ReportsAreKept == Spec => ReportedWorkIsKept
  <1> DEFINE Keeps == \A t \in Tasks :
          tasks[t].status \in {"debating", "completed"} /\ tasks'[t].status = "queued"
          => \E a \in Agents : /\ Online(a) /\ ~ Online(a)'
                               /\ t \in agents[a].activeTasks
  <1>1. RegistryInv /\ [Next]_vars => [Keeps]_vars
    BY StepKeepsReported DEF RegistryInv, OthersKeepReported, LeftBehind
  <1> QED  BY <1>1, RegistryCorrect, PTL DEF Spec, ReportedWorkIsKept

-----------------------------------------------------------------------------
(* Claims: ClaimsAreKept and InProgressIsHeld.                              *)

\* KeepsSince, of a queue of messages q and of whether the client has dropped t.
Kept(q, t, k, dropped) ==
    /\ \A j \in k + 1 .. Len(q) :
          Omits(q[j], t) => \E i \in k + 1 .. j - 1 : ReportsOn(q[i], t)
    /\ dropped => \E i \in k + 1 .. Len(q) : ReportsOn(q[i], t)

Dropped(a, t) == phase[a] = "up" /\ t \notin mine[a]

\* Receiving a message moves every position in the queue down by one.
LEMMA KeptTail ==
    ASSUME NEW q \in Seq(Message), q # <<>>, NEW t, NEW dropped \in BOOLEAN,
           NEW k \in 1 .. Len(q), Kept(q, t, k, dropped)
    PROVE  Kept(Tail(q), t, k - 1, dropped)
  <1> DEFINE r == Tail(q)
  <1>1. /\ Len(q) \in Nat /\ Len(r) = Len(q) - 1
        /\ \A j \in 1 .. Len(r) : r[j] = q[j + 1]
    OBVIOUS
  <1> HIDE DEF r
  <1>2. ASSUME NEW j \in k .. Len(r), Omits(r[j], t)
        PROVE  \E i \in k .. j - 1 : ReportsOn(r[i], t)
    <2>1. j + 1 \in k + 1 .. Len(q) /\ r[j] = q[j + 1]
      BY <1>1
    <2>2. PICK i \in k + 1 .. j : ReportsOn(q[i], t)
      BY <1>2, <2>1 DEF Kept
    <2>3. i - 1 \in k .. j - 1 /\ r[i - 1] = q[i]
      BY <1>1
    <2> QED  BY <2>2, <2>3
  <1>3. ASSUME dropped
        PROVE  \E i \in k .. Len(r) : ReportsOn(r[i], t)
    <2>1. PICK i \in k + 1 .. Len(q) : ReportsOn(q[i], t)
      BY <1>3 DEF Kept
    <2>2. i - 1 \in k .. Len(r) /\ r[i - 1] = q[i]
      BY <1>1
    <2> QED  BY <2>1, <2>2
  <1>4. (k - 1) + 1 = k
    OBVIOUS
  <1> QED  BY <1>2, <1>3, <1>4 DEF Kept, r

\* At the start of the queue it holds for the rest unless the message that is
\* received is the report.
LEMMA KeptTailAtStart ==
    ASSUME NEW q \in Seq(Message), q # <<>>, NEW t, NEW dropped \in BOOLEAN,
           ~ ReportsOn(Head(q), t), Kept(q, t, 0, dropped)
    PROVE  Kept(Tail(q), t, 0, dropped)
  <1>1. Kept(q, t, 1, dropped)
    <2>1. q[1] = Head(q) /\ Len(q) \in Nat
      OBVIOUS
    <2>2. \A i \in 1 .. Len(q) : ReportsOn(q[i], t) => i \in 2 .. Len(q)
      BY <2>1
    <2>3. 0 + 1 = 1 /\ 1 + 1 = 2
      OBVIOUS
    <2>4. ASSUME NEW j \in 2 .. Len(q), Omits(q[j], t)
          PROVE  \E i \in 2 .. j - 1 : ReportsOn(q[i], t)
      <3>1. PICK i \in 1 .. j - 1 : ReportsOn(q[i], t)
        BY <2>1, <2>3, <2>4 DEF Kept
      <3> QED  BY <2>1, <2>2, <3>1
    <2>5. ASSUME dropped
          PROVE  \E i \in 2 .. Len(q) : ReportsOn(q[i], t)
      BY <2>2, <2>3, <2>5 DEF Kept
    <2> QED  BY <2>3, <2>4, <2>5 DEF Kept
  <1>2. 1 \in 1 .. Len(q) /\ 1 - 1 = 0
    OBVIOUS
  <1> QED  BY <1>1, <1>2, KeptTail

\* Sending keeps it when a heartbeat omits t only if t was dropped before, and
\* the client drops t only with a report.
LEMMA KeptAppend ==
    ASSUME NEW q \in Seq(Message), NEW m \in Message, NEW t, NEW k \in 0 .. Len(q),
           NEW old \in BOOLEAN, NEW new \in BOOLEAN, Kept(q, t, k, old),
           Omits(m, t) => old,
           new => old \/ ReportsOn(m, t)
    PROVE  Kept(Append(q, m), t, k, new)
  <1> DEFINE r == Append(q, m)
  <1>1. /\ Len(q) \in Nat /\ Len(r) = Len(q) + 1
        /\ \A j \in 1 .. Len(q) : r[j] = q[j]
        /\ r[Len(q) + 1] = m
    OBVIOUS
  <1> HIDE DEF r
  <1>2. old => \E i \in k + 1 .. Len(q) : ReportsOn(r[i], t)
    BY <1>1 DEF Kept
  <1>3. ASSUME NEW j \in k + 1 .. Len(r), Omits(r[j], t)
        PROVE  \E i \in k + 1 .. j - 1 : ReportsOn(r[i], t)
    <2>1. CASE j = Len(q) + 1
      BY <1>1, <1>2, <1>3, <2>1
    <2>2. CASE j # Len(q) + 1
      <3>1. j \in k + 1 .. Len(q) /\ j \in 1 .. Len(q)
        BY <1>1, <2>2
      <3>2. PICK i \in k + 1 .. j - 1 : ReportsOn(q[i], t)
        BY <1>1, <1>3, <3>1 DEF Kept
      <3>3. r[i] = q[i]
        BY <1>1, <3>1
      <3> QED  BY <3>2, <3>3
    <2> QED  BY <2>1, <2>2
  <1>4. ASSUME new
        PROVE  \E i \in k + 1 .. Len(r) : ReportsOn(r[i], t)
    <2>1. CASE old
      BY <1>1, <1>2, <2>1
    <2>2. CASE ReportsOn(m, t)
      <3>1. Len(q) + 1 \in k + 1 .. Len(r)
        BY <1>1
      <3> QED  BY <1>1, <2>2, <3>1
    <2> QED  BY <1>4, <2>1, <2>2
  <1> QED  BY <1>3, <1>4 DEF Kept, r

\* What is lost when the connection breaks is the end of the queue.
LEMMA KeptPrefix ==
    ASSUME NEW q \in Seq(Message), NEW n \in 0 .. Len(q), NEW t, NEW k \in 0 .. n,
           NEW dropped \in BOOLEAN, Kept(q, t, k, dropped)
    PROVE  Kept(SubSeq(q, 1, n), t, k, FALSE)
  <1> DEFINE r == SubSeq(q, 1, n)
  <1>1. Len(q) \in Nat /\ Len(r) = n /\ \A j \in 1 .. n : r[j] = q[j]
    OBVIOUS
  <1> HIDE DEF r
  <1>2. ASSUME NEW j \in k + 1 .. Len(r), Omits(r[j], t)
        PROVE  \E i \in k + 1 .. j - 1 : ReportsOn(r[i], t)
    <2>1. j \in k + 1 .. Len(q) /\ r[j] = q[j]
      BY <1>1
    <2>2. PICK i \in k + 1 .. j - 1 : ReportsOn(q[i], t)
      BY <1>2, <2>1 DEF Kept
    <2>3. r[i] = q[i]
      BY <1>1
    <2> QED  BY <2>2, <2>3
  <1> QED  BY <1>2 DEF Kept, r

ClaimsInv == RegistryInv /\ ClaimsAreKept /\ InProgressIsHeld

\* The parts of ClaimsInv that the action lemmas start from.
LEMMA ClaimsInvMeans ==
    ASSUME ClaimsInv, NEW a \in Agents, NEW t \in Tasks
    PROVE  /\ tasks[t].status = "in_progress" /\ Owner(t) = a
                 => Kept(wire[a], t, 0, Dropped(a, t))
           /\ \A k \in 1 .. Len(wire[a]) :
                 wire[a][k].type = "task.claimed" /\ wire[a][k].taskId = t
                    => Kept(wire[a], t, k, Dropped(a, t))
  BY DEF ClaimsInv, ClaimsAreKept, KeepsSince, Kept, Dropped

\* ClaimsAreKept', in the same words.
KeptAfter(a, t) ==
    /\ tasks'[t].status = "in_progress" /\ tasks'[t].assignedAgentId = a
          => Kept(wire'[a], t, 0, Dropped(a, t)')
    /\ \A k \in 1 .. Len(wire'[a]) :
          wire'[a][k].type = "task.claimed" /\ wire'[a][k].taskId = t
             => Kept(wire'[a], t, k, Dropped(a, t)')

\* ClaimsAreKept, restated in terms of Kept.
LEMMA KeptAfterMeans ==
    ASSUME \A a \in Agents, t \in Tasks : KeptAfter(a, t)
    PROVE  ClaimsAreKept'
  BY DEF ClaimsAreKept, KeepsSince, Kept, KeptAfter, Dropped, Owner

\* A step that leaves alone whatever concerns a, and takes no task up.
StaysInProgress == \A t \in Tasks : tasks'[t].status = "in_progress" => tasks'[t] = tasks[t]

\* A step that leaves an agent's wire and list alone keeps its claims.
LEMMA OthersAreKept ==
    ASSUME ClaimsInv, NEW a \in Agents, NEW t \in Tasks, StaysInProgress,
           wire'[a] = wire[a], phase'[a] = phase[a], mine'[a] = mine[a]
    PROVE  KeptAfter(a, t)
  BY ClaimsInvMeans DEF KeptAfter, StaysInProgress, Dropped, Owner

\* A client that sends m.
LEMMA SenderIsKept ==
    ASSUME ClaimsInv, NEW a \in Agents, NEW t \in Tasks, UNCHANGED tasks,
           NEW m \in Message, Send(a, m),
           Omits(m, t) => Dropped(a, t),
           Dropped(a, t)' => Dropped(a, t) \/ ReportsOn(m, t),
           m.type = "task.claimed" /\ m.taskId = t => ~ Dropped(a, t)'
    PROVE  KeptAfter(a, t)
  <1> DEFINE q == wire[a]
  <1>1. q \in Seq(Message) /\ wire'[a] = Append(q, m)
    BY DEF Send, ClaimsInv, RegistryInv, TypeOK
  <1>2. Dropped(a, t) \in BOOLEAN /\ Dropped(a, t)' \in BOOLEAN
    BY DEF Dropped
  <1>3. \A k \in 0 .. Len(q) :
            Kept(q, t, k, Dropped(a, t)) => Kept(wire'[a], t, k, Dropped(a, t)')
    BY <1>1, <1>2, KeptAppend
  <1>4. /\ Len(q) \in Nat /\ Len(wire'[a]) = Len(q) + 1
        /\ \A k \in 1 .. Len(q) : wire'[a][k] = q[k]
        /\ wire'[a][Len(q) + 1] = m
    BY <1>1
  <1>5. Kept(q, t, 0, Dropped(a, t)) => Kept(wire'[a], t, 0, Dropped(a, t)')
    BY <1>3, <1>4
  <1>6. ASSUME NEW k \in 1 .. Len(wire'[a]), wire'[a][k].type = "task.claimed",
               wire'[a][k].taskId = t
        PROVE  Kept(wire'[a], t, k, Dropped(a, t)')
    <2>1. CASE k \in 1 .. Len(q)
      BY <1>3, <1>4, <1>6, <2>1, ClaimsInvMeans
    <2>2. CASE k = Len(q) + 1
      <3>1. ~ Dropped(a, t)'
        BY <1>4, <1>6, <2>2
      <3>2. k + 1 .. Len(wire'[a]) = {}
        BY <1>4, <2>2
      <3> QED  BY <3>1, <3>2 DEF Kept
    <2> QED  BY <1>4, <2>1, <2>2
  <1> QED  BY <1>5, <1>6, ClaimsInvMeans DEF KeptAfter, Owner

\* A step of a client keeps ClaimsInv: a claim lists its task first, and only
\* a result takes a task off the list.
LEMMA ClientKeepsClaims ==
    ASSUME ClaimsInv, NEW a \in Agents, ClientStep(a)
    PROVE  ClaimsAreKept' /\ InProgressIsHeld'
  <1>0. /\ UNCHANGED server
        /\ \A b \in Agents \ {a} :
              wire'[b] = wire[b] /\ phase'[b] = phase[b] /\ mine'[b] = mine[b]
        /\ TypeOK
    BY DEF ClientStep, ClaimTool, ResultTool, HeartbeatTick, Stop, Crash, Send, client,
           ClaimsInv, RegistryInv, TypeOK
  <1>1. UNCHANGED tasks /\ StaysInProgress /\ InProgressIsHeld'
    BY <1>0 DEF server, StaysInProgress, ClaimsInv, InProgressIsHeld, Owner, Online
  <1>2. ASSUME NEW t \in Tasks  PROVE KeptAfter(a, t)
    <2>1. ASSUME NEW u \in Tasks, ClaimTool(a, u)  PROVE KeptAfter(a, t)
      <3>1. mine'[a] = mine[a] \union {u} /\ phase'[a] = phase[a]
        BY <1>0, <2>1 DEF ClaimTool, TypeOK
      <3>2. Send(a, Claimed(u)) /\ Claimed(u) \in Message
        BY <2>1, MessageTypes DEF ClaimTool
      <3>3. ~ Omits(Claimed(u), t) /\ Claimed(u).taskId = u
        BY DEF Omits, Claimed
      <3> QED  BY <1>1, <3>1, <3>2, <3>3, SenderIsKept DEF Dropped
    <2>2. ASSUME NEW u \in Tasks, NEW sure \in BOOLEAN, ResultTool(a, u, sure)
          PROVE  KeptAfter(a, t)
      <3>1. mine'[a] = mine[a] \ {u} /\ phase'[a] = phase[a]
        BY <1>0, <2>2 DEF ResultTool, TypeOK
      <3>2. Send(a, Result(u, sure)) /\ Result(u, sure) \in Message
        BY <2>2, MessageTypes DEF ResultTool
      <3>3. /\ ~ Omits(Result(u, sure), t)
            /\ ReportsOn(Result(u, sure), u)
            /\ Result(u, sure).type # "task.claimed"
        BY DEF Omits, Result, ReportsOn
      <3> QED  BY <1>1, <3>1, <3>2, <3>3, SenderIsKept DEF Dropped
    <2>3. ASSUME HeartbeatTick(a)  PROVE KeptAfter(a, t)
      <3>1. UNCHANGED <<mine, phase>> /\ phase[a] = "up"
        BY <2>3 DEF HeartbeatTick, client, MaySend
      <3>2. Send(a, Heartbeat(a)) /\ Heartbeat(a) \in Message
        BY <1>0, <2>3, MessageTypes DEF HeartbeatTick, TypeOK
      <3>3. /\ Omits(Heartbeat(a), t) => t \notin mine[a]
            /\ Heartbeat(a).type # "task.claimed"
        BY DEF Omits, Heartbeat
      <3> QED  BY <1>1, <3>1, <3>2, <3>3, SenderIsKept DEF Dropped
    <2>4. ASSUME Stop(a)  PROVE KeptAfter(a, t)
      <3>1. phase'[a] = "gone"
        BY <1>0, <2>4 DEF Stop, TypeOK
      <3>2. Send(a, Deregister) /\ Deregister \in Message
        BY <2>4, MessageTypes DEF Stop
      <3>3. ~ Omits(Deregister, t) /\ Deregister.type # "task.claimed"
        BY DEF Omits, Deregister
      <3> QED  BY <1>1, <3>1, <3>2, <3>3, SenderIsKept DEF Dropped
    <2>5. ASSUME Crash(a)  PROVE KeptAfter(a, t)
      <3> DEFINE q == wire[a]
      <3>1. PICK n \in 0 .. Len(q) : wire' = [wire EXCEPT ![a] = SubSeq(@, 1, n)]
        BY <2>5 DEF Crash
      <3>2. q \in Seq(Message) /\ wire'[a] = SubSeq(q, 1, n)
        BY <1>0, <3>1 DEF TypeOK
      <3>3. /\ Len(wire'[a]) = n /\ 0 \in 0 .. n
            /\ \A k \in 1 .. n : /\ wire'[a][k] = q[k]
                                 /\ k \in 1 .. Len(q)
                                 /\ k \in 0 .. n
        BY <3>2
      <3>4. Dropped(a, t)' = FALSE /\ Dropped(a, t) \in BOOLEAN
        BY <1>0, <2>5 DEF Crash, TypeOK, Dropped
      <3>5. \A k \in 0 .. n :
                Kept(q, t, k, Dropped(a, t)) => Kept(wire'[a], t, k, Dropped(a, t)')
        BY <3>2, <3>4, KeptPrefix
      <3> QED  BY <1>1, <3>3, <3>5, ClaimsInvMeans DEF KeptAfter, Owner
    <2> QED  BY <2>1, <2>2, <2>3, <2>4, <2>5 DEF ClientStep
  <1>3. \A b \in Agents, t \in Tasks : KeptAfter(b, t)
    BY <1>0, <1>1, <1>2, OthersAreKept
  <1> QED  BY <1>1, <1>3, KeptAfterMeans

\* The server takes the next message of a off its wire.  Unless it accepts a
\* claim, a task in progress stays so only if the message does not report on it.
LEMMA ReceiverIsKept ==
    ASSUME ClaimsInv, NEW a \in Agents, NEW t \in Tasks, NEW type, Receives(a, type),
           UNCHANGED client,
           tasks'[t].status = "in_progress" /\ tasks'[t].assignedAgentId = a =>
              \/ tasks'[t] = tasks[t] /\ ~ ReportsOn(Head(wire[a]), t)
              \/ Head(wire[a]).type = "task.claimed" /\ Head(wire[a]).taskId = t
    PROVE  KeptAfter(a, t)
  <1> DEFINE q == wire[a]
             d == Dropped(a, t)
  <1>1. q \in Seq(Message) /\ q # <<>> /\ wire'[a] = Tail(q)
    BY DEF Receives, ClaimsInv, RegistryInv, TypeOK
  <1>2. d \in BOOLEAN /\ Dropped(a, t)' = d
    BY DEF Dropped, client
  <1>3. /\ Len(q) \in Nat \ {0} /\ Len(Tail(q)) = Len(q) - 1
        /\ Head(q) = q[1]
        /\ \A k \in 1 .. Len(Tail(q)) :
              Tail(q)[k] = q[k + 1] /\ k + 1 \in 1 .. Len(q) /\ (k + 1) - 1 = k
    BY <1>1
  <1>4. \A k \in 1 .. Len(q) :
            q[k].type = "task.claimed" /\ q[k].taskId = t => Kept(q, t, k, d)
    BY ClaimsInvMeans
  <1>5. tasks[t].status = "in_progress" /\ Owner(t) = a => Kept(q, t, 0, d)
    BY ClaimsInvMeans
  <1> HIDE DEF d
  <1>6. \A k \in 1 .. Len(q) : Kept(q, t, k, d) => Kept(Tail(q), t, k - 1, d)
    BY <1>1, <1>2, KeptTail
  <1>7. ASSUME NEW k \in 1 .. Len(Tail(q)), Tail(q)[k].type = "task.claimed",
               Tail(q)[k].taskId = t
        PROVE  Kept(Tail(q), t, k, d)
    BY <1>3, <1>4, <1>6, <1>7
  <1>8. ASSUME tasks'[t].status = "in_progress", tasks'[t].assignedAgentId = a
        PROVE  Kept(Tail(q), t, 0, d)
    <2>1. CASE tasks'[t] = tasks[t] /\ ~ ReportsOn(Head(q), t)
      BY <1>1, <1>2, <1>5, <1>8, <2>1, KeptTailAtStart DEF Owner
    <2>2. CASE Head(q).type = "task.claimed" /\ Head(q).taskId = t
      <3>1. 1 \in 1 .. Len(q) /\ 1 - 1 = 0
        BY <1>3
      <3> QED  BY <1>3, <1>4, <1>6, <2>2, <3>1
    <2> QED  BY <1>8, <2>1, <2>2
  <1> QED  BY <1>1, <1>2, <1>7, <1>8 DEF KeptAfter

\* What each operation does to the lists that hold the tasks in progress.
HeldBy(rec, t) == rec.online /\ t \in rec.activeTasks

\* Removing another task from a list leaves a listed task listed.
LEMMA RecordsHold ==
    ASSUME NEW rec \in AgentRecord, NEW t \in Tasks, HeldBy(rec, t), NEW u \in Tasks,
           NEW T \in SUBSET Tasks, t \notin T
    PROVE  HeldBy(AddOn(rec, u), t) /\ HeldBy(RemoveOn(rec, T), t)
  BY DEF HeldBy, AddOn, RemoveOn, AgentRecord

Held ==
    \A t \in Tasks : tasks[t].status = "in_progress" =>
        Owner(t) \in Agents /\ HeldBy(agents[Owner(t)], t)

\* InProgressIsHeld in terms of HeldBy.
LEMMA HeldMeans == (InProgressIsHeld <=> Held) /\ (InProgressIsHeld' <=> Held')
  BY DEF InProgressIsHeld, Held, HeldBy, Online, Owner

\* After claim(), every task in progress is on its agent's list.
LEMMA ClaimHolds ==
    ASSUME Tables, Held, NEW t \in Tasks, NEW a \in Agents, agents[a].online, Claim(t, a)
    PROVE  /\ Held'
           /\ \A u \in Tasks : tasks'[u].status = "in_progress" =>
                 tasks'[u] = tasks[u] \/ u = t
  <1>1. \A b \in Agents : agents'[b] \in {agents[b], AddOn(agents[b], t)}
    BY DEF Tables, Claim
  <1>2. \A u \in Tasks \ {t} : tasks'[u] = tasks[u]
    BY DEF Tables, Claim
  <1>3. ASSUME NEW u \in Tasks, NEW b \in Agents, HeldBy(agents[b], u)
        PROVE  HeldBy(agents'[b], u)
    <2>1. HeldBy(AddOn(agents[b], t), u)
      <3>1. agents[b] \in AgentRecord /\ {} \in SUBSET Tasks /\ u \notin {}
        BY DEF Tables
      <3> QED  BY <1>3, <3>1, RecordsHold
    <2> QED  BY <1>1, <1>3, <2>1
  <1>4. CASE tasks[t].status = "queued"
    <2>1. HeldBy(agents'[a], t)
      <3>1. agents'[a] = AddOn(agents[a], t) /\ agents[a] \in AgentRecord
        BY <1>4 DEF Tables, Claim
      <3>2. HeldBy(AddOn(agents[a], t), t)
        BY <3>1 DEF AddOn, AgentRecord, HeldBy
      <3> QED  BY <3>1, <3>2
    <2>2. tasks'[t].assignedAgentId = a
      BY <1>4 DEF Tables, Claim
    <2> QED  BY <1>2, <1>3, <2>1, <2>2 DEF Held, Owner
  <1>5. CASE tasks[t].status # "queued"
    BY <1>5 DEF Claim, Held, Owner
  <1> QED  BY <1>4, <1>5

\* After complete() or approve(), every task in progress is on its agent's list.
LEMMA FinishHolds ==
    ASSUME Tables, Held, NEW t \in Tasks, Finish(t)
    PROVE  Held' /\ StaysInProgress /\ tasks'[t].status # "in_progress"
  <1>1. tasks'[t].status = "completed"
    BY DEF Tables, Finish, TaskRecord
  <1>2. \A u \in Tasks \ {t} : tasks'[u] = tasks[u]
    BY DEF Tables, Finish
  <1>3. ASSUME NEW u \in Tasks \ {t}, NEW b \in Agents, HeldBy(agents[b], u)
        PROVE  HeldBy(agents'[b], u)
    <2>1. agents'[b] \in {agents[b], RemoveOn(agents[b], {t})}
      BY DEF Tables, Finish
    <2>2. HeldBy(RemoveOn(agents[b], {t}), u)
      <3>1. agents[b] \in AgentRecord /\ {t} \in SUBSET Tasks /\ u \notin {t}
        BY DEF Tables
      <3> QED  BY <1>3, <3>1, RecordsHold
    <2> QED  BY <1>3, <2>1, <2>2
  <1>4. Held'
    BY <1>1, <1>2, <1>3 DEF Held, Owner
  <1> QED  BY <1>1, <1>2, <1>4 DEF StaysInProgress

\* After a review is opened, every task in progress is on its agent's list.
LEMMA ReviewHolds ==
    ASSUME Tables, Held, NEW t \in Tasks, NEW a, Review(t, a)
    PROVE  Held' /\ StaysInProgress /\ tasks'[t].status # "in_progress"
  <1>1. CASE Finish(t)
    BY <1>1, FinishHolds
  <1>2. CASE UNCHANGED agents /\ tasks' = [tasks EXCEPT ![t].status = "debating"]
    BY <1>2 DEF Tables, Held, StaysInProgress, Owner, TaskRecord
  <1> QED  BY <1>1, <1>2 DEF Review

\* A step that only adds to lists and starts no work keeps tasks in progress
\* listed.
LEMMA AddsHold ==
    ASSUME Tables, Held, StaysInProgress,
           \A a \in Agents :
              agents'[a] = agents[a] \/ \E u \in Tasks : agents'[a] = AddOn(agents[a], u)
    PROVE  Held'
  <1>1. ASSUME NEW t \in Tasks, NEW a \in Agents, HeldBy(agents[a], t)
        PROVE  HeldBy(agents'[a], t)
    <2>1. agents[a] \in AgentRecord /\ {} \in SUBSET Tasks /\ t \notin {}
      BY DEF Tables
    <2>2. \A u \in Tasks : HeldBy(AddOn(agents[a], u), t)
      BY <1>1, <2>1, RecordsHold
    <2> QED  BY <1>1, <2>2
  <1> QED  BY <1>1 DEF Held, StaysInProgress, Owner

\* An agent that goes takes its list along, and the list had its tasks in
\* progress: they are queued, and the others stay with agents that stay.
LEMMA DisconnectHolds ==
    ASSUME Tables, Held, NEW S \in SUBSET Agents, NEW T \in SUBSET Tasks,
           HandleDisconnect(S, T)
    PROVE  /\ Held' /\ StaysInProgress
           /\ \A t \in Tasks : tasks'[t].status = "in_progress" => Owner(t) \notin S
  <1> DEFINE R == Listed(S) \union T
  <1>1. R \in SUBSET Tasks /\ Requeue(R, S)
    BY DEF Listed, HandleDisconnect
  <1>2. ASSUME NEW t \in Tasks, tasks'[t].status = "in_progress"
        PROVE  /\ tasks'[t] = tasks[t] /\ t \notin R
               /\ Owner(t) \in Agents /\ HeldBy(agents[Owner(t)], t) /\ Owner(t) \notin S
    <2>1. t \notin R /\ tasks'[t] = tasks[t]
      BY <1>1, <1>2 DEF Requeue, Queued
    <2>2. Owner(t) \in Agents /\ HeldBy(agents[Owner(t)], t)
      BY <1>2, <2>1 DEF Held
    <2>3. Owner(t) \notin S
      BY <1>2, <2>1, <2>2 DEF Listed, Exists, HeldBy
    <2> QED  BY <2>1, <2>2, <2>3
  <1> HIDE DEF R
  <1>3. ASSUME NEW t \in Tasks, tasks'[t].status = "in_progress"
        PROVE  HeldBy(agents'[Owner(t)], t)
    <2> DEFINE a == Owner(t)
               U == {u \in R : Owner(u) = a}
    <2>1. a \in Agents /\ HeldBy(agents[a], t) /\ a \notin S /\ t \notin R
      BY <1>2, <1>3
    <2>2. agents'[a] = RemoveOn(agents[a], U)
      BY <1>1, <2>1 DEF Requeue
    <2>3. U \in SUBSET Tasks /\ t \notin U /\ agents[a] \in AgentRecord
      BY <1>1, <2>1 DEF Tables
    <2> HIDE DEF U, a
    <2>4. HeldBy(RemoveOn(agents[a], U), t)
      BY <2>1, <2>3, RecordsHold
    <2> QED  BY <2>2, <2>4 DEF a
  <1>4. Held'
    BY <1>2, <1>3 DEF Held, Owner
  <1> QED  BY <1>2, <1>4 DEF StaysInProgress

\* handleDisconnect keeps ClaimsInv.
LEMMA DisconnectKeepsClaims ==
    ASSUME ClaimsInv, NEW S \in SUBSET Agents, NEW T \in SUBSET Tasks,
           HandleDisconnect(S, T)
    PROVE  Held' /\ \A a \in Agents, t \in Tasks : KeptAfter(a, t)
  <1>0. Tables /\ Held
    BY HeldMeans DEF ClaimsInv, RegistryInv, TypeOK, Tables
  <1>1. /\ Held' /\ StaysInProgress
        /\ \A t \in Tasks : tasks'[t].status = "in_progress" => Owner(t) \notin S
    BY <1>0, DisconnectHolds
  <1>2. ASSUME NEW a \in Agents
        PROVE  /\ phase'[a] = IF a \in S THEN "gone" ELSE phase[a]
               /\ mine'[a] = IF a \in S THEN {} ELSE mine[a]
               /\ wire'[a] = IF a \in S THEN <<>> ELSE wire[a]
    BY DEF HandleDisconnect
  <1>3. ASSUME NEW a \in S, NEW t \in Tasks
        PROVE  KeptAfter(a, t)
    <2>1. Len(wire'[a]) = 0
      BY <1>2
    <2>2. ~ (tasks'[t].status = "in_progress" /\ tasks'[t].assignedAgentId = a)
      BY <1>1 DEF StaysInProgress, Owner
    <2> QED  BY <2>1, <2>2 DEF KeptAfter
  <1>4. ASSUME NEW a \in Agents \ S, NEW t \in Tasks
        PROVE  KeptAfter(a, t)
    BY <1>1, <1>2, OthersAreKept
  <1> QED  BY <1>1, <1>3, <1>4

\* Every message handler of the server keeps ClaimsInv.
LEMMA ServerKeepsClaims ==
    ASSUME ClaimsInv, NEW a \in Agents, ServerStep(a)
    PROVE  ClaimsAreKept' /\ InProgressIsHeld'
  <1> SUFFICES Held' /\ \A b \in Agents, t \in Tasks : KeptAfter(b, t)
    BY HeldMeans, KeptAfterMeans
  <1>0. TypeOK /\ Tables /\ Held
    BY HeldMeans DEF ClaimsInv, RegistryInv, TypeOK, Tables
  <1>1. CASE OnRegister(a)
    <2>1. ~ agents[a].online /\ wire[a] = <<>>
      BY <1>1 DEF OnRegister, ClaimsInv, RegistryInv, Bound
    <2>2. /\ agents' = [agents EXCEPT ![a] = Registered]
          /\ UNCHANGED <<tasks, mine, wire>>
          /\ \A b \in Agents \ {a} : phase'[b] = phase[b]
      BY <1>0, <1>1 DEF OnRegister, TypeOK
    <2>3. StaysInProgress
      BY <2>2 DEF StaysInProgress
    <2>4. \A t \in Tasks : ~ (tasks[t].status = "in_progress" /\ Owner(t) = a)
      BY <1>0, <2>1 DEF Held, HeldBy
    <2>5. Held'
      BY <1>0, <2>2, <2>4 DEF Held, Owner, Tables
    <2>6. \A t \in Tasks : KeptAfter(a, t)
      <3>1. Len(wire'[a]) = 0
        BY <2>1, <2>2
      <3> QED  BY <2>2, <2>4, <3>1 DEF KeptAfter, Owner
    <2> QED  BY <2>2, <2>3, <2>5, <2>6, OthersAreKept
  <1>2. ASSUME NEW type, Receives(a, type), UNCHANGED client, Held',
               \A t \in Tasks : tasks'[t].status = "in_progress" =>
                  \/ tasks'[t] = tasks[t] /\ ~ ReportsOn(Head(wire[a]), t)
                  \/ /\ Head(wire[a]).type = "task.claimed" /\ Head(wire[a]).taskId = t
                     /\ \/ tasks'[t] = tasks[t]
                        \/ tasks'[t].assignedAgentId = a
        PROVE  \A b \in Agents, t \in Tasks : KeptAfter(b, t)
    <2>1. \A t \in Tasks : KeptAfter(a, t)
      BY <1>2, ReceiverIsKept
    <2>2. ASSUME NEW b \in Agents \ {a}, NEW t \in Tasks
          PROVE  KeptAfter(b, t)
      <3>1. wire'[b] = wire[b] /\ phase'[b] = phase[b] /\ mine'[b] = mine[b]
        BY <1>0, <1>2 DEF Receives, client, TypeOK
      <3>2. /\ tasks'[t].status = "in_progress" /\ tasks'[t].assignedAgentId = b
                 => tasks'[t] = tasks[t]
            /\ Dropped(b, t)' = Dropped(b, t)
        BY <1>2, <3>1 DEF Dropped
      <3> QED  BY <3>1, <3>2, ClaimsInvMeans DEF KeptAfter, Owner
    <2> QED  BY <2>1, <2>2
  <1>3. CASE OnHeartbeat(a)
    <2> DEFINE m == Head(wire[a])
    <2>1. /\ Receives(a, "agent.heartbeat") /\ UNCHANGED client /\ UNCHANGED tasks
          /\ agents' = [agents EXCEPT ![a] = HeartbeatOn(@, m)]
      BY <1>3 DEF OnHeartbeat
    <2>2. m.type = "agent.heartbeat" /\ \A t \in Tasks : ~ ReportsOn(m, t)
      BY <2>1 DEF Receives, ReportsOn
    <2>3. agents[a].online
      BY <2>1, ReceiveKeeps DEF ClaimsInv
    <2>4. ASSUME NEW t \in Tasks, tasks[t].status = "in_progress", Owner(t) = a
          PROVE  t \in m.activeTasks
      <3>1. Kept(wire[a], t, 0, Dropped(a, t))
        BY <2>4, ClaimsInvMeans
      <3>2. wire[a] \in Seq(Message) /\ wire[a] # <<>>
        BY <1>0, <2>1 DEF Receives, TypeOK
      <3>3. 1 \in 1 .. Len(wire[a]) /\ wire[a][1] = m /\ 0 + 1 = 1 /\ 1 .. 1 - 1 = {}
        BY <3>2
      <3>4. ~ Omits(m, t)
        BY <3>1, <3>3 DEF Kept
      <3> QED  BY <2>2, <3>4 DEF Omits
    <2>5. \A b \in Agents \ {a} : agents'[b] = agents[b]
      BY <1>0, <2>1 DEF Tables
    <2>6. agents'[a].online /\ agents'[a].activeTasks = m.activeTasks
      <3>1. agents'[a] = HeartbeatOn(agents[a], m) /\ agents[a] \in AgentRecord
        BY <1>0, <2>1 DEF Tables
      <3> HIDE DEF m
      <3> QED  BY <2>3, <3>1 DEF HeartbeatOn, AgentRecord
    <2> HIDE DEF m
    <2>7. Held'
      <3>1. ASSUME NEW t \in Tasks, tasks[t].status = "in_progress"
            PROVE  HeldBy(agents'[Owner(t)], t)
        BY <1>0, <2>4, <2>5, <2>6, <3>1 DEF Held, HeldBy
      <3> QED  BY <1>0, <2>1, <3>1 DEF Held, Owner
    <2> QED  BY <1>2, <2>1, <2>2, <2>7 DEF m
  <1>4. CASE OnClaim(a)
    <2> DEFINE u == Head(wire[a]).taskId
    <2>1. /\ Receives(a, "task.claimed") /\ UNCHANGED client
          /\ Head(wire[a]).type = "task.claimed" /\ Claim(u, a)
          /\ u \in Tasks
      BY <1>0, <1>4, ReceivedIsMessage, MessageFields DEF OnClaim
    <2>2. agents[a].online
      BY <2>1, ReceiveKeeps DEF ClaimsInv
    <2>3. \A t \in Tasks : ~ ReportsOn(Head(wire[a]), t)
      BY <2>1 DEF ReportsOn
    <2>4. tasks'[u] = tasks[u] \/ tasks'[u].assignedAgentId = a
      BY <1>0, <2>1 DEF Claim, Tables
    <2>5. /\ Held'
          /\ \A t \in Tasks : tasks'[t].status = "in_progress" =>
                tasks'[t] = tasks[t] \/ t = u
      <3> HIDE DEF u
      <3> QED  BY <1>0, <2>1, <2>2, ClaimHolds
    <2> QED  BY <1>2, <2>1, <2>3, <2>4, <2>5
  <1>5. CASE OnResult(a)
    <2> DEFINE u == Head(wire[a]).taskId
    <2>1. /\ Receives(a, "task.result") /\ UNCHANGED client
          /\ Head(wire[a]).type = "task.result" /\ u \in Tasks
          /\ \/ UNCHANGED server /\ tasks[u].status # "in_progress"
             \/ Finish(u)
             \/ Review(u, a)
      BY <1>0, <1>5, ReceivedIsMessage, MessageFields DEF OnResult
    <2>2. \A t \in Tasks : ReportsOn(Head(wire[a]), t) => t = u
      BY DEF ReportsOn
    <2>3. Held' /\ StaysInProgress /\ tasks'[u].status # "in_progress"
      <3>1. CASE UNCHANGED server /\ tasks[u].status # "in_progress"
        BY <1>0, <3>1 DEF server, Held, StaysInProgress, Owner
      <3> HIDE DEF u
      <3>2. CASE Finish(u)
        BY <1>0, <2>1, <3>2, FinishHolds
      <3>3. CASE Review(u, a)
        BY <1>0, <2>1, <3>3, ReviewHolds
      <3> QED  BY <2>1, <3>1, <3>2, <3>3
    <2> QED  BY <1>2, <2>1, <2>2, <2>3 DEF StaysInProgress
  <1>6. CASE OnDeregister(a) \/ OnClose(a)
    <2>1. HandleDisconnect({a}, {})
      BY <1>6 DEF OnDeregister, OnClose
    <2> QED  BY <2>1, DisconnectKeepsClaims DEF ClaimsInv
  <1>7. ASSUME NEW t \in Tasks, OnSubmit(a, t)
        PROVE  Held' /\ \A b \in Agents, u \in Tasks : KeptAfter(b, u)
    <2>1. PICK b \in Agents \union {NoAgent} : SubmitTo(t, b)
      BY <1>7 DEF OnSubmit, BestFor, Candidates
    <2>2. StaysInProgress
      BY <1>0, <2>1 DEF SubmitTo, StaysInProgress, Tables, Queued
    <2>3. \A c \in Agents :
              agents'[c] = agents[c] \/ \E u \in Tasks : agents'[c] = AddOn(agents[c], u)
      BY <1>0, <2>1 DEF SubmitTo, Tables
    <2>4. Held'
      BY <1>0, <2>2, <2>3, AddsHold
    <2> QED  BY <1>7, <2>2, <2>4, OthersAreKept DEF OnSubmit, client
  <1>8. ASSUME NEW d \in D!DebateIds, OnArgument(a, d)
        PROVE  Held' /\ \A b \in Agents, u \in Tasks : KeptAfter(b, u)
    <2>1. debates[d].taskId \in Tasks
      <3>1. debates[d] \in D!Session
        BY <1>0, <1>8 DEF OnArgument, TypeOK
      <3> QED  BY <3>1 DEF D!Session
    <2>2. UNCHANGED <<agents, tasks>> \/ Finish(debates[d].taskId)
      BY <1>8 DEF OnArgument
    <2>3. Held' /\ StaysInProgress
      <3>1. CASE UNCHANGED <<agents, tasks>>
        BY <1>0, <3>1 DEF Held, StaysInProgress, Owner
      <3>2. CASE Finish(debates[d].taskId)
        BY <1>0, <2>1, <3>2, FinishHolds
      <3> QED  BY <2>2, <3>1, <3>2
    <2> QED  BY <1>8, <2>3, OthersAreKept DEF OnArgument, client
  <1> QED  BY <1>1, <1>3, <1>4, <1>5, <1>6, <1>7, <1>8 DEF ServerStep, Receive

\* The timers keep ClaimsInv.
LEMMA TimersKeepClaims ==
    ASSUME ClaimsInv, AutoAssign \/ HealthCheckTimer
    PROVE  ClaimsAreKept' /\ InProgressIsHeld'
  <1>0. Tables /\ Held
    BY HeldMeans DEF ClaimsInv, RegistryInv, TypeOK, Tables
  <1>1. CASE AutoAssign
    <2>1. PICK f \in [Tasks -> Agents \union {NoAgent}] : AssignAll(f)
      BY <1>1 DEF AutoAssign, AutoAssignQueued
    <2>2. StaysInProgress
      BY <1>0, <2>1 DEF AssignAll, StaysInProgress, Tables
    <2>3. \A c \in Agents :
              agents'[c] = agents[c] \/ \E u \in Tasks : agents'[c] = AddOn(agents[c], u)
      BY <1>0, <2>1 DEF AssignAll, Tables
    <2>4. Held'
      BY <1>0, <2>2, <2>3, AddsHold
    <2>5. \A b \in Agents, u \in Tasks : KeptAfter(b, u)
      BY <1>1, <2>2, OthersAreKept DEF AutoAssign, client
    <2> QED  BY <2>4, <2>5, HeldMeans, KeptAfterMeans
  <1>2. CASE HealthCheckTimer
    <2>1. PICK S \in SUBSET Agents, T \in SUBSET Tasks, E \in SUBSET DOMAIN debates :
              HealthCheck(S, T, E)
      BY <1>2 DEF HealthCheckTimer
    <2>2. HandleDisconnect(S, T)
      BY <2>1 DEF HealthCheck
    <2> QED  BY <2>2, DisconnectKeepsClaims, HeldMeans, KeptAfterMeans
  <1> QED  BY <1>1, <1>2

\* ClaimsInv is inductive.
LEMMA ClaimsStep ==
    ASSUME ClaimsInv, [Next]_vars
    PROVE  ClaimsInv'
  <1>1. RegistryInv'
    BY RegistryStep DEF ClaimsInv
  <1>2. CASE Next
    BY <1>1, <1>2, ClientKeepsClaims, ServerKeepsClaims, TimersKeepClaims
       DEF Next, ClaimsInv
  <1>3. CASE UNCHANGED vars
    <2>1. \A a \in Agents, t \in Tasks : KeptAfter(a, t)
      BY <1>3, OthersAreKept DEF vars, StaysInProgress
    <2>2. InProgressIsHeld'
      BY <1>3 DEF vars, ClaimsInv, InProgressIsHeld, Owner, Online
    <2> QED  BY <1>1, <2>1, <2>2, KeptAfterMeans DEF ClaimsInv
  <1> QED  BY <1>2, <1>3

\* ClaimsInv holds initially.
LEMMA ClaimsInit ==
    ASSUME Init
    PROVE  ClaimsInv
  BY RegistryInit
     DEF Init, ClaimsInv, ClaimsAreKept, InProgressIsHeld, Unsubmitted

\* ClaimsInv holds in every reachable state.
LEMMA ClaimsCorrect == Spec => []ClaimsInv
  <1>1. Init => ClaimsInv
    BY ClaimsInit
  <1>2. ClaimsInv /\ [Next]_vars => ClaimsInv'
    BY ClaimsStep
  <1> QED  BY <1>1, <1>2, PTL DEF Spec

\* A task in progress is on the server's list of its agent, which is what a
\* disconnect reassigns: claimed work is never lost with its agent, although
\* every heartbeat of the client overwrites that list.
THEOREM ClaimedWorkIsHeld == Spec => []InProgressIsHeld
  <1>1. ClaimsInv => InProgressIsHeld
    BY DEF ClaimsInv
  <1> QED  BY <1>1, ClaimsCorrect, PTL

\* The whole inductive invariant.
THEOREM ServerIsConsistent == Spec => []Consistent
  <1>1. ClaimsInv /\ OwnerInv => Consistent
    BY RegistryInvMeans DEF ClaimsInv, OwnerInv, RegistryInv, Consistent
  <1> QED  BY <1>1, ClaimsCorrect, OwnerCorrect, PTL
=============================================================================
