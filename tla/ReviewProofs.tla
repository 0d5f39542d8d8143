---------------------------- MODULE ReviewProofs -----------------------------
(***************************************************************************)
(* Proofs about the reviews of NexusServer: tasks under debate and the     *)
(* debates about them, for any number of agents, tasks, debates and        *)
(* rounds.                                                                 *)
(***************************************************************************)
EXTENDS NexusServerProofs, SequenceTheorems

\* Only participants have argued in a round, and one that is still going on
\* lacks one of them.
RoundsOpen ==
    \A d \in DOMAIN debates :
        /\ debates[d].argued \subseteq debates[d].participants
        /\ D!Active(d) => ~ (debates[d].participants \subseteq debates[d].argued)

\* There is a debate about t, and the last one was not argued to its end.
Pending(t) ==
    \E d \in LatestDebate(t) :
        D!Active(d) \/ debates[d].argued # debates[d].participants

ReviewInv == TypeOK /\ RoundsOpen /\ ReviewIsPending

\* The review of another task neither hides the debate of this one nor ends it.
LEMMA InitiateReviews ==
    ASSUME Debates, RoundsOpen, NEW t \in Tasks, NEW P \in SUBSET Agents, P # {},
           D!Initiate(t, P)
    PROVE  /\ RoundsOpen'
           /\ Pending(t)'
           /\ \A u \in Tasks \ {t} : Pending(u) => Pending(u)'
  <1> DEFINE s == [taskId |-> t, participants |-> P, currentRound |-> 1,
                   argued |-> {}, status |-> "active"]
             n == Len(debates)
  <1>1. /\ s \in D!Session /\ s.taskId = t /\ s.participants = P /\ s.argued = {}
        /\ s.status = "active"
    BY DebateBounds DEF D!Session
  <1>2. debates' = Append(debates, s)
    BY DEF D!Initiate
  <1> HIDE DEF s
  <1>3. /\ n \in Nat /\ DOMAIN debates = 1 .. n /\ DOMAIN debates' = 1 .. n + 1
        /\ \A d \in 1 .. n : debates'[d] = debates[d]
        /\ debates'[n + 1] = s
    BY <1>1, <1>2, AppendProperties DEF Debates
  <1> HIDE DEF n
  <1>4. RoundsOpen'
    <2> SUFFICES ASSUME NEW d \in DOMAIN debates'
                 PROVE  /\ debates'[d].argued \subseteq debates'[d].participants
                        /\ debates'[d].status = "active" =>
                              ~ (debates'[d].participants \subseteq debates'[d].argued)
      BY DEF RoundsOpen, D!Active
    <2>1. d \in 1 .. n \/ d = n + 1
      BY <1>3
    <2> QED  BY <1>1, <1>3, <2>1 DEF RoundsOpen, D!Active
  <1>5. Pending(t)'
    <2>1. n + 1 \in LatestDebate(t)'
      BY <1>1, <1>3 DEF LatestDebate
    <2> QED  BY <1>1, <1>3, <2>1 DEF Pending, D!Active
  <1>6. ASSUME NEW u \in Tasks \ {t}, Pending(u)  PROVE Pending(u)'
    <2>1. PICK d \in LatestDebate(u) :
              D!Active(d) \/ debates[d].argued # debates[d].participants
      BY <1>6 DEF Pending
    <2>2. d \in 1 .. n /\ debates[d].taskId = u
      BY <1>3, <2>1 DEF LatestDebate
    <2>3. ASSUME NEW e \in DOMAIN debates', debates'[e].taskId = u  PROVE e <= d
      <3>1. e \in 1 .. n
        BY <1>1, <1>3, <2>3
      <3> QED  BY <1>3, <2>1, <2>3, <3>1 DEF LatestDebate
    <2>4. d \in LatestDebate(u)'
      BY <1>3, <2>2, <2>3 DEF LatestDebate
    <2> QED  BY <1>3, <2>1, <2>2, <2>4 DEF Pending, D!Active
  <1> QED  BY <1>4, <1>5, <1>6

\* Debates keep their tasks and their participants.
LEMMA SameLatest ==
    ASSUME DOMAIN debates' = DOMAIN debates,
           \A d \in DOMAIN debates : debates'[d].taskId = debates[d].taskId,
           NEW u
    PROVE  LatestDebate(u)' = LatestDebate(u)
  BY DEF LatestDebate

\* An argument ends a debate with everyone heard, or leaves it pending.
LEMMA ArgumentReviews ==
    ASSUME Debates, RoundsOpen, NEW d \in DOMAIN debates, NEW a \in Agents,
           D!MayArgue(d, a), D!SubmitArgument(d, a)
    PROVE  /\ RoundsOpen'
           /\ D!Concludes(d, a) => /\ debates'[d].status = "resolved"
                                   /\ debates'[d].argued = debates[d].participants
           /\ \A u \in Tasks : Pending(u) /\ ~ (u = debates[d].taskId /\ D!Concludes(d, a))
                 => Pending(u)'
  <1> DEFINE s == debates[d]
             argued == s.argued \union {a}
             new == IF ~ (s.participants \subseteq argued)
                    THEN [s EXCEPT !.argued = argued]
                    ELSE IF s.currentRound >= MaxRounds
                    THEN [s EXCEPT !.argued = argued, !.status = "resolved"]
                    ELSE [s EXCEPT !.argued = {}, !.currentRound = s.currentRound + 1]
  <1>1. s \in D!Session /\ s.status = "active" /\ a \in s.participants
    BY DEF Debates, D!MayArgue, D!Active
  <1>2. debates' = [debates EXCEPT ![d] = new]
    BY DEF D!SubmitArgument
  <1>3. D!Concludes(d, a) <=> s.participants \subseteq argued /\ s.currentRound >= MaxRounds
    BY DEF D!Concludes
  <1>4. s.argued \subseteq s.participants
    BY DEF RoundsOpen
  <1>5. /\ new.taskId = s.taskId /\ new.participants = s.participants
        /\ new.argued \subseteq s.participants
        /\ ~ D!Concludes(d, a) => /\ new.status = "active"
                                 /\ ~ (s.participants \subseteq new.argued)
        /\ D!Concludes(d, a) => new.status = "resolved" /\ new.argued = s.participants
    BY <1>1, <1>3, <1>4 DEF D!Session
  <1> HIDE DEF new
  <1>6. /\ DOMAIN debates' = DOMAIN debates /\ debates'[d] = new
        /\ \A e \in DOMAIN debates \ {d} : debates'[e] = debates[e]
    BY <1>2
  <1>7. RoundsOpen'
    BY <1>5, <1>6 DEF RoundsOpen, D!Active
  <1>8. \A u : LatestDebate(u)' = LatestDebate(u)
    <2>1. \A e \in DOMAIN debates : debates'[e].taskId = debates[e].taskId
      BY <1>5, <1>6
    <2> QED  BY <1>6, <2>1, SameLatest
  <1>9. ASSUME NEW u \in Tasks, Pending(u), ~ (u = s.taskId /\ D!Concludes(d, a))
        PROVE  Pending(u)'
    <2>1. PICK e \in LatestDebate(u) :
              D!Active(e) \/ debates[e].argued # debates[e].participants
      BY <1>9 DEF Pending
    <2>2. e \in DOMAIN debates /\ debates[e].taskId = u /\ e \in LatestDebate(u)'
      BY <1>8, <2>1 DEF LatestDebate
    <2>3. CASE e = d
      BY <1>5, <1>6, <1>9, <2>2, <2>3 DEF Pending, D!Active
    <2>4. CASE e # d
      BY <1>6, <2>1, <2>2, <2>4 DEF Pending, D!Active
    <2> QED  BY <2>3, <2>4
  <1> QED  BY <1>5, <1>6, <1>7, <1>9

\* A debate that the health check ends was not argued to its end.
LEMMA EvaluateReviews ==
    ASSUME Debates, RoundsOpen, NEW E, D!EvaluateAll(E)
    PROVE  RoundsOpen' /\ \A u \in Tasks : Pending(u) => Pending(u)'
  <1>1. /\ DOMAIN debates' = DOMAIN debates
        /\ \A d \in DOMAIN debates :
              \/ debates'[d] = debates[d]
              \/ D!Active(d) /\ debates'[d] = [debates[d] EXCEPT !.status = "resolved"]
    BY DEF D!EvaluateAll
  <1>2. \A d \in DOMAIN debates : debates[d] \in D!Session
    BY DEF Debates
  <1>3. \A d \in DOMAIN debates :
            /\ debates'[d].taskId = debates[d].taskId
            /\ debates'[d].participants = debates[d].participants
            /\ debates'[d].argued = debates[d].argued
            /\ debates'[d] # debates[d] => D!Active(d)
    BY <1>1, <1>2 DEF D!Session
  <1>4. RoundsOpen'
    BY <1>1, <1>3 DEF RoundsOpen, D!Active
  <1>5. ASSUME NEW u \in Tasks, Pending(u)  PROVE Pending(u)'
    <2>1. PICK d \in LatestDebate(u) :
              D!Active(d) \/ debates[d].argued # debates[d].participants
      BY <1>5 DEF Pending
    <2>2. d \in DOMAIN debates /\ d \in LatestDebate(u)'
      BY <1>1, <1>3, <2>1, SameLatest DEF LatestDebate
    <2>3. debates[d].argued # debates[d].participants
      BY <2>1, <2>2 DEF RoundsOpen
    <2> QED  BY <1>3, <2>2, <2>3 DEF Pending
  <1> QED  BY <1>4, <1>5

-----------------------------------------------------------------------------
(* The steps of the coordinator.                                            *)

\* What a step does to tasks under review and to debates.
Leaves(t) == tasks'[t].status \in {"debating", "completed"} => tasks'[t] = tasks[t]

Reports(t) ==
    /\ tasks[t].status = "in_progress"
    /\ \A u \in Tasks \ {t} : tasks'[u] = tasks[u]
    /\ \/ UNCHANGED debates /\ tasks'[t].status = "completed"
       \/ /\ \E P \in SUBSET Agents : P # {} /\ D!Initiate(t, P)
          /\ tasks'[t].status = "debating"

Argues(d, a) ==
    /\ D!MayArgue(d, a) /\ D!SubmitArgument(d, a)
    /\ \/ UNCHANGED tasks /\ ~ (D!Concludes(d, a)
                                /\ tasks[debates[d].taskId].status = "debating")
       \/ /\ D!Concludes(d, a) /\ tasks[debates[d].taskId].status = "debating"
          /\ tasks'[debates[d].taskId].status = "completed"
          /\ \A u \in Tasks \ {debates[d].taskId} : tasks'[u] = tasks[u]

\* Finish(t) changes t only.
LEMMA FinishOne ==
    ASSUME Tables, NEW t \in Tasks, Finish(t)
    PROVE  /\ tasks'[t].status = "completed"
           /\ \A u \in Tasks \ {t} : tasks'[u] = tasks[u]
  BY DEF Tables, Finish, TaskRecord

\* Every step is one of four kinds.
LEMMA StepKinds ==
    ASSUME TypeOK, [Next]_vars
    PROVE  \/ UNCHANGED debates /\ \A t \in Tasks : Leaves(t)
           \/ \E t \in Tasks : Reports(t)
           \/ \E d \in DOMAIN debates, a \in Agents : Argues(d, a)
           \/ /\ \E E \in SUBSET DOMAIN debates : D!EvaluateAll(E)
              /\ \A t \in Tasks : Leaves(t)
  <1> DEFINE Goal ==
           \/ UNCHANGED debates /\ \A t \in Tasks : Leaves(t)
           \/ \E t \in Tasks : Reports(t)
           \/ \E d \in DOMAIN debates, a \in Agents : Argues(d, a)
           \/ /\ \E E \in SUBSET DOMAIN debates : D!EvaluateAll(E)
              /\ \A t \in Tasks : Leaves(t)
  <1>0. Tables
    BY DEF TypeOK, Tables
  <1>1. ASSUME UNCHANGED <<tasks, debates>>  PROVE Goal
    BY <1>1 DEF Leaves
  <1>2. ASSUME NEW S \in SUBSET Agents, NEW T \in SUBSET Tasks, HandleDisconnect(S, T)
        PROVE  \A t \in Tasks : Leaves(t)
    BY <1>0, <1>2 DEF HandleDisconnect, Requeue, Leaves, Tables, Queued
  <1>3. ASSUME NEW a \in Agents, ServerStep(a)  PROVE Goal
    <2>1. CASE OnRegister(a) \/ OnHeartbeat(a)
      BY <1>1, <2>1 DEF OnRegister, OnHeartbeat
    <2>2. CASE OnClaim(a)
      BY <1>0, <2>2 DEF OnClaim, Claim, Leaves, Tables
    <2>3. CASE OnResult(a)
      <3> DEFINE t == Head(wire[a]).taskId
      <3>1. t \in Tasks
        BY <2>3, ReceivedIsMessage, MessageFields DEF OnResult
      <3>2. \/ UNCHANGED server
            \/ /\ tasks[t].status = "in_progress"
               /\ Review(t, a) \/ (Finish(t) /\ UNCHANGED debates)
        BY <2>3 DEF OnResult
      <3> HIDE DEF t
      <3>3. CASE UNCHANGED server
        BY <1>1, <3>3 DEF server
      <3>4. CASE tasks[t].status = "in_progress" /\ Finish(t) /\ UNCHANGED debates
        BY <1>0, <3>1, <3>4, FinishOne DEF Reports
      <3>5. CASE tasks[t].status = "in_progress" /\ Review(t, a)
        <4>1. CASE Reviewers(a) = {}
          BY <3>4, <3>5, <4>1 DEF Review
        <4>2. CASE Reviewers(a) # {}
          <5>1. PICK r \in Reviewers(a) : D!Initiate(t, {a, r})
            BY <3>5, <4>2 DEF Review
          <5>2. {a, r} \in SUBSET Agents /\ {a, r} # {}
            BY DEF Reviewers
          <5>3. tasks' = [tasks EXCEPT ![t].status = "debating"]
            BY <3>5, <4>2 DEF Review
          <5>4. /\ tasks'[t].status = "debating"
                /\ \A u \in Tasks \ {t} : tasks'[u] = tasks[u]
            BY <1>0, <3>1, <5>3 DEF Tables, TaskRecord
          <5> QED  BY <3>1, <3>5, <5>1, <5>2, <5>4 DEF Reports
        <4> QED  BY <4>1, <4>2
      <3> QED  BY <3>2, <3>3, <3>4, <3>5
    <2>4. CASE OnDeregister(a) \/ OnClose(a)
      <3>1. HandleDisconnect({a}, {}) /\ UNCHANGED debates
        BY <2>4 DEF OnDeregister, OnClose
      <3> QED  BY <1>2, <3>1
    <2>5. ASSUME NEW t \in Tasks, OnSubmit(a, t)  PROVE Goal
      <3>1. PICK b : SubmitTo(t, b)
        BY <2>5 DEF OnSubmit
      <3>2. \A u \in Tasks : Leaves(u)
        BY <1>0, <3>1 DEF SubmitTo, Leaves, Tables, Queued
      <3> QED  BY <2>5, <3>2 DEF OnSubmit
    <2>6. ASSUME NEW d \in D!DebateIds, OnArgument(a, d)  PROVE Goal
      <3> DEFINE t == debates[d].taskId
      <3>1. d \in DOMAIN debates /\ D!MayArgue(d, a) /\ D!SubmitArgument(d, a)
        BY <2>6 DEF OnArgument
      <3>2. t \in Tasks
        <4>1. debates[d] \in D!Session
          BY <3>1 DEF TypeOK
        <4> QED  BY <4>1 DEF D!Session
      <3>3. IF D!Concludes(d, a) /\ tasks[t].status = "debating"
            THEN Finish(t) ELSE UNCHANGED <<agents, tasks>>
        BY <2>6 DEF OnArgument
      <3> HIDE DEF t
      <3>4. Argues(d, a)
        BY <1>0, <3>1, <3>2, <3>3, FinishOne DEF Argues, t
      <3> QED  BY <3>1, <3>4
    <2> QED  BY <1>3, <2>1, <2>2, <2>3, <2>4, <2>5, <2>6 DEF ServerStep, Receive
  <1>4. ASSUME NEW a \in Agents, ClientStep(a)  PROVE Goal
    BY <1>1, <1>4 DEF ClientStep, ClaimTool, ResultTool, HeartbeatTick, Stop, Crash, server
  <1>5. ASSUME AutoAssign  PROVE Goal
    <2>1. PICK f \in [Tasks -> Agents \union {NoAgent}] : IsAssignment(f) /\ AssignAll(f)
      BY <1>5 DEF AutoAssign, AutoAssignQueued
    <2>2. \A t \in Tasks : Leaves(t)
      BY <2>1 DEF AssignAll, Leaves
    <2> QED  BY <1>5, <2>2 DEF AutoAssign
  <1>6. ASSUME HealthCheckTimer  PROVE Goal
    <2>1. PICK S \in SUBSET Agents, T \in SUBSET Tasks, E \in SUBSET DOMAIN debates :
              HealthCheck(S, T, E)
      BY <1>6 DEF HealthCheckTimer
    <2>2. HandleDisconnect(S, T) /\ D!EvaluateAll(E)
      BY <2>1 DEF HealthCheck
    <2> QED  BY <1>2, <2>2
  <1>7. ASSUME UNCHANGED vars  PROVE Goal
    BY <1>1, <1>7 DEF vars
  <1> QED  BY <1>3, <1>4, <1>5, <1>6, <1>7 DEF Next

\* ReviewInv is inductive.
LEMMA ReviewStep ==
    ASSUME ReviewInv, TypeOK', [Next]_vars
    PROVE  ReviewInv'
  <1>0. TypeOK /\ Debates /\ RoundsOpen
        /\ \A t \in Tasks : tasks[t].status = "debating" => Pending(t)
    BY DEF ReviewInv, TypeOK, Debates, ReviewIsPending, Pending
  <1>1. SUFFICES RoundsOpen' /\ \A t \in Tasks : tasks'[t].status = "debating" => Pending(t)'
    BY <1>1 DEF ReviewInv, ReviewIsPending, Pending
  <1>2. ASSUME UNCHANGED debates, \A t \in Tasks : Leaves(t)
        PROVE  RoundsOpen' /\ \A t \in Tasks : tasks'[t].status = "debating" => Pending(t)'
    BY <1>0, <1>2 DEF RoundsOpen, Pending, LatestDebate, D!Active, Leaves
  <1>3. ASSUME NEW t \in Tasks, Reports(t)
        PROVE  RoundsOpen' /\ \A u \in Tasks : tasks'[u].status = "debating" => Pending(u)'
    <2>1. CASE UNCHANGED debates /\ tasks'[t].status = "completed"
      BY <1>0, <1>3, <2>1 DEF Reports, RoundsOpen, Pending, LatestDebate, D!Active
    <2>2. ASSUME NEW P \in SUBSET Agents, P # {}, D!Initiate(t, P)
          PROVE  RoundsOpen' /\ \A u \in Tasks : tasks'[u].status = "debating" => Pending(u)'
      <3>1. /\ RoundsOpen' /\ Pending(t)'
            /\ \A u \in Tasks \ {t} : Pending(u) => Pending(u)'
        BY <1>0, <2>2, InitiateReviews
      <3> QED  BY <1>0, <1>3, <3>1 DEF Reports
    <2> QED  BY <1>3, <2>1, <2>2 DEF Reports
  <1>4. ASSUME NEW d \in DOMAIN debates, NEW a \in Agents, Argues(d, a)
        PROVE  RoundsOpen' /\ \A u \in Tasks : tasks'[u].status = "debating" => Pending(u)'
    <2>1. /\ RoundsOpen'
          /\ \A u \in Tasks : Pending(u) /\ ~ (u = debates[d].taskId /\ D!Concludes(d, a))
                 => Pending(u)'
      BY <1>0, <1>4, ArgumentReviews DEF Argues
    <2>2. ASSUME NEW u \in Tasks, tasks'[u].status = "debating"  PROVE Pending(u)'
      <3>1. tasks[u].status = "debating" /\ ~ (u = debates[d].taskId /\ D!Concludes(d, a))
        BY <1>4, <2>2 DEF Argues
      <3> QED  BY <1>0, <2>1, <3>1
    <2> QED  BY <2>1, <2>2
  <1>5. ASSUME NEW E \in SUBSET DOMAIN debates, D!EvaluateAll(E), \A t \in Tasks : Leaves(t)
        PROVE  RoundsOpen' /\ \A t \in Tasks : tasks'[t].status = "debating" => Pending(t)'
    BY <1>0, <1>5, EvaluateReviews DEF Leaves
  <1> QED  BY <1>0, <1>2, <1>3, <1>4, <1>5, StepKinds

\* ReviewInv holds in every reachable state.
LEMMA ReviewCorrect == Spec => []ReviewInv
  <1>1. Init => RoundsOpen /\ ReviewIsPending
    BY DEF Init, RoundsOpen, ReviewIsPending, Unsubmitted
  <1>2. ReviewInv /\ TypeOK' /\ [Next]_vars => ReviewInv'
    BY ReviewStep
  <1>3. TypeOK /\ RoundsOpen /\ ReviewIsPending => ReviewInv
    BY DEF ReviewInv
  <1> QED  BY <1>1, <1>2, <1>3, TypeCorrect, PTL DEF Spec

\* A task under review has a debate that can still release it, or one that the
\* health check has cut short.
THEOREM ReviewsArePending == Spec => []ReviewIsPending
  <1>1. ReviewInv => ReviewIsPending
    BY DEF ReviewInv
  <1> QED  BY <1>1, ReviewCorrect, PTL

\* No step completes a task that was neither in progress nor argued to the end.
THEOREM CompletionsAreEarned == Spec => CompletionIsEarned
  <1> DEFINE Earned == \A t \in Tasks :
          tasks'[t].status = "completed" /\ tasks[t].status # "completed" =>
             \/ tasks[t].status = "in_progress"
             \/ /\ tasks[t].status = "debating"
                /\ \E d \in DOMAIN debates :
                      /\ debates[d].taskId = t
                      /\ D!Active(d)
                      /\ debates'[d].status = "resolved"
                      /\ debates'[d].argued = debates[d].participants
  <1>1. ReviewInv /\ [Next]_vars => Earned
    <2> SUFFICES ASSUME ReviewInv, [Next]_vars  PROVE Earned
      OBVIOUS
    <2>0. TypeOK /\ Debates /\ RoundsOpen
      BY DEF ReviewInv, TypeOK, Debates
    <2>1. ASSUME \A t \in Tasks : Leaves(t)  PROVE Earned
      BY <2>1 DEF Leaves
    <2>2. ASSUME NEW t \in Tasks, Reports(t)  PROVE Earned
      BY <2>2 DEF Reports
    <2>3. ASSUME NEW d \in DOMAIN debates, NEW a \in Agents, Argues(d, a)  PROVE Earned
      <3>1. D!Active(d) /\ (D!Concludes(d, a) =>
                                /\ debates'[d].status = "resolved"
                                /\ debates'[d].argued = debates[d].participants)
        BY <2>0, <2>3, ArgumentReviews DEF Argues, D!MayArgue
      <3> QED  BY <2>3, <3>1 DEF Argues
    <2> QED  BY <2>0, <2>1, <2>2, <2>3, StepKinds
  <1> QED  BY <1>1, ReviewCorrect, PTL DEF Spec, CompletionIsEarned
=============================================================================
