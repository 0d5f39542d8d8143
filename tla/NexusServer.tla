----------------------------- MODULE NexusServer -----------------------------
(***************************************************************************)
(* The coordinator of packages/nexus-server/src/server.ts with the agent   *)
(* runtimes it serves.                                                     *)
(*                                                                         *)
(* The server is one Node.js process: a message handler, a close callback  *)
(* or a timer callback runs to its end before the next one starts, so each *)
(* is one action.  What interleaves is the order in which the messages of  *)
(* different sockets, the timers and the clients' own steps happen.        *)
(*                                                                         *)
(* A client keeps its own list of tasks (AgentRuntime.activeTasks).  Its   *)
(* claims, results and heartbeats change or copy that list when they are   *)
(* sent, so they travel through the FIFO `wire' of the client's socket.    *)
(* Sending any other message (task.submit, debate.argument) changes        *)
(* nothing, so it is sent and received in one step.                        *)
(*                                                                         *)
(* What the server sends back steers the user behind the client, who here  *)
(* calls the tools in any order and on any submitted task.                 *)
(***************************************************************************)
EXTENDS TaskEngine, Sequences

CONSTANTS
    MaxDebates,     \* bound: results of low confidence ever sent
    MaxRounds,      \* rounds of a review debate
    MaxInFlight     \* bound: messages on one client's wire

ASSUME DebateBounds == MaxDebates \in Nat /\ MaxRounds \in Nat \ {0}
ASSUME WireBound == MaxInFlight \in Nat \ {0}

VARIABLES
    debates,        \* DebateEngine.sessions
    phase,          \* the client behind each agent id: new, up or gone
    mine,           \* AgentRuntime.activeTasks of that client
    wire,           \* messages of the client the server has not handled yet
    lowSent         \* results of low confidence sent, for the bound

D == INSTANCE DebateSessions WITH Participants <- Agents, Topics <- Tasks

\* The tables as the work they stand for.
Q == INSTANCE WorkQueue WITH
        Workers <- Agents, Items <- Tasks, Nobody <- NoAgent,
        MoreUrgent <- {p \in Tasks \X Tasks : Priority[p[1]] < Priority[p[2]]},
        present <- {a \in Agents : Online(a)},
        status <- [t \in Tasks |-> tasks[t].status],
        holder <- [t \in Tasks |-> Owner(t)]

vars == <<agents, tasks, debates, phase, mine, wire, lowSent>>
server == <<agents, tasks, debates>>
client == <<phase, mine, lowSent>>

HeartbeatMessage ==
    [type : {"agent.heartbeat"}, status : {"idle", "working"},
     activeTasks : SUBSET Tasks]
ClaimMessage == [type : {"task.claimed"}, taskId : Tasks]
ResultMessage == [type : {"task.result"}, taskId : Tasks, confident : BOOLEAN]
DeregisterMessage == [type : {"agent.deregister"}]

Message ==
    HeartbeatMessage \union ClaimMessage \union ResultMessage \union DeregisterMessage

Claimed(t) == [type |-> "task.claimed", taskId |-> t]
Result(t, sure) == [type |-> "task.result", taskId |-> t, confident |-> sure]
Deregister == [type |-> "agent.deregister"]

\* The heartbeat of a client whose status does not follow its list.
Heartbeat_StaleStatus(a) ==
    [type |-> "agent.heartbeat", status |-> "idle", activeTasks |-> mine[a]]

\* currentStatus is "working" exactly while the client's list is not empty.
Heartbeat(a) ==
    [type |-> "agent.heartbeat",
     status |-> IF mine[a] = {} THEN "idle" ELSE "working",
     activeTasks |-> mine[a]]

Init ==
    /\ agents = [a \in Agents |-> Absent]
    /\ tasks = [t \in Tasks |-> Unsubmitted]
    /\ debates = <<>>
    /\ phase = [a \in Agents |-> "new"]
    /\ mine = [a \in Agents |-> {}]
    /\ wire = [a \in Agents |-> <<>>]
    /\ lowSent = 0

-----------------------------------------------------------------------------
(* The client: AgentRuntime and the MCP tools that call it.                 *)

MaySend(a) == phase[a] = "up" /\ Len(wire[a]) < MaxInFlight

Send(a, m) == wire' = [wire EXCEPT ![a] = Append(@, m)]

\* A claim tool that sends the claim and does not enter the task in its list.
ClaimTool_Unlisted(a, t) ==
    /\ MaySend(a)
    /\ Exists(t)
    /\ Send(a, Claimed(t))
    /\ UNCHANGED <<server, phase, mine, lowSent>>

\* nexus_claim_task: the task is listed before the claim is sent, whatever
\* becomes of the claim.
ClaimTool(a, t) ==
    /\ MaySend(a)
    /\ Exists(t)
    /\ mine' = [mine EXCEPT ![a] = @ \union {t}]
    /\ Send(a, Claimed(t))
    /\ UNCHANGED <<server, phase, lowSent>>

\* nexus_submit_result: the task leaves the list before the result is sent.
ResultTool(a, t, sure) ==
    /\ MaySend(a)
    /\ Exists(t)
    /\ sure \/ lowSent < MaxDebates
    /\ mine' = [mine EXCEPT ![a] = @ \ {t}]
    /\ lowSent' = IF sure THEN lowSent ELSE lowSent + 1
    /\ Send(a, Result(t, sure))
    /\ UNCHANGED <<server, phase>>

\* The heartbeat timer.
HeartbeatTick(a) ==
    /\ MaySend(a)
    /\ Send(a, Heartbeat(a))
    /\ UNCHANGED <<server, client>>

\* AgentRuntime.stop
Stop(a) ==
    /\ MaySend(a)
    /\ Send(a, Deregister)
    /\ phase' = [phase EXCEPT ![a] = "gone"]
    /\ mine' = [mine EXCEPT ![a] = {}]
    /\ UNCHANGED <<server, lowSent>>

\* The client dies or its connection breaks: what was on the wire arrives up
\* to some point.  The runtime reconnects with its old agent id, which the
\* server refuses on a new socket, so for this id the client is gone, and
\* its list with it.
Crash(a) ==
    /\ phase[a] = "up"
    /\ phase' = [phase EXCEPT ![a] = "gone"]
    /\ mine' = [mine EXCEPT ![a] = {}]
    /\ \E n \in 0 .. Len(wire[a]) :
          wire' = [wire EXCEPT ![a] = SubSeq(@, 1, n)]
    /\ UNCHANGED <<server, lowSent>>

-----------------------------------------------------------------------------
(* Server: registration and messages.                                       *)

\* agent.register, and the runtime's handling of the answer.
OnRegister(a) ==
    /\ phase[a] = "new"
    /\ agents' = [agents EXCEPT ![a] = Registered]
    /\ phase' = [phase EXCEPT ![a] = "up"]
    /\ UNCHANGED <<tasks, debates, mine, wire, lowSent>>

\* The next message of a's socket, which is bound to agent a as long as there
\* is anything on its wire.
Receives(a, type) ==
    /\ wire[a] # <<>>
    /\ Head(wire[a]).type = type
    /\ wire' = [wire EXCEPT ![a] = Tail(@)]

OnHeartbeat(a) ==
    /\ Receives(a, "agent.heartbeat")
    /\ agents' = [agents EXCEPT ![a] = HeartbeatOn(@, Head(wire[a]))]
    /\ UNCHANGED <<tasks, debates, client>>

OnClaim(a) ==
    /\ Receives(a, "task.claimed")
    /\ Claim(Head(wire[a]).taskId, a)
    /\ UNCHANGED <<debates, client>>

Reviewers(a) ==
    {r \in Agents \ {a} : Online(r) /\ agents[r].status = "ready"}

\* submitResult answers "review": a debate with one ready agent, or, when
\* there is none, the task is approved at once.
Review(t, a) ==
    IF Reviewers(a) = {}
    THEN Finish(t) /\ UNCHANGED debates
    ELSE /\ \E r \in Reviewers(a) : D!Initiate(t, {a, r})
         /\ tasks' = [tasks EXCEPT ![t].status = "debating"]
         /\ UNCHANGED agents

\* A result handler that does not look at the task's status.
OnResult_Unguarded(a) ==
    LET m == Head(wire[a])
    IN  /\ Receives(a, "task.result")
        /\ IF m.taskId \in AutoReview /\ ~ m.confident
           THEN Review(m.taskId, a)
           ELSE Finish(m.taskId) /\ UNCHANGED debates
        /\ UNCHANGED client

\* task.result: nobody compares the sender with the task's agent.
OnResult(a) ==
    LET m == Head(wire[a])
    IN  /\ Receives(a, "task.result")
        /\ IF tasks[m.taskId].status # "in_progress"
           THEN UNCHANGED server
           ELSE IF m.taskId \in AutoReview /\ ~ m.confident
           THEN Review(m.taskId, a)
           ELSE Finish(m.taskId) /\ UNCHANGED debates
        /\ UNCHANGED client

\* The tasks of the server's lists for the agents of S.
Listed(S) == {t \in Tasks : Exists(t) /\ \E a \in S : t \in agents[a].activeTasks}

\* A disconnect that drops the agents and reassigns only the tasks of T.
HandleDisconnect_KeepsTasks(S, T) ==
    /\ Requeue(T, S)
    /\ phase' = [a \in Agents |-> IF a \in S THEN "gone" ELSE phase[a]]
    /\ mine' = [a \in Agents |-> IF a \in S THEN {} ELSE mine[a]]
    /\ wire' = [a \in Agents |-> IF a \in S THEN <<>> ELSE wire[a]]

\* handleDisconnect for every agent of S: the tasks of the server's list for
\* it are reassigned, whoever they belong to and whatever their status; the
\* tasks of T are reassigned next.  The server closes the socket, and of what
\* the client still sends on it nothing is accepted (REGISTRATION_REQUIRED),
\* so its later steps are left out.
HandleDisconnect(S, T) ==
    /\ Requeue(Listed(S) \union T, S)
    /\ phase' = [a \in Agents |-> IF a \in S THEN "gone" ELSE phase[a]]
    /\ mine' = [a \in Agents |-> IF a \in S THEN {} ELSE mine[a]]
    /\ wire' = [a \in Agents |-> IF a \in S THEN <<>> ELSE wire[a]]

OnDeregister(a) ==
    /\ wire[a] # <<>>
    /\ Head(wire[a]).type = "agent.deregister"
    /\ HandleDisconnect({a}, {})
    /\ UNCHANGED <<debates, lowSent>>

\* The close callback, after everything that arrived on the socket.
OnClose(a) ==
    /\ Online(a)
    /\ phase[a] = "gone"
    /\ wire[a] = <<>>
    /\ HandleDisconnect({a}, {})
    /\ UNCHANGED <<debates, lowSent>>

\* task.submit of the next task id, with the attempt to assign it.
OnSubmit(a, t) ==
    /\ Online(a)
    /\ phase[a] = "up"
    /\ ~ Exists(t)
    /\ \A u \in Tasks : u < t => Exists(u)
    /\ ~ IsDuplicate(t)
    /\ IF Candidates = {}
       THEN SubmitTo(t, NoAgent)
       ELSE \E b \in BestFor(t, Candidates) : SubmitTo(t, b)
    /\ UNCHANGED <<debates, client, wire>>

\* An argument handler that leaves the task alone.
OnArgument_NoApproval(a, d) ==
    /\ Online(a)
    /\ phase[a] = "up"
    /\ d \in DOMAIN debates
    /\ D!MayArgue(d, a)
    /\ D!SubmitArgument(d, a)
    /\ UNCHANGED <<agents, tasks, client, wire>>

\* debate.argument: when it ends the debate, the task is approved if it is
\* being debated, in this debate or in another one.
OnArgument(a, d) ==
    /\ Online(a)
    /\ phase[a] = "up"
    /\ d \in DOMAIN debates
    /\ D!MayArgue(d, a)
    /\ D!SubmitArgument(d, a)
    /\ LET t == debates[d].taskId
       IN  IF D!Concludes(d, a) /\ tasks[t].status = "debating"
           THEN Finish(t)
           ELSE UNCHANGED <<agents, tasks>>
    /\ UNCHANGED <<client, wire>>

-----------------------------------------------------------------------------
(* Server: timers.                                                          *)

AutoAssign ==
    /\ AutoAssignQueued
    /\ UNCHANGED <<debates, client, wire>>

\* runHealthCheck, when S is the set of agents without a heartbeat for 30 s,
\* T the tasks without an update for 5 min, and E the debates past their
\* round's time.  The agents go first: their tasks are updated by that.
HealthCheck(S, T, E) ==
    /\ \A a \in S : Online(a)
    /\ \A t \in T : MayBeStale(t) /\ t \notin Listed(S)
    /\ \A d \in E : D!Active(d)
    /\ HandleDisconnect(S, T)
    /\ D!EvaluateAll(E)
    /\ UNCHANGED lowSent

HealthCheckTimer ==
    \E S \in SUBSET Agents, T \in SUBSET Tasks, E \in SUBSET DOMAIN debates :
        HealthCheck(S, T, E)

-----------------------------------------------------------------------------
Receive(a) ==
    \/ OnHeartbeat(a)
    \/ OnClaim(a)
    \/ OnResult(a)
    \/ OnDeregister(a)

ClientStep(a) ==
    \/ \E t \in Tasks : ClaimTool(a, t)
    \/ \E t \in Tasks, sure \in BOOLEAN : ResultTool(a, t, sure)
    \/ HeartbeatTick(a)
    \/ Stop(a)
    \/ Crash(a)

ServerStep(a) ==
    \/ OnRegister(a)
    \/ Receive(a)
    \/ OnClose(a)
    \/ \E t \in Tasks : OnSubmit(a, t)
    \/ \E d \in D!DebateIds : OnArgument(a, d)

Next ==
    \/ \E a \in Agents : ClientStep(a) \/ ServerStep(a)
    \/ AutoAssign
    \/ HealthCheckTimer

Spec == Init /\ [][Next]_vars

\* The server notices that the client is gone: by its socket's close event,
\* or, when none arrives, by six missed heartbeats.
NoticeGone(a) ==
    /\ phase[a] = "gone"
    /\ \/ OnClose(a)
       \/ \E S \in SUBSET Agents, T \in SUBSET Tasks, E \in SUBSET DOMAIN debates :
             a \in S /\ HealthCheck(S, T, E)

\* Five minutes pass without an update of t.
NoticeStale(t) ==
    \E S \in SUBSET Agents, T \in SUBSET Tasks, E \in SUBSET DOMAIN debates :
        t \in T /\ HealthCheck(S, T, E)

(* The timers fire and sockets deliver; a client need do nothing at all.    *)
Fairness ==
    /\ \A a \in Agents : WF_vars(Receive(a)) /\ WF_vars(NoticeGone(a))
    /\ \A t \in Tasks : WF_vars(NoticeStale(t))
    /\ WF_vars(AutoAssign)

FairSpec == Spec /\ Fairness

-----------------------------------------------------------------------------
(* Type invariant.                                                          *)

TypeOK ==
    /\ agents \in [Agents -> AgentRecord]
    /\ tasks \in [Tasks -> TaskRecord]
    /\ debates \in Seq(D!Session)
    /\ phase \in [Agents -> {"new", "up", "gone"}]
    /\ mine \in [Agents -> SUBSET Tasks]
    /\ wire \in [Agents -> Seq(Message)]
    /\ lowSent \in 0 .. MaxDebates

-----------------------------------------------------------------------------
(* Safety.                                                                  *)

\* A task in progress belongs to a registered agent whose list on the server
\* has the task.  handleDisconnect reassigns that list and nothing else, so
\* this is what keeps claimed work from being lost with its agent, although
\* every heartbeat overwrites the list with what the client believes.
InProgressIsHeld ==
    \A t \in Tasks : tasks[t].status = "in_progress" =>
        /\ Owner(t) \in Agents
        /\ Online(Owner(t))
        /\ t \in agents[Owner(t)].activeTasks

\* An agent is offered work and reviews exactly when its list is empty,
\* whether the list was last set by its heartbeat or by the server.
ReadyMeansIdle ==
    \A a \in Agents : agents[a].status = "ready" <=> agents[a].activeTasks = {}

\* A task has an agent exactly when it has left the queue: claim() and
\* assign() look at the status only, and would overwrite a name left behind.
QueuedHasNoOwner ==
    \A t \in Tasks :
        Owner(t) = NoAgent <=> tasks[t].status \in {"none", "queued"}

LatestDebate(t) ==
    {d \in DOMAIN debates :
        /\ debates[d].taskId = t
        /\ \A e \in DOMAIN debates : debates[e].taskId = t => e <= d}

\* A task under review has been given a debate, and the latest one is not one
\* that its participants argued to the end: its verdict would have released
\* the task.
ReviewIsPending ==
    \A t \in Tasks : tasks[t].status = "debating" =>
        \E d \in LatestDebate(t) :
            D!Active(d) \/ debates[d].argued # debates[d].participants

-----------------------------------------------------------------------------
(* What makes InProgressIsHeld inductive: the client's list and the messages *)
(* on its wire never let go of a task that the server may still take to be   *)
(* in progress with this client.                                             *)

\* Whatever may still be received belongs to a registered agent, and an agent
\* without a record has none of its fields either.
SocketIsBound ==
    \A a \in Agents :
        /\ phase[a] = "up" \/ wire[a] # <<>> => Online(a)
        /\ Online(a) => phase[a] # "new"
        /\ ~ Online(a) => agents[a] = Absent

\* A heartbeat on the wire says "idle" exactly when it lists nothing.
HeartbeatsAgree ==
    \A a \in Agents : \A k \in 1 .. Len(wire[a]) :
        wire[a][k].type = "agent.heartbeat" =>
            (wire[a][k].status = "idle" <=> wire[a][k].activeTasks = {})

ReportsOn(m, t) == m.type = "task.result" /\ m.taskId = t

Omits(m, t) == m.type = "agent.heartbeat" /\ t \notin m.activeTasks

\* After its k-th message, the client omits t from a heartbeat or from its
\* list only if it has sent a result for t in between.
KeepsSince(a, t, k) ==
    /\ \A j \in k + 1 .. Len(wire[a]) :
          Omits(wire[a][j], t) => \E i \in k + 1 .. j - 1 : ReportsOn(wire[a][i], t)
    /\ phase[a] = "up" /\ t \notin mine[a] =>
          \E i \in k + 1 .. Len(wire[a]) : ReportsOn(wire[a][i], t)

\* So it is since the server accepted its claim of t, and since any claim of t
\* that it may yet accept.
ClaimsAreKept ==
    \A a \in Agents, t \in Tasks :
        /\ tasks[t].status = "in_progress" /\ Owner(t) = a => KeepsSince(a, t, 0)
        /\ \A k \in 1 .. Len(wire[a]) :
              wire[a][k].type = "task.claimed" /\ wire[a][k].taskId = t
                  => KeepsSince(a, t, k)

\* The inductive invariant behind InProgressIsHeld, ReadyMeansIdle and
\* QueuedHasNoOwner: the server's list, the client's list and the messages
\* between them agree about every claim, for any interleaving of claims,
\* heartbeats, results and disconnects.
Consistent ==
    /\ TypeOK
    /\ SocketIsBound
    /\ HeartbeatsAgree
    /\ ClaimsAreKept
    /\ InProgressIsHeld
    /\ ReadyMeansIdle
    /\ QueuedHasNoOwner

-----------------------------------------------------------------------------
(* Action properties.                                                       *)

\* No step hands a task from one agent to another: it goes back to the queue
\* first, whoever claims, reports, times out or leaves in whatever order.
HandoverThroughQueue ==
    [][\A t \in Tasks : Owner(t) # NoAgent => Owner(t)' \in {Owner(t), NoAgent}]_vars

\* A step completes a task only if it was in progress, or if it was debated
\* and the step concludes a debate about it with everyone heard in its last
\* round.
CompletionIsEarned ==
    [][\A t \in Tasks :
          tasks'[t].status = "completed" /\ tasks[t].status # "completed" =>
             \/ tasks[t].status = "in_progress"
             \/ /\ tasks[t].status = "debating"
                /\ \E d \in DOMAIN debates :
                      /\ debates[d].taskId = t
                      /\ D!Active(d)
                      /\ debates'[d].status = "resolved"
                      /\ debates'[d].argued = debates[d].participants]_vars

\* Work that has been reported on, under review or completed, is queued again
\* only by the departure of an agent that had it on its list: reassign() has no
\* guard on the status, and its other callers look at the status first.
ReportedWorkIsKept ==
    [][\A t \in Tasks :
          tasks[t].status \in {"debating", "completed"} /\ tasks'[t].status = "queued"
          => \E a \in Agents : /\ Online(a) /\ ~ Online(a)'
                               /\ t \in agents[a].activeTasks]_vars

\* The coordinator with its clients, wires, lists and timers does what WorkQueue
\* promises.  It must find the work of an agent that leaves, although all it
\* looks at is a list that the agent's heartbeats overwrite; and an agent that
\* it takes for ready must not have claimed anything.
WorkAsPromised == Q!Spec

-----------------------------------------------------------------------------
(* Liveness under FairSpec.                                                 *)

\* The server forgets an agent whose client is gone.
GoneAgentsLeave == \A a \in Agents : phase[a] = "gone" ~> ~ Online(a)

IsHeldBy(t, a) == Owner(t) = a /\ tasks[t].status \in {"assigned", "in_progress"}

\* A task that an agent holds when it leaves, assigned or claimed, does not
\* stay with it, although a heartbeat may have erased it from the list that
\* a disconnect reassigns.
OrphansAreRequeued ==
    \A t \in Tasks, a \in Agents :
        (~ Online(a) /\ IsHeldBy(t, a)) ~> ~ IsHeldBy(t, a)

\* A task does not wait for ever while an agent is ready to take it.
QueueIsServed ==
    \A t \in Tasks : []<>~(tasks[t].status = "queued" /\ Candidates # {})

-----------------------------------------------------------------------------
(* A statement of the repository that the code does not keep.               *)

\* mcp-server tools/tasks.ts:97 "Result submitted for task ... Awaiting
\* approval.": the result that an agent sends for the task it was assigned is
\* taken.  Nothing turns an assigned task into one in progress, and a result is
\* accepted for the latter only.
AssignedAgentMayReport ==
    [][\A a \in Agents :
          LET t == Head(wire[a]).taskId
          IN  OnResult(a) /\ tasks[t].status = "assigned" /\ Owner(t) = a
                 => tasks'[t].status # "assigned"]_vars
=============================================================================
