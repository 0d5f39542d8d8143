----------------------------- MODULE TaskEngine ------------------------------
(***************************************************************************)
(* The task table of packages/nexus-server/src/task-engine.ts, over the    *)
(* agent registry it updates in the same call.                             *)
(*                                                                         *)
(* Three statuses of the code are not here: "review" and "approved" are    *)
(* left in the handler that entered them (server.ts, task.result), and     *)
(* "abandoned" is set only by fail(), which nothing calls.                 *)
(* acceptAssignment() has no caller either, so no operation takes a task   *)
(* from "assigned" to "in_progress".                                       *)
(*                                                                         *)
(* Time is abstracted to what the code compares: a task is stale or not,   *)
(* and which tasks are stale is an input of the health check.              *)
(***************************************************************************)
EXTENDS AgentRegistry

CONSTANTS
    NoAgent,        \* assignedAgentId: undefined
    Priority,       \* Priority[t]: 0 critical .. 3 low
    AutoReview,     \* the tasks submitted with autoReview
    Similar         \* {t, u} \in Similar: isDuplicate() finds t and u alike

ASSUME NoAgentIsNoAgent == NoAgent \notin Agents
ASSUME PriorityType == Priority \in [Tasks -> 0 .. 3]
ASSUME AutoReviewType == AutoReview \subseteq Tasks

VARIABLE
    tasks           \* the table: taskId -> TaskRecord

TaskStatus ==
    {"none", "queued", "assigned", "in_progress", "debating", "completed"}

TaskRecord == [status : TaskStatus, assignedAgentId : Agents \union {NoAgent}]

\* No record with this id yet.
Unsubmitted == [status |-> "none", assignedAgentId |-> NoAgent]

Queued == [status |-> "queued", assignedAgentId |-> NoAgent]

Exists(t) == tasks[t].status # "none"
Owner(t) == tasks[t].assignedAgentId

\* Both are what isDuplicate() leaves out of the tasks it compares with.
IsOpen(t) == tasks[t].status \notin {"none", "completed"}

IsDuplicate(t) == \E u \in Tasks \ {t} : IsOpen(u) /\ {t, u} \in Similar

\* A queue in the order of submission.
Before_OldestFirst(t, u) == t < u

\* The order of getAvailable(): a stable sort by priority.
Before(t, u) == Priority[t] < Priority[u] \/ (Priority[t] = Priority[u] /\ t < u)

-----------------------------------------------------------------------------
(* Operations.  Each one is the call when its guard holds; the server calls *)
(* it under that guard, and the early return changes nothing.               *)

\* assign: queued -> assigned, for every task that f gives to an agent.
AssignAll(f) ==
    /\ tasks' = [t \in Tasks |->
                    IF f[t] = NoAgent
                    THEN tasks[t]
                    ELSE [status |-> "assigned", assignedAgentId |-> f[t]]]
    /\ agents' = [a \in Agents |->
                    IF \E t \in Tasks : f[t] = a
                    THEN AddOn(agents[a], CHOOSE t \in Tasks : f[t] = a)
                    ELSE agents[a]]

\* submit, then the assignment the server tries at once: to agent a, or to
\* nobody (NoAgent).
SubmitTo(t, a) ==
    /\ tasks' = [tasks EXCEPT ![t] =
                    IF a = NoAgent
                    THEN Queued
                    ELSE [status |-> "assigned", assignedAgentId |-> a]]
    /\ agents' = IF a = NoAgent
                 THEN agents
                 ELSE [agents EXCEPT ![a] = AddOn(@, t)]

\* A claim that does not look at the task's status.
Claim_Unguarded(t, a) ==
    /\ tasks' = [tasks EXCEPT ![t] =
                    [status |-> "in_progress", assignedAgentId |-> a]]
    /\ agents' = [agents EXCEPT ![a] = AddOn(@, t)]

\* claim: queued -> in_progress
Claim(t, a) ==
    IF tasks[t].status = "queued"
    THEN /\ tasks' = [tasks EXCEPT ![t] =
                        [status |-> "in_progress", assignedAgentId |-> a]]
         /\ agents' = [agents EXCEPT ![a] = AddOn(@, t)]
    ELSE UNCHANGED <<tasks, agents>>

\* complete and approve: the task is completed and leaves its agent's list;
\* assignedAgentId stays.
Finish(t) ==
    /\ tasks' = [tasks EXCEPT ![t].status = "completed"]
    /\ agents' = [a \in Agents |->
                    IF a = Owner(t) THEN RemoveOn(agents[a], {t}) ELSE agents[a]]

\* reassign without taking the agent's name off the task.
Requeue_KeepsOwner(T, D) ==
    /\ tasks' = [t \in Tasks |->
                    IF t \in T THEN [tasks[t] EXCEPT !.status = "queued"] ELSE tasks[t]]
    /\ agents' = [a \in Agents |->
                    IF a \in D
                    THEN Absent
                    ELSE RemoveOn(agents[a], {t \in T : Owner(t) = a})]

\* A disconnect that leaves the agents in the registry.
Requeue_KeepsAgents(T, D) ==
    /\ tasks' = [t \in Tasks |-> IF t \in T THEN Queued ELSE tasks[t]]
    /\ agents' = [a \in Agents |-> RemoveOn(agents[a], {t \in T : Owner(t) = a})]

\* deregister every agent of D, then reassign every task of T.  reassign has
\* no guard on the status, and a removed agent's list is gone already.
Requeue(T, D) ==
    /\ tasks' = [t \in Tasks |-> IF t \in T THEN Queued ELSE tasks[t]]
    /\ agents' = [a \in Agents |->
                    IF a \in D
                    THEN Absent
                    ELSE RemoveOn(agents[a], {t \in T : Owner(t) = a})]

\* autoAssignQueued: the queue in order, each task to the best agent that is
\* still ready; an agent that got a task is no longer ready.
QueuedTasks == {t \in Tasks : tasks[t].status = "queued"}

\* Assignments to agents with a matching skill only.
IsAssignment_SkilledOnly(f) ==
    \A t \in Tasks :
        LET free == {a \in Candidates : SkillMatch[t][a] > 0}
                      \ {f[u] : u \in {v \in QueuedTasks : Before(v, t)}}
        IN  f[t] \in IF t \in QueuedTasks /\ free # {}
                     THEN BestFor(t, free)
                     ELSE {NoAgent}

IsAssignment(f) ==
    \A t \in Tasks :
        LET free == Candidates \ {f[u] : u \in {v \in QueuedTasks : Before(v, t)}}
        IN  f[t] \in IF t \in QueuedTasks /\ free # {}
                     THEN BestFor(t, free)
                     ELSE {NoAgent}

AutoAssignQueued ==
    \E f \in [Tasks -> Agents \union {NoAgent}] : IsAssignment(f) /\ AssignAll(f)

\* A stale check that looks at claimed tasks only.
MayBeStale_ClaimedOnly(t) == tasks[t].status = "in_progress"

\* A stale check that looks at tasks under review, too.
MayBeStale_Reviewed(t) == tasks[t].status \in {"in_progress", "assigned", "debating"}

\* What detectStaleTasks() looks at; whether five minutes have passed since
\* the last update is an input.
MayBeStale(t) == tasks[t].status \in {"in_progress", "assigned"}
=============================================================================
