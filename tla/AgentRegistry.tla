---------------------------- MODULE AgentRegistry ----------------------------
(***************************************************************************)
(* The in-memory agent table of packages/nexus-server/src/agent-registry.ts *)
(*                                                                         *)
(* An agent id is created by register() and never used again after         *)
(* deregister(), so Agents is the set of registrations that can ever       *)
(* happen: a client that comes back is another element of Agents.          *)
(*                                                                         *)
(* A record's activeTasks list is read as a set: removal filters out every *)
(* copy of a task, and nothing but membership and emptiness is read from   *)
(* it.  The status "failed" is set and the record deleted in one timer     *)
(* callback (server.ts runHealthCheck), and "debating" is never reported   *)
(* by a client (AgentRuntime.setStatus has no caller), so two statuses are *)
(* left.                                                                   *)
(***************************************************************************)
EXTENDS Naturals, FiniteSets

CONSTANTS
    Agents,               \* agent ids, one per registration
    Tasks,                \* task ids, numbered in the order of submission
    MaxConcurrentTasks,   \* AgentRegistration.maxConcurrentTasks
    SkillMatch            \* SkillMatch[t][a]: percent of t's skills that a has

ASSUME TasksAreNumbered == Tasks \subseteq Nat
ASSUME CapacityIsPositive == MaxConcurrentTasks \in Nat \ {0}
ASSUME SkillMatchIsPercent == SkillMatch \in [Tasks -> [Agents -> 0 .. 100]]

VARIABLE
    agents                \* the table: agentId -> AgentRecord

AgentRecord ==
    [online : BOOLEAN, status : {"ready", "working"}, activeTasks : SUBSET Tasks]

\* No entry for this id: before register() and after deregister().
Absent == [online |-> FALSE, status |-> "ready", activeTasks |-> {}]

Online(a) == agents[a].online

Registered == [online |-> TRUE, status |-> "ready", activeTasks |-> {}]

-----------------------------------------------------------------------------
(* What each operation makes of one record.  The callers below return early *)
(* when the agent is unknown, which leaves Absent as it is.                 *)

HeartbeatOn(rec, hb) ==
    [rec EXCEPT !.status = IF hb.status = "idle" THEN "ready" ELSE hb.status,
                !.activeTasks = hb.activeTasks]

\* An addActiveTask that leaves the agent ready.
AddOn_KeepsStatus(rec, t) ==
    IF rec.online THEN [rec EXCEPT !.activeTasks = @ \union {t}] ELSE rec

\* addActiveTask
AddOn(rec, t) ==
    IF rec.online
    THEN [rec EXCEPT !.activeTasks = @ \union {t}, !.status = "working"]
    ELSE rec

\* removeActiveTask, once for every task of T.
RemoveOn(rec, T) ==
    LET left == rec.activeTasks \ T
    IN  IF rec.online /\ T # {}
        THEN [rec EXCEPT !.activeTasks = left,
                         !.status = IF left = {} THEN "ready" ELSE "working"]
        ELSE rec

-----------------------------------------------------------------------------
(* findBestForSkills.  The score of a ready agent, in thousandths, is       *)
(*   400 * skillMatch + 300 * loadFactor + 200 * successRate                *)
(*       + 100 * latencyFactor                                              *)
(* where successRate is always 1 and a ready agent has no active task       *)
(* (ReadyMeansIdle in NexusServer), so loadFactor is 1 too.  latencyFactor  *)
(* lies in (0, 1] and depends on when heartbeats happened to arrive: a wins *)
(* for some latencies exactly when its score without latency, plus 100,     *)
(* exceeds everyone else's.                                                 *)

LatencyWeight == 100

Score(t, a) == 4 * SkillMatch[t][a]

Candidates ==
    {a \in Agents : /\ Online(a)
                    /\ agents[a].status = "ready"
                    /\ Cardinality(agents[a].activeTasks) < MaxConcurrentTasks}

\* The agents of C that findBestForSkills may return for task t.
BestFor(t, C) ==
    {a \in C : \A b \in C : Score(t, a) + LatencyWeight > Score(t, b)}
=============================================================================
