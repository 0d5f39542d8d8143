# claude-nexus: a verification of its coordination core

claude-nexus lets several Claude Code sessions work as one team.  A central
*nexus server* (`src/packages/nexus-server`) keeps a table of agents, a queue
of tasks, review debates and a shared memory; every session runs an *agent
runtime* (`src/packages/agent-runtime`) inside an *MCP server*
(`src/packages/mcp-server`) and talks to the nexus over one WebSocket.

This directory holds TLA+ modules translated from that code, TLC
configurations that check them on small instances, and proofs, checked by
TLAPS, of what holds for every instance.  In a sentence each:

* the server's task table, its agent table, every client's own list of tasks
  and the messages between them agree about who works on what, and claimed work
  is never lost with its agent;
* what the server does to its tables is what a small abstract queue of work
  promises;
* a debate's rounds are complete, its verdict covers every argument, and the order
  of arguments for different positions decides ties only;
* a row of the shared memory gives way only to a higher version;
* a message that the server marks read is shown, and once, by a client that
  makes one call after the other and that no peer misleads;
* the server's three tables of connections agree, no socket is left behind, and
  starting, reconnecting and leaving come to an end;

with the exceptions that the properties name and section 5 lists.

## 1. Inventory of the system

Everything runs in single-threaded Node.js processes: one server, one process
per client.  A message handler, a socket's close callback and a timer callback
each run to their end (no handler of `server.ts`, `task-engine.ts`,
`debate-engine.ts`, `agent-registry.ts` or `memory-store.ts` awaits anything),
so what interleaves is the order of these callbacks, not their statements.  Only
the MCP tools await, between their query and its answer.

| component | state | operations | what is hard | module |
|---|---|---|---|---|
| Agent registry, `nexus-server/src/agent-registry.ts` | `agents`: id -> record (status, activeTasks, last heartbeat, latency) | register, deregister, updateHeartbeat, add/removeActiveTask, findBestForSkills, healthCheck | the list is written both by the server and by heartbeats that were composed earlier | `AgentRegistry` |
| Task engine, `nexus-server/src/task-engine.ts` | `tasks`: id -> record (status, assignedAgentId, times) | submit, assign, claim, submitResult, approve, complete, reassign, autoAssignQueued, detectStaleTasks, isDuplicate | several agents, a timer and two timeouts compete for a task; a result may come late, early or twice | `TaskEngine`, `WorkQueue` |
| Debate engine, `nexus-server/src/debate-engine.ts` | `sessions`: participants, round, arguments, status, verdict | initiate, submitArgument (with maybeAdvanceRound and evaluate), checkTimeout | a verdict comes from the last argument or from the timer; the debate may outlive the result it judges; ties, zero weights and sums of doubles | `DebateSessions`, `DebateEngine` |
| Coordinator, `nexus-server/src/server.ts` | the tables of the others, `socketAgents` | one handler per message type, handleConnection, handleDisconnect, start, stop, auto-assign timer (5 s), health check (10 s) | the order of messages of different sockets and timers; disconnects in the middle of a claim | `NexusServer`, `Session`, `Mailbox`, `MemoryStore` |
| Memory store, `nexus-server/src/memory-store.ts` | SQLite: keys with versions and expiry, messages with read marks, saved tasks and debates | write, read, delete, list, getSnapshot, applySnapshot, saveMessage, getUnreadMessages, markMessageRead | versions restart after a deletion; snapshots come late or twice; a message is marked before it is shown | `MemoryStore`, `Mailbox` |
| Message router, `nexus-server/src/message-router.ts` | `handlers`, `agentSockets` | route, sendTo, broadcast | a message to a socket that is not open is lost | `Mailbox`, `Session`, `NexusServer` |
| Client connection, `agent-runtime/src/connection.ts` | `state`, `reconnectAttempts`, a timer, the socket | connect, send, disconnect, attemptReconnect | timer, close and error callback race; a reconnected client does not register | `Session` |
| Agent runtime, `agent-runtime/src/runtime.ts`, `heartbeat.ts` | `activeTasks`, `currentStatus`, `agentId`, `state` | start, stop, register, add/removeActiveTask, the heartbeat timer (5 s) | its list changes before the server has decided; the registration times out while its answer is under way | `NexusServer`, `Session` |
| MCP task tools, `mcp-server/src/tools/tasks.ts` | none of their own | claim, submit, result, queue | a tool answers its user before the server has seen the message | `NexusServer` |
| MCP inbox and queries, `mcp-server/src/inbox.ts`, `tools/inbox.ts`, `tools/status.ts` | the last 100 messages with read flags; listeners and timeouts of open calls | getUnread, markAllRead, queryPersistedInbox, queryNexus | read before an await, marked after it; one answer channel for all calls, which peers can write to | `Mailbox` |
| Command line, `apps/cli/src/commands` | a process | start, join, mcp, setup | what a rejected or hanging `start()` does to the process | `Session` (join, mcp) |
| Invites, tunnel manager, execution proxy, protocol schemas, core helpers | see section 6 | | | - |

How they interact.  A client's user calls an MCP tool; the tool changes the
runtime's list and sends a message.  The server handles the message by calling
the task engine, which updates the task table and, in the same call, the agent
table.  A result of low confidence (`< 0.8`) on a task submitted with
`autoReview` opens a debate between the sender and one ready agent; the last
argument of the last round resolves it and the task is approved.  Every 5 s the
server gives queued tasks to ready agents.  Every 10 s it drops agents without
a heartbeat for 30 s, requeues tasks without an update for 5 min and resolves
debates whose round has timed out.  A closed socket, `agent.deregister` and a
missed heartbeat all end in `handleDisconnect`, which requeues the tasks of the
*server's list* for that agent - a list that each heartbeat overwrites with the
*client's list*.  This loop is the heart of the system.

A peer message is stored in the database and sent live; the recipient's inbox
tool merges what it has received with what the database returns for its query,
and the server has marked that read.  A memory write is stored with the next
version of its key and broadcast; a registering agent receives a snapshot.

What makes each component correct:

* registry: an agent is offered work exactly when it has none; an agent whose
  client is gone is forgotten;
* task engine: a task has an agent exactly when it has left the queue; it moves
  from one agent to another only through the queue; it is completed only from
  work in progress or by a review that was argued to its end; it does not wait
  for ever while somebody is ready;
* coordinator and runtime together: a claimed task is on the list that a
  disconnect of its agent requeues, whatever heartbeats are under way; nothing
  stays with an agent that has left;
* debates: everyone is heard in each round, which side is argued first decides
  ties only, and a debate with an argument ends;
* memory: the higher version of a key wins, and stores that exchange snapshots
  agree;
* messages: what is marked read has been shown, each message once, and the inbox
  tool gets the answer to its own query;
* connection: one socket at a time, the tables of the server agree, start and
  reconnection come to an end.

## 2. The modules

```
AgentRegistry        records and candidates            agent-registry.ts
  ^ EXTENDS
TaskEngine           the task table's operations       task-engine.ts
  ^ EXTENDS                 WorkQueue                  task-engine.ts, abstract
  |     Q == INSTANCE ------^
  |                         DebateSessions             debate-engine.ts, abstract
NexusServer   D == INSTANCE ----^   ^                  server.ts, runtime.ts,
  ^ EXTENDS                         |                  heartbeat.ts, tools/tasks.ts
  |- MCNexusServer                  | Sessions == INSTANCE, refinement
  |- NexusServerProofs              |
       ^ EXTENDS            DebateEngine               debate-engine.ts
     ReviewProofs,             ^ EXTENDS
     QueueProofs               |- MCDebate
                               |- DebateEngineProofs
                                    ^ EXTENDS
                                  VerdictProofs

MemoryStore <- MemoryStoreProofs                       memory-store.ts, memory handlers
Mailbox <- MCMailbox, MailboxProofs                    messages table, router, inbox.ts,
                                                       tools/inbox.ts, tools/status.ts
Session <- MCSession, SessionProofs                    connection.ts, runtime.ts, join.ts,
                                                       mcp.ts, the sockets of server.ts
```

The composition is by state.  `NexusServer` composes registry, task engine,
debates and clients, because their operations update each other's tables in one
call.  The debates enter it as `DebateSessions`: its handlers are built from the
operators of that module, and `ImplementsSessions` says that the engine, with
arguments and verdicts, does what they do.  `WorkQueue` is the other side: what the server
promises to those who give it work, with nothing of how it keeps track;
`WorkAsPromised` says that `NexusServer` implements it.  Memory, messages and connections share no
table with tasks except through two facts that `NexusServer` takes and `Session`
checks: a client that has lost its socket never acts under its id again, and
the server notices.

### NexusServer: who works on what

| variable | code |
|---|---|
| `agents` | `AgentRegistry.agents`; an id without an entry is `Absent` |
| `tasks` | `TaskEngine.tasks`; an id without an entry is `Unsubmitted` |
| `debates` | `DebateEngine.sessions`, in the order of `initiate` |
| `phase` | the client behind an id: `new`, `up` (registered, connected) or `gone` |
| `mine` | `AgentRuntime.activeTasks` of that client |
| `wire` | the messages that the client has sent and the server has not handled |
| `lowSent` | how many results of low confidence were sent; only a bound |

| action | code |
|---|---|
| `ClaimTool`, `ResultTool` | `tools/tasks.ts`, `nexus_claim_task` and `nexus_submit_result`: the list changes first, then the message is sent |
| `HeartbeatTick` | `heartbeat.ts`, `send`: a copy of the list and the status |
| `Stop`, `Crash` | `runtime.ts`, `stop`; the process dies or its socket breaks |
| `OnRegister`, `OnHeartbeat`, `OnClaim`, `OnResult`, `OnDeregister`, `OnSubmit`, `OnArgument` | the handlers of `server.ts`, each with every call it makes |
| `OnClose` | the close callback, through `handleDisconnect` |
| `AutoAssign`, `HealthCheckTimer` | the two `setInterval` callbacks |

`wire` is a FIFO per client, as a WebSocket is; messages of different clients
interleave freely.  `Crash` cuts the wire at any point: what was sent arrives
up to there and then the close event comes.

* **Ids are used once.** `register` always makes a new id, so a client that
  registers again is another element of `Agents`.
* **Time is an input.** Which agents have missed six heartbeats, which tasks
  are five minutes old and which debates are past their round's time is chosen
  freely at each health check.  The code cannot make a live client miss six
  heartbeats, a machine that sleeps can.
* **The task list is a set.** The code appends without looking for a copy and
  removes every copy; only membership and emptiness are read.
* **Statuses nothing can observe are absent.** Within one handler a task passes
  through `review` and `approved`; `failed` is set on an agent that is removed
  in the same callback.  `abandoned` (`fail`) and the client status `debating`
  (`setStatus`) are set by functions without a caller.
  `acceptAssignment`, too, has no caller.
* **The score is exact up to latency.** `findBestForSkills` adds 0.4 times the
  skill match, 0.3 times the free capacity, 0.2 times the success rate and 0.1
  times a factor of the latency, in (0, 1].  Only ready agents are compared, and
  these have no task (`ReadyMeansIdle`), so capacity is 1; the success rate is 1
  for ever.  The latency depends on when heartbeats arrived: every agent within
  100 thousandths of the best may be chosen.
* **The reviewer is any ready agent**, where the code takes the first one in
  the order of registration: more behaviours, not fewer.
* **What the server sends is left out.** It changes nothing in a client's list
  but tells the user, and the user may call any tool on any submitted task at
  any moment; also on a task that was never offered.
* **A message without an effect on its sender is sent and received at once**
  (`task.submit`, `debate.argument`).  Its delay commutes with everything the
  client does.
* **A client that lost its connection is gone.** The runtime reconnects, but
  with its old id and without registering, which the server answers with
  `REGISTRATION_REQUIRED` and a closed socket (`Claim_reconnect` shows it).

### WorkQueue: what the server promises about work

Three variables: who is `present`, the `status` of each item and its `holder`.
`NexusServer` maps its tables to them (`Q`): the registered agents, and the two
fields of each task record.  Messages, the clients' lists, the server's lists,
scores and debates are gone, and with them everything that decides *when* a
step is taken; what is left are the calls of `task-engine.ts` and what each one
must guarantee:

| action | calls in the code | what it promises |
|---|---|---|
| `Join` | `register` | a new worker |
| `Submit`, `SubmitTo` | `submit`, with the assignment tried at once | offered to a worker that has claimed nothing |
| `Offer` | `autoAssignQueued` | one item to each worker, all of them without claimed work, and no more urgent item in the queue is passed over |
| `Claim` | `claim` | from the queue, by a worker that is present |
| `Review`, `Finish` | `submitResult`, `approve`, `complete` | the holder stays |
| `Requeue` | `handleDisconnect` and `reassign`, also for stale tasks | all that a leaving worker has claimed is queued in the same step; without a departure only what is assigned or in progress is |

The code keeps none of these promises by looking at the tasks: a departure
looks at the list that heartbeats overwrite, an assignment at the agent's status.
`Requeue` may also queue what others hold when somebody leaves, because the code
does (section 5).

### DebateEngine: arguments and verdicts

`sessions` is `DebateEngine.sessions`: each with its participants, all
arguments (agent, position, confidence, round), the current round and the
verdict.  `Initiate`, `SubmitArgument` (with `MaybeAdvanceRound` and
`Evaluate`) and `Timeout` are `initiate`, `submitArgument` and the debates' part
of `runHealthCheck`.  Reasoning, evidence and times are left out, as are
rebuttals, which nothing submits.

The weights are sums of doubles, each rounded to the nearest one, and so depend
on the order of what is added.  A double is the number of times it has the
smallest one in it; `Plus` is their addition (`Nearest`, ties to even) and
`RoundedSum` a loop of `+=`: `Weight` over the arguments for a position as they
arrived, `TotalWeight` over the positions as they were first argued.  Which
numbers are doubles is the constant `Doubles`, of which the proofs assume only
that the integers the sums can reach are among them and that twice a double is
one.  `Threshold` is the smallest share that the division rounds to 0.7 or more,
a fraction.  `Majority` is empty when all weights are zero, since 0/0 compares
with nothing.

`Seen` maps the sessions to those of
`DebateSessions`: arguments become the set of who has argued in the round, the
verdict becomes a status.

### MemoryStore: versions, expiry, snapshots

`table[s][k]` is the row of a (key, scope) pair in one database, `NoRow` without
one; `globalVersion[s]` the counter of that process; `sent` every snapshot taken.
`Write`, `Read`, `GetSnapshot`, `ApplySnapshot` and `Restart` are the functions of
the same names and the constructor over an existing file; `Tick` is the clock.
A value is the number of its write, so that equal values mean the same write.
`read` matters to the state only when it deletes an expired row.  The server
itself calls `getSnapshot` without `since` and never `applySnapshot`; the tests
and `docs/architecture.md` describe it, and the module takes both.

### Mailbox: messages and tool calls

| variable | code |
|---|---|
| `messages`, `readBy` | the `messages` table and its `read_by` column |
| `online`, `gone` | agents with a socket in the router, and those that had one |
| `down`, `up` | what the server has sent to a client, and the queries it has sent |
| `inbox` | `MessageInbox.messages` with their read flags |
| `calls` | the open tool calls of a client: the unread entries they took, the answer they got, and, for the properties only, which query it was the answer to |
| `shown`, `again`, `unasked`, `leftover`, `disturbed` | history: what the user has seen, what twice, which answers nobody waited for, what the limit left over, and who had overlapping, unanswered or unmarking calls or an inbox query that took a peer's message for its answer |

`PeerMessage` and `HandleQuery` are the `peer.message` handler, `SendNotice` a
`task.assigned` or `debate.initiated` from any handler, `Receive` all listeners
of one message at a client (the inbox first, then every waiting call),
`StartCall`, `Timeout` and `Finish` the parts of a tool before its await, the
five-second timer and the part after the await.  Content is reduced to what a
listener looks at (`PeerTypes`).  No listener compares an answer with its query or
looks at its sender, and the protocol lets a peer share any JSON: an
`inbox_response` is taken by every open inbox query (`Takes`, tools/inbox.ts:17-20),
JSON with any `type` by every other open query (status.ts:16-18), and what ends in
`_response` stays out of the inbox (`Stored`, inbox.ts:31-34).  The list of messages
in a peer's `inbox_response` is empty or has entries that are in no table (number 0).
The numbers of queries are in no message of the code; they let `OwnAnswer` say
which answer a call has got.  Only the clients in `Readers` have an inbox that is
followed.

### Session: connections

| variable | code |
|---|---|
| `client` | one process: `Connection.state`, `reconnectAttempts`, its timer and socket, `AgentRuntime.state` and `agentId`, and how far `start()` has come |
| `socket` | both ends of each connection and the frames under way in each direction |
| `server` | the server process: up, closing its sockets, or down |
| `socketAgents`, `agentSockets`, `agents` | the three tables that know which socket is whose |

`OnOpen`, `OnRefused`, `OnClose`, `OnTimer`, `OnRegistered` and
`OnRegistrationTimeout` are the callbacks of `connection.ts` and `runtime.ts`;
`Launch`, `Leave` and `Kill` begin and end a `join` or `mcp` process; `OnMessage`,
`OnSocketClose`, `OnHeartbeatTimeout`, `Stop` and `Start` are the server's.
`Break` loses the frames under way and each end learns of it for itself.  The
client's close callback of a socket that `disconnect` has left behind does nothing
and is left out.  Messages that change no connection (acknowledgements, errors,
broadcasts, tasks) are left out: `NexusServer` and `Mailbox` have them.  Delays
are free: a timer may fire at any time, so the backoff does not matter.

## 3. What TLC checks

All runs say `CHECK_DEADLOCK FALSE`: each client may be gone, each task
completed and each bound reached, and then nothing is left to happen.  Symmetry
is used only where the agents are alike (`AllMatch`), or the calls of a client in
`Mailbox`, and for safety.

| run | instance | properties | what it shows |
|---|---|---|---|
| `Server_wire` | 2 agents, 1 task, 1 review of 2 rounds, 3 messages per wire | `TypeOK`, `Consistent`, `InProgressIsHeld`, `QueuedHasNoOwner`, `ReportedWorkIsKept` | the loop client list -> heartbeat -> server list -> disconnect loses no claimed task, with claim, result and heartbeat of one client under way together |
| `Server_three` | 3 agents, 1 task, 2 reviews of 2 rounds, 1 message | `InProgressIsHeld`, `ReviewIsPending`, `HandoverThroughQueue`, `CompletionIsEarned` | an owner, a competitor and a reviewer, each of which may time out or leave |
| `Server_live` | 2 agents (one has the skill), 1 task, `FairSpec` | `GoneAgentsLeave`, `OrphansAreRequeued` | the timers clean up after a client, whatever the other one does |
| `Server_queue` | 2 agents without any skill, a low and an urgent task, 1 message, `FairSpec` | `ReadyMeansIdle`, `QueueIsServed`, `WorkAsPromised` | a task of low priority does not wait for ever while an agent is ready; lists shrink without becoming empty; the tables go through the steps of `WorkQueue` |
| `Debate` | 2 participants, 2 positions, 3 confidences with zero, numbers of 3 bits, 1 review of 2 rounds, 5 arguments, `FairSpec` | `TypeOK`, `RoundsAreComplete`, `RivalsOrderDecidesTiesOnly`, `VerdictsCoverArguments`, `ImplementsSessions`, `ArguedDebatesEnd` | the verdict for every sequence of arguments, with sums that depend on the order; refinement of the debates in the server |
| `Memory` | 2 stores, 2 keys, with and without ttl, 3 writes, 2 snapshots, a restart, a deletion, 3 times | `TypeOK`, `RowsAdvance`, `VersionsAreCovered`, `ExchangeAgrees` | late, repeated and partial snapshots in both directions |
| `Mailbox` | 2 agents, 1 reader, 2 calls, a limit of 1 for query and inbox, 2 messages, 1 notice | `TypeOK`, `MarkedReadIsShown`, `ShownOnce`, `OwnAnswer` | live copy and stored copy, overlapping and timed-out calls, both limits exceeded, peers' messages of each kind |
| `Session` | a `join` and an `mcp` client, 2 attempts, 3 sockets, 1 fault, 1 stop, `FairSpec` | `TypeOK`, `TablesAgree`, `StateMatchesSocket`, `StartSettles`, `GivesUp`, `GoneClientsLeave` | the life of a connection under faults, timeouts, kills and a restart of the server |
| `Claim_*` | as above or smaller | one each | section 5 |

The properties that are not plain from their names:

* `InProgressIsHeld` - a task in progress belongs to a registered agent whose
  list on the server has the task.  It depends on the client: the claim tool
  lists the task *before* it sends the claim, so no later heartbeat can erase
  it; the result tool drops it *before* it sends the result, and the FIFO makes
  the result arrive before any heartbeat without the task.
* `Consistent` - the inductive invariant that makes the above true (see 4).
* `ReviewIsPending` - a task under review has a debate, and the latest was not
  argued to its end: that would have released the task.
* `CompletionIsEarned` - a task is completed from work in progress, or from a
  review by the step that concludes a debate on it with everyone heard.
* `ReportedWorkIsKept` - `reassign` looks at no status; a task under review or
  completed is queued again only by the departure of an agent that lists it.
* `OrphansAreRequeued` - an *assigned* task is not on the client's list, the next
  heartbeat erases it from the server's, and a disconnect does not requeue it;
  only the five-minute check does.
* `RivalsOrderDecidesTiesOnly` - swapping two neighbouring arguments for different
  positions changes the winner only if both winners are heaviest: the sum of a
  position stays what it is, and the total, which is added up in another order,
  decides between majority and tiebreak and not between positions.  The loops
  over the map of positions stop at the first that qualifies.  Of two arguments
  for the *same* position nothing of the kind holds (section 5).
* `VerdictsCoverArguments` - the verdict of an ended debate is about all of its
  arguments: none is taken after the last one or the timer has brought it about,
  no position outweighs the one it names, and each agent's last word is its vote.
* `WorkAsPromised` - every step of the server is one of `WorkQueue`, seen through
  its tables.
* `ExchangeAgrees` - after each store has merged the other's full snapshot they
  hold the same version of every key that neither has expired, and the same
  value unless both had written one of their own under that version.
* `MarkedReadIsShown` - the server marks before it sends, and the answer may
  find nobody waiting.  That takes overlapping or timed-out calls, or a peer's
  `inbox_response` that was taken in its place; without them the message is shown
  also if the inbox has dropped its live copy.
* `ShownOnce` - a message that is shown again is one that the limit of a query
  had left unread; for the same clients.
* `OwnAnswer` - for the same clients, the answer that `nexus_read_inbox` takes is
  the one to its own query.  Nothing in the messages says so: it follows from the
  FIFO and from a server that answers each query once, and it holds although the
  other tools leave answers behind when a peer's share has ended their wait.
* `StateMatchesSocket` - the state of a connection tells what its socket is, and
  every open end of a client belongs to a connection that knows it.
* `GivesUp` - when the server is down for good, every client's attempts end.

**Bounds.** Two agents are enough for a race on one task, three for a race
while a reviewer leaves.  Two tasks of different priority and two agents let the
timer assign one, both or the wrong one.  Three messages hold a claim, a result and a heartbeat
of one client at once, in any order it can produce.  Two debates let one outlive
the result it judges; two rounds is the code's own `maxRounds` for a review, and
five arguments (`MaxArguments`) let both participants argue twice in one of them.
Numbers of three bits round where doubles do, only sooner: in units of a quarter
the confidences 0, 1 and 4 (which is 1.0) give ties, zero totals, shares on both
sides of the threshold, and sums that differ with their order.  Three writes let a key be written,
deleted and written again between two snapshots.  A limit of one for query and
inbox makes two messages exceed both.  Three sockets let one client hold a new
one while the server has not closed its old one and another client is connected;
two attempts are enough to tell a counter that is reset from one that is not.
What the bounds cut off is in the proofs where section 4 has one.  In the runs
`Similar` is empty, so `OnSubmit` never meets a duplicate, which would leave the
state unchanged.

**Fairness.** All of it is weak.

* `NexusServer`: a message on a socket is handled (`Receive`), the close callback
  or the health check notices a client that is gone (`NoticeGone`), the health
  check sees a task that has not been updated for five minutes (`NoticeStale`),
  and the assignment timer fires (`AutoAssign`): sockets deliver and `setInterval`
  fires on a server that runs.  Nothing is assumed of clients: they may never
  claim, report, argue or leave.
* `DebateEngine`: the health check sees each debate again and again.  That
  arguments, each of which postpones the timeout, do not go on for ever is the
  bound `MaxArguments`.
* `Session`: each process handles what has arrived and the timers that are due, a
  connect is answered or refused, and a server that is stopping ends.  Nobody has
  to launch, leave, kill or start anything.
* `MemoryStore` and `Mailbox` have safety properties only and need none.

Each property has a mutant in `PROJECT.json`: a plausible bug of the code (a
claim that does not look at the status, a round that counts arguments instead
of agents, an upsert that lets equal versions in, a handler that marks more than
it returns, a timer that fires again, ...), for which TLC finds the property
violated in the same run.  The mutated forms are defined right before the
operators they replace.

## 4. What is proved

For any values of the constants that meet the named assumptions of the modules
(bounds are natural numbers, limits positive, task ids are numbers, `NoAgent` is
no agent, each client runs one of the two commands, confidences are doubles up to
1, doubles are dense enough, a majority is more than half):

| module | theorem | statement |
|---|---|---|
| `NexusServerProofs` | `TypeCorrect` | `Spec => []TypeOK` |
| | `ReadyAgentsAreIdle` | `Spec => []ReadyMeansIdle` |
| | `TasksInQueueAreFree` | `Spec => []QueuedHasNoOwner` |
| | `NoDirectHandover` | `Spec => HandoverThroughQueue` |
| | `ReportsAreKept` | `Spec => ReportedWorkIsKept` |
| | `ClaimedWorkIsHeld` | `Spec => []InProgressIsHeld` |
| | `ServerIsConsistent` | `Spec => []Consistent` |
| `ReviewProofs` | `ReviewsArePending` | `Spec => []ReviewIsPending` |
| | `CompletionsAreEarned` | `Spec => CompletionIsEarned` |
| `QueueProofs` | `ServerServesQueue` | `Spec => WorkAsPromised` |
| `DebateEngineProofs` | `EngineImplementsSessions` | `Spec => ImplementsSessions` |
| | `RoundsAreAlwaysComplete` | `Spec => []RoundsAreComplete` |
| `VerdictProofs` | `SessionsAreTyped` | `Spec => []TypeOK` |
| | `RivalsOrderDecidesOnlyTies` | `Spec => []RivalsOrderDecidesTiesOnly` |
| | `VerdictsCoverAll` | `Spec => []VerdictsCoverArguments` |
| `MemoryStoreProofs` | `StoreTypes` | `Spec => []TypeOK` |
| | `RowsOnlyAdvance` | `Spec => RowsAdvance` |
| | `ReportedVersionCovers` | `Spec => []VersionsAreCovered` |
| | `ExchangesAgree` | `Spec => []ExchangeAgrees` |
| `MailboxProofs` | `MailTypes` | `Spec => []TypeOK` |
| | `MarkedReadIsNotLost` | `Spec => []MarkedReadIsShown` |
| | `EachIsShownOnce` | `Spec => []ShownOnce` |
| | `AnswersAreOwn` | `Spec => []OwnAnswer` |
| `SessionProofs` | `TablesAlwaysAgree` | `Spec => []TablesAgree` |
| | `SessionTypes` | `Spec => []TypeOK` |
| | `StateIsTrue` | `Spec => []StateMatchesSocket` |

**NexusServer.**  In the order of `NexusServerProofs`:

1. *Types.* One lemma per table operation, then one per handler.  The round
   counter of a debate needs the most care: `submitArgument` stops at the limit.
2. *The registry* (`RegistryInv`).  A record is sound when it is ready exactly
   if its list is empty.  The server's own operations keep that by a case split
   on the list; a heartbeat keeps it only if its status and its list agree, so
   the invariant also speaks about the heartbeats on every wire
   (`HeartbeatsAgree`) and about which wires belong to a registered agent
   (`SocketIsBound`).
3. *Owners* (`OwnerInv`).  Every step changes a task by one of the four ways of
   the relation `Moves` (unchanged, queued, taken from the queue, kept by its
   agent): `QueuedHasNoOwner` and `HandoverThroughQueue` are both read off it.
4. *Claims* (`ClaimsInv`).  `InProgressIsHeld` is not inductive: the next
   heartbeat on the wire may omit the task.  The strengthening, `ClaimsAreKept`,
   says that once a client has claimed a task - whether the server has accepted
   that claim or may yet accept it - neither a heartbeat behind the claim nor the
   client's own list omits the task unless a result for it lies in between.
   `Kept(q, t, k, dropped)` states this of one queue, and four lemmas say how it
   fares when the queue loses its head (`KeptTail`, `KeptTailAtStart`), grows
   (`KeptAppend`) or is cut by a crash (`KeptPrefix`).  What remains is a step
   per action.
5. *The whole* (`Consistent`) is the conjunction of the three.

`ReviewProofs` strengthens `ReviewIsPending` by `RoundsOpen`: in an active debate
somebody is still to be heard.  Then an argument that completes the latest
debate on a task is one that concludes it, and that step releases the task.  The
debates of other tasks come in between; `InitiateReviews`, `ArgumentReviews` and
`EvaluateReviews` say what each kind of step leaves alone.

`QueueProofs` shows that each handler and timer is one action of `WorkQueue`, or
none, as the clients' own steps and heartbeats are.  It needs most of
`Consistent`: `SocketIsBound`, so that a claim comes from somebody present;
`InProgressIsHeld`, so that the list of an agent that leaves has all it has
claimed; that together with `ReadyMeansIdle`, so that a candidate has claimed
nothing (`CandidatesAreIdle`); `QueuedHasNoOwner`, so that a task submitted and not
assigned has no holder.  `AssignmentIsOffer` is about the loop of
`autoAssignQueued`: `Before` is total, so of two tasks one was asked about when
the other's agent was taken, and it is transitive, so where nobody is left for
a task nobody is left for a later one.

**DebateEngine.**  The invariant is `Good` of each session: participants only,
rounds in order, each past round complete.  With it `HasArguments` of
`DebateSessions` (a round past the first, or somebody in this one) is what
`arguments # <<>>` is in the code, and each step maps to one of the abstract
module or to a stutter (an agent that argues again in a round).  The verdict is
opaque in this module: only that `evaluate` returns one matters.

`VerdictProofs` opens the verdict.  A weight is what a loop over the arguments adds
up, rounding each time: a recursive function, and what such a function returns is
usually shown by induction, which is out of reach here.  A least counterexample
(`LeastNumber`, from `WFMin`) serves instead: the function exists (`SumIsDefined`),
each step of it is one addition (`SumIsLoop`), the sums stay among the doubles and
below the number of addends (`SumBounds`), no two addends are more than the whole
(`SumHolds`), and swapping two neighbours of which one is zero changes nothing
(`SumOfSwapped`).  The last fact is what arguments for different positions come to
in the sum of one of them (`SwappedWeights`).  All that is used of rounding is that
it keeps the order of numbers and leaves doubles alone (`NearestMonotone`).

`MajorityIsHeaviest` is where rounding could do harm: a position with 0.7 of a
total that was rounded down might be outweighed.  It is not: two positions weigh
at most as much as the sum of both, the rounded total is at least the double of the
lighter one, which is a double (`DoubleOfDouble`), and more than half of that is
more than the lighter one.  So the winner is always one of the heaviest positions
(`WinnerIsHeaviest`), of which the order of delivery picks one.
`JudgedInv` says that an ended session has the verdict of its arguments;
`submitArgument` returns early on a session that is not active, so no late
argument makes it false.

**MemoryStore.**  `TypeInv` adds that no version exceeds the number of writes,
`CoverInv` that a snapshot's own version covers its entries, without which a
merge could break `VersionsAreCovered`.  `ExchangesAgree` needs no more than the
types: the two merges choose between the same two rows.

**Mailbox.**  `MailInv` is the types and five parts for each reader:

* `Wired` - a live copy is ahead of the answers that hold the same message, and
  while it is on the wire the message is nowhere else in the client; a peer's
  `inbox_response` (`Forged`) holds no message of the table;
* `Kept` - what is in an answer is marked read, and what is marked read is in an
  answer, has been shown, or came unasked;
* `Orderly` - as long as a client is not `disturbed`, an inbox answer of the server
  is due exactly while its only open call waits for one;
* `Own` - then the query, and later the answer, that is due is that call's own;
* `Once` - then what was shown is no more among the unread entries, in a call or
  in an answer, unless a query had left it unread.

A step changes the wires, inbox and calls of one client, or tables they share.
For every other client it is a step aside, which at most adds a live copy and an
unread message, or something that passes for an answer (`Apart`, `Gets`);
`AsideKeeps` deals with all of these at once.
The client's own steps are a leave, an answer sent (`Answers`), an answer or copy
taken (`Took`), a call started, timed out or finished (`Shows`), with a lemma
each; `PartsStep` joins them.  TLC has found `MailInv` true in every state of the
run's instance.

**Session.**  `TablesInv` is inductive by itself with the types of the tables;
the four ways a table changes are a registration, a disconnect, the end of the
process, and nothing.  `MatchInv` joins what a client believes and what its
socket is; steps are grouped by what they do to the client's socket (it opens,
is replaced, closes, or carries frames).

Model-checked only: liveness (`GoneAgentsLeave`, `OrphansAreRequeued`,
`QueueIsServed`, `ArguedDebatesEnd`, `StartSettles`, `GivesUp`, `GoneClientsLeave`),
which needs fairness and `ENABLED`.  Every invariant and action property of a
passing run has a theorem.

## 5. Findings

Runs named `Claim_*` check one statement of the repository each, which TLC
finds violated by what the code does.  `PROJECT.json` quotes code and text.

* `Claim_report` - nothing takes an assigned task to `in_progress`, so the
  result of the agent that the server assigned is dropped, and so is its claim.
  The task is requeued after five minutes.
* `Claim_reconnect` - a connection that was lost is opened again and nobody
  registers on it.  The server refuses the next heartbeat and closes the socket;
  the connection reconnects, and each success resets the number of attempts.  The
  runtime says "connected" all the time.
* `Claim_notices` - a task assignment or debate invitation that arrives while
  `nexus_read_inbox` awaits the server's answer is marked read and not shown.
* `Claim_stale` - a key that expired and was deleted starts again with version
  1, and a snapshot from before then has the higher version.

What the models show directly, or what reading for them showed, and no run is
spent on:

* the skill match is a weight and not a condition: a task may go to an agent with
  none of its skills (`agent-registry.ts:191`; `README.md:138` says "tasks land on
  agents whose declared skills match");
* a client that claimed a task too late goes on listing it; when it leaves, the
  task is taken from the agent that won the race, or queued again although it is
  completed (`server.ts:740`, `task-engine.ts:217`), possibly next to a
  duplicate that was admitted meanwhile;
* the health check resolves a timed-out debate but does not approve the task,
  which stays in review for good (`server.ts:846`; compare `server.ts:557`);
* a task that was requeued and redone while its debate was open is approved by
  that older debate (`server.ts:559`);
* a submission is assigned without a look at the queue and overtakes more urgent
  tasks (`server.ts:409`);
* a claim that comes too late is dropped without an answer after its tool has
  said "claimed", and a result is accepted from anybody, not only from the
  task's agent;
* a peer's `context_share` of type `inbox_response` is taken for the server's answer
  by an inbox query that waits; its entries are shown, the real answer then comes
  to nobody, and the messages in it, marked read, may never be shown
  (`tools/inbox.ts:17-20`, `server.ts:668`);
* the weights are sums of doubles in order of arrival (`debate-engine.ts:148`,
  `176-183`), so the order of arguments for the *same* position can decide between
  majority and tiebreak: against one of 0.9000000000000001, arguments of 0.7, 0.6
  and 0.8 weigh 2.0999999999999996 in this order, a tiebreak, and 2.1 in the order
  0.7, 0.8, 0.6, a majority;
* a debate without any argument, as when the reviewer and the sender say nothing,
  is never resolved, by the timeout neither (`debate-engine.ts:134`);
* `evaluate` takes arguments of all rounds: an agent that has changed its mind
  weighs in on both sides, and "all participants agreed" (`debate-engine.ts:173`)
  is said of all arguments, also of the only one before a timeout;
* overwriting a key keeps `created_at`, so a fresh value may be expired at once
  (`memory-store.ts:85`);
* an answer to the registration that comes after its timeout still sets the
  agent id and starts the heartbeat, while `start()` has failed (`runtime.ts:170`);
* `mcp` has no listener for the runtime's `error` event, so a nexus that cannot be
  reached ends the process before the message at `mcp.ts:38` that the MCP server
  will start without it;
* messages are stored for an agent id, and a client that comes back has a new
  one: nobody reads them (`memory-store.ts:290`);
* `execFile`'s timeout of 30 s kills the tunnel that has started, and
  `isActive()` stays true (`tunnel-manager.ts:38`).

## 6. What is not modelled, and why

* Invites: only `create` is called; `validate`, `use` and `revoke` have no
  caller.
* Tunnel manager: one child process and one flag; what can go wrong is listed
  above.
* Execution proxy: no message reaches it, server and runtime drop `exec.*` and
  the MCP tool answers that it is disabled.
* Protocol validation: stateless; a rejection is a `Crash` in `NexusServer` and
  `CloseFar` in `Session`.
* `auto-port`, `platform`, `setup`, options and configuration files: input and
  output only.  `start` runs a server, an agent and a tunnel in one process,
  which are modelled apart from each other.
* In the inbox: `show_all`, which shows more and marks no less; the banner with
  previews of unread messages; announcements that agents joined or left; shared
  content that begins with `__nexus_query`, which no listener takes or keeps; and a
  peer's `inbox_response` whose `messages` is no list, on which the call that takes
  it never ends.
* Unreachable code: `acceptAssignment`, `fail`, `updateStatus`, `setStatus` of the
  runtime, `submitRebuttal`, `pruneOldMessages`, the `load*` functions of the memory store.
  `debate.initiate` has no handler, and the MCP server has no tool for
  `debate.argument`: arguments come from other clients of the protocol, and
  reviews between MCP clients end by timeout.
* A restart of the server with its tasks: they are written to the database and
  never read back, so a restarted server is a new one (`Start` in `Session`).

## 7. What is left to do

1. A small module of `start` with the tunnel, if a run can be spared for it.
2. The promise of `WorkQueue` about departures says nothing of work that was
   assigned and not claimed: `OrphansAreRequeued` says that it comes back, under
   fairness, and only TLC checks it.

## 8. Running it

```
tlc -workers 2 -config Server_wire.cfg MCNexusServer
tlc -workers 2 -config Debate.cfg MCDebate
tlc -workers 2 -config Mailbox.cfg MCMailbox
tlc -workers 2 -config Session.cfg MCSession
tlapm NexusServerProofs.tla
```

The module of each run is in `PROJECT.json`.  The passing runs take from a
second to about three minutes; `Memory` reaches 3.9 and `Mailbox` 6.2 million distinct
states, `Server_wire` and `Server_three` about 1.3 million each.  `Server_queue`
has fewer and takes as long, for its liveness.
