------------------------------- MODULE Session -------------------------------
(***************************************************************************)
(* The life of a client's connection: agent-runtime's Connection,          *)
(* AgentRuntime and Heartbeat, the two commands that run them              *)
(* (apps/cli/src/commands/join.ts and mcp.ts), and the server's side of a  *)
(* socket (handleConnection, handleDisconnect and stop in server.ts, with  *)
(* the router's table of sockets).                                         *)
(*                                                                         *)
(* A socket has two ends that close on their own, and a queue in each      *)
(* direction.  A frame is lost only with its connection.  Whatever an end  *)
(* receives without changing state (acknowledgements, errors, broadcasts)  *)
(* is left out, and so are the delays: a timer may fire at any time.       *)
(***************************************************************************)
EXTENDS Naturals, Sequences, FiniteSets

CONSTANTS
    Clients,          \* processes that run a client
    Command,          \* which command each of them runs: "join" or "mcp"
    MaxAttempts,      \* RECONNECT_MAX_ATTEMPTS (20)
    MaxSockets,       \* bound: connections that exist at a time
    MaxLaunches,      \* bound: how often a client process is started
    MaxIds,           \* bound: registrations, one for each launch
    MaxFaults,        \* bound: broken or refused connections, missed heartbeats
    MaxStops,         \* bound: how often the server ends
    MaxInFlight       \* bound: messages of a client on their way

ASSUME SessionAssumption ==
    /\ Command \in [Clients -> {"join", "mcp"}]
    /\ MaxSockets \in Nat \ {0} /\ MaxIds \in Nat \ {0} /\ MaxAttempts \in Nat
    /\ MaxLaunches \in Nat /\ MaxFaults \in Nat /\ MaxStops \in Nat
    /\ MaxInFlight \in Nat \ {0}

VARIABLES
    client,           \* each client process: its runtime and connection
    socket,           \* each connection: its two ends and what is under way
    server,           \* "up", "stopping" or "down"
    socketAgents,     \* server.ts:54, the agent that each socket registered
    agentSockets,     \* message-router.ts:11, the socket of each agent
    agents,           \* the registry's agents
    lastId, launches, faults, stops

serverVars == <<socketAgents, agentSockets, agents>>
vars == <<client, socket, server, serverVars, lastId, launches, faults, stops>>

Sockets == 1..MaxSockets
Ids == 1..MaxIds
None == 0

Frames == [type: {"register", "heartbeat", "deregister", "registered", "close"},
           id: Ids \cup {None}]
Frame(type, id) == [type |-> type, id |-> id]
Close == Frame("close", None)

ClientRecord ==
    [proc: {"off", "up", "crashed"},
     start: {"idle", "connecting", "registering", "done", "failed"},
     runtime: {"stopped", "starting", "connected", "disconnected"},
     conn: {"disconnected", "connecting", "connected", "reconnecting"},
     attempts: 0..MaxAttempts,
     timer: BOOLEAN,
     ws: Sockets \cup {None},         \* its socket, unless that is closed
     agentId: Ids \cup {None}]

SocketRecord ==
    [near: {"closed", "opening", "open"}, far: {"closed", "open", "closing"},
     up: Seq(Frames), down: Seq(Frames)]

\* Every variable keeps its type; the attempts to reconnect stay within their
\* limit.
TypeOK ==
    /\ client \in [Clients -> ClientRecord]
    /\ socket \in [Sockets -> SocketRecord]
    /\ server \in {"up", "stopping", "down"}
    /\ socketAgents \in [Sockets -> Ids \cup {None}]
    /\ agentSockets \in [Ids -> Sockets \cup {None}]
    /\ agents \subseteq 1..lastId
    /\ lastId \in 0..MaxIds
-----------------------------------------------------------------------------
(* Sockets *)

Idle == [near |-> "closed", far |-> "closed", up |-> <<>>, down |-> <<>>]

Ended(q) == q # <<>> /\ q[Len(q)] = Close
End(q) == IF Ended(q) THEN q ELSE Append(q, Close)

\* The client closes its end, or its process is gone.
CloseNear(k) ==
    IF k.far = "closed" THEN Idle
    ELSE [k EXCEPT !.near = "closed", !.down = <<>>, !.up = End(@)]

\* ws.close() on the server: what the client has sent is still read.
CloseFar(k) ==
    IF k.far # "open" THEN k
    ELSE [k EXCEPT !.far = "closing",
                   !.down = IF k.near = "closed" THEN @ ELSE End(@)]

\* The server has read the client's close, or its process is gone.
DropFar(k) ==
    IF k.near = "closed" THEN Idle
    ELSE IF k.near = "opening" THEN k
    ELSE [k EXCEPT !.far = "closed", !.up = <<>>, !.down = End(@)]

\* connection.send: only an open socket takes a message.
Send(k, frame) == IF k.near = "open" THEN [k EXCEPT !.up = Append(@, frame)] ELSE k

FreeSockets ==
    {s \in Sockets : socket[s] = Idle /\ socketAgents[s] = None}
NewSocket == CHOOSE s \in FreeSockets : TRUE
-----------------------------------------------------------------------------
(* The client *)

Off == [proc |-> "off", start |-> "idle", runtime |-> "stopped",
        conn |-> "disconnected", attempts |-> 0, timer |-> FALSE, ws |-> None,
        agentId |-> None]

\* The sockets once this client's end of its own is closed
Hangup(c) ==
    [s \in Sockets |-> IF s = client[c].ws THEN CloseNear(socket[s]) ELSE socket[s]]

Running(c) == client[c].proc = "up"
Socket(c) == socket[client[c].ws]

\* Mutants: one attempt too many; a count that starts again.
AttemptReconnect_OneMore(x) ==
    IF x.attempts > MaxAttempts
    THEN [x EXCEPT !.ws = None, !.conn = "disconnected", !.runtime = "disconnected"]
    ELSE [x EXCEPT !.ws = None, !.conn = "reconnecting", !.timer = TRUE,
                   !.attempts = @ + 1]
AttemptReconnect_Recounts(x) ==
    [x EXCEPT !.ws = None, !.conn = "reconnecting", !.timer = TRUE, !.attempts = 1]

\* attemptReconnect(): the old socket is of no use any more.
AttemptReconnect(x) ==
    IF x.attempts >= MaxAttempts
    THEN [x EXCEPT !.ws = None, !.conn = "disconnected", !.runtime = "disconnected"]
    ELSE [x EXCEPT !.ws = None, !.conn = "reconnecting", !.timer = TRUE,
                   !.attempts = @ + 1]

\* The commands start their runtime: a new connection and its first connect().
Launch(c) ==
    /\ ~Running(c)
    /\ launches[c] < MaxLaunches
    /\ FreeSockets # {}
    /\ launches' = [launches EXCEPT ![c] = @ + 1]
    /\ client' = [client EXCEPT ![c] =
           [Off EXCEPT !.proc = "up", !.start = "connecting",
                       !.runtime = "starting", !.conn = "connecting",
                       !.ws = NewSocket]]
    /\ socket' = [socket EXCEPT ![NewSocket].near = "opening"]
    /\ UNCHANGED <<server, serverVars, lastId, faults, stops>>

\* "open": the server has accepted the socket.  Only start() goes on to
\* register: nothing does after a reconnect.
OnOpen(c) ==
    LET registers == client[c].start = "connecting"
    IN  /\ Running(c)
        /\ client[c].conn = "connecting"
        /\ server = "up"
        /\ client' = [client EXCEPT
               ![c].conn = "connected", ![c].attempts = 0,
               ![c].start = IF registers THEN "registering" ELSE @]
        /\ socket' = [socket EXCEPT ![client[c].ws] =
               [near |-> "open", far |-> "open", down |-> <<>>,
                up |-> IF registers THEN <<Frame("register", None)>> ELSE <<>>]]
        /\ UNCHANGED <<server, serverVars, lastId, launches, faults, stops>>

\* "error", then "close", of a socket that did not open.  mcp has no listener
\* for the runtime's "error" event, so that emitting it ends the process; join
\* has one, and exits when start() is rejected.
OnRefused(c) ==
    LET x == client[c]
    IN  /\ Running(c)
        /\ x.conn = "connecting"
        /\ server = "up" => faults < MaxFaults
        /\ faults' = IF server = "up" THEN faults + 1 ELSE faults
        /\ client' = [client EXCEPT ![c] =
               IF Command[c] = "mcp" THEN [Off EXCEPT !.proc = "crashed"]
               ELSE IF x.attempts = 0 THEN Off
               ELSE AttemptReconnect(x)]
        /\ socket' = [socket EXCEPT ![x.ws] = Idle]
        /\ UNCHANGED <<server, serverVars, lastId, launches, stops>>

\* "close" of a socket that was open
OnClose(c) ==
    /\ Running(c)
    /\ client[c].conn = "connected"
    /\ Socket(c).down # <<>>
    /\ Head(Socket(c).down) = Close
    /\ client' = [client EXCEPT ![c] = AttemptReconnect(@)]
    /\ socket' = Hangup(c)
    /\ UNCHANGED <<server, serverVars, lastId, launches, faults, stops>>

\* Mutant: a timer that fires again.
OnTimer_Interval(c) ==
    /\ Running(c)
    /\ client[c].timer
    /\ FreeSockets # {}
    /\ client' = [client EXCEPT ![c].conn = "connecting", ![c].ws = NewSocket]
    /\ socket' = [socket EXCEPT ![NewSocket].near = "opening"]
    /\ UNCHANGED <<server, serverVars, lastId, launches, faults, stops>>

\* The reconnect timer: connect() again.
OnTimer(c) ==
    /\ Running(c)
    /\ client[c].timer
    /\ FreeSockets # {}
    /\ client' = [client EXCEPT ![c].timer = FALSE, ![c].conn = "connecting",
                                ![c].ws = NewSocket]
    /\ socket' = [socket EXCEPT ![NewSocket].near = "opening"]
    /\ UNCHANGED <<server, serverVars, lastId, launches, faults, stops>>

\* The handler of register(): the id is kept and the heartbeat starts, with a
\* first beat at once, also when start() has given up waiting.
OnRegistered(c) ==
    /\ Running(c)
    /\ client[c].conn = "connected"
    /\ Socket(c).down # <<>>
    /\ LET frame == Head(Socket(c).down)
       IN  /\ frame.type = "registered"
           /\ client' = [client EXCEPT
                  ![c].agentId = frame.id,
                  ![c].start = IF @ = "registering" THEN "done" ELSE @,
                  ![c].runtime = IF client[c].start = "registering"
                                 THEN "connected" ELSE @]
           /\ socket' = [socket EXCEPT ![client[c].ws] =
                  Send([Socket(c) EXCEPT !.down = Tail(@)],
                       Frame("heartbeat", frame.id))]
    /\ UNCHANGED <<server, serverVars, lastId, launches, faults, stops>>

\* Mutant: the timer of the registration ends with the socket.
OnRegistrationTimeout_WhileOpen(c) ==
    /\ Running(c)
    /\ client[c].start = "registering"
    /\ client[c].conn = "connected"
    /\ client' = [client EXCEPT ![c] =
           IF Command[c] = "join" THEN Off ELSE [@ EXCEPT !.start = "failed"]]
    /\ socket' = IF Command[c] = "join" THEN Hangup(c) ELSE socket
    /\ UNCHANGED <<server, serverVars, lastId, launches, faults, stops>>

\* REGISTRATION_TIMEOUT_MS: start() is rejected.  join exits, mcp goes on.
OnRegistrationTimeout(c) ==
    /\ Running(c)
    /\ client[c].start = "registering"
    /\ client' = [client EXCEPT ![c] =
           IF Command[c] = "join" THEN Off ELSE [@ EXCEPT !.start = "failed"]]
    /\ socket' = IF Command[c] = "join" THEN Hangup(c) ELSE socket
    /\ UNCHANGED <<server, serverVars, lastId, launches, faults, stops>>

\* heartbeat.send(): nothing is sent without an id or on a closed socket.
Beat(c) ==
    /\ Running(c)
    /\ client[c].agentId # None
    /\ client[c].conn = "connected"
    /\ Len(Socket(c).up) < MaxInFlight
    /\ socket' = [socket EXCEPT ![client[c].ws] =
           Send(@, Frame("heartbeat", client[c].agentId))]
    /\ UNCHANGED <<client, server, serverVars, lastId, launches, faults, stops>>

\* join is interrupted: runtime.stop() says goodbye and closes the socket, and
\* the process exits.
Leave(c) ==
    /\ Running(c)
    /\ Command[c] = "join"
    /\ client[c].start = "done"
    /\ client' = [client EXCEPT ![c] = Off]
    /\ socket' = [s \in Sockets |->
           IF s = client[c].ws
           THEN CloseNear(Send(socket[s], Frame("deregister", client[c].agentId)))
           ELSE socket[s]]
    /\ UNCHANGED <<server, serverVars, lastId, launches, faults, stops>>

\* The process is killed at any point.
Kill(c) ==
    /\ Running(c)
    /\ client' = [client EXCEPT ![c] = Off]
    /\ socket' = Hangup(c)
    /\ UNCHANGED <<server, serverVars, lastId, launches, faults, stops>>
-----------------------------------------------------------------------------
(* The server *)

\* Mutant: the socket's own entry is left.
Disconnect_KeepsIdentity(id) ==
    /\ agents' = agents \ {id}
    /\ agentSockets' = [agentSockets EXCEPT ![id] = None]
    /\ UNCHANGED socketAgents

\* handleDisconnect, without its effect on tasks (see NexusServer)
Disconnect(id) ==
    /\ agents' = agents \ {id}
    /\ agentSockets' = [agentSockets EXCEPT ![id] = None]
    /\ socketAgents' =
           [s \in Sockets |-> IF s = agentSockets[id] THEN None ELSE socketAgents[s]]

\* handleConnection's checks, in their order
Refuses(s, frame) ==
    IF socketAgents[s] = None THEN frame.type # "register"
    ELSE frame.type = "register" \/ frame.id # socketAgents[s]

Register(s) ==
    /\ lastId < MaxIds
    /\ lastId' = lastId + 1
    /\ agents' = agents \cup {lastId'}
    /\ socketAgents' = [socketAgents EXCEPT ![s] = lastId']
    /\ agentSockets' = [agentSockets EXCEPT ![lastId'] = s]

\* A message of a client.
OnMessage(s) ==
    LET k == socket[s]
        rest == [k EXCEPT !.up = Tail(@)]
        frame == Head(k.up)
    IN  /\ k.far # "closed"
        /\ k.up # <<>>
        /\ frame # Close
        /\ \/ /\ Refuses(s, frame)
              /\ socket' = [socket EXCEPT ![s] = CloseFar(rest)]
              /\ UNCHANGED <<serverVars, lastId>>
           \/ /\ ~Refuses(s, frame)
              /\ frame.type = "register"
              /\ Register(s)
              /\ socket' = [socket EXCEPT ![s] =
                     IF k.far = "open" /\ k.near = "open"
                        /\ ~Ended(k.down)
                     THEN [rest EXCEPT !.down =
                               Append(k.down, Frame("registered", lastId'))]
                     ELSE rest]
           \/ /\ ~Refuses(s, frame)
              /\ frame.type = "deregister"
              /\ Disconnect(frame.id)
              /\ socket' = [socket EXCEPT ![s] = CloseFar(rest)]
              /\ UNCHANGED lastId
           \/ /\ ~Refuses(s, frame)
              /\ frame.type = "heartbeat"
              /\ socket' = [socket EXCEPT ![s] = rest]
              /\ UNCHANGED <<serverVars, lastId>>
        /\ UNCHANGED <<client, server, launches, faults, stops>>

\* Mutant: a lost socket is not a disconnect.
OnSocketClose_Ignored(s) ==
    /\ socket[s].far # "closed"
    /\ socket[s].up # <<>>
    /\ Head(socket[s].up) = Close
    /\ socket' = [socket EXCEPT ![s] = DropFar(@)]
    /\ UNCHANGED <<client, server, serverVars, lastId, launches, faults, stops>>

\* The "close" event of a socket.
OnSocketClose(s) ==
    /\ socket[s].far # "closed"
    /\ socket[s].up # <<>>
    /\ Head(socket[s].up) = Close
    /\ IF socketAgents[s] # None THEN Disconnect(socketAgents[s])
                                 ELSE UNCHANGED serverVars
    /\ socket' = [socket EXCEPT ![s] = DropFar(@)]
    /\ UNCHANGED <<client, server, lastId, launches, faults, stops>>

\* runHealthCheck: an agent whose heartbeats are missing, of a client that was
\* suspended or whose last connection is not known to be gone.
OnHeartbeatTimeout(id) ==
    /\ server = "up"
    /\ faults < MaxFaults
    /\ id \in agents
    /\ Disconnect(id)
    /\ LET s == agentSockets[id]
       IN  socket' = [socket EXCEPT ![s] = CloseFar(@)]
    /\ faults' = faults + 1
    /\ UNCHANGED <<client, server, lastId, launches, stops>>

\* stop(): every socket is closed, and the process ends when they are gone.
Stop ==
    /\ server = "up"
    /\ stops < MaxStops
    /\ stops' = stops + 1
    /\ server' = "stopping"
    /\ socket' = [s \in Sockets |-> CloseFar(socket[s])]
    /\ UNCHANGED <<client, serverVars, lastId, launches, faults>>

\* The process ends, at once or after stop(), and what it knew is gone.
Exit ==
    /\ \/ server = "stopping" /\ \A s \in Sockets : socket[s].far = "closed"
       \/ server = "up" /\ stops < MaxStops
    /\ stops' = IF server = "up" THEN stops + 1 ELSE stops
    /\ server' = "down"
    /\ socket' = [s \in Sockets |-> DropFar(socket[s])]
    /\ socketAgents' = [s \in Sockets |-> None]
    /\ agentSockets' = [id \in Ids |-> None]
    /\ agents' = {}
    /\ UNCHANGED <<client, lastId, launches, faults>>

\* start(): a new server process, with empty tables.
Start ==
    /\ server = "down"
    /\ server' = "up"
    /\ UNCHANGED <<client, socket, serverVars, lastId, launches, faults, stops>>

\* A connection breaks: each end learns it for itself, and what was under way
\* is lost.
Break(s) ==
    /\ faults < MaxFaults
    /\ socket[s].near = "open" /\ socket[s].far # "closed"
    /\ faults' = faults + 1
    /\ socket' = [socket EXCEPT ![s].up = <<Close>>, ![s].down = <<Close>>]
    /\ UNCHANGED <<client, server, serverVars, lastId, launches, stops>>
-----------------------------------------------------------------------------
Init ==
    /\ client = [c \in Clients |-> Off]
    /\ socket = [s \in Sockets |-> Idle]
    /\ server = "up"
    /\ socketAgents = [s \in Sockets |-> None]
    /\ agentSockets = [id \in Ids |-> None]
    /\ agents = {}
    /\ lastId = 0 /\ faults = 0 /\ stops = 0
    /\ launches = [c \in Clients |-> 0]

Next ==
    \/ \E c \in Clients :
          \/ Launch(c) \/ OnOpen(c) \/ OnRefused(c) \/ OnClose(c) \/ OnTimer(c)
          \/ OnRegistered(c) \/ OnRegistrationTimeout(c) \/ Beat(c)
          \/ Leave(c) \/ Kill(c)
    \/ \E s \in Sockets : OnMessage(s) \/ OnSocketClose(s) \/ Break(s)
    \/ \E id \in Ids : OnHeartbeatTimeout(id)
    \/ Stop \/ Exit \/ Start

Spec == Init /\ [][Next]_vars

\* The event loops of the processes handle what has arrived and the timers that
\* are due, a connect() is answered or refused, and a server that stops ends.
FairSpec ==
    /\ Spec
    /\ \A c \in Clients :
          /\ WF_vars(OnOpen(c) \/ OnRefused(c))
          /\ WF_vars(OnClose(c)) /\ WF_vars(OnTimer(c)) /\ WF_vars(OnRegistered(c))
          /\ WF_vars(OnRegistrationTimeout(c)) /\ WF_vars(Beat(c))
    /\ \A s \in Sockets : WF_vars(OnMessage(s)) /\ WF_vars(OnSocketClose(s))
    /\ WF_vars(server = "stopping" /\ Exit)
-----------------------------------------------------------------------------
(* Properties *)

\* The server's three tables agree at any moment, whatever the order of a
\* deregistration, a missed heartbeat and a close: the sockets of the router are
\* those that socketAgents knows, under the same id, of agents in the registry
\* (server.ts:293-304, server.ts:731-734).
TablesAgree ==
    /\ agents = {id \in Ids : agentSockets[id] # None}
    /\ \A s \in Sockets, id \in Ids :
          socketAgents[s] = id <=> agentSockets[id] = s

\* connection.ts:110: the connection's state tells what its socket is; and no
\* socket is left open behind a client's back: a new one is opened only when the
\* last one is closed, and a client that has ended or given up holds none.
StateMatchesSocket ==
    /\ \A c \in Clients :
          /\ client[c].conn = "connected" => Socket(c).near = "open"
          /\ client[c].conn = "connecting" => Socket(c).near = "opening"
          /\ client[c].timer <=> client[c].conn = "reconnecting"
    /\ \A s \in Sockets : socket[s].near # "closed" =>
          \E c \in Clients :
              client[c].ws = s /\ client[c].conn \in {"connecting", "connected"}

\* join.ts:99, mcp.ts:30: runtime.start() settles, or the process ends, however
\* the connection, the registration and the server end.
StartSettles ==
    \A c \in Clients :
        client[c].start \in {"connecting", "registering"}
            ~> client[c].start \notin {"connecting", "registering"}

\* connection.ts:114: when the server never comes back the connection is given
\* up (or the process ends): the attempts do not go on for ever.
GivesUp ==
    <>[](server = "down") =>
        \A c \in Clients : <>[](client[c].conn = "disconnected")

\* server.ts:274-280: an agent leaves the registry when the client's end of its
\* socket is gone, whatever is still under way.
GoneClientsLeave ==
    \A id \in Ids :
        id \in agents /\ socket[agentSockets[id]].near = "closed" ~> id \notin agents
-----------------------------------------------------------------------------
(* Statements of the repository that the code does not keep *)

Registered(c) ==
    /\ client[c].agentId # None
    /\ client[c].ws # None
    /\ socketAgents[client[c].ws] = client[c].agentId

\* README.md:113 "reconnection with backoff", docs/architecture.md:74 "so memory
\* and messages survive a reconnect": a client that says it is connected is
\* registered again after its connection was lost, or gives up.
ReconnectRestores ==
    \A c \in Clients :
        client[c].runtime = "connected"
            ~> Registered(c) \/ client[c].runtime # "connected"
=============================================================================
