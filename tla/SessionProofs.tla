---------------------------- MODULE SessionProofs ----------------------------
(***************************************************************************)
(* Proofs about Session, for any number of clients, sockets, agents and    *)
(* faults.                                                                 *)
(***************************************************************************)
EXTENDS Session, TLAPS

\* The server's tables and their types.
TablesOK ==
    /\ socketAgents \in [Sockets -> Ids \cup {None}]
    /\ agentSockets \in [Ids -> Sockets \cup {None}]
    /\ lastId \in Nat
    /\ agents \subseteq 1..lastId

TablesInv == TablesOK /\ TablesAgree

\* An empty entry is neither a socket nor an id.
LEMMA NoneIsNothing == None \notin Sockets /\ None \notin Ids
  BY SessionAssumption DEF None, Sockets, Ids

\* A registration binds a new id to a socket that had none.
LEMMA RegisterAgrees ==
    ASSUME TablesInv, NEW s \in Sockets, socketAgents[s] = None, Register(s)
    PROVE  TablesInv'
  <1>1. lastId' = lastId + 1 /\ lastId' \in Ids /\ lastId' \notin agents
    BY SessionAssumption DEF Register, TablesInv, TablesOK, Ids
  <1>2. TablesOK'
    BY <1>1 DEF Register, TablesInv, TablesOK
  <1>3. agentSockets[lastId'] = None
    BY <1>1 DEF TablesInv, TablesAgree
  <1>4. TablesAgree'
    BY <1>1, <1>2, <1>3, NoneIsNothing DEF Register, TablesInv, TablesOK, TablesAgree
  <1> QED  BY <1>2, <1>4 DEF TablesInv

\* A disconnect takes an agent out of all three tables.
LEMMA DisconnectAgrees ==
    ASSUME TablesInv, NEW id \in Ids, Disconnect(id), UNCHANGED lastId
    PROVE  TablesInv'
  <1>1. TablesOK'
    BY DEF Disconnect, TablesInv, TablesOK
  <1>2. TablesAgree'
    BY <1>1, NoneIsNothing DEF Disconnect, TablesInv, TablesOK, TablesAgree
  <1> QED  BY <1>1, <1>2 DEF TablesInv

\* A process that starts has empty tables.
LEMMA EmptyTablesAgree ==
    ASSUME lastId \in Nat, agents = {}, socketAgents = [s \in Sockets |-> None],
           agentSockets = [id \in Ids |-> None]
    PROVE  TablesInv
  BY NoneIsNothing DEF TablesInv, TablesOK, TablesAgree

\* TablesInv is inductive.
LEMMA TablesStep ==
    ASSUME TablesInv, [Next]_vars
    PROVE  TablesInv'
  <1>0. ASSUME UNCHANGED <<serverVars, lastId>>  PROVE TablesInv'
    BY <1>0 DEF TablesInv, TablesOK, TablesAgree, serverVars
  <1>1. ASSUME NEW c \in Clients,
               \/ Launch(c) \/ OnOpen(c) \/ OnRefused(c) \/ OnClose(c) \/ OnTimer(c)
               \/ OnRegistered(c) \/ OnRegistrationTimeout(c) \/ Beat(c)
               \/ Leave(c) \/ Kill(c)
        PROVE  TablesInv'
    BY <1>0, <1>1 DEF Launch, OnOpen, OnRefused, OnClose, OnTimer, OnRegistered,
                      OnRegistrationTimeout, Beat, Leave, Kill
  <1>2. ASSUME NEW s \in Sockets, OnMessage(s)  PROVE TablesInv'
    <2> DEFINE frame == Head(socket[s].up)
    <2>1. CASE UNCHANGED <<serverVars, lastId>>
      BY <1>0, <2>1
    <2>2. CASE ~Refuses(s, frame) /\ frame.type = "register" /\ Register(s)
      BY <2>2, RegisterAgrees DEF Refuses
    <2>3. CASE /\ ~Refuses(s, frame) /\ frame.type = "deregister"
               /\ Disconnect(frame.id) /\ UNCHANGED lastId
      <3>1. frame.id \in Ids
        BY <2>3 DEF Refuses, TablesInv, TablesOK
      <3> QED  BY <2>3, <3>1, DisconnectAgrees
    <2> QED  BY <1>2, <2>1, <2>2, <2>3 DEF OnMessage
  <1>3. ASSUME NEW s \in Sockets, OnSocketClose(s)  PROVE TablesInv'
    <2>1. CASE socketAgents[s] # None
      <3>1. socketAgents[s] \in Ids
        BY <2>1 DEF TablesInv, TablesOK
      <3> QED  BY <1>3, <2>1, <3>1, DisconnectAgrees DEF OnSocketClose
    <2>2. CASE socketAgents[s] = None
      BY <1>0, <1>3, <2>2 DEF OnSocketClose
    <2> QED  BY <2>1, <2>2
  <1>4. ASSUME NEW id \in Ids, OnHeartbeatTimeout(id)  PROVE TablesInv'
    BY <1>4, DisconnectAgrees DEF OnHeartbeatTimeout
  <1>5. CASE Exit
    BY <1>5, EmptyTablesAgree, NoneIsNothing
       DEF Exit, TablesInv, TablesOK, TablesAgree
  <1>6. ASSUME NEW s \in Sockets, Break(s)  PROVE TablesInv'
    BY <1>0, <1>6 DEF Break
  <1>7. CASE Stop \/ Start \/ UNCHANGED vars
    BY <1>0, <1>7 DEF Stop, Start, vars
  <1> QED  BY <1>1, <1>2, <1>3, <1>4, <1>5, <1>6, <1>7 DEF Next

\* The router, the socket table and the registry know the same agents and the
\* same sockets, whatever is closed, broken, timed out or restarted and when.
THEOREM TablesAlwaysAgree == Spec => []TablesAgree
  <1>1. Init => TablesInv
    BY EmptyTablesAgree DEF Init
  <1>2. TablesInv /\ [Next]_vars => TablesInv'
    BY TablesStep
  <1>3. TablesInv => TablesAgree
    BY DEF TablesInv
  <1> QED  BY <1>1, <1>2, <1>3, PTL DEF Spec

-----------------------------------------------------------------------------
(* Types.                                                                   *)

\* Frames that are sent are frames.
LEMMA FrameTypes ==
    /\ Close \in Frames
    /\ \A id \in Ids \cup {None} : /\ Frame("register", id) \in Frames
                                  /\ Frame("heartbeat", id) \in Frames
                                  /\ Frame("deregister", id) \in Frames
                                  /\ Frame("registered", id) \in Frames
  BY DEF Close, Frame, Frames

\* A queue that is closed is a queue.
LEMMA EndType ==
    ASSUME NEW q \in Seq(Frames)
    PROVE  End(q) \in Seq(Frames)
  BY FrameTypes DEF End

\* What closing and sending make of a socket; only the client's own close
\* changes what its end is.
LEMMA SocketTypes ==
    ASSUME NEW k \in SocketRecord
    PROVE  /\ Idle \in SocketRecord /\ Idle.near = "closed"
           /\ CloseNear(k) \in SocketRecord /\ CloseNear(k).near = "closed"
           /\ CloseFar(k) \in SocketRecord /\ CloseFar(k).near = k.near
           /\ DropFar(k) \in SocketRecord /\ DropFar(k).near = k.near
  <1>1. k.up \in Seq(Frames) /\ k.down \in Seq(Frames) /\ <<>> \in Seq(Frames)
    BY DEF SocketRecord
  <1>2. End(k.up) \in Seq(Frames) /\ End(k.down) \in Seq(Frames)
    BY <1>1, EndType
  <1> QED  BY <1>1, <1>2 DEF Idle, CloseNear, CloseFar, DropFar, SocketRecord

\* A socket that a frame was put on, or taken off, is a socket.
LEMMA QueueTypes ==
    ASSUME NEW k \in SocketRecord, NEW frame \in Frames
    PROVE  /\ Send(k, frame) \in SocketRecord /\ Send(k, frame).near = k.near
           /\ k.up # <<>> => /\ [k EXCEPT !.up = Tail(@)] \in SocketRecord
                            /\ [k EXCEPT !.up = Tail(@)].near = k.near
           /\ k.down # <<>> => /\ [k EXCEPT !.down = Tail(@)] \in SocketRecord
                              /\ [k EXCEPT !.down = Tail(@)].near = k.near
           /\ [k EXCEPT !.down = Append(@, frame)] \in SocketRecord
           /\ [k EXCEPT !.down = Append(@, frame)].near = k.near
  <1>1. k.up \in Seq(Frames) /\ k.down \in Seq(Frames)
    BY DEF SocketRecord
  <1>2. /\ Append(k.up, frame) \in Seq(Frames) /\ Append(k.down, frame) \in Seq(Frames)
        /\ k.up # <<>> => Tail(k.up) \in Seq(Frames)
        /\ k.down # <<>> => Tail(k.down) \in Seq(Frames)
    BY <1>1
  <1> QED  BY <1>1, <1>2 DEF Send, SocketRecord

Records ==
    /\ client \in [Clients -> ClientRecord]
    /\ socket \in [Sockets -> SocketRecord]

\* A client's record and its socket's end, each in the light of the other.
Matched(c) ==
    LET x == client[c]
    IN  /\ x.conn = "connected" => x.ws # None /\ socket[x.ws].near = "open"
        /\ x.conn = "connecting" => x.ws # None /\ socket[x.ws].near = "opening"
        /\ x.ws # None => x.conn \in {"connected", "connecting"}
        /\ x.timer <=> x.conn = "reconnecting"
        /\ x.proc # "up" => x.conn = "disconnected"

\* The strengthening of StateMatchesSocket: no two clients have the same socket.
MatchInv ==
    /\ Records
    /\ \A c \in Clients : Matched(c)
    /\ \A c, d \in Clients : client[c].ws = client[d].ws /\ client[c].ws # None => c = d
    /\ \A s \in Sockets : socket[s].near # "closed" => \E c \in Clients : client[c].ws = s

\* Client c lets go of its socket, if it has one.
LEMMA Releases ==
    ASSUME MatchInv, Records', NEW c \in Clients, NEW x \in ClientRecord,
           x.ws = None, x.conn \in {"disconnected", "reconnecting"},
           x.timer <=> x.conn = "reconnecting",
           x.proc # "up" => x.conn = "disconnected",
           client' = [client EXCEPT ![c] = x],
           \A s \in Sockets : IF s = client[c].ws
                              THEN socket'[s].near = "closed"
                              ELSE socket'[s] = socket[s]
    PROVE  MatchInv'
  <1>1. client'[c] = x /\ \A d \in Clients \ {c} : client'[d] = client[d]
    BY DEF MatchInv, Records
  <1>2. ASSUME NEW d \in Clients  PROVE Matched(d)'
    <2>1. CASE d = c
      BY <1>1, <2>1 DEF Matched
    <2>2. CASE d # c
      <3>1. client'[d] = client[d] /\ Matched(d)
        BY <1>1, <2>2 DEF MatchInv
      <3>2. client[d].ws # None => socket'[client[d].ws] = socket[client[d].ws]
        BY <2>2 DEF MatchInv, Records, ClientRecord
      <3> QED  BY <3>1, <3>2 DEF Matched
    <2> QED  BY <2>1, <2>2
  <1>3. \A d, e \in Clients :
            client'[d].ws = client'[e].ws /\ client'[d].ws # None => d = e
    BY <1>1 DEF MatchInv
  <1>4. ASSUME NEW s \in Sockets, socket'[s].near # "closed"
        PROVE  \E d \in Clients : client'[d].ws = s
    <2>1. s # client[c].ws /\ socket[s].near # "closed"
      BY <1>4
    <2> QED  BY <1>1, <2>1 DEF MatchInv
  <1> QED  BY <1>2, <1>3, <1>4 DEF MatchInv

\* Client c, without a socket, opens a new one.
LEMMA Acquires ==
    ASSUME MatchInv, Records', NEW c \in Clients, NEW x \in ClientRecord,
           client[c].ws = None,
           x.ws \in Sockets, socket[x.ws].near = "closed",
           x.conn = "connecting", x.timer = FALSE, x.proc = "up",
           client' = [client EXCEPT ![c] = x],
           socket' = [socket EXCEPT ![x.ws].near = "opening"]
    PROVE  MatchInv'
  <1>1. client'[c] = x /\ \A d \in Clients \ {c} : client'[d] = client[d]
    BY DEF MatchInv, Records
  <1>2. /\ socket'[x.ws].near = "opening"
        /\ \A s \in Sockets \ {x.ws} : socket'[s] = socket[s]
    BY DEF MatchInv, Records, SocketRecord
  <1>3. x.ws # None
    BY NoneIsNothing
  <1>4. ASSUME NEW d \in Clients, d # c  PROVE client[d].ws # x.ws
    BY <1>3 DEF MatchInv, Matched
  <1>5. ASSUME NEW d \in Clients  PROVE Matched(d)'
    <2>1. CASE d = c
      BY <1>1, <1>2, <1>3, <2>1 DEF Matched
    <2>2. CASE d # c
      <3>1. client'[d] = client[d] /\ Matched(d)
        BY <1>1, <2>2 DEF MatchInv
      <3>2. client[d].ws # None => socket'[client[d].ws] = socket[client[d].ws]
        BY <1>2, <1>4, <2>2 DEF MatchInv, Records, ClientRecord
      <3> QED  BY <3>1, <3>2 DEF Matched
    <2> QED  BY <2>1, <2>2
  <1>6. \A d, e \in Clients :
            client'[d].ws = client'[e].ws /\ client'[d].ws # None => d = e
    BY <1>1, <1>4 DEF MatchInv
  <1>7. ASSUME NEW s \in Sockets, socket'[s].near # "closed"
        PROVE  \E d \in Clients : client'[d].ws = s
    <2>1. CASE s = x.ws
      BY <1>1, <2>1
    <2>2. CASE s # x.ws
      <3>1. PICK d \in Clients : client[d].ws = s
        BY <1>2, <1>7, <2>2 DEF MatchInv
      <3>2. d # c
        BY <3>1, NoneIsNothing
      <3> QED  BY <1>1, <3>1, <3>2
    <2> QED  BY <2>1, <2>2
  <1> QED  BY <1>5, <1>6, <1>7 DEF MatchInv

\* Nobody changes its socket or how it is connected.
LEMMA Keeps ==
    ASSUME MatchInv, Records',
           \A c \in Clients : /\ client'[c].ws = client[c].ws
                              /\ client'[c].conn = client[c].conn
                              /\ client'[c].timer = client[c].timer
                              /\ client'[c].proc = client[c].proc,
           \A s \in Sockets : socket'[s].near = socket[s].near
    PROVE  MatchInv'
  <1>1. ASSUME NEW c \in Clients  PROVE Matched(c)'
    <2>1. Matched(c) /\ client[c].ws \in Sockets \cup {None}
      BY DEF MatchInv, Records, ClientRecord
    <2> QED  BY <2>1 DEF Matched
  <1> QED  BY <1>1 DEF MatchInv

\* A client that has ended, and one that has lost its socket.
LEMMA ClientTypes ==
    /\ Off \in ClientRecord /\ [Off EXCEPT !.proc = "crashed"] \in ClientRecord
    /\ \A x \in ClientRecord :
          LET y == AttemptReconnect(x)
          IN  /\ y \in ClientRecord /\ y.ws = None /\ y.proc = x.proc
              /\ y.conn \in {"disconnected", "reconnecting"}
              /\ x.timer = FALSE => (y.timer <=> y.conn = "reconnecting")
  <1>1. Off \in ClientRecord /\ [Off EXCEPT !.proc = "crashed"] \in ClientRecord
    <2>1. 0 \in 0..MaxAttempts
      BY SessionAssumption
    <2>2. Off \in ClientRecord
      BY <2>1 DEF Off, ClientRecord
    <2>3. [Off EXCEPT !.proc = "crashed"] \in ClientRecord
      BY <2>2 DEF ClientRecord
    <2> QED  BY <2>2, <2>3
  <1>2. ASSUME NEW x \in ClientRecord
        PROVE  LET y == AttemptReconnect(x)
               IN  /\ y \in ClientRecord /\ y.ws = None /\ y.proc = x.proc
                   /\ y.conn \in {"disconnected", "reconnecting"}
                   /\ x.timer = FALSE => (y.timer <=> y.conn = "reconnecting")
    <2> DEFINE gone == [x EXCEPT !.ws = None, !.conn = "disconnected",
                                 !.runtime = "disconnected"]
               again == [x EXCEPT !.ws = None, !.conn = "reconnecting",
                                  !.timer = TRUE, !.attempts = x.attempts + 1]
    <2>1. CASE x.attempts >= MaxAttempts
      <3>1. AttemptReconnect(x) = gone
        BY <2>1 DEF AttemptReconnect
      <3>2. /\ gone \in ClientRecord /\ gone.ws = None /\ gone.proc = x.proc
            /\ gone.conn = "disconnected" /\ gone.timer = x.timer
        BY DEF ClientRecord
      <3> QED  BY <3>1, <3>2
    <2>2. CASE ~(x.attempts >= MaxAttempts)
      <3>1. AttemptReconnect(x) = again
        BY <2>2 DEF AttemptReconnect, ClientRecord
      <3>2. x.attempts + 1 \in 0..MaxAttempts
        BY <2>2, SessionAssumption DEF ClientRecord
      <3>3. /\ again \in ClientRecord /\ again.ws = None /\ again.proc = x.proc
            /\ again.conn = "reconnecting" /\ again.timer = TRUE
        BY <3>2 DEF ClientRecord
      <3> QED  BY <3>1, <3>3
    <2> QED  BY <2>1, <2>2
  <1> QED  BY <1>1, <1>2

\* A new socket is a closed one.
LEMMA NewSocketIsFree ==
    ASSUME FreeSockets # {}
    PROVE  NewSocket \in Sockets /\ socket[NewSocket] = Idle
  BY DEF NewSocket, FreeSockets

\* Hanging up closes the client's own socket only.
LEMMA HangupCloses ==
    ASSUME Records, NEW c \in Clients, socket' = Hangup(c)
    PROVE  /\ socket' \in [Sockets -> SocketRecord]
           /\ \A s \in Sockets : IF s = client[c].ws
                                 THEN socket'[s].near = "closed"
                                 ELSE socket'[s] = socket[s]
  BY SocketTypes DEF Hangup, Records

\* Steps by which a client opens a socket.
LEMMA OpeningStep ==
    ASSUME MatchInv, NEW c \in Clients, Launch(c) \/ OnTimer(c)
    PROVE  MatchInv'
  <1>0. Records /\ Matched(c) /\ client[c] \in ClientRecord
    BY DEF MatchInv, Records
  <1>1. NewSocket \in Sockets /\ socket[NewSocket] = Idle /\ Idle.near = "closed"
    BY NewSocketIsFree DEF Launch, OnTimer, Idle
  <1>2. client[c].ws = None
    BY <1>0 DEF Launch, OnTimer, Running, Matched
  <1>3. socket' = [socket EXCEPT ![NewSocket].near = "opening"]
    BY DEF Launch, OnTimer
  <1>4. socket' \in [Sockets -> SocketRecord]
    BY <1>0, <1>1, <1>3 DEF Records, SocketRecord
  <1>5. PICK x \in ClientRecord : /\ x.ws = NewSocket /\ x.conn = "connecting"
                                 /\ x.timer = FALSE /\ x.proc = "up"
                                 /\ client' = [client EXCEPT ![c] = x]
    <2>1. CASE Launch(c)
      <3> DEFINE x == [Off EXCEPT !.proc = "up", !.start = "connecting",
                                  !.runtime = "starting", !.conn = "connecting",
                                  !.ws = NewSocket]
      <3>1. x \in ClientRecord /\ x.ws = NewSocket /\ x.conn = "connecting"
            /\ x.timer = FALSE /\ x.proc = "up"
        BY <1>1, ClientTypes DEF Off, ClientRecord
      <3>2. client' = [client EXCEPT ![c] = x]
        BY <2>1 DEF Launch
      <3> QED  BY <3>1, <3>2
    <2>2. CASE OnTimer(c)
      <3> DEFINE x == [client[c] EXCEPT !.timer = FALSE, !.conn = "connecting",
                                        !.ws = NewSocket]
      <3>1. x \in ClientRecord /\ x.ws = NewSocket /\ x.conn = "connecting"
            /\ x.timer = FALSE /\ x.proc = "up"
        BY <1>0, <1>1, <2>2 DEF ClientRecord, OnTimer, Running
      <3>2. client' = [client EXCEPT ![c] = x]
        BY <1>0, <2>2 DEF OnTimer, Records
      <3> QED  BY <3>1, <3>2
    <2> QED  BY <2>1, <2>2
  <1>6. Records'
    BY <1>0, <1>4, <1>5 DEF Records
  <1> QED  BY <1>1, <1>2, <1>3, <1>5, <1>6, Acquires

\* Steps by which a client loses its socket.
LEMMA ClosingStep ==
    ASSUME MatchInv, NEW c \in Clients,
           \/ OnRefused(c) \/ OnClose(c) \/ Leave(c) \/ Kill(c)
           \/ OnRegistrationTimeout(c) /\ Command[c] = "join"
    PROVE  MatchInv'
  <1>0. Records /\ Matched(c) /\ client[c] \in ClientRecord
    BY DEF MatchInv, Records
  <1> DEFINE crashed == [Off EXCEPT !.proc = "crashed"]
  <1>1. /\ Off \in ClientRecord /\ Off.ws = None /\ Off.conn = "disconnected"
        /\ Off.timer = FALSE
    BY ClientTypes DEF Off
  <1>1a. /\ crashed \in ClientRecord /\ crashed.ws = None
        /\ crashed.conn = "disconnected" /\ crashed.timer = FALSE
    BY ClientTypes DEF Off
  <1>2. PICK x \in ClientRecord :
            /\ client' = [client EXCEPT ![c] = x]
            /\ x.ws = None /\ x.conn \in {"disconnected", "reconnecting"}
            /\ x.timer <=> x.conn = "reconnecting"
            /\ x.proc # "up" => x.conn = "disconnected"
    <2> DEFINE now == client[c]
               y == AttemptReconnect(now)
    <2>1. CASE client' = [client EXCEPT ![c] = Off]
      BY <1>1, <2>1
    <2>2. CASE client' = [client EXCEPT ![c] = crashed]
      BY <1>1a, <2>2
    <2>3. CASE /\ client' = [client EXCEPT ![c] = y]
               /\ now.proc = "up" /\ now.conn # "reconnecting"
      <3>1. now.timer = FALSE
        BY <1>0, <2>3 DEF Matched, ClientRecord
      <3>2. /\ y \in ClientRecord /\ y.ws = None /\ y.proc = "up"
            /\ y.conn \in {"disconnected", "reconnecting"}
            /\ y.timer <=> y.conn = "reconnecting"
        BY <1>0, <2>3, <3>1, ClientTypes
      <3> HIDE DEF y
      <3> QED  BY <2>3, <3>2
    <2>4. CASE OnRefused(c)
      BY <2>1, <2>2, <2>3, <2>4 DEF OnRefused, Running
    <2>5. CASE OnClose(c)
      BY <1>0, <2>3, <2>5 DEF OnClose, Running, Records
    <2>6. CASE \/ Leave(c) \/ Kill(c)
               \/ OnRegistrationTimeout(c) /\ Command[c] = "join"
      BY <2>1, <2>6 DEF Leave, Kill, OnRegistrationTimeout
    <2> QED  BY <2>4, <2>5, <2>6
  <1>3. /\ socket' \in [Sockets -> SocketRecord]
        /\ \A s \in Sockets : IF s = client[c].ws
                              THEN socket'[s].near = "closed"
                              ELSE socket'[s] = socket[s]
    <2>1. CASE OnRefused(c)
      BY <1>0, <2>1, SocketTypes DEF OnRefused, Records
    <2>2. CASE \/ OnClose(c) \/ Kill(c)
               \/ OnRegistrationTimeout(c) /\ Command[c] = "join"
      BY <1>0, <2>2, HangupCloses DEF OnClose, Kill, OnRegistrationTimeout
    <2>3. CASE Leave(c)
      <3>1. Frame("deregister", client[c].agentId) \in Frames
        BY <1>0, FrameTypes DEF ClientRecord
      <3>2. \A s \in Sockets :
                LET k == CloseNear(Send(socket[s], Frame("deregister", client[c].agentId)))
                IN  k \in SocketRecord /\ k.near = "closed"
        BY <1>0, <3>1, QueueTypes, SocketTypes DEF Records
      <3> QED  BY <1>0, <2>3, <3>2 DEF Leave, Records
    <2> QED  BY <2>1, <2>2, <2>3
  <1>4. Records'
    BY <1>0, <1>2, <1>3 DEF Records
  <1> QED  BY <1>2, <1>3, <1>4, Releases

\* A socket opens: client and server both know.
LEMMA OpenStep ==
    ASSUME MatchInv, NEW c \in Clients, OnOpen(c)
    PROVE  MatchInv'
  <1> DEFINE x == client[c]
             up == IF x.start = "connecting" THEN <<Frame("register", None)>> ELSE <<>>
             k == [near |-> "open", far |-> "open", down |-> <<>>, up |-> up]
  <1>0. Records /\ Matched(c) /\ x \in ClientRecord /\ x.conn = "connecting" /\ x.proc = "up"
    BY DEF MatchInv, Records, OnOpen, Running
  <1>1. x.ws \in Sockets
    BY <1>0 DEF Matched, ClientRecord
  <1>2. k \in SocketRecord /\ k.near = "open"
    BY FrameTypes DEF SocketRecord
  <1>3. socket' = [socket EXCEPT ![x.ws] = k]
    BY DEF OnOpen
  <1>4. PICK y \in ClientRecord : /\ client' = [client EXCEPT ![c] = y]
                                 /\ y.ws = x.ws /\ y.conn = "connected"
                                 /\ y.timer = x.timer /\ y.proc = "up"
    <2> DEFINE start == IF x.start = "connecting" THEN "registering" ELSE x.start
               y == [x EXCEPT !.conn = "connected", !.attempts = 0, !.start = start]
    <2>1. y \in ClientRecord /\ y.ws = x.ws /\ y.conn = "connected"
          /\ y.timer = x.timer /\ y.proc = "up"
      <3>1. 0 \in 0..MaxAttempts
        BY SessionAssumption
      <3>2. start \in {"registering", "idle", "done", "failed"}
        BY <1>0 DEF ClientRecord
      <3> HIDE DEF start
      <3> QED  BY <1>0, <3>1, <3>2 DEF ClientRecord
    <2>2. client' = [client EXCEPT ![c] = y]
      BY <1>0 DEF OnOpen, Records
    <2> QED  BY <2>1, <2>2
  <1> HIDE DEF k
  <1>5. Records'
    BY <1>0, <1>2, <1>3, <1>4 DEF Records
  <1>6. /\ client'[c] = y /\ \A d \in Clients \ {c} : client'[d] = client[d]
        /\ socket'[x.ws] = k /\ \A s \in Sockets \ {x.ws} : socket'[s] = socket[s]
    BY <1>0, <1>1, <1>3, <1>4 DEF Records
  <1>7. ASSUME NEW d \in Clients, d # c  PROVE client[d].ws # x.ws
    BY <1>1, <1>7, NoneIsNothing DEF MatchInv
  <1>8. ASSUME NEW d \in Clients  PROVE Matched(d)'
    <2>1. CASE d = c
      BY <1>0, <1>1, <1>2, <1>4, <1>6, <2>1 DEF Matched
    <2>2. CASE d # c
      <3>1. client'[d] = client[d] /\ Matched(d)
        BY <1>6, <2>2 DEF MatchInv
      <3>2. client[d].ws # None => socket'[client[d].ws] = socket[client[d].ws]
        BY <1>6, <1>7, <2>2 DEF MatchInv, Records, ClientRecord
      <3> QED  BY <3>1, <3>2 DEF Matched
    <2> QED  BY <2>1, <2>2
  <1>9. \A d \in Clients : client'[d].ws = client[d].ws
    BY <1>4, <1>6
  <1>10. \A s \in Sockets : socket'[s].near # "closed" =>
             \E d \in Clients : client'[d].ws = s
    BY <1>6, <1>9 DEF MatchInv
  <1> QED  BY <1>5, <1>8, <1>9, <1>10 DEF MatchInv

\* A client's other steps leave its socket open or closed as it is.
LEMMA QuietStep ==
    ASSUME MatchInv, NEW c \in Clients,
           \/ OnRegistered(c) \/ Beat(c)
           \/ OnRegistrationTimeout(c) /\ Command[c] # "join"
    PROVE  MatchInv'
  <1>0. Records /\ client[c] \in ClientRecord /\ Matched(c)
    BY DEF MatchInv, Records
  <1>1. CASE OnRegistered(c)
    <2> DEFINE k == Socket(c)
               frame == Head(k.down)
               rest == [k EXCEPT !.down = Tail(@)]
    <2>1. client[c].ws \in Sockets
      BY <1>0, <1>1 DEF OnRegistered, Matched, ClientRecord
    <2>2. k \in SocketRecord /\ k.down # <<>>
      BY <1>0, <1>1, <2>1 DEF OnRegistered, Socket, Records
    <2>3. frame \in Frames
      BY <2>2 DEF SocketRecord
    <2>4. frame.id \in Ids \cup {None}
      BY <2>3 DEF Frames
    <2>5. rest \in SocketRecord /\ rest.near = k.near
      BY <2>2, <2>3, QueueTypes
    <2>6. /\ Send(rest, Frame("heartbeat", frame.id)) \in SocketRecord
          /\ Send(rest, Frame("heartbeat", frame.id)).near = k.near
      BY <2>4, <2>5, FrameTypes, QueueTypes
    <2>7. socket' = [socket EXCEPT ![client[c].ws] =
                        Send(rest, Frame("heartbeat", frame.id))]
      BY <1>0, <1>1, <2>1 DEF OnRegistered, Socket, Records
    <2>8. client' \in [Clients -> ClientRecord]
      BY <1>0, <1>1, <2>4 DEF OnRegistered, Records, ClientRecord
    <2>9. \A s \in Sockets : socket'[s] \in SocketRecord /\ socket'[s].near = socket[s].near
      BY <1>0, <2>1, <2>6, <2>7 DEF Records, Socket
    <2>10. \A d \in Clients : /\ client'[d].ws = client[d].ws
                              /\ client'[d].conn = client[d].conn
                              /\ client'[d].timer = client[d].timer
                              /\ client'[d].proc = client[d].proc
      BY <1>0, <1>1 DEF OnRegistered, Records, ClientRecord
    <2> QED  BY <1>0, <2>7, <2>8, <2>9, <2>10, Keeps DEF Records
  <1>2. CASE Beat(c)
    <2>1. client[c].ws \in Sockets /\ Frame("heartbeat", client[c].agentId) \in Frames
      BY <1>0, <1>2, FrameTypes DEF Beat, Matched, ClientRecord
    <2> DEFINE k == Send(socket[client[c].ws], Frame("heartbeat", client[c].agentId))
    <2>2. k \in SocketRecord /\ k.near = socket[client[c].ws].near
      BY <1>0, <2>1, QueueTypes DEF Records
    <2>3. socket' = [socket EXCEPT ![client[c].ws] = k]
      BY <1>0, <1>2, <2>1 DEF Beat, Records
    <2> HIDE DEF k
    <2>4. \A s \in Sockets : socket'[s] \in SocketRecord /\ socket'[s].near = socket[s].near
      BY <1>0, <2>1, <2>2, <2>3 DEF Records
    <2> QED  BY <1>0, <1>2, <2>3, <2>4, Keeps DEF Beat, Records
  <1>3. CASE OnRegistrationTimeout(c) /\ Command[c] # "join"
    BY <1>0, <1>3, Keeps DEF OnRegistrationTimeout, Records, ClientRecord
  <1> QED  BY <1>1, <1>2, <1>3

\* The server's steps leave the clients, and their ends of the sockets, alone.
LEMMA ServerStep ==
    ASSUME MatchInv, TablesInv,
           \/ \E s \in Sockets : OnMessage(s) \/ OnSocketClose(s) \/ Break(s)
           \/ \E id \in Ids : OnHeartbeatTimeout(id)
           \/ Stop \/ Exit \/ Start
    PROVE  MatchInv'
  <1>0. Records
    BY DEF MatchInv
  <1>1. SUFFICES /\ client' = client
                 /\ \E f \in [Sockets -> SocketRecord] :
                       /\ socket' = f
                       /\ \A s \in Sockets : f[s].near = socket[s].near
    BY <1>0, <1>1, Keeps DEF Records
  <1>2. ASSUME NEW s \in Sockets, NEW k \in SocketRecord, k.near = socket[s].near,
               socket' = [socket EXCEPT ![s] = k]
        PROVE  \E f \in [Sockets -> SocketRecord] :
                   /\ socket' = f
                   /\ \A t \in Sockets : f[t].near = socket[t].near
    BY <1>0, <1>2 DEF Records
  <1>3. ASSUME NEW s \in Sockets, OnMessage(s)
        PROVE  \E k \in SocketRecord :
                   k.near = socket[s].near /\ socket' = [socket EXCEPT ![s] = k]
    <2> DEFINE k == socket[s]
               rest == [k EXCEPT !.up = Tail(k.up)]
    <2>1. k \in SocketRecord /\ k.up # <<>>
      BY <1>0, <1>3 DEF Records, OnMessage
    <2>2. rest \in SocketRecord /\ rest.near = k.near /\ rest.down = k.down
      BY <2>1, FrameTypes, QueueTypes DEF SocketRecord
    <2>3. CloseFar(rest) \in SocketRecord /\ CloseFar(rest).near = k.near
      BY <2>2, SocketTypes
    <2>4. CASE socket' = [socket EXCEPT ![s] = rest]
      BY <2>2, <2>4
    <2>5. CASE socket' = [socket EXCEPT ![s] = CloseFar(rest)]
      BY <2>3, <2>5
    <2>6. CASE Register(s) /\ socket' = [socket EXCEPT ![s] =
                  [rest EXCEPT !.down = Append(k.down, Frame("registered", lastId'))]]
      <3> DEFINE reply == Frame("registered", lastId')
                 new == [rest EXCEPT !.down = Append(rest.down, reply)]
      <3>1. lastId' \in Ids
        BY <2>6, SessionAssumption DEF Register, TablesInv, TablesOK, Ids
      <3>2. reply \in Frames
        BY <3>1, FrameTypes
      <3> HIDE DEF reply
      <3>3. new \in SocketRecord /\ new.near = k.near
        BY <2>2, <3>2, QueueTypes
      <3>4. socket' = [socket EXCEPT ![s] = new]
        BY <2>2, <2>6 DEF reply
      <3> QED  BY <3>3, <3>4
    <2> QED  BY <1>3, <2>4, <2>5, <2>6 DEF OnMessage
  <1>4. ASSUME NEW s \in Sockets, OnSocketClose(s)
        PROVE  \E k \in SocketRecord :
                   k.near = socket[s].near /\ socket' = [socket EXCEPT ![s] = k]
    <2>1. socket' = [socket EXCEPT ![s] = DropFar(socket[s])]
      BY <1>4 DEF OnSocketClose
    <2>2. DropFar(socket[s]) \in SocketRecord /\ DropFar(socket[s]).near = socket[s].near
      BY <1>0, SocketTypes DEF Records
    <2> QED  BY <2>1, <2>2
  <1>5. ASSUME NEW s \in Sockets, Break(s)
        PROVE  \E k \in SocketRecord :
                   k.near = socket[s].near /\ socket' = [socket EXCEPT ![s] = k]
    <2> DEFINE k == [socket[s] EXCEPT !.up = <<Close>>, !.down = <<Close>>]
    <2>1. k \in SocketRecord /\ k.near = socket[s].near
      <3>1. <<Close>> \in Seq(Frames) /\ socket[s] \in SocketRecord
        BY <1>0, FrameTypes DEF Records
      <3> QED  BY <3>1 DEF SocketRecord
    <2>2. socket' = [socket EXCEPT ![s] = k]
      BY <1>0, <1>5 DEF Break, Records
    <2> QED  BY <2>1, <2>2
  <1>6. ASSUME NEW id \in Ids, OnHeartbeatTimeout(id)
        PROVE  \E f \in [Sockets -> SocketRecord] :
                   /\ socket' = f
                   /\ \A t \in Sockets : f[t].near = socket[t].near
    <2> DEFINE s == agentSockets[id]
    <2>1. s \in Sockets
      BY <1>6, NoneIsNothing DEF OnHeartbeatTimeout, TablesInv, TablesOK, TablesAgree
    <2>2. socket' = [socket EXCEPT ![s] = CloseFar(socket[s])]
      BY <1>6 DEF OnHeartbeatTimeout
    <2>3. CloseFar(socket[s]) \in SocketRecord /\ CloseFar(socket[s]).near = socket[s].near
      BY <1>0, <2>1, SocketTypes DEF Records
    <2> QED  BY <1>2, <2>1, <2>2, <2>3
  <1>7. ASSUME Stop \/ Exit \/ Start
        PROVE  \E f \in [Sockets -> SocketRecord] :
                   /\ socket' = f
                   /\ \A t \in Sockets : f[t].near = socket[t].near
    <2>1. CASE Stop
      BY <1>0, <2>1, SocketTypes DEF Stop, Records
    <2>2. CASE Exit
      BY <1>0, <2>2, SocketTypes DEF Exit, Records
    <2>3. CASE Start
      BY <1>0, <2>3 DEF Start, Records
    <2> QED  BY <1>7, <2>1, <2>2, <2>3
  <1>8. client' = client
    BY DEF OnMessage, OnSocketClose, Break, OnHeartbeatTimeout, Stop, Exit, Start
  <1> QED  BY <1>2, <1>3, <1>4, <1>5, <1>6, <1>7, <1>8

\* At first no client has a socket.
LEMMA MatchInit ==
    ASSUME Init
    PROVE  MatchInv
  <1>1. Idle \in SocketRecord
    <2>1. <<>> \in Seq(Frames)
      OBVIOUS
    <2> QED  BY <2>1 DEF Idle, SocketRecord
  <1>2. Records
    BY <1>1, ClientTypes DEF Init, Records
  <1>3. \A s \in Sockets : socket[s].near = "closed"
    BY DEF Init, Idle
  <1> QED  BY <1>2, <1>3, NoneIsNothing DEF Init, MatchInv, Matched, Off

\* MatchInv is inductive.
LEMMA MatchStep ==
    ASSUME MatchInv, TablesInv, [Next]_vars
    PROVE  MatchInv'
  <1>1. CASE UNCHANGED vars
    <2>1. client' = client /\ socket' = socket
      BY <1>1 DEF vars
    <2> QED  BY <2>1 DEF MatchInv, Records, Matched
  <1>2. ASSUME NEW c \in Clients,
               \/ Launch(c) \/ OnOpen(c) \/ OnRefused(c) \/ OnClose(c) \/ OnTimer(c)
               \/ OnRegistered(c) \/ OnRegistrationTimeout(c) \/ Beat(c)
               \/ Leave(c) \/ Kill(c)
        PROVE  MatchInv'
    BY <1>2, OpeningStep, OpenStep, ClosingStep, QuietStep
  <1> QED  BY <1>1, <1>2, ServerStep DEF Next

\* Whatever is written to a variable is of its type, and the attempts to
\* reconnect stay within their limit.
THEOREM SessionTypes == Spec => []TypeOK
  <1> DEFINE Inv == /\ MatchInv /\ TablesInv
                    /\ server \in {"up", "stopping", "down"} /\ lastId \in 0..MaxIds
  <1>1. Init => Inv
    BY MatchInit, EmptyTablesAgree, SessionAssumption DEF Init
  <1>2. Inv /\ [Next]_vars => Inv'
    <2> SUFFICES ASSUME Inv, [Next]_vars  PROVE Inv'
      OBVIOUS
    <2>1. MatchInv' /\ TablesInv'
      BY MatchStep, TablesStep
    <2>2. server' \in {"up", "stopping", "down"} /\ lastId' \in 0..MaxIds
      <3>1. CASE UNCHANGED vars
        BY <3>1 DEF vars
      <3>2. ASSUME NEW c \in Clients,
                   \/ Launch(c) \/ OnOpen(c) \/ OnRefused(c) \/ OnClose(c)
                   \/ OnTimer(c) \/ OnRegistered(c) \/ OnRegistrationTimeout(c)
                   \/ Beat(c) \/ Leave(c) \/ Kill(c)
            PROVE  server' = server /\ lastId' = lastId
        BY <3>2 DEF Launch, OnOpen, OnRefused, OnClose, OnTimer, OnRegistered,
                    OnRegistrationTimeout, Beat, Leave, Kill
      <3>3. ASSUME NEW s \in Sockets, OnMessage(s)
            PROVE  server' = server /\ lastId' \in 0..MaxIds
        <4>1. CASE Register(s)
          BY <3>3, <4>1, SessionAssumption DEF OnMessage, Register
        <4>2. CASE UNCHANGED lastId
          BY <3>3, <4>2 DEF OnMessage
        <4> QED  BY <3>3, <4>1, <4>2 DEF OnMessage
      <3>4. ASSUME NEW s \in Sockets, OnSocketClose(s) \/ Break(s)
            PROVE  server' = server /\ lastId' = lastId
        BY <3>4 DEF OnSocketClose, Break
      <3>5. ASSUME NEW id \in Ids, OnHeartbeatTimeout(id)
            PROVE  server' = server /\ lastId' = lastId
        BY <3>5 DEF OnHeartbeatTimeout
      <3>6. CASE Stop \/ Exit \/ Start
        BY <3>6 DEF Stop, Exit, Start
      <3> QED  BY <3>1, <3>2, <3>3, <3>4, <3>5, <3>6 DEF Next
    <2> QED  BY <2>1, <2>2
  <1>3. Inv => TypeOK
    BY DEF MatchInv, Records, TablesInv, TablesOK, TypeOK
  <1> QED  BY <1>1, <1>2, <1>3, PTL DEF Spec

\* A client's connection never claims more, or less, than its socket is, and no
\* socket is left open behind its back.
THEOREM StateIsTrue == Spec => []StateMatchesSocket
  <1> DEFINE Inv == MatchInv /\ TablesInv
  <1>1. Init => Inv
    BY MatchInit, EmptyTablesAgree DEF Init
  <1>2. Inv /\ [Next]_vars => Inv'
    BY MatchStep, TablesStep
  <1>3. Inv => StateMatchesSocket
    <2> SUFFICES ASSUME Inv  PROVE StateMatchesSocket
      OBVIOUS
    <2>1. ASSUME NEW c \in Clients
          PROVE  /\ client[c].conn = "connected" => Socket(c).near = "open"
                 /\ client[c].conn = "connecting" => Socket(c).near = "opening"
                 /\ client[c].timer <=> client[c].conn = "reconnecting"
      BY DEF MatchInv, Matched, Socket
    <2>2. ASSUME NEW s \in Sockets, socket[s].near # "closed"
          PROVE  \E c \in Clients :
                     client[c].ws = s /\ client[c].conn \in {"connecting", "connected"}
      BY <2>2, NoneIsNothing DEF MatchInv, Matched
    <2> QED  BY <2>1, <2>2 DEF StateMatchesSocket
  <1> QED  BY <1>1, <1>2, <1>3, PTL DEF Spec
=============================================================================
