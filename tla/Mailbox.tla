------------------------------- MODULE Mailbox -------------------------------
(***************************************************************************)
(* Peer messages from the server's database to the user of an MCP client:  *)
(* the peer.message handler of packages/nexus-server/src/server.ts with    *)
(* the messages table of memory-store.ts, the live copies that the router  *)
(* sends, the client's inbox (packages/mcp-server/src/inbox.ts) and the    *)
(* tools that query the server (tools/inbox.ts, tools/status.ts and those  *)
(* that use its queryNexus).                                               *)
(*                                                                         *)
(* Every message takes two ways to its recipient: it is sent live, and it  *)
(* is stored until a query returns it and marks it read.  Task assignments *)
(* and debate invitations ("notices") are sent live only.                  *)
(*                                                                         *)
(* Tool calls of one client overlap: a call takes the unread entries of    *)
(* the local inbox, sends its query and waits.  No call compares an answer *)
(* with its own query or looks at the sender: every one that waits looks   *)
(* at every message, and what a peer shares can pass for an answer.        *)
(* What a call does with its answer happens later than the arrival of the  *)
(* answer, since it goes through a promise.                                *)
(*                                                                         *)
(* Left out: show_all, which shows more and marks no less; the banner with *)
(* previews of unread messages that other tools add to their text;         *)
(* announcements that an agent has joined or left; a share that begins     *)
(* with "__nexus_query", which is neither stored nor kept nor taken; and a *)
(* peer's inbox_response whose `messages' are no list, on which the call   *)
(* that takes it never ends.                                               *)
(***************************************************************************)
EXTENDS Naturals, FiniteSets, Sequences, SequencesExt

CONSTANTS
    Agents,          \* agent ids, one per registration
    Readers,         \* those whose user reads the inbox
    Targets,         \* bound: whom messages are sent to
    Calls,           \* tool calls that one client can have open at a time
    ReadLimit,       \* getUnreadMessages(agentId, 50)
    MaxSize,         \* MessageInbox.maxSize: 100
    MaxMessages,     \* bound: peer messages ever sent
    MaxNotices,      \* bound: notices ever sent
    MaxCalls         \* bound: tool calls ever made

ASSUME ReadersAreAgents == Readers \subseteq Agents
ASSUME TargetsAreAgents == Targets \subseteq Agents \union {"broadcast"}
ASSUME LimitsArePositive == ReadLimit \in Nat \ {0} /\ MaxSize \in Nat \ {0}
ASSUME BoundsAreNatural == {MaxMessages, MaxNotices, MaxCalls} \subseteq Nat

VARIABLES
    messages,        \* the messages table, in the order of created_at: to whom
    readBy,          \* its read_by column
    online,          \* agents with a socket in the router
    gone,            \* agents that were online
    down,            \* from the server to each client, FIFO
    up,              \* queries of each client that the server has not handled
    inbox,           \* MessageInbox.messages of each client
    calls,           \* the open tool calls of each client
    noticed, called, \* how many notices and calls there have been
    shown,           \* what the user of each client has been shown,
    again,           \*   shown a second time,
    unasked,         \*   and what came in an answer that no call waited for
    leftover,        \* what a query left unread because of its limit
    disturbed        \* clients with calls that overlapped or timed out, or were
                     \*   told to leave the messages unread, or of which an inbox
                     \*   query took a peer's inbox_response for its answer

table == <<messages, readBy>>
links == <<online, gone>>
ghosts == <<shown, again, unasked, leftover, disturbed>>
vars == <<table, links, down, up, inbox, calls, noticed, called, ghosts>>

\* Messages are numbered 1, 2, ...; notices MaxMessages + 1, ...; and 0 is a message
\* that only a peer's inbox_response lists.
Ids == 0 .. MaxMessages + MaxNotices

Notice(n) == n > MaxMessages

\* What a peer can send: a context_share whose content is JSON with the type
\* inbox_response ("inbox"), another ..._response ("response") or any other type
\* ("share"); what looks like internal traffic in a message of another kind
\* ("hidden"); or anything else ("chat").
PeerTypes == {"chat", "share", "hidden", "inbox", "response"}

\* A message under way, or the answer to a query: the inbox_response to an inbox
\* query, another ..._response to the others.
Packet ==
    [type : (PeerTypes \ {"hidden"}) \union {"notice"}, ids : SUBSET Ids, query : 0 .. MaxCalls]

\* A query is known by the number of its call; 0 is none, that of what no query
\* has asked for.
Query == [tool : {"inbox", "status"}, query : 1 .. MaxCalls]

Entry == [id : Ids, read : BOOLEAN]

\* tool: nexus_read_inbox, or a tool that uses queryNexus.  to: the query that the
\* answer was given to.
Call ==
    [tool : {"inbox", "status"}, mark : BOOLEAN,
     local : SUBSET Ids,
     query : 1 .. MaxCalls,
     got : {"none", "timeout", "answer"},
     answer : SUBSET Ids,
     to : 0 .. MaxCalls]

Idle == [tool |-> "none"]

Waiting(a) == {c \in Calls : calls[a][c] # Idle /\ calls[a][c].got = "none"}

Init ==
    /\ messages = <<>>
    /\ readBy = <<>>
    /\ online = {}
    /\ gone = {}
    /\ down = [a \in Agents |-> <<>>]
    /\ up = [a \in Agents |-> <<>>]
    /\ inbox = [a \in Agents |-> <<>>]
    /\ calls = [a \in Agents |-> [c \in Calls |-> Idle]]
    /\ noticed = 0
    /\ called = 0
    /\ shown = [a \in Agents |-> {}]
    /\ again = [a \in Agents |-> {}]
    /\ unasked = [a \in Agents |-> {}]
    /\ leftover = [a \in Agents |-> {}]
    /\ disturbed = {}

-----------------------------------------------------------------------------
(* The server.                                                              *)

Register(a) ==
    /\ a \notin online \union gone
    /\ online' = online \union {a}
    /\ UNCHANGED <<table, gone, down, up, inbox, calls, noticed, called, ghosts>>

\* An agent that leaves and keeps its socket in the router.
Leave_KeepsSocket(a) ==
    /\ a \in online
    /\ gone' = gone \union {a}
    /\ inbox' = [inbox EXCEPT ![a] = <<>>]
    /\ UNCHANGED <<table, online, down, up, calls, noticed, called, ghosts>>

\* The client's process ends, with its inbox, or it comes back as another agent.
Leave(a) ==
    /\ a \in online
    /\ online' = online \ {a}
    /\ gone' = gone \union {a}
    /\ down' = [down EXCEPT ![a] = <<>>]
    /\ up' = [up EXCEPT ![a] = <<>>]
    /\ inbox' = [inbox EXCEPT ![a] = <<>>]
    /\ calls' = [calls EXCEPT ![a] = [c \in Calls |-> Idle]]
    /\ UNCHANGED <<table, noticed, called, ghosts>>

\* sendToOrBroadcast: to the target's socket, or to all but the sender's.
LiveTo(from, to) ==
    IF to = "broadcast" THEN online \ {from} ELSE online \intersect {to}

\* What the clients of other agents receive is left out.
Deliver(A, packet) ==
    down' = [a \in Agents |->
                IF a \in A \intersect Readers THEN Append(down[a], packet) ELSE down[a]]

\* What a peer message is to its recipient's client: an entry for the inbox, or
\* internal traffic, with a list of messages in an inbox_response.
Contents(type, n) ==
    CASE type \in {"chat", "share"} -> {{n}}
      [] type = "inbox" -> {{}, {0}}
      [] OTHER -> {{}}

\* peer.message: stored first, then sent.  What a client ignores is not sent here.
PeerMessage(from, to, type) ==
    LET n == Len(messages) + 1
        receivers == IF type = "hidden" THEN {} ELSE LiveTo(from, to)
    IN  /\ from \in online
        /\ n <= MaxMessages
        /\ messages' = Append(messages, to)
        /\ readBy' = Append(readBy, {})
        /\ \E ids \in Contents(type, n) :
              Deliver(receivers, [type |-> type, ids |-> ids, query |-> 0])
        /\ UNCHANGED <<links, up, inbox, calls, noticed, called, ghosts>>

\* task.assigned and debate.initiated, whenever the coordinator sends them.
SendNotice(a) ==
    /\ noticed < MaxNotices
    /\ a \in online
    /\ noticed' = noticed + 1
    /\ Deliver({a}, [type |-> "notice", ids |-> {MaxMessages + noticed + 1}, query |-> 0])
    /\ UNCHANGED <<table, links, up, inbox, calls, called, ghosts>>

Unread(a) ==
    {n \in DOMAIN messages : messages[n] \in {a, "broadcast"} /\ a \notin readBy[n]}

\* getUnreadMessages: the newest ReadLimit of them.
UnreadMessages(a) ==
    {n \in Unread(a) : Cardinality({m \in Unread(a) : m > n}) < ReadLimit}

\* A handler that marks read all that is unread.
Marked_AllUnread(a) == Unread(a)

\* __nexus_query_inbox marks read what it returns.
Marked(a) == UnreadMessages(a)

\* The answer to the next query of a.
HandleQuery(a) ==
    LET q == Head(up[a])
    IN  /\ up[a] # <<>>
        /\ up' = [up EXCEPT ![a] = Tail(@)]
        /\ IF q.tool = "inbox"
           THEN /\ Deliver({a}, [type |-> "inbox", ids |-> UnreadMessages(a),
                                 query |-> q.query])
                /\ readBy' = [n \in DOMAIN readBy |->
                       IF n \in Marked(a) THEN readBy[n] \union {a} ELSE readBy[n]]
                /\ leftover' =
                       [leftover EXCEPT ![a] = @ \union (Unread(a) \ UnreadMessages(a))]
           ELSE /\ Deliver({a}, [type |-> "response", ids |-> {}, query |-> q.query])
                /\ UNCHANGED <<readBy, leftover>>
        /\ UNCHANGED <<messages, links, inbox, calls, noticed, called,
                       shown, again, unasked, disturbed>>

-----------------------------------------------------------------------------
(* The client.                                                              *)

\* The last MaxSize entries: read or not.
Trim(entries) ==
    IF Len(entries) > MaxSize
    THEN SubSeq(entries, Len(entries) - MaxSize + 1, Len(entries))
    ELSE entries

\* MessageInbox's listener: it leaves alone what looks like an answer or a query,
\* whoever sent it, and trims on a peer message only.
Stored(entries, packet) ==
    LET added == entries \o SetToSeq({[id |-> n, read |-> FALSE] : n \in packet.ids})
    IN  CASE packet.type \in {"chat", "share"} -> Trim(added)
          [] packet.type = "notice" -> added
          [] OTHER -> entries

\* Any context_share with a `type', whoever waits for it.
Takes_Untyped(call, type) == type \in {"share", "inbox", "response"}

\* A waiting inbox query takes any inbox_response; queryNexus takes any
\* context_share with a `type'.
Takes(call, type) ==
    \/ call.tool = "inbox" /\ type = "inbox"
    \/ call.tool = "status" /\ type \in {"share", "inbox", "response"}

Receive(a) ==
    LET packet == Head(down[a])
        takers == {c \in Waiting(a) : Takes(calls[a][c], packet.type)}
        queries == {c \in takers : calls[a][c].tool = "inbox"}
    IN  /\ down[a] # <<>>
        /\ down' = [down EXCEPT ![a] = Tail(@)]
        /\ inbox' = [inbox EXCEPT ![a] = Stored(@, packet)]
        /\ calls' = [calls EXCEPT ![a] = [c \in Calls |->
               IF c \in takers
               THEN [calls[a][c] EXCEPT !.got = "answer", !.answer = packet.ids,
                                        !.to = packet.query]
               ELSE calls[a][c]]]
        /\ unasked' = IF packet.type = "inbox" /\ queries = {}
                      THEN [unasked EXCEPT ![a] = @ \union (packet.ids \ {0})]
                      ELSE unasked
        /\ disturbed' = IF packet.type = "inbox" /\ packet.query = 0 /\ queries # {}
                        THEN disturbed \union {a} ELSE disturbed
        /\ UNCHANGED <<table, links, up, noticed, called, shown, again, leftover>>

\* A tool call begins: what the inbox shows now, then the query.
StartCall(a, c, tool, mark) ==
    /\ a \in online
    /\ called < MaxCalls
    /\ calls[a][c] = Idle
    /\ calls' = [calls EXCEPT ![a][c] =
           [tool |-> tool, mark |-> mark,
            local |-> {e.id : e \in {e \in ToSet(inbox[a]) : ~ e.read}},
            query |-> called + 1, got |-> "none", answer |-> {}, to |-> 0]]
    /\ up' = [up EXCEPT ![a] = Append(@, [tool |-> tool, query |-> called + 1])]
    /\ called' = called + 1
    /\ disturbed' = IF \E d \in Calls : calls[a][d] # Idle
                    THEN disturbed \union {a} ELSE disturbed
    /\ UNCHANGED <<table, links, down, inbox, noticed, shown, again, unasked, leftover>>

\* Five seconds without an answer.
Timeout(a, c) ==
    /\ c \in Waiting(a)
    /\ calls' = [calls EXCEPT ![a][c].got = "timeout"]
    /\ disturbed' = disturbed \union {a}
    /\ UNCHANGED <<table, links, down, up, inbox, noticed, called,
                   shown, again, unasked, leftover>>

\* A call that marks nothing.
MarkAllRead_Not(entries, displayed) == entries

\* markAllRead: whatever is in the inbox by now, unless nothing was displayed.
MarkAllRead(entries, displayed) ==
    IF displayed = {} THEN entries
    ELSE [i \in DOMAIN entries |-> [entries[i] EXCEPT !.read = TRUE]]

\* The call resumes with its answer.  nexus_read_inbox merges it with the
\* entries it took before.
Finish(a, c) ==
    LET call == calls[a][c]
        displayed == IF call.tool = "inbox" THEN call.local \union call.answer ELSE {}
    IN  /\ call # Idle
        /\ call.got # "none"
        /\ calls' = [calls EXCEPT ![a][c] = Idle]
        /\ inbox' = IF call.mark
                    THEN [inbox EXCEPT ![a] = MarkAllRead(@, displayed)] ELSE inbox
        /\ shown' = [shown EXCEPT ![a] = @ \union displayed]
        /\ again' = [again EXCEPT ![a] = @ \union (displayed \intersect shown[a])]
        /\ disturbed' = IF call.mark THEN disturbed ELSE disturbed \union {a}
        /\ UNCHANGED <<table, links, down, up, noticed, called, unasked, leftover>>

ClientStep(a) ==
    \/ Receive(a)
    \/ \E c \in Calls :
          \/ \E mark \in BOOLEAN : StartCall(a, c, "inbox", mark)
          \/ StartCall(a, c, "status", TRUE)
          \/ Timeout(a, c)
          \/ Finish(a, c)

Next ==
    \/ \E a \in Agents :
          \/ Register(a)
          \/ Leave(a)
          \/ HandleQuery(a)
          \/ SendNotice(a)
          \/ \E to \in Targets, type \in PeerTypes : PeerMessage(a, to, type)
    \/ \E a \in Readers : ClientStep(a)

Spec == Init /\ [][Next]_vars

-----------------------------------------------------------------------------
\* Tables, sockets, inboxes and calls keep their types; a client that has left
\* has no socket.
TypeOK ==
    /\ messages \in Seq(Targets)
    /\ readBy \in Seq(SUBSET Agents)
    /\ Len(readBy) = Len(messages)
    /\ online \subseteq Agents
    /\ gone \subseteq Agents \ online
    /\ down \in [Agents -> Seq(Packet)]
    /\ up \in [Agents -> Seq(Query)]
    /\ inbox \in [Agents -> Seq(Entry)]
    /\ calls \in [Agents -> [Calls -> Call \union {Idle}]]
    /\ noticed \in 0 .. MaxNotices
    /\ called \in 0 .. MaxCalls
    /\ {shown, again, unasked, leftover} \subseteq [Agents -> SUBSET Ids]
    /\ disturbed \subseteq Agents

\* What is in an inbox answer that is under way or has not been shown yet.
InAnswer(a) ==
    (UNION {down[a][i].ids : i \in {i \in DOMAIN down[a] : down[a][i].type = "inbox"}})
      \union
    (UNION {calls[a][c].answer : c \in {c \in Calls : calls[a][c] # Idle
                                             /\ calls[a][c].tool = "inbox"}})

\* The server marks a message read before it sends it.  The message is shown
\* all the same, or on its way to be, unless the answer came when no inbox query
\* was waiting any more; and that takes calls that overlap or time out, or a
\* peer's inbox_response that an earlier one took for its answer.
MarkedReadIsShown ==
    \A a \in online \intersect Readers :
        /\ \A n \in DOMAIN messages :
              a \in readBy[n] => n \in shown[a] \union InAnswer(a) \union unasked[a]
        /\ a \notin disturbed => unasked[a] = {}

\* A message that arrives live and from the database is shown once, for calls
\* one after the other that mark as read what they show and take no peer's
\* inbox_response; unless the database had more unread messages than a query
\* returns.
ShownOnce ==
    \A a \in Readers \ disturbed : again[a] \subseteq leftover[a]

\* Without any correlation, nexus_read_inbox still gets the answer to its own
\* query, whatever peers share and the other tools leave unanswered or take: only
\* calls that overlap or time out and a peer's inbox_response bring it another.
OwnAnswer ==
    \A a \in Readers \ disturbed, c \in Calls :
        calls[a][c] # Idle /\ calls[a][c].tool = "inbox" /\ calls[a][c].got = "answer"
            => calls[a][c].to = calls[a][c].query

-----------------------------------------------------------------------------
(* A statement of the code about itself that does not hold.                 *)

\* mcp-server/src/inbox.ts:4-5 "Without this, messages arrive at the runtime
\* EventEmitter but get dropped because no MCP tool is actively listening": with
\* the inbox, a notice is not dropped.  One that arrives while the tool awaits
\* its answer is marked read by it without having been shown.
NoticesAreShown ==
    \A a \in Readers : \A e \in ToSet(inbox[a]) :
        Notice(e.id) /\ e.read => e.id \in shown[a]
=============================================================================
