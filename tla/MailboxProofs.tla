---------------------------- MODULE MailboxProofs -----------------------------
(***************************************************************************)
(* Proofs about Mailbox, for any number of agents, messages, notices and   *)
(* overlapping calls, and any limit of a query and of the inbox.           *)
(*                                                                         *)
(* The safety properties of Mailbox are about one client at a time.  What  *)
(* makes them hold is where each message is: on the wire, in the client's  *)
(* inbox, taken by a call, in an answer, or shown.  MailInv says how these *)
(* places relate; its parts are                                            *)
(*   Wired     a live copy is ahead of the answers that hold the message,  *)
(*             and nowhere else while it is on the wire; what a peer sends *)
(*             for an answer holds no message of the table;                *)
(*   Kept      a message marked read is shown or on its way to be, unless  *)
(*             the answer came when no call waited;                        *)
(*   Orderly   as long as the client is not disturbed, the server's inbox  *)
(*             answer is due exactly while the only open call waits for    *)
(*             it;                                                         *)
(*   Own       then that answer is to this call's query;                   *)
(*   Once      and a message that was shown is nowhere any more, or a      *)
(*             query had left it unread.                                   *)
(***************************************************************************)
EXTENDS Mailbox, FiniteSetTheorems, SequenceTheorems, TLAPS

Live(packet) == packet.type \in {"chat", "share", "notice"}

\* A peer's inbox_response: it may list what is no message.
Forged(packet) == packet.type = "inbox" /\ packet.query = 0

Open(a, c) == calls[a][c] # Idle

ReadingInbox(a, c) == Open(a, c) /\ calls[a][c].tool = "inbox"

\* A message or notice that exists, and is one for a.
For(a, n) ==
    \/ n \in 1 .. Len(messages) /\ messages[n] \in {a, "broadcast"}
    \/ n \in MaxMessages + 1 .. MaxMessages + noticed

IsMarked(a, n) == n \in DOMAIN readBy /\ a \in readBy[n]

UnreadEntries(a) == {e.id : e \in {e \in ToSet(inbox[a]) : ~ e.read}}

\* n has arrived at the client: it is in the inbox, or a call has it.
Arrived(a, n) ==
    \/ \E e \in ToSet(inbox[a]) : e.id = n
    \/ \E c \in Calls : Open(a, c) /\ n \in calls[a][c].local
    \/ \E c \in Calls : ReadingInbox(a, c) /\ n \in calls[a][c].answer \ {0}
    \/ n \in shown[a] \ {0}

Wired(a) ==
    /\ \A i \in DOMAIN down[a] : \A n \in down[a][i].ids :
          IF Forged(down[a][i]) THEN n = 0 ELSE For(a, n)
    /\ \A n : Arrived(a, n) => For(a, n)
    /\ \A i, j \in DOMAIN down[a] :
          i < j /\ Live(down[a][j]) => down[a][i].ids \intersect down[a][j].ids = {}
    /\ \A j \in DOMAIN down[a] :
          Live(down[a][j]) => \A n \in down[a][j].ids : ~ Arrived(a, n)
    /\ up[a] # <<>> => a \in online

\* n is a message in an answer that is under way or that a call has not shown yet.
Answered(a, n) ==
    \/ \E i \in DOMAIN down[a] : down[a][i].type = "inbox" /\ n \in down[a][i].ids \ {0}
    \/ \E c \in Calls : ReadingInbox(a, c) /\ n \in calls[a][c].answer \ {0}

Kept(a) ==
    /\ \A n : Answered(a, n) => IsMarked(a, n)
    /\ a \in online => \A n : IsMarked(a, n) =>
          Answered(a, n) \/ n \in shown[a] \union unasked[a]
    /\ \A c \in Calls : Open(a, c) /\ calls[a][c].got = "none" => calls[a][c].answer = {}
    /\ \A n : IsMarked(a, n) => a \in online \union gone

InboxQuery(a, i) == i \in DOMAIN up[a] /\ up[a][i].tool = "inbox"
InboxAnswer(a, i) ==
    i \in DOMAIN down[a] /\ down[a][i].type = "inbox" /\ down[a][i].query # 0

Orderly(a) ==
    a \notin disturbed =>
        /\ unasked[a] = {}
        /\ \A c, d \in Calls : Open(a, c) /\ Open(a, d) => c = d
        /\ \A c \in Calls : Open(a, c) => calls[a][c].got \in {"none", "answer"}
        /\ \A c \in Calls : ReadingInbox(a, c) => 0 \notin calls[a][c].answer
        /\ (\E i : InboxQuery(a, i) \/ InboxAnswer(a, i)) =>
              \E c \in Calls : ReadingInbox(a, c) /\ calls[a][c].got = "none"
        /\ \A i, j : InboxQuery(a, i) /\ InboxQuery(a, j) => i = j
        /\ \A i, j : InboxAnswer(a, i) /\ InboxAnswer(a, j) => i = j
        /\ \A i, j : ~ (InboxQuery(a, i) /\ InboxAnswer(a, j))

\* The answer is the call's own, as is the query that is still due.
Own(a) ==
    a \notin disturbed =>
        \A c \in Calls : ReadingInbox(a, c) =>
            /\ \A i : InboxQuery(a, i) => up[a][i].query = calls[a][c].query
            /\ \A i : InboxAnswer(a, i) => down[a][i].query = calls[a][c].query
            /\ calls[a][c].got = "answer" => calls[a][c].to = calls[a][c].query

Once(a) ==
    a \notin disturbed =>
        /\ again[a] \subseteq leftover[a]
        /\ \A n \in shown[a] \ leftover[a] :
              /\ n \notin UnreadEntries(a)
              /\ \A c \in Calls : Open(a, c) => n \notin calls[a][c].local
              /\ ~ Answered(a, n)
              /\ n <= MaxMessages => IsMarked(a, n)
        /\ \A c \in Calls : ReadingInbox(a, c) =>
              \A n \in calls[a][c].local \ leftover[a] :
                  n <= MaxMessages => IsMarked(a, n) \/ \E i : InboxQuery(a, i)

Typed == TypeOK /\ Len(messages) <= MaxMessages

Parts(a) == Wired(a) /\ Kept(a) /\ Orderly(a) /\ Own(a) /\ Once(a)

MailInv ==
    /\ Typed
    /\ \A a \in Readers : Parts(a)
    /\ \A a \in Agents \ Readers : up[a] = <<>>

-----------------------------------------------------------------------------
(* Sequences of entries.                                                    *)

\* The sequence made of a finite set holds its elements, each once.
LEMMA SetToSeqType ==
    ASSUME NEW S, IsFiniteSet(S)
    PROVE  SetToSeq(S) \in Seq(S)
  <1>1. PICK n \in Nat : ExistsBijection(1 .. n, S)
    BY FS_NatBijection
  <1>2. Cardinality(S) = n
    BY <1>1, FS_CountingElements
  <1>3. PICK f : f \in [1 .. n -> S] /\ IsInjective(f)
    BY <1>1 DEF ExistsBijection, Bijection, Injection, Surjection
  <1>4. SetToSeq(S) \in [1 .. n -> S]
    BY <1>2, <1>3 DEF SetToSeq
  <1> QED  BY <1>4

\* The entries of ids are unread.
Unreads(ids) == {[id |-> n, read |-> FALSE] : n \in ids}

LEMMA UnreadsType ==
    ASSUME NEW ids \in SUBSET Ids
    PROVE  /\ SetToSeq(Unreads(ids)) \in Seq(Entry)
           /\ ToSet(SetToSeq(Unreads(ids))) \subseteq Unreads(ids)
  <1>1. IsFiniteSet(Ids)
    BY FS_Interval, BoundsAreNatural DEF Ids
  <1>2. IsFiniteSet(ids)
    BY <1>1, FS_Subset
  <1> DEFINE f == [n \in ids |-> [id |-> n, read |-> FALSE]]
  <1>3. IsFiniteSet(Unreads(ids))
    <2>1. Unreads(ids) = {f[n] : n \in ids}
      BY DEF Unreads
    <2> HIDE DEF f
    <2>2. f \in Surjection(ids, Unreads(ids))
      BY <2>1 DEF f, Surjection
    <2> QED  BY <1>2, <2>2, FS_Surjection
  <1>4. SetToSeq(Unreads(ids)) \in Seq(Unreads(ids))
    BY <1>3, SetToSeqType
  <1>5. Unreads(ids) \subseteq Entry
    <2>1. \A n \in ids : [id |-> n, read |-> FALSE] \in Entry
      BY DEF Entry
    <2> QED  BY <2>1 DEF Unreads
  <1> HIDE DEF Unreads
  <1> QED  BY <1>4, <1>5 DEF ToSet

\* Trimming drops entries and changes none.
LEMMA TrimType ==
    ASSUME NEW entries \in Seq(Entry)
    PROVE  Trim(entries) \in Seq(Entry) /\ ToSet(Trim(entries)) \subseteq ToSet(entries)
  <1> DEFINE k == Len(entries) - MaxSize
  <1>1. CASE Len(entries) > MaxSize
    <2>1. k \in Nat /\ k + 1 \in 1 .. Len(entries)
      BY <1>1, LimitsArePositive
    <2>2. \A i \in k + 1 .. Len(entries) : entries[i] \in Entry
      BY <2>1
    <2>3. /\ SubSeq(entries, k + 1, Len(entries)) \in Seq(Entry)
          /\ Len(SubSeq(entries, k + 1, Len(entries))) = Len(entries) - (k + 1) + 1
          /\ \A i \in 1 .. Len(entries) - (k + 1) + 1 :
                SubSeq(entries, k + 1, Len(entries))[i] = entries[(k + 1) + i - 1]
      BY <2>1, <2>2, SubSeqProperties
    <2>4. Trim(entries) = SubSeq(entries, k + 1, Len(entries))
      BY <1>1 DEF Trim
    <2>5. \A i \in DOMAIN Trim(entries) : Trim(entries)[i] \in ToSet(entries)
      <3>1. SUFFICES ASSUME NEW i \in DOMAIN Trim(entries)
                     PROVE  Trim(entries)[i] \in ToSet(entries)
        OBVIOUS
      <3>2. i \in 1 .. Len(entries) - (k + 1) + 1 /\ k + i \in 1 .. Len(entries)
        BY <2>1, <2>3, <2>4
      <3>3. Trim(entries)[i] = entries[k + i]
        BY <2>1, <2>3, <2>4, <3>2
      <3> QED  BY <3>2, <3>3 DEF ToSet
    <2> QED  BY <2>3, <2>4, <2>5 DEF ToSet
  <1>2. CASE ~ (Len(entries) > MaxSize)
    BY <1>2 DEF Trim
  <1> QED  BY <1>1, <1>2

LEMMA ConcatElements ==
    ASSUME NEW S, NEW s \in Seq(S), NEW t \in Seq(S)
    PROVE  ToSet(s \o t) \subseteq ToSet(s) \union ToSet(t)
  <1>1. SUFFICES ASSUME NEW i \in DOMAIN (s \o t)
                 PROVE  (s \o t)[i] \in ToSet(s) \union ToSet(t)
    BY DEF ToSet
  <1>2. /\ i \in 1 .. Len(s) + Len(t)
        /\ (s \o t)[i] = IF i <= Len(s) THEN s[i] ELSE t[i - Len(s)]
    BY <1>1, ConcatProperties
  <1>3. CASE i <= Len(s)
    BY <1>2, <1>3 DEF ToSet
  <1>4. CASE ~ (i <= Len(s))
    <2>1. i - Len(s) \in DOMAIN t
      BY <1>2, <1>4
    <2> QED  BY <1>2, <1>4, <2>1 DEF ToSet
  <1> QED  BY <1>3, <1>4

\* What arrives is stored unread, if it is live, and nothing else is added.
LEMMA StoredType ==
    ASSUME NEW entries \in Seq(Entry), NEW packet \in Packet
    PROVE  /\ Stored(entries, packet) \in Seq(Entry)
           /\ ToSet(Stored(entries, packet))
                 \subseteq ToSet(entries) \union Unreads(packet.ids)
           /\ ~ Live(packet) => Stored(entries, packet) = entries
  <1> DEFINE new == SetToSeq(Unreads(packet.ids))
  <1>1. packet.ids \in SUBSET Ids
    BY DEF Packet
  <1>2. new \in Seq(Entry) /\ ToSet(new) \subseteq Unreads(packet.ids)
    BY <1>1, UnreadsType
  <1>3. Stored(entries, packet) =
           CASE packet.type \in {"chat", "share"} -> Trim(entries \o new)
             [] packet.type = "notice" -> entries \o new
             [] OTHER -> entries
    BY DEF Stored, Unreads
  <1> HIDE DEF new
  <1>4. entries \o new \in Seq(Entry)
    BY <1>2, ConcatProperties
  <1>5. ToSet(entries \o new) \subseteq ToSet(entries) \union ToSet(new)
    BY <1>2, ConcatElements
  <1>6. Trim(entries \o new) \in Seq(Entry)
        /\ ToSet(Trim(entries \o new)) \subseteq ToSet(entries \o new)
    BY <1>4, TrimType
  <1> QED  BY <1>2, <1>3, <1>4, <1>5, <1>6 DEF Live

\* Marking changes no id, and leaves nothing unread unless nothing was displayed.
LEMMA MarkedType ==
    ASSUME NEW entries \in Seq(Entry), NEW displayed
    PROVE  /\ MarkAllRead(entries, displayed) \in Seq(Entry)
           /\ \A e \in ToSet(MarkAllRead(entries, displayed)) :
                 /\ \E f \in ToSet(entries) : f.id = e.id
                 /\ displayed # {} => e.read
           /\ displayed = {} => MarkAllRead(entries, displayed) = entries
  <1>1. CASE displayed = {}
    BY <1>1 DEF MarkAllRead
  <1>2. CASE displayed # {}
    <2> DEFINE m == [i \in 1 .. Len(entries) |-> [entries[i] EXCEPT !.read = TRUE]]
    <2>1. MarkAllRead(entries, displayed) = m
      <3>1. DOMAIN entries = 1 .. Len(entries)
        OBVIOUS
      <3> QED  BY <1>2, <3>1, Zenon DEF MarkAllRead
    <2>2. \A i \in 1 .. Len(entries) :
             m[i] \in Entry /\ m[i].id = entries[i].id /\ m[i].read
      <3>1. SUFFICES ASSUME NEW i \in 1 .. Len(entries)
                     PROVE  m[i] \in Entry /\ m[i].id = entries[i].id /\ m[i].read = TRUE
        BY Zenon
      <3>2. entries[i] \in Entry
        OBVIOUS
      <3>3. \A e \in Entry : LET r == [e EXCEPT !.read = TRUE]
                             IN  r \in Entry /\ r.id = e.id /\ r.read = TRUE
        BY DEF Entry
      <3> QED  BY <3>2, <3>3
    <2>3. m \in Seq(Entry) /\ DOMAIN m = 1 .. Len(entries)
      BY <2>2
    <2> HIDE DEF m
    <2> QED  BY <1>2, <2>1, <2>2, <2>3 DEF ToSet
  <1> QED  BY <1>1, <1>2

-----------------------------------------------------------------------------
(* Types.                                                                   *)

LEMMA Numbers == MaxMessages \in Nat /\ MaxNotices \in Nat /\ MaxCalls \in Nat
  BY BoundsAreNatural

LEMMA TypeInit == Init => Typed
  <1> SUFFICES ASSUME Init  PROVE Typed
    OBVIOUS
  <1>1. [a \in Agents |-> [c \in Calls |-> Idle]]
           \in [Agents -> [Calls -> Call \union {Idle}]]
    OBVIOUS
  <1> QED  BY <1>1, Numbers DEF Init, Typed, TypeOK

LEMMA DeliverType ==
    ASSUME NEW A, NEW packet \in Packet, TypeOK, Deliver(A, packet)
    PROVE  down' \in [Agents -> Seq(Packet)]
  <1>1. \A a \in Agents : down[a] \in Seq(Packet)
    BY DEF TypeOK
  <1>2. \A a \in Agents : Append(down[a], packet) \in Seq(Packet)
    BY <1>1
  <1> QED  BY <1>1, <1>2 DEF Deliver

LEMMA TypeRegister ==
    ASSUME Typed, NEW a \in Agents, Register(a)
    PROVE  Typed'
  BY DEF Typed, TypeOK, Register, table, ghosts

LEMMA TypeLeave ==
    ASSUME Typed, NEW a \in Agents, Leave(a)
    PROVE  Typed'
  <1>1. [c \in Calls |-> Idle] \in [Calls -> Call \union {Idle}]
    OBVIOUS
  <1> QED  BY <1>1 DEF Typed, TypeOK, Leave, table, ghosts

LEMMA TypePeerMessage ==
    ASSUME Typed, NEW from \in Agents, NEW to \in Targets,
           NEW type \in PeerTypes, PeerMessage(from, to, type)
    PROVE  Typed'
  <1> DEFINE n == Len(messages) + 1
  <1>1. messages \in Seq(Targets)
    BY DEF Typed, TypeOK
  <1>2. n \in Nat /\ n >= 1 /\ n <= MaxMessages
    BY <1>1 DEF PeerMessage
  <1>3. PICK ids \in Contents(type, n) :
           Deliver(IF type = "hidden" THEN {} ELSE LiveTo(from, to),
                   [type |-> type, ids |-> ids, query |-> 0])
    BY DEF PeerMessage
  <1>4. down' \in [Agents -> Seq(Packet)]
    <2>1. CASE type = "hidden"
      BY <1>3, <2>1 DEF Deliver, Typed, TypeOK
    <2>2. CASE type # "hidden"
      <3>1. ids \in SUBSET Ids
        BY <1>2, <1>3, Numbers DEF Contents, Ids, PeerTypes
      <3>2. [type |-> type, ids |-> ids, query |-> 0] \in Packet
        BY <2>2, <3>1, Numbers DEF Packet
      <3> QED  BY <1>3, <3>2, DeliverType DEF Typed
    <2> QED  BY <2>1, <2>2
  <1>5. /\ messages' \in Seq(Targets)
        /\ Len(messages') = n
    BY <1>1 DEF PeerMessage
  <1>6. readBy' \in Seq(SUBSET Agents) /\ Len(readBy') = n
    BY DEF PeerMessage, Typed, TypeOK
  <1> HIDE DEF n
  <1> QED  BY <1>2, <1>4, <1>5, <1>6 DEF PeerMessage, Typed, TypeOK, links, ghosts

LEMMA TypeSendNotice ==
    ASSUME Typed, NEW a \in Agents, SendNotice(a)
    PROVE  Typed'
  <1> DEFINE packet == [type |-> "notice", ids |-> {MaxMessages + noticed + 1}, query |-> 0]
  <1>1. noticed \in Nat /\ noticed < MaxNotices
    BY Numbers DEF Typed, TypeOK, SendNotice
  <1>2. packet \in Packet
    BY <1>1, Numbers DEF Packet, Ids
  <1>3. down' \in [Agents -> Seq(Packet)]
    BY <1>2, DeliverType DEF Typed, SendNotice
  <1>4. noticed' \in 0 .. MaxNotices
    BY <1>1, Numbers DEF SendNotice
  <1> HIDE DEF packet
  <1> QED  BY <1>3, <1>4 DEF SendNotice, Typed, TypeOK, table, links, ghosts

LEMMA UnreadType ==
    ASSUME Typed, NEW a
    PROVE  /\ DOMAIN messages = 1 .. Len(messages)
           /\ DOMAIN readBy = 1 .. Len(messages)
           /\ Len(messages) \in 0 .. MaxMessages
           /\ UnreadMessages(a) \subseteq Unread(a)
           /\ Unread(a) \subseteq 1 .. Len(messages)
           /\ 1 .. Len(messages) \subseteq Ids
  BY Numbers DEF Typed, TypeOK, UnreadMessages, Unread, Ids

LEMMA TypeHandleQuery ==
    ASSUME Typed, NEW a \in Agents, HandleQuery(a)
    PROVE  Typed'
  <1>1. /\ UnreadMessages(a) \subseteq Unread(a)
        /\ Unread(a) \subseteq Ids
        /\ DOMAIN readBy = 1 .. Len(readBy)
    BY UnreadType DEF Typed, TypeOK
  <1> DEFINE q == Head(up[a])
  <1>2. /\ up' \in [Agents -> Seq(Query)]
        /\ q \in Query
    <2>1. up[a] \in Seq(Query) /\ up[a] # <<>>
      BY DEF Typed, TypeOK, HandleQuery
    <2>2. Tail(up[a]) \in Seq(Query) /\ q \in Query
      BY <2>1
    <2> QED  BY <2>2 DEF Typed, TypeOK, HandleQuery
  <1>3. down' \in [Agents -> Seq(Packet)]
    <2>1. /\ [type |-> "inbox", ids |-> UnreadMessages(a), query |-> q.query] \in Packet
          /\ [type |-> "response", ids |-> {}, query |-> q.query] \in Packet
      BY <1>1, <1>2, Numbers DEF Packet, PeerTypes, Query
    <2> QED  BY <2>1, DeliverType DEF Typed, HandleQuery
  <1>4. readBy' \in Seq(SUBSET Agents) /\ Len(readBy') = Len(readBy)
    <2>1. readBy \in Seq(SUBSET Agents)
      BY DEF Typed, TypeOK
    <2>2. CASE q.tool = "inbox"
      <3> DEFINE r == [n \in 1 .. Len(readBy) |->
                          IF n \in Marked(a) THEN readBy[n] \union {a} ELSE readBy[n]]
      <3>1. readBy' = r
        BY <1>1, <2>2 DEF HandleQuery
      <3>2. \A n \in 1 .. Len(readBy) : r[n] \in SUBSET Agents
        BY <2>1
      <3>3. r \in [1 .. Len(readBy) -> SUBSET Agents]
        BY <3>2
      <3> HIDE DEF r
      <3> QED  BY <2>1, <3>1, <3>3
    <2> QED  BY <2>1, <2>2 DEF HandleQuery
  <1>5. leftover' \in [Agents -> SUBSET Ids]
    BY <1>1 DEF HandleQuery, Typed, TypeOK
  <1> QED  BY <1>2, <1>3, <1>4, <1>5 DEF HandleQuery, Typed, TypeOK, links

LEMMA TypeReceive ==
    ASSUME Typed, NEW a \in Agents, Receive(a)
    PROVE  Typed'
  <1> DEFINE packet == Head(down[a])
  <1>1. down[a] \in Seq(Packet) /\ down[a] # <<>>
    BY DEF Typed, TypeOK, Receive
  <1>2. packet \in Packet /\ Tail(down[a]) \in Seq(Packet)
    BY <1>1
  <1>3. down' \in [Agents -> Seq(Packet)]
    BY <1>2 DEF Typed, TypeOK, Receive
  <1>4. inbox' \in [Agents -> Seq(Entry)]
    <2>1. Stored(inbox[a], packet) \in Seq(Entry)
      BY <1>2, StoredType DEF Typed, TypeOK
    <2> QED  BY <2>1 DEF Typed, TypeOK, Receive
  <1>5. calls' \in [Agents -> [Calls -> Call \union {Idle}]]
    <2> DEFINE takers == {c \in Waiting(a) : Takes(calls[a][c], packet.type)}
               now == [c \in Calls |->
                         IF c \in takers
                         THEN [calls[a][c] EXCEPT !.got = "answer", !.answer = packet.ids,
                                                  !.to = packet.query]
                         ELSE calls[a][c]]
    <2>1. calls \in [Agents -> [Calls -> Call \union {Idle}]]
          /\ calls' = [calls EXCEPT ![a] = now]
      BY DEF Typed, TypeOK, Receive
    <2>2. \A c \in takers : calls[a][c] \in Call
      BY <2>1 DEF Waiting
    <2>3. packet.ids \in SUBSET Ids /\ packet.query \in 0 .. MaxCalls
      BY <1>2 DEF Packet
    <2>4. \A r \in Call, ids \in SUBSET Ids, query \in 0 .. MaxCalls :
             [r EXCEPT !.got = "answer", !.answer = ids, !.to = query] \in Call
      BY DEF Call
    <2> HIDE DEF takers, packet
    <2>5. \A c \in Calls : now[c] \in Call \union {Idle}
      BY <2>1, <2>2, <2>3, <2>4
    <2>6. now \in [Calls -> Call \union {Idle}]
      BY <2>5
    <2> HIDE DEF now
    <2> QED  BY <2>1, <2>6
  <1>6. unasked' \in [Agents -> SUBSET Ids]
    <2>1. packet.ids \in SUBSET Ids
      BY <1>2 DEF Packet
    <2> QED  BY <2>1 DEF Typed, TypeOK, Receive
  <1>7. disturbed' \subseteq Agents
    BY DEF Typed, TypeOK, Receive
  <1> HIDE DEF packet
  <1> QED  BY <1>3, <1>4, <1>5, <1>6, <1>7 DEF Receive, Typed, TypeOK, table, links

LEMMA TypeStartCall ==
    ASSUME Typed, NEW a \in Agents, NEW c \in Calls, NEW tool \in {"inbox", "status"},
           NEW mark \in BOOLEAN, StartCall(a, c, tool, mark)
    PROVE  Typed'
  <1> DEFINE call == [tool |-> tool, mark |-> mark, local |-> UnreadEntries(a),
                      query |-> called + 1, got |-> "none", answer |-> {}, to |-> 0]
  <1>1. UnreadEntries(a) \subseteq Ids
    <2>1. ToSet(inbox[a]) \subseteq Entry
      BY DEF Typed, TypeOK, ToSet
    <2> QED  BY <2>1 DEF UnreadEntries, Entry
  <1>2. /\ called + 1 \in 1 .. MaxCalls
        /\ call \in Call
    BY <1>1, Numbers DEF Call, Typed, TypeOK, StartCall
  <1>3. calls' = [calls EXCEPT ![a][c] = call]
    BY DEF StartCall, UnreadEntries
  <1> HIDE DEF call
  <1>4. calls' \in [Agents -> [Calls -> Call \union {Idle}]]
    BY <1>2, <1>3 DEF Typed, TypeOK
  <1>5. up' \in [Agents -> Seq(Query)]
    <2>1. [tool |-> tool, query |-> called + 1] \in Query
      BY <1>2 DEF Query
    <2> QED  BY <2>1 DEF Typed, TypeOK, StartCall
  <1>6. called' \in 0 .. MaxCalls /\ disturbed' \subseteq Agents
    BY Numbers DEF Typed, TypeOK, StartCall
  <1> QED  BY <1>4, <1>5, <1>6 DEF StartCall, Typed, TypeOK, table, links

LEMMA TypeTimeout ==
    ASSUME Typed, NEW a \in Agents, NEW c \in Calls, Timeout(a, c)
    PROVE  Typed'
  <1>1. calls[a][c] \in Call
    BY DEF Typed, TypeOK, Timeout, Waiting
  <1>2. [calls[a][c] EXCEPT !.got = "timeout"] \in Call
    BY <1>1 DEF Call
  <1>3. calls' \in [Agents -> [Calls -> Call \union {Idle}]]
    BY <1>2 DEF Typed, TypeOK, Timeout
  <1> QED  BY <1>3 DEF Timeout, Typed, TypeOK, table, links

LEMMA TypeFinish ==
    ASSUME Typed, NEW a \in Agents, NEW c \in Calls, Finish(a, c)
    PROVE  Typed'
  <1> DEFINE call == calls[a][c]
             displayed == IF call.tool = "inbox" THEN call.local \union call.answer ELSE {}
  <1>1. call \in Call
    BY DEF Typed, TypeOK, Finish
  <1>2. displayed \in SUBSET Ids
    BY <1>1 DEF Call
  <1>3. /\ inbox' = IF call.mark
                    THEN [inbox EXCEPT ![a] = MarkAllRead(@, displayed)] ELSE inbox
        /\ shown' = [shown EXCEPT ![a] = @ \union displayed]
        /\ again' = [again EXCEPT ![a] = @ \union (displayed \intersect shown[a])]
    BY DEF Finish
  <1>4. calls' \in [Agents -> [Calls -> Call \union {Idle}]]
    BY DEF Typed, TypeOK, Finish
  <1> HIDE DEF displayed
  <1>5. MarkAllRead(inbox[a], displayed) \in Seq(Entry)
    BY MarkedType DEF Typed, TypeOK
  <1>6. inbox' \in [Agents -> Seq(Entry)]
    BY <1>3, <1>5 DEF Typed, TypeOK
  <1>7. shown' \in [Agents -> SUBSET Ids] /\ again' \in [Agents -> SUBSET Ids]
    BY <1>2, <1>3 DEF Typed, TypeOK
  <1>8. disturbed' \subseteq Agents
    BY DEF Typed, TypeOK, Finish
  <1> HIDE DEF call
  <1> QED  BY <1>4, <1>6, <1>7, <1>8 DEF Finish, Typed, TypeOK, table, links

LEMMA TypeStep == Typed /\ [Next]_vars => Typed'
  <1> SUFFICES ASSUME Typed, [Next]_vars  PROVE Typed'
    OBVIOUS
  <1>1. CASE UNCHANGED vars
    BY <1>1 DEF Typed, TypeOK, vars, table, links, ghosts
  <1>2. ASSUME NEW a \in Agents, Register(a)  PROVE Typed'
    BY <1>2, TypeRegister
  <1>3. ASSUME NEW a \in Agents, Leave(a)  PROVE Typed'
    BY <1>3, TypeLeave
  <1>4. ASSUME NEW a \in Agents, HandleQuery(a)  PROVE Typed'
    BY <1>4, TypeHandleQuery
  <1>5. ASSUME NEW a \in Agents, SendNotice(a)  PROVE Typed'
    BY <1>5, TypeSendNotice
  <1>6. ASSUME NEW a \in Agents, NEW to \in Targets, NEW type \in PeerTypes,
               PeerMessage(a, to, type)
        PROVE  Typed'
    BY <1>6, TypePeerMessage
  <1>7. ASSUME NEW a \in Readers, ClientStep(a)  PROVE Typed'
    <2>1. a \in Agents
      BY ReadersAreAgents
    <2> QED  BY <1>7, <2>1, TypeReceive, TypeStartCall, TypeTimeout, TypeFinish DEF ClientStep
  <1> QED  BY <1>1, <1>2, <1>3, <1>4, <1>5, <1>6, <1>7 DEF Next

\* Tables, sockets, inboxes and calls keep their types.
THEOREM MailTypes == Spec => []TypeOK
  <1>1. Typed => TypeOK
    BY DEF Typed
  <1> QED  BY <1>1, TypeInit, TypeStep, PTL DEF Spec

-----------------------------------------------------------------------------
(* Queues.                                                                  *)

LEMMA AppendIndices ==
    ASSUME NEW S, NEW s \in Seq(S), NEW e \in S
    PROVE  /\ DOMAIN s = 1 .. Len(s) /\ Len(s) \in Nat
           /\ DOMAIN Append(s, e) = 1 .. Len(s) + 1
           /\ \A i \in DOMAIN s : Append(s, e)[i] = s[i]
           /\ Append(s, e)[Len(s) + 1] = e
  BY AppendProperties

LEMMA TailIndices ==
    ASSUME NEW S, NEW s \in Seq(S), s # <<>>
    PROVE  /\ DOMAIN s = 1 .. Len(s) /\ Len(s) \in Nat
           /\ 1 \in DOMAIN s /\ Head(s) = s[1]
           /\ DOMAIN Tail(s) = 1 .. Len(s) - 1
           /\ \A i \in DOMAIN Tail(s) : i + 1 \in DOMAIN s /\ Tail(s)[i] = s[i + 1]
           /\ \A i \in DOMAIN s : i # 1 => i - 1 \in DOMAIN Tail(s)
  BY HeadTailProperties

-----------------------------------------------------------------------------
(* A step that is not the client's own.                                     *)

\* The client of b has and knows what it did.
Same(b) ==
    /\ up'[b] = up[b] /\ inbox'[b] = inbox[b] /\ calls'[b] = calls[b]
    /\ shown'[b] = shown[b] /\ again'[b] = again[b]
    /\ unasked'[b] = unasked[b] /\ leftover'[b] = leftover[b]
    /\ (b \in disturbed') <=> (b \in disturbed)

\* Messages for b are not lost, none is marked read, and it has its socket or had none.
Aside(b) ==
    /\ \A n : For(b, n) => For(b, n)'
    /\ \A n : IsMarked(b, n)' <=> IsMarked(b, n)
    /\ b \in online => b \in online'
    /\ b \in gone => b \in gone'
    /\ b \in online' => b \in online \/ b \notin gone

Apart(b) == Same(b) /\ Aside(b) /\ down'[b] = down[b]

\* What is no answer: a live copy of a message that did not exist before, or what
\* passes for an answer and holds no message.
Unanswering(b, packet) ==
    /\ packet.query = 0
    /\ \/ Live(packet) /\ \A n \in packet.ids : ~ For(b, n) /\ For(b, n)'
       \/ Forged(packet) /\ packet.ids \subseteq {0}
       \/ ~ Live(packet) /\ packet.ids = {}

Gets(b) ==
    /\ Same(b) /\ Aside(b)
    /\ \E packet \in Packet :
          down'[b] = Append(down[b], packet) /\ Unanswering(b, packet)

LEMMA SameMeans ==
    ASSUME NEW b, Same(b)
    PROVE  /\ \A n : Arrived(b, n)' <=> Arrived(b, n)
           /\ \A c : Open(b, c)' <=> Open(b, c)
           /\ \A c : ReadingInbox(b, c)' <=> ReadingInbox(b, c)
           /\ \A i : InboxQuery(b, i)' <=> InboxQuery(b, i)
           /\ UnreadEntries(b)' = UnreadEntries(b)
  BY DEF Same, Arrived, Open, ReadingInbox, InboxQuery, UnreadEntries

LEMMA AnswersSame ==
    ASSUME Typed, NEW b \in Readers, Apart(b) \/ Gets(b)
    PROVE  /\ \A i : InboxAnswer(b, i)' <=> InboxAnswer(b, i)
           /\ \A i : InboxAnswer(b, i) => down'[b][i] = down[b][i]
           /\ \A n : Answered(b, n)' <=> Answered(b, n)
  <1>1. Same(b)
    BY DEF Apart, Gets
  <1>2. \A c : /\ ReadingInbox(b, c)' <=> ReadingInbox(b, c)
               /\ calls'[b][c] = calls[b][c]
    BY <1>1, SameMeans DEF Same
  <1>3. CASE Apart(b)
    <2>1. down'[b] = down[b]
      BY <1>3 DEF Apart
    <2> QED  BY <1>2, <2>1 DEF Answered, InboxAnswer
  <1>4. CASE Gets(b)
    <2>1. PICK packet \in Packet :
             down'[b] = Append(down[b], packet) /\ Unanswering(b, packet)
      BY <1>4 DEF Gets
    <2>2. down[b] \in Seq(Packet)
      BY ReadersAreAgents DEF Typed, TypeOK
    <2>3. /\ DOMAIN down[b] = 1 .. Len(down[b]) /\ Len(down[b]) \in Nat
          /\ DOMAIN down'[b] = 1 .. Len(down[b]) + 1
          /\ \A i \in DOMAIN down[b] : down'[b][i] = down[b][i]
          /\ down'[b][Len(down[b]) + 1] = packet
      BY <2>1, <2>2, AppendIndices
    <2>4. /\ packet.query = 0
          /\ packet.type = "inbox" => packet.ids \ {0} = {}
      BY <2>1 DEF Unanswering, Live
    <2>5. \A i : InboxAnswer(b, i)' <=> InboxAnswer(b, i)
      BY <2>3, <2>4 DEF InboxAnswer
    <2>6. \A n : (\E i \in DOMAIN down'[b] :
                     down'[b][i].type = "inbox" /\ n \in down'[b][i].ids \ {0})
                 <=> (\E i \in DOMAIN down[b] :
                     down[b][i].type = "inbox" /\ n \in down[b][i].ids \ {0})
      BY <2>3, <2>4
    <2> QED  BY <1>2, <2>3, <2>5, <2>6 DEF Answered, InboxAnswer
  <1> QED  BY <1>3, <1>4

LEMMA AsideKeeps ==
    ASSUME Typed, NEW b \in Readers, Parts(b), Apart(b) \/ Gets(b)
    PROVE  Parts(b)'
  <1>1. Same(b) /\ Aside(b)
    BY DEF Apart, Gets
  <1>2. /\ \A n : Arrived(b, n)' <=> Arrived(b, n)
        /\ \A c : Open(b, c)' <=> Open(b, c)
        /\ \A c : ReadingInbox(b, c)' <=> ReadingInbox(b, c)
        /\ \A i : InboxQuery(b, i)' <=> InboxQuery(b, i)
        /\ UnreadEntries(b)' = UnreadEntries(b)
    BY <1>1, SameMeans
  <1>3. /\ \A i : InboxAnswer(b, i)' <=> InboxAnswer(b, i)
        /\ \A i : InboxAnswer(b, i) => down'[b][i] = down[b][i]
        /\ \A n : Answered(b, n)' <=> Answered(b, n)
    BY AnswersSame
  <1>4. Wired(b)'
    <2>1. CASE Apart(b)
      BY <1>1, <1>2, <2>1 DEF Parts, Wired, Apart, Aside, Same, Live, Forged
    <2>2. CASE Gets(b)
      <3>1. PICK packet \in Packet :
               down'[b] = Append(down[b], packet) /\ Unanswering(b, packet)
        BY <2>2 DEF Gets
      <3> DEFINE last == Len(down[b]) + 1
      <3>2. down[b] \in Seq(Packet)
        BY ReadersAreAgents DEF Typed, TypeOK
      <3>3. /\ DOMAIN down[b] = 1 .. Len(down[b]) /\ Len(down[b]) \in Nat
            /\ DOMAIN down'[b] = 1 .. last
            /\ \A i \in DOMAIN down[b] : down'[b][i] = down[b][i]
            /\ down'[b][last] = packet
        BY <3>1, <3>2, AppendIndices
      <3>4. \A i \in DOMAIN down'[b] : \A n \in down'[b][i].ids :
               IF Forged(down'[b][i]) THEN n = 0 ELSE For(b, n)'
        <4>1. \A n \in packet.ids : IF Forged(packet) THEN n = 0 ELSE For(b, n)'
          BY <3>1 DEF Unanswering, Forged, Live
        <4>2. \A i \in DOMAIN down[b] : \A n \in down[b][i].ids :
                 IF Forged(down[b][i]) THEN n = 0 ELSE For(b, n)'
          BY <1>1 DEF Parts, Wired, Aside
        <4> HIDE DEF last
        <4>3. \A i \in DOMAIN down'[b] : i \in DOMAIN down[b] \/ i = last
          BY <3>3 DEF last
        <4> QED  BY <3>3, <4>1, <4>2, <4>3
      <3>5. \A i, j \in DOMAIN down'[b] :
               i < j /\ Live(down'[b][j]) => down'[b][i].ids \intersect down'[b][j].ids = {}
        <4>1. SUFFICES ASSUME NEW i \in DOMAIN down'[b], NEW j \in DOMAIN down'[b],
                              i < j, Live(down'[b][j])
                       PROVE  down'[b][i].ids \intersect down'[b][j].ids = {}
          OBVIOUS
        <4>2. i \in DOMAIN down[b] /\ down'[b][i] = down[b][i]
          BY <3>3, <4>1
        <4>3. CASE j \in DOMAIN down[b]
          BY <3>3, <4>1, <4>2, <4>3 DEF Parts, Wired
        <4>4. CASE j = last
          <5>1. Live(packet) /\ ~ Forged(packet)
            BY <3>3, <4>1, <4>4 DEF Live, Forged
          <5>2. \A n \in packet.ids : ~ For(b, n) /\ n # 0
            <6>1. \A n \in packet.ids : ~ For(b, n) /\ For(b, n)'
              BY <3>1, <5>1 DEF Unanswering
            <6>2. ~ For(b, 0)'
              BY Numbers DEF For
            <6> QED  BY <6>1, <6>2
          <5>3. \A n \in down[b][i].ids : n = 0 \/ For(b, n)
            BY <4>2 DEF Parts, Wired
          <5> QED  BY <3>3, <4>2, <4>4, <5>2, <5>3
        <4> QED  BY <3>3, <4>3, <4>4
      <3>6. \A j \in DOMAIN down'[b] :
               Live(down'[b][j]) => \A n \in down'[b][j].ids : ~ Arrived(b, n)
        <4>1. Live(packet) => \A n \in packet.ids : ~ Arrived(b, n)
          BY <3>1 DEF Unanswering, Live, Forged, Parts, Wired
        <4>2. \A j \in DOMAIN down[b] :
                 Live(down[b][j]) => \A n \in down[b][j].ids : ~ Arrived(b, n)
          BY DEF Parts, Wired
        <4> HIDE DEF last
        <4>3. \A i \in DOMAIN down'[b] : i \in DOMAIN down[b] \/ i = last
          BY <3>3 DEF last
        <4> QED  BY <3>3, <4>1, <4>2, <4>3
      <3>7. up'[b] # <<>> => b \in online'
        BY <1>1 DEF Parts, Wired, Same, Aside
      <3>8. \A n : Arrived(b, n)' => For(b, n)'
        BY <1>1, <1>2 DEF Parts, Wired, Aside
      <3>9. \A i : /\ Live(down[b][i])' <=> Live(down'[b][i])
                   /\ Forged(down[b][i])' <=> Forged(down'[b][i])
        BY DEF Live, Forged
      <3> QED  BY <1>2, <3>4, <3>5, <3>6, <3>7, <3>8, <3>9, Zenon DEF Wired
    <2> QED  BY <2>1, <2>2
  <1>5. Kept(b)'
    BY <1>1, <1>2, <1>3 DEF Parts, Kept, Same, Aside
  <1>6. Orderly(b)'
    BY <1>1, <1>2, <1>3 DEF Parts, Orderly, Same
  <1>7. Own(b)'
    BY <1>1, <1>2, <1>3 DEF Parts, Own, Same
  <1>8. Once(b)'
    BY <1>1, <1>2, <1>3 DEF Parts, Once, Same, Aside
  <1> QED  BY <1>4, <1>5, <1>6, <1>7, <1>8 DEF Parts

-----------------------------------------------------------------------------
(* The client's own steps.                                                  *)

LEMMA LeaveKeeps ==
    ASSUME Typed, NEW b \in Readers, Parts(b), Leave(b)
    PROVE  Parts(b)'
  <1>1. /\ down'[b] = <<>> /\ up'[b] = <<>> /\ inbox'[b] = <<>>
        /\ \A c \in Calls : calls'[b][c] = Idle
        /\ b \notin online' /\ b \in gone'
    BY ReadersAreAgents DEF Leave, Typed, TypeOK
  <1>2. UNCHANGED <<messages, readBy, noticed, shown, again, unasked, leftover, disturbed>>
    BY DEF Leave, table, ghosts
  <1>3. /\ \A n : For(b, n)' <=> For(b, n)
        /\ \A n : IsMarked(b, n)' <=> IsMarked(b, n)
    BY <1>2 DEF For, IsMarked
  <1>4. /\ \A c \in Calls : ~ Open(b, c)' /\ ~ ReadingInbox(b, c)'
        /\ \A i : ~ InboxQuery(b, i)' /\ ~ InboxAnswer(b, i)'
        /\ UnreadEntries(b)' = {}
        /\ \A n : ~ Answered(b, n)'
        /\ \A n : Arrived(b, n)' => n \in shown[b] \ {0}
    BY <1>1, <1>2 DEF Open, ReadingInbox, InboxQuery, InboxAnswer, UnreadEntries, Answered,
                      Arrived, ToSet
  <1>5. Wired(b)'
    <2>1. \A n : Arrived(b, n)' => For(b, n)'
      BY <1>3, <1>4 DEF Parts, Wired, Arrived
    <2> QED  BY <1>1, <2>1 DEF Wired
  <1>6. Kept(b)'
    BY <1>1, <1>4 DEF Kept
  <1>7. Orderly(b)' /\ Own(b)'
    BY <1>2, <1>4 DEF Parts, Orderly, Own
  <1>8. Once(b)'
    BY <1>2, <1>3, <1>4 DEF Parts, Once
  <1> QED  BY <1>5, <1>6, <1>7, <1>8 DEF Parts

\* The server answers the oldest query of b with a packet, and marks read what
\* an inbox answer holds.
Answers(b, packet) ==
    /\ packet \in Packet
    /\ up[b] # <<>>
    /\ packet.type = IF Head(up[b]).tool = "inbox" THEN "inbox" ELSE "response"
    /\ packet.query = Head(up[b]).query
    /\ up'[b] = Tail(up[b])
    /\ down'[b] = Append(down[b], packet)
    /\ ~ Live(packet)
    /\ packet.type = "inbox" =>
          /\ packet.ids = UnreadMessages(b)
          /\ Unread(b) \ packet.ids \subseteq leftover'[b]
    /\ packet.type # "inbox" => packet.ids = {}
    /\ leftover[b] \subseteq leftover'[b]
    /\ \A n : IsMarked(b, n)' <=> IsMarked(b, n) \/ n \in packet.ids
    /\ UNCHANGED <<messages, online, gone, inbox, calls, noticed, shown, again,
                   unasked, disturbed>>

LEMMA HandleQueryAnswers ==
    ASSUME Typed, NEW b \in Readers, HandleQuery(b)
    PROVE  \E packet : Answers(b, packet)
  <1>1. /\ UnreadMessages(b) \subseteq Unread(b)
        /\ Unread(b) \subseteq Ids
        /\ Unread(b) \subseteq DOMAIN readBy
        /\ b \in Agents
    BY UnreadType, ReadersAreAgents
  <1> DEFINE q == Head(up[b])
  <1>2. up[b] \in Seq(Query) /\ up[b] # <<>>
    BY <1>1 DEF Typed, TypeOK, HandleQuery
  <1>3. q \in Query /\ q.query \in 0 .. MaxCalls
    <2>1. q \in Query
      BY <1>2
    <2> HIDE DEF q
    <2> QED  BY <2>1, Numbers DEF Query
  <1>4. /\ up'[b] = Tail(up[b])
        /\ UNCHANGED <<messages, online, gone, inbox, calls, noticed, shown, again,
                       unasked, disturbed>>
    BY <1>1 DEF Typed, TypeOK, HandleQuery, links
  <1>5. CASE q.tool = "inbox"
    <2> DEFINE packet == [type |-> "inbox", ids |-> UnreadMessages(b), query |-> q.query]
    <2>1. packet \in Packet /\ ~ Live(packet)
      BY <1>1, <1>3 DEF Packet, PeerTypes, Live
    <2>2. down'[b] = Append(down[b], packet)
      BY <1>1, <1>5 DEF HandleQuery, Deliver
    <2>3. leftover'[b] = leftover[b] \union (Unread(b) \ packet.ids)
      BY <1>1, <1>5 DEF HandleQuery, Typed, TypeOK
    <2>4. \A n : IsMarked(b, n)' <=> IsMarked(b, n) \/ n \in packet.ids
      <3>1. readBy' = [n \in DOMAIN readBy |->
                          IF n \in UnreadMessages(b) THEN readBy[n] \union {b} ELSE readBy[n]]
        BY <1>5 DEF HandleQuery, Marked
      <3> QED  BY <1>1, <3>1 DEF IsMarked
    <2>5. packet.type = "inbox" /\ packet.ids = UnreadMessages(b) /\ packet.query = q.query
      OBVIOUS
    <2> HIDE DEF packet
    <2>6. Answers(b, packet)
      BY <1>2, <1>4, <1>5, <2>1, <2>2, <2>3, <2>4, <2>5 DEF Answers
    <2> QED  BY <2>6
  <1>6. CASE q.tool # "inbox"
    <2> DEFINE packet == [type |-> "response", ids |-> {}, query |-> q.query]
    <2>1. packet \in Packet /\ ~ Live(packet)
      BY <1>3 DEF Packet, PeerTypes, Live
    <2>2. /\ down'[b] = Append(down[b], packet)
          /\ UNCHANGED <<readBy, leftover>>
      BY <1>1, <1>6 DEF HandleQuery, Deliver
    <2>3. packet.type = "response" /\ packet.ids = {} /\ packet.query = q.query
      OBVIOUS
    <2> HIDE DEF packet
    <2>4. Answers(b, packet)
      BY <1>2, <1>4, <1>6, <2>1, <2>2, <2>3 DEF Answers, IsMarked
    <2> QED  BY <2>4
  <1> QED  BY <1>5, <1>6

LEMMA AnswersKeeps ==
    ASSUME Typed, NEW b \in Readers, Parts(b), NEW packet, Answers(b, packet)
    PROVE  Parts(b)'
  <1> DEFINE last == Len(down[b]) + 1
  <1>1. /\ up[b] \in Seq(Query) /\ up[b] # <<>>
        /\ down[b] \in Seq(Packet)
        /\ packet \in Packet
    BY ReadersAreAgents DEF Typed, TypeOK, Answers
  <1>2. /\ DOMAIN down[b] = 1 .. Len(down[b]) /\ Len(down[b]) \in Nat
        /\ DOMAIN down'[b] = 1 .. last
        /\ \A i \in DOMAIN down[b] : down'[b][i] = down[b][i]
        /\ down'[b][last] = packet
    BY <1>1, AppendIndices DEF Answers
  <1>3. /\ DOMAIN up[b] = 1 .. Len(up[b]) /\ Len(up[b]) \in Nat
        /\ 1 \in DOMAIN up[b]
        /\ packet.type = IF up[b][1].tool = "inbox" THEN "inbox" ELSE "response"
        /\ packet.query = up[b][1].query /\ packet.query \in Nat /\ packet.query # 0
        /\ DOMAIN up'[b] = 1 .. Len(up[b]) - 1
        /\ \A i \in DOMAIN up'[b] : i + 1 \in DOMAIN up[b] /\ up'[b][i] = up[b][i + 1]
        /\ \A i \in DOMAIN up[b] : i # 1 => i - 1 \in DOMAIN up'[b]
    <2>1. \A q \in Query : q.query \in Nat /\ q.query # 0
      BY DEF Query
    <2>2. Head(up[b]) \in Query
      BY <1>1
    <2> QED  BY <1>1, <2>1, <2>2, TailIndices DEF Answers
  <1>4. /\ \A n : For(b, n)' <=> For(b, n)
        /\ \A n : Arrived(b, n)' <=> Arrived(b, n)
        /\ \A c : Open(b, c)' <=> Open(b, c)
        /\ \A c : ReadingInbox(b, c)' <=> ReadingInbox(b, c)
        /\ UnreadEntries(b)' = UnreadEntries(b)
    BY DEF Answers, For, Arrived, Open, ReadingInbox, UnreadEntries
  <1>5. \A n \in packet.ids : For(b, n)
    <2>1. SUFFICES ASSUME NEW n \in packet.ids  PROVE For(b, n)
      OBVIOUS
    <2>2. n \in UnreadMessages(b)
      BY <2>1 DEF Answers
    <2> QED  BY <2>2, UnreadType DEF Unread, For
  <1>6. /\ \A i : InboxAnswer(b, i)' <=>
                     InboxAnswer(b, i) \/ (i = last /\ packet.type = "inbox")
        /\ \A i : InboxQuery(b, i)' => i \in Nat /\ InboxQuery(b, i + 1)
        /\ \A i : InboxQuery(b, i) => i = 1 \/ InboxQuery(b, i - 1)'
        /\ packet.type = "inbox" => InboxQuery(b, 1)
    BY <1>2, <1>3 DEF InboxAnswer, InboxQuery
  <1>7. \A n : Answered(b, n)' <=>
                  Answered(b, n) \/ (packet.type = "inbox" /\ n \in packet.ids \ {0})
    <2>1. \A i \in DOMAIN down'[b] : i \in DOMAIN down[b] \/ i = last
      BY <1>2
    <2>2. \A c : calls'[b][c] = calls[b][c]
      BY DEF Answers
    <2>3. last \in DOMAIN down'[b] /\ DOMAIN down[b] \subseteq DOMAIN down'[b]
      BY <1>2
    <2> HIDE DEF last
    <2> QED  BY <1>2, <1>4, <2>1, <2>2, <2>3 DEF Answered
  <1>8. Wired(b)'
    <2>1. \A i \in DOMAIN down'[b] : \A n \in down'[b][i].ids :
             IF Forged(down'[b][i]) THEN n = 0 ELSE For(b, n)'
      <3>1. ~ Forged(packet)
        BY <1>3 DEF Forged
      <3>2. \A i \in DOMAIN down[b] : \A n \in down[b][i].ids :
               IF Forged(down[b][i]) THEN n = 0 ELSE For(b, n)
        BY DEF Parts, Wired
      <3> HIDE DEF last
      <3>3. \A i \in DOMAIN down'[b] : i \in DOMAIN down[b] \/ i = last
        BY <1>2 DEF last
      <3> QED  BY <1>2, <1>4, <1>5, <3>1, <3>2, <3>3
    <2>2. \A i, j \in DOMAIN down'[b] :
             i < j /\ Live(down'[b][j]) => down'[b][i].ids \intersect down'[b][j].ids = {}
      BY <1>2 DEF Parts, Wired, Answers
    <2>3. \A j \in DOMAIN down'[b] :
             Live(down'[b][j]) => \A n \in down'[b][j].ids : ~ Arrived(b, n)
      BY <1>2 DEF Parts, Wired, Answers
    <2>4. b \in online'
      BY DEF Parts, Wired, Answers
    <2>5. \A n : Arrived(b, n)' => For(b, n)'
      BY <1>4 DEF Parts, Wired
    <2>6. \A i : /\ Live(down[b][i])' <=> Live(down'[b][i])
                 /\ Forged(down[b][i])' <=> Forged(down'[b][i])
      BY DEF Live, Forged
    <2> QED  BY <1>4, <2>1, <2>2, <2>3, <2>4, <2>5, <2>6, Zenon DEF Wired
  <1>9. Kept(b)'
    <2>1. b \in online'
      BY DEF Parts, Wired, Answers
    <2>2. \A n \in packet.ids : packet.type = "inbox" /\ n # 0
      <3>1. ~ For(b, 0)
        BY Numbers DEF For
      <3> QED  BY <1>5, <3>1 DEF Answers
    <2> QED  BY <1>4, <1>7, <2>1, <2>2 DEF Parts, Kept, Answers
  <1>10. Orderly(b)'
    <2>1. SUFFICES ASSUME b \notin disturbed  PROVE Orderly(b)'
      BY DEF Orderly, Answers
    <2>2. /\ unasked[b] = {}
          /\ \A c, d \in Calls : Open(b, c) /\ Open(b, d) => c = d
          /\ \A c \in Calls : Open(b, c) => calls[b][c].got \in {"none", "answer"}
          /\ \A c \in Calls : ReadingInbox(b, c) => 0 \notin calls[b][c].answer
          /\ (\E i : InboxQuery(b, i) \/ InboxAnswer(b, i)) =>
                \E c \in Calls : ReadingInbox(b, c) /\ calls[b][c].got = "none"
          /\ \A i, j : InboxQuery(b, i) /\ InboxQuery(b, j) => i = j
          /\ \A i, j : InboxAnswer(b, i) /\ InboxAnswer(b, j) => i = j
          /\ \A i, j : ~ (InboxQuery(b, i) /\ InboxAnswer(b, j))
      BY <2>1 DEF Parts, Orderly
    <2>3. unasked'[b] = {} /\ calls' = calls
      BY <2>2 DEF Answers
    <2>4. (\E i : InboxQuery(b, i)' \/ InboxAnswer(b, i)') =>
             \E c \in Calls : ReadingInbox(b, c) /\ calls[b][c].got = "none"
      BY <1>6, <2>2
    <2>5. \A i, j : InboxQuery(b, i)' /\ InboxQuery(b, j)' => i = j
      BY <1>6, <2>2
    <2>6. \A i, j : InboxAnswer(b, i)' /\ InboxAnswer(b, j)' => i = j
      BY <1>6, <2>2
    <2>7. \A i, j : ~ (InboxQuery(b, i)' /\ InboxAnswer(b, j)')
      <3>1. SUFFICES ASSUME NEW i, NEW j, InboxQuery(b, i)', InboxAnswer(b, j)'
                     PROVE  FALSE
        OBVIOUS
      <3>2. i \in Nat /\ InboxQuery(b, i + 1)
        BY <1>6, <3>1
      <3>3. packet.type = "inbox"
        BY <1>6, <2>2, <3>1, <3>2
      <3>4. i + 1 = 1 /\ i + 1 \in DOMAIN up[b] /\ i \in DOMAIN up'[b]
        BY <1>6, <2>2, <3>1, <3>2, <3>3 DEF InboxQuery
      <3> QED  BY <1>3, <3>2, <3>4
    <2> QED  BY <1>4, <2>2, <2>3, <2>4, <2>5, <2>6, <2>7 DEF Orderly
  <1>11. Own(b)'
    <2>1. SUFFICES ASSUME b \notin disturbed, NEW c \in Calls, ReadingInbox(b, c)
                   PROVE  /\ \A i : InboxQuery(b, i)' => up'[b][i].query = calls[b][c].query
                          /\ \A i : InboxAnswer(b, i)' =>
                                down'[b][i].query = calls[b][c].query
                          /\ calls[b][c].got = "answer" =>
                                calls[b][c].to = calls[b][c].query
      <3>1. \A i : up[b][i]' = up'[b][i] /\ down[b][i]' = down'[b][i]
        OBVIOUS
      <3> QED  BY <1>4, <3>1 DEF Own, Answers
    <2>2. /\ \A i : InboxQuery(b, i) => up[b][i].query = calls[b][c].query
          /\ \A i : InboxAnswer(b, i) => down[b][i].query = calls[b][c].query
          /\ calls[b][c].got = "answer" => calls[b][c].to = calls[b][c].query
      BY <2>1 DEF Parts, Own
    <2>3. \A i : InboxQuery(b, i)' => up'[b][i].query = calls[b][c].query
      BY <1>3, <1>6, <2>2 DEF InboxQuery
    <2>4. packet.type = "inbox" => packet.query = calls[b][c].query
      BY <1>3, <1>6, <2>2
    <2>5. \A i : InboxAnswer(b, i)' => down'[b][i].query = calls[b][c].query
      BY <1>2, <1>6, <2>2, <2>4 DEF InboxAnswer
    <2> QED  BY <2>2, <2>3, <2>5
  <1>12. Once(b)'
    <2>1. SUFFICES ASSUME b \notin disturbed  PROVE Once(b)'
      BY DEF Once, Answers
    <2>2. /\ again'[b] \subseteq leftover'[b]
          /\ \A c : calls'[b][c] = calls[b][c]
          /\ shown'[b] = shown[b]
          /\ leftover[b] \subseteq leftover'[b]
          /\ \A n : IsMarked(b, n) => IsMarked(b, n)'
      BY <2>1 DEF Parts, Once, Answers
    <2>3. ASSUME NEW n \in shown[b] \ leftover'[b]
          PROVE  /\ n \notin UnreadEntries(b)
                 /\ \A c \in Calls : Open(b, c) => n \notin calls[b][c].local
                 /\ ~ Answered(b, n)'
                 /\ n <= MaxMessages => IsMarked(b, n)'
      <3>1. /\ n \notin UnreadEntries(b)
            /\ \A c \in Calls : Open(b, c) => n \notin calls[b][c].local
            /\ ~ Answered(b, n)
            /\ n <= MaxMessages => IsMarked(b, n)
        BY <2>1, <2>2, <2>3 DEF Parts, Once
      <3>2. ~ (packet.type = "inbox" /\ n \in packet.ids)
        <4>1. SUFFICES ASSUME packet.type = "inbox", n \in packet.ids  PROVE FALSE
          OBVIOUS
        <4>2. n \in Unread(b) /\ n \in 1 .. Len(messages) /\ Len(messages) \in 0 .. MaxMessages
          BY <4>1, UnreadType DEF Answers
        <4>3. n <= MaxMessages /\ ~ IsMarked(b, n)
          BY <4>2, Numbers DEF Unread, IsMarked
        <4> QED  BY <3>1, <4>3
      <3> QED  BY <1>7, <2>2, <3>1, <3>2
    <2>4. ASSUME NEW c \in Calls, ReadingInbox(b, c),
                 NEW n \in calls[b][c].local \ leftover'[b], n <= MaxMessages
          PROVE  IsMarked(b, n)' \/ \E i : InboxQuery(b, i)'
      <3>1. IsMarked(b, n) \/ \E i : InboxQuery(b, i)
        BY <2>1, <2>2, <2>4 DEF Parts, Once
      <3>2. CASE IsMarked(b, n)
        BY <2>2, <3>2
      <3>3. CASE ~ IsMarked(b, n) /\ \A i : ~ InboxQuery(b, i)'
        <4>1. InboxQuery(b, 1)
          BY <1>6, <3>1, <3>3
        <4>2. packet.type = "inbox"
          BY <1>3, <4>1 DEF InboxQuery
        <4>3. For(b, n)
          <5>1. Arrived(b, n)
            BY <2>4, Zenon DEF Arrived, ReadingInbox
          <5> QED  BY <5>1 DEF Parts, Wired
        <4>4. n \in Unread(b)
          BY <2>4, <3>3, <4>3, UnreadType, Numbers DEF For, Unread, IsMarked
        <4>5. n \in packet.ids
          BY <2>4, <4>2, <4>4 DEF Answers
        <4> QED  BY <4>5 DEF Answers
      <3> QED  BY <3>2, <3>3
    <2> QED  BY <1>4, <2>2, <2>3, <2>4 DEF Once
  <1> QED  BY <1>8, <1>9, <1>10, <1>11, <1>12 DEF Parts

\* The client takes a packet: its inbox stores it if it is live, and the calls
\* that wait for its kind have their answer.
Takers(b, packet) == {c \in Waiting(b) : Takes(calls[b][c], packet.type)}

Took(b, packet) ==
    /\ packet \in Packet
    /\ down[b] # <<>>
    /\ packet = Head(down[b])
    /\ down'[b] = Tail(down[b])
    /\ UnreadEntries(b)' \subseteq
          UnreadEntries(b) \union (IF Live(packet) THEN packet.ids ELSE {})
    /\ \A e \in ToSet(inbox'[b]) :
          \/ Live(packet) /\ e.id \in packet.ids
          \/ \E f \in ToSet(inbox[b]) : f.id = e.id
    /\ \A c \in Takers(b, packet) :
          /\ Open(b, c) /\ Open(b, c)'
          /\ calls'[b][c].tool = calls[b][c].tool
          /\ calls'[b][c].local = calls[b][c].local
          /\ calls'[b][c].query = calls[b][c].query
          /\ calls'[b][c].got = "answer"
          /\ calls'[b][c].answer = packet.ids
          /\ calls'[b][c].to = packet.query
    /\ \A c \in Calls \ Takers(b, packet) : calls'[b][c] = calls[b][c]
    /\ IF packet.type = "inbox" /\ \A c \in Takers(b, packet) : calls[b][c].tool # "inbox"
       THEN unasked'[b] = unasked[b] \union (packet.ids \ {0})
       ELSE unasked'[b] = unasked[b]
    /\ b \notin disturbed' =>
          /\ b \notin disturbed
          /\ Forged(packet) => \A c \in Takers(b, packet) : calls[b][c].tool # "inbox"
    /\ UNCHANGED <<messages, readBy, online, gone, up, noticed, shown, again, leftover>>

LEMMA ReceiveTakes ==
    ASSUME Typed, NEW b \in Readers, Receive(b)
    PROVE  \E packet : Took(b, packet)
  <1> DEFINE packet == Head(down[b])
  <1>1. /\ b \in Agents
        /\ down[b] \in Seq(Packet) /\ down[b] # <<>>
        /\ inbox[b] \in Seq(Entry)
    BY ReadersAreAgents DEF Typed, TypeOK, Receive
  <1>2. packet \in Packet
    BY <1>1
  <1>3. /\ down'[b] = Tail(down[b])
        /\ inbox'[b] = Stored(inbox[b], packet)
        /\ UNCHANGED <<messages, readBy, online, gone, up, noticed, shown, again,
                       leftover>>
    BY <1>1 DEF Receive, Typed, TypeOK, table, links
  <1>4. /\ IF packet.type = "inbox" /\ \A c \in Takers(b, packet) : calls[b][c].tool # "inbox"
           THEN unasked'[b] = unasked[b] \union (packet.ids \ {0})
           ELSE unasked'[b] = unasked[b]
        /\ b \notin disturbed' =>
              /\ b \notin disturbed
              /\ Forged(packet) => \A c \in Takers(b, packet) : calls[b][c].tool # "inbox"
    <2> DEFINE queries == {c \in Takers(b, packet) : calls[b][c].tool = "inbox"}
    <2>1. /\ unasked' = IF packet.type = "inbox" /\ queries = {}
                        THEN [unasked EXCEPT ![b] = @ \union (packet.ids \ {0})]
                        ELSE unasked
          /\ disturbed' = IF packet.type = "inbox" /\ packet.query = 0 /\ queries # {}
                          THEN disturbed \union {b} ELSE disturbed
      BY DEF Receive, Takers
    <2>2. queries = {} <=> \A c \in Takers(b, packet) : calls[b][c].tool # "inbox"
      OBVIOUS
    <2> HIDE DEF queries, packet
    <2> QED  BY <1>1, <2>1, <2>2 DEF Forged, Typed, TypeOK
  <1>5. \A c \in Calls :
           calls'[b][c] = IF c \in Takers(b, packet)
                          THEN [calls[b][c] EXCEPT !.got = "answer", !.answer = packet.ids,
                                                   !.to = packet.query]
                          ELSE calls[b][c]
    BY <1>1 DEF Receive, Typed, TypeOK, Takers
  <1> HIDE DEF packet
  <1>6. \A c \in Takers(b, packet) :
           /\ Open(b, c) /\ Open(b, c)'
           /\ calls'[b][c].tool = calls[b][c].tool
           /\ calls'[b][c].local = calls[b][c].local
           /\ calls'[b][c].query = calls[b][c].query
           /\ calls'[b][c].got = "answer"
           /\ calls'[b][c].answer = packet.ids
           /\ calls'[b][c].to = packet.query
    <2>1. SUFFICES ASSUME NEW c \in Takers(b, packet)
                   PROVE  /\ Open(b, c) /\ Open(b, c)'
                          /\ calls'[b][c].tool = calls[b][c].tool
                          /\ calls'[b][c].local = calls[b][c].local
                          /\ calls'[b][c].query = calls[b][c].query
                          /\ calls'[b][c].got = "answer"
                          /\ calls'[b][c].answer = packet.ids
                          /\ calls'[b][c].to = packet.query
      BY Zenon
    <2>2. c \in Calls /\ calls[b][c] # Idle
      BY <2>1 DEF Takers, Waiting
    <2>3. calls[b][c] \in Call
      BY <1>1, <2>2 DEF Typed, TypeOK
    <2>4. calls'[b][c] = [calls[b][c] EXCEPT !.got = "answer", !.answer = packet.ids,
                                             !.to = packet.query]
      BY <1>5, <2>1, <2>2
    <2>5. /\ calls'[b][c] # Idle
          /\ calls'[b][c].tool = calls[b][c].tool
          /\ calls'[b][c].local = calls[b][c].local
          /\ calls'[b][c].query = calls[b][c].query
          /\ calls'[b][c].got = "answer"
          /\ calls'[b][c].answer = packet.ids
          /\ calls'[b][c].to = packet.query
      BY <2>3, <2>4 DEF Call, Idle
    <2>6. Open(b, c) /\ Open(b, c)'
      BY <2>2, <2>5 DEF Open
    <2> QED  BY <2>5, <2>6
  <1>7. /\ Stored(inbox[b], packet) \in Seq(Entry)
        /\ ToSet(inbox'[b]) \subseteq ToSet(inbox[b]) \union Unreads(packet.ids)
        /\ ~ Live(packet) => inbox'[b] = inbox[b]
    BY <1>1, <1>2, <1>3, StoredType
  <1>8. \A e \in Unreads(packet.ids) : e.id \in packet.ids
    BY DEF Unreads
  <1>9. UnreadEntries(b)' \subseteq
           UnreadEntries(b) \union (IF Live(packet) THEN packet.ids ELSE {})
    BY <1>7, <1>8 DEF UnreadEntries
  <1>10. \A e \in ToSet(inbox'[b]) :
            \/ Live(packet) /\ e.id \in packet.ids
            \/ \E f \in ToSet(inbox[b]) : f.id = e.id
    BY <1>7, <1>8
  <1>11. \A c \in Calls \ Takers(b, packet) : calls'[b][c] = calls[b][c]
    BY <1>5
  <1>12. Took(b, packet)
    BY <1>1, <1>2, <1>3, <1>4, <1>6, <1>9, <1>10, <1>11 DEF Took, packet
  <1> QED  BY <1>12

LEMMA TookKeeps ==
    ASSUME Typed, NEW b \in Readers, Parts(b), NEW packet, Took(b, packet)
    PROVE  Parts(b)'
  <1> DEFINE takers == Takers(b, packet)
  <1>1. /\ down[b] \in Seq(Packet) /\ down[b] # <<>>
    BY ReadersAreAgents DEF Typed, TypeOK, Took
  <1>2. /\ DOMAIN down[b] = 1 .. Len(down[b]) /\ Len(down[b]) \in Nat
        /\ 1 \in DOMAIN down[b] /\ packet = down[b][1]
        /\ DOMAIN down'[b] = 1 .. Len(down[b]) - 1
        /\ \A i \in DOMAIN down'[b] :
              i + 1 \in DOMAIN down[b] /\ down'[b][i] = down[b][i + 1]
        /\ \A i \in DOMAIN down[b] : i # 1 => i - 1 \in DOMAIN down'[b]
    BY <1>1, TailIndices DEF Took
  <1>3. \A c \in takers : /\ c \in Calls /\ Open(b, c) /\ calls[b][c].got = "none"
                          /\ ReadingInbox(b, c) => packet.type = "inbox"
    BY DEF Takers, Waiting, Open, ReadingInbox, Takes
  <1>4. \A c \in Calls : ReadingInbox(b, c) /\ calls[b][c].got = "none"
                         /\ packet.type = "inbox" => c \in takers
    BY DEF Takers, Waiting, Open, ReadingInbox, Takes
  <1>5. \A c \in takers : /\ Open(b, c)'
                          /\ calls'[b][c].tool = calls[b][c].tool
                          /\ calls'[b][c].local = calls[b][c].local
                          /\ calls'[b][c].query = calls[b][c].query
                          /\ calls'[b][c].got = "answer"
                          /\ calls'[b][c].answer = packet.ids
                          /\ calls'[b][c].to = packet.query
    BY DEF Took
  <1>6. \A c \in Calls : c \notin takers => calls'[b][c] = calls[b][c]
    BY DEF Took
  <1>7. /\ \A n : For(b, n)' <=> For(b, n)
        /\ \A n : IsMarked(b, n)' <=> IsMarked(b, n)
        /\ \A i : InboxQuery(b, i)' <=> InboxQuery(b, i)
    BY DEF Took, For, IsMarked, InboxQuery
  <1> HIDE DEF takers
  <1>8. /\ \A c \in Calls : Open(b, c)' <=> Open(b, c)
        /\ \A c \in Calls : ReadingInbox(b, c)' <=> ReadingInbox(b, c)
        /\ \A c \in Calls : Open(b, c) => /\ calls'[b][c].local = calls[b][c].local
                                          /\ calls'[b][c].tool = calls[b][c].tool
                                          /\ calls'[b][c].query = calls[b][c].query
    BY <1>3, <1>5, <1>6 DEF Open, ReadingInbox
  <1>9. /\ \A i : InboxAnswer(b, i)' => i \in Nat /\ i >= 1 /\ InboxAnswer(b, i + 1)
        /\ packet.type = "inbox" /\ ~ Forged(packet) => InboxAnswer(b, 1)
    BY <1>2 DEF InboxAnswer, Forged
  <1>10. \A n : Arrived(b, n)' =>
                   Arrived(b, n) \/ (n \in packet.ids /\ (n = 0 => Live(packet)))
    <2>1. \A n : (\E e \in ToSet(inbox'[b]) : e.id = n) =>
                    (Live(packet) /\ n \in packet.ids) \/ \E e \in ToSet(inbox[b]) : e.id = n
      BY DEF Took
    <2>2. \A c \in Calls : Open(b, c)' =>
             Open(b, c) /\ \A n \in calls'[b][c].local : n \in calls[b][c].local
      BY <1>8
    <2>3. \A c \in Calls : ReadingInbox(b, c)' =>
             \A n \in calls'[b][c].answer :
                n \in packet.ids \/ (ReadingInbox(b, c) /\ n \in calls[b][c].answer)
      BY <1>5, <1>6, <1>8
    <2>4. shown'[b] = shown[b]
      BY DEF Took
    <2> QED  BY <2>1, <2>2, <2>3, <2>4 DEF Arrived
  <1>11. \A n : Answered(b, n)' => Answered(b, n)
    <2>1. SUFFICES ASSUME NEW n, Answered(b, n)'  PROVE Answered(b, n)
      OBVIOUS
    <2>2. ASSUME NEW i \in DOMAIN down'[b], down'[b][i].type = "inbox",
                 n \in down'[b][i].ids \ {0}
          PROVE  Answered(b, n)
      BY <1>2, <2>2 DEF Answered
    <2>3. ASSUME NEW c \in Calls, ReadingInbox(b, c)', n \in calls'[b][c].answer \ {0}
          PROVE  Answered(b, n)
      <3>1. CASE c \in takers
        <4>1. packet.type = "inbox" /\ n \in packet.ids \ {0}
          BY <1>3, <1>5, <1>8, <2>3, <3>1
        <4> QED  BY <1>2, <4>1 DEF Answered
      <3>2. CASE c \notin takers
        BY <1>6, <1>8, <2>3, <3>2 DEF Answered
      <3> QED  BY <3>1, <3>2
    <2> QED  BY <2>1, <2>2, <2>3 DEF Answered
  <1>12. Wired(b)'
    <2>1. \A i \in DOMAIN down'[b] : \A n \in down'[b][i].ids :
             IF Forged(down'[b][i]) THEN n = 0 ELSE For(b, n)'
      BY <1>2, <1>7 DEF Parts, Wired
    <2>2. \A n : Arrived(b, n)' => For(b, n)'
      <3>1. \A n \in packet.ids : IF Forged(packet) THEN n = 0 ELSE For(b, n)
        BY <1>2 DEF Parts, Wired
      <3>2. Live(packet) => ~ Forged(packet)
        BY DEF Live, Forged
      <3> QED  BY <1>7, <1>10, <3>1, <3>2 DEF Parts, Wired
    <2>3. ASSUME NEW i \in DOMAIN down'[b], NEW j \in DOMAIN down'[b], i < j, Live(down'[b][j])
          PROVE  down'[b][i].ids \intersect down'[b][j].ids = {}
      <3>1. i + 1 \in DOMAIN down[b] /\ j + 1 \in DOMAIN down[b] /\ i + 1 < j + 1
        BY <1>2, <2>3
      <3>2. down'[b][i] = down[b][i + 1] /\ down'[b][j] = down[b][j + 1]
        BY <1>2
      <3> QED  BY <2>3, <3>1, <3>2, Zenon DEF Parts, Wired
    <2>4. ASSUME NEW j \in DOMAIN down'[b], Live(down'[b][j]), NEW n \in down'[b][j].ids
          PROVE  ~ Arrived(b, n)'
      <3>1. j + 1 \in DOMAIN down[b] /\ 1 < j + 1 /\ down'[b][j] = down[b][j + 1]
        BY <1>2
      <3>2. ~ Arrived(b, n)
        BY <2>4, <3>1 DEF Parts, Wired
      <3>3. packet.ids \intersect down'[b][j].ids = {}
        BY <1>2, <2>4, <3>1 DEF Parts, Wired
      <3> QED  BY <1>10, <2>4, <3>2, <3>3
    <2>5. up'[b] # <<>> => b \in online'
      BY DEF Parts, Wired, Took
    <2>6. \A i : /\ Live(down[b][i])' <=> Live(down'[b][i])
                 /\ Forged(down[b][i])' <=> Forged(down'[b][i])
      BY DEF Live, Forged
    <2> QED  BY <2>1, <2>2, <2>3, <2>4, <2>5, <2>6, Zenon DEF Wired
  <1>13. Kept(b)'
    <2>1. \A n : Answered(b, n)' => IsMarked(b, n)'
      BY <1>7, <1>11 DEF Parts, Kept
    <2>2. ASSUME b \in online, NEW n, IsMarked(b, n)
          PROVE  Answered(b, n)' \/ n \in shown[b] \union unasked'[b]
      <3>1. unasked[b] \subseteq unasked'[b]
        BY DEF Took
      <3>2. CASE n \in shown[b] \union unasked[b]
        BY <3>1, <3>2
      <3>3. ASSUME NEW i \in DOMAIN down[b], down[b][i].type = "inbox",
                   n \in down[b][i].ids \ {0}
            PROVE  Answered(b, n)' \/ n \in unasked'[b]
        <4>1. CASE i # 1
          <5>1. i - 1 \in DOMAIN down'[b] /\ down'[b][i - 1] = down[b][i]
            BY <1>2, <4>1
          <5> QED  BY <3>3, <5>1 DEF Answered
        <4>2. CASE i = 1
          <5>1. packet.type = "inbox" /\ n \in packet.ids \ {0}
            BY <1>2, <3>3, <4>2
          <5>2. CASE \A c \in takers : calls[b][c].tool # "inbox"
            BY <5>1, <5>2 DEF Took, takers
          <5>3. ASSUME NEW c \in takers, calls[b][c].tool = "inbox"
                PROVE  Answered(b, n)'
            <6>1. c \in Calls /\ ReadingInbox(b, c)
              BY <1>3, <5>3 DEF ReadingInbox
            <6>2. ReadingInbox(b, c)' /\ n \in calls'[b][c].answer \ {0}
              BY <1>5, <1>8, <5>1, <6>1
            <6> QED  BY <6>1, <6>2 DEF Answered
          <5> QED  BY <5>2, <5>3
        <4> QED  BY <4>1, <4>2
      <3>4. ASSUME NEW c \in Calls, ReadingInbox(b, c), n \in calls[b][c].answer \ {0}
            PROVE  Answered(b, n)'
        <4>1. c \notin takers
          BY <1>3, <3>4 DEF Parts, Kept, ReadingInbox
        <4>2. ReadingInbox(b, c)' /\ n \in calls'[b][c].answer \ {0}
          BY <1>6, <1>8, <3>4, <4>1
        <4> QED  BY <4>2 DEF Answered
      <3>5. Answered(b, n) \/ n \in shown[b] \union unasked[b]
        BY <2>2 DEF Parts, Kept
      <3> QED  BY <3>2, <3>3, <3>4, <3>5 DEF Answered
    <2>3. \A c \in Calls : Open(b, c)' /\ calls'[b][c].got = "none" => calls'[b][c].answer = {}
      BY <1>3, <1>5, <1>6, <1>8 DEF Parts, Kept
    <2>4. \A n : IsMarked(b, n)' => b \in online' \union gone'
      BY <1>7 DEF Parts, Kept, Took
    <2>5. online' = online /\ shown' = shown
      BY DEF Took
    <2> QED  BY <1>7, <2>1, <2>2, <2>3, <2>4, <2>5 DEF Kept
  <1>14. b \notin disturbed' =>
            b \notin disturbed /\ (Forged(packet) => \A c \in takers : calls[b][c].tool # "inbox")
    BY DEF Took, takers
  <1>15. /\ Forged(packet) => packet.ids \subseteq {0}
         /\ ~ Forged(packet) => 0 \notin packet.ids
    <2>1. ~ For(b, 0)
      BY Numbers DEF For
    <2>2. \A n \in packet.ids : IF Forged(packet) THEN n = 0 ELSE For(b, n)
      BY <1>2 DEF Parts, Wired
    <2> QED  BY <2>1, <2>2
  <1>16. Orderly(b)'
    <2>1. SUFFICES ASSUME b \notin disturbed'  PROVE Orderly(b)'
      BY DEF Orderly
    <2>2. /\ unasked[b] = {}
          /\ \A c, d \in Calls : Open(b, c) /\ Open(b, d) => c = d
          /\ \A c \in Calls : Open(b, c) => calls[b][c].got \in {"none", "answer"}
          /\ \A c \in Calls : ReadingInbox(b, c) => 0 \notin calls[b][c].answer
          /\ (\E i : InboxQuery(b, i) \/ InboxAnswer(b, i)) =>
                \E c \in Calls : ReadingInbox(b, c) /\ calls[b][c].got = "none"
          /\ \A i, j : InboxQuery(b, i) /\ InboxQuery(b, j) => i = j
          /\ \A i, j : InboxAnswer(b, i) /\ InboxAnswer(b, j) => i = j
          /\ \A i, j : ~ (InboxQuery(b, i) /\ InboxAnswer(b, j))
      BY <1>14, <2>1 DEF Parts, Orderly
    <2>3. packet.type = "inbox" /\ ~ Forged(packet) =>
             \E c \in Calls : ReadingInbox(b, c) /\ c \in takers
      BY <1>4, <1>9, <2>2
    <2>4. unasked'[b] = {}
      <3>1. Forged(packet) => packet.ids \ {0} = {}
        BY <1>15
      <3> QED  BY <2>2, <2>3, <3>1 DEF Took, takers, ReadingInbox
    <2>5. ASSUME NEW c \in Calls, Open(b, c)
          PROVE  /\ calls'[b][c].got \in {"none", "answer"}
                 /\ ReadingInbox(b, c) => 0 \notin calls'[b][c].answer
      <3>1. CASE c \notin takers
        BY <1>6, <2>2, <2>5, <3>1
      <3>2. CASE c \in takers
        <4>1. ReadingInbox(b, c) => ~ Forged(packet)
          BY <1>14, <2>1, <3>2 DEF ReadingInbox
        <4> QED  BY <1>5, <1>15, <3>2, <4>1
      <3> QED  BY <3>1, <3>2
    <2>6. ASSUME NEW i, InboxQuery(b, i) \/ InboxAnswer(b, i)'
          PROVE  \E c \in Calls : ReadingInbox(b, c)' /\ calls'[b][c].got = "none"
      <3>1. \E j : InboxQuery(b, j) \/ (j # 1 /\ InboxAnswer(b, j))
        BY <1>9, <2>6
      <3>2. packet.type = "inbox" => Forged(packet)
        BY <1>9, <2>2, <3>1
      <3>3. PICK c \in Calls : ReadingInbox(b, c) /\ calls[b][c].got = "none"
        BY <2>2, <3>1
      <3>4. c \notin takers
        BY <1>3, <1>14, <2>1, <3>2, <3>3 DEF ReadingInbox
      <3> QED  BY <1>6, <1>8, <3>3, <3>4
    <2>7. \A i, j : InboxAnswer(b, i)' /\ InboxAnswer(b, j)' => i = j
      <3>1. SUFFICES ASSUME NEW i, NEW j, InboxAnswer(b, i)', InboxAnswer(b, j)'
                     PROVE  i = j
        OBVIOUS
      <3>2. i \in Nat /\ j \in Nat /\ InboxAnswer(b, i + 1) /\ InboxAnswer(b, j + 1)
        BY <1>9, <3>1
      <3>3. i + 1 = j + 1
        BY <2>2, <3>2
      <3> QED  BY <3>2, <3>3
    <2>8. \A i, j : ~ (InboxQuery(b, i)' /\ InboxAnswer(b, j)')
      BY <1>7, <1>9, <2>2
    <2>9. /\ \A c, d \in Calls : Open(b, c)' /\ Open(b, d)' => c = d
          /\ \A i, j : InboxQuery(b, i)' /\ InboxQuery(b, j)' => i = j
      BY <1>7, <1>8, <2>2
    <2>10. /\ \A c \in Calls : Open(b, c)' => calls'[b][c].got \in {"none", "answer"}
           /\ \A c \in Calls : ReadingInbox(b, c)' => 0 \notin calls'[b][c].answer
           /\ (\E i : InboxQuery(b, i)' \/ InboxAnswer(b, i)') =>
                 \E c \in Calls : ReadingInbox(b, c)' /\ calls'[b][c].got = "none"
      BY <1>7, <1>8, <2>5, <2>6 DEF ReadingInbox
    <2> QED  BY <2>4, <2>7, <2>8, <2>9, <2>10 DEF Orderly
  <1>17. Own(b)'
    <2>1. SUFFICES ASSUME b \notin disturbed', NEW c \in Calls, ReadingInbox(b, c)'
                   PROVE  /\ \A i : InboxQuery(b, i)' => up'[b][i].query = calls'[b][c].query
                          /\ \A i : InboxAnswer(b, i)' =>
                                down'[b][i].query = calls'[b][c].query
                          /\ calls'[b][c].got = "answer" =>
                                calls'[b][c].to = calls'[b][c].query
      BY DEF Own
    <2>2. ReadingInbox(b, c) /\ calls'[b][c].query = calls[b][c].query
      BY <1>8, <2>1 DEF ReadingInbox
    <2>3. /\ \A i : InboxQuery(b, i) => up[b][i].query = calls[b][c].query
          /\ \A i : InboxAnswer(b, i) => down[b][i].query = calls[b][c].query
          /\ calls[b][c].got = "answer" => calls[b][c].to = calls[b][c].query
      BY <1>14, <2>1, <2>2 DEF Parts, Own
    <2>4. \A i : InboxQuery(b, i)' => up'[b][i].query = calls'[b][c].query
      BY <1>7, <2>2, <2>3 DEF Took
    <2>5. \A i : InboxAnswer(b, i)' => down'[b][i].query = calls'[b][c].query
      BY <1>2, <1>9, <2>2, <2>3 DEF InboxAnswer
    <2>6. calls'[b][c].got = "answer" => calls'[b][c].to = calls'[b][c].query
      <3>1. CASE c \notin takers
        BY <1>6, <2>3, <3>1
      <3>2. CASE c \in takers
        <4>1. packet.type = "inbox" /\ ~ Forged(packet)
          BY <1>3, <1>14, <2>1, <2>2, <3>2 DEF ReadingInbox
        <4>2. packet.query = calls[b][c].query
          BY <1>2, <1>9, <2>3, <4>1
        <4> QED  BY <1>5, <2>2, <3>2, <4>2
      <3> QED  BY <3>1, <3>2
    <2> QED  BY <2>4, <2>5, <2>6
  <1>18. Once(b)'
    <2>1. SUFFICES ASSUME b \notin disturbed  PROVE Once(b)'
      BY <1>14 DEF Once
    <2>2. /\ again' = again /\ leftover' = leftover /\ shown' = shown
          /\ again[b] \subseteq leftover[b]
      BY <2>1 DEF Parts, Once, Took
    <2>3. ASSUME NEW n \in shown[b] \ leftover[b]
          PROVE  /\ n \notin UnreadEntries(b)'
                 /\ \A c \in Calls : Open(b, c)' => n \notin calls'[b][c].local
                 /\ ~ Answered(b, n)'
                 /\ n <= MaxMessages => IsMarked(b, n)'
      <3>1. /\ n \notin UnreadEntries(b)
            /\ \A c \in Calls : Open(b, c) => n \notin calls[b][c].local
            /\ ~ Answered(b, n)
            /\ n <= MaxMessages => IsMarked(b, n)
        BY <2>1, <2>3 DEF Parts, Once
      <3>2. Live(packet) => n \notin packet.ids
        <4>1. n # 0 => Arrived(b, n)
          BY <2>3 DEF Arrived
        <4>2. ~ For(b, 0)
          BY Numbers DEF For
        <4> QED  BY <1>2, <1>15, <4>1, <4>2 DEF Parts, Wired, Live, Forged
      <3>3. n \notin UnreadEntries(b)'
        BY <3>1, <3>2 DEF Took
      <3> QED  BY <1>7, <1>8, <1>11, <3>1, <3>3
    <2>4. \A c \in Calls : ReadingInbox(b, c)' =>
             \A n \in calls'[b][c].local \ leftover[b] :
                n <= MaxMessages => IsMarked(b, n)' \/ \E i : InboxQuery(b, i)'
      BY <1>7, <1>8, <2>1 DEF Parts, Once, ReadingInbox
    <2> QED  BY <2>2, <2>3, <2>4 DEF Once
  <1> QED  BY <1>12, <1>13, <1>16, <1>17, <1>18 DEF Parts

\* A call that begins has the unread entries of the inbox.  If another is open,
\* the client counts as disturbed.
LEMMA StartCallKeeps ==
    ASSUME Typed, NEW b \in Readers, Parts(b), NEW c \in Calls,
           NEW tool \in {"inbox", "status"}, NEW mark, StartCall(b, c, tool, mark)
    PROVE  Parts(b)'
  <1> DEFINE last == Len(up[b]) + 1
             query == [tool |-> tool, query |-> called + 1]
  <1>1. b \in Agents /\ up[b] \in Seq(Query)
    BY ReadersAreAgents DEF Typed, TypeOK
  <1>2. up'[b] = Append(up[b], query) /\ query \in Query
    BY <1>1, Numbers DEF StartCall, Typed, TypeOK, Query
  <1>3. /\ DOMAIN up[b] = 1 .. Len(up[b]) /\ Len(up[b]) \in Nat
        /\ DOMAIN up'[b] = 1 .. last
        /\ \A i \in DOMAIN up[b] : up'[b][i] = up[b][i]
        /\ up'[b][last] = query
    BY <1>1, <1>2, AppendIndices
  <1>4. \A i : InboxQuery(b, i)' <=> InboxQuery(b, i) \/ (i = last /\ tool = "inbox")
    BY <1>3 DEF InboxQuery
  <1> HIDE DEF last
  <1>5. /\ b \in online
        /\ calls[b][c] = Idle
        /\ disturbed \subseteq disturbed'
        /\ UNCHANGED <<messages, readBy, online, gone, down, inbox, noticed, shown, again,
                       unasked, leftover>>
    BY DEF StartCall, table, links
  <1>6. /\ calls'[b][c] # Idle
        /\ calls'[b][c].tool = tool
        /\ calls'[b][c].local = UnreadEntries(b)
        /\ calls'[b][c].got = "none"
        /\ calls'[b][c].answer = {}
        /\ calls'[b][c].query = called + 1
        /\ \A d \in Calls : d # c => calls'[b][d] = calls[b][d]
    <2> DEFINE call == [tool |-> tool, mark |-> mark, local |-> UnreadEntries(b),
                        query |-> called + 1, got |-> "none", answer |-> {}, to |-> 0]
    <2>1. calls' = [calls EXCEPT ![b][c] = call]
      BY DEF StartCall, UnreadEntries
    <2>2. calls'[b] = [calls[b] EXCEPT ![c] = call] /\ DOMAIN calls[b] = Calls
      BY <1>1, <2>1 DEF Typed, TypeOK
    <2>3. call # Idle
      BY DEF Idle
    <2> QED  BY <2>2, <2>3
  <1>7. /\ \A d \in Calls : Open(b, d)' <=> Open(b, d) \/ d = c
        /\ \A d \in Calls : ReadingInbox(b, d)' <=>
                               ReadingInbox(b, d) \/ (d = c /\ tool = "inbox")
        /\ ~ Open(b, c) /\ ~ ReadingInbox(b, c)
    BY <1>5, <1>6 DEF Open, ReadingInbox
  <1>8. /\ \A n : For(b, n)' <=> For(b, n)
        /\ \A n : IsMarked(b, n)' <=> IsMarked(b, n)
        /\ \A i : InboxAnswer(b, i)' <=> InboxAnswer(b, i)
        /\ UnreadEntries(b)' = UnreadEntries(b)
    BY <1>5 DEF For, IsMarked, InboxAnswer, UnreadEntries
  <1>9. \A n : Arrived(b, n)' => Arrived(b, n)
    <2>1. SUFFICES ASSUME NEW n, Arrived(b, n)'  PROVE Arrived(b, n)
      OBVIOUS
    <2>2. ASSUME NEW d \in Calls, Open(b, d)', n \in calls'[b][d].local
          PROVE  Arrived(b, n)
      <3>1. CASE d = c
        BY <1>6, <2>2, <3>1 DEF UnreadEntries, Arrived
      <3>2. CASE d # c
        BY <1>6, <1>7, <2>2, <3>2 DEF Arrived
      <3> QED  BY <3>1, <3>2
    <2>3. ASSUME NEW d \in Calls, ReadingInbox(b, d)', n \in calls'[b][d].answer \ {0}
          PROVE  Arrived(b, n)
      BY <1>6, <1>7, <2>3 DEF Arrived
    <2> QED  BY <1>5, <2>1, <2>2, <2>3 DEF Arrived
  <1>10. \A n : Answered(b, n)' <=> Answered(b, n)
    BY <1>5, <1>6, <1>7 DEF Answered
  <1>11. Wired(b)'
    <2>1. \A i : /\ Live(down[b][i])' <=> Live(down[b][i])
                 /\ Forged(down[b][i])' <=> Forged(down[b][i])
      BY <1>5 DEF Live, Forged
    <2> QED  BY <1>5, <1>8, <1>9, <2>1 DEF Parts, Wired
  <1>12. Kept(b)'
    BY <1>5, <1>6, <1>7, <1>8, <1>10 DEF Parts, Kept
  <1>13. b \notin disturbed' => b \notin disturbed /\ \A d \in Calls : ~ Open(b, d)
    BY DEF StartCall, Open
  <1>14. Orderly(b)'
    <2>1. SUFFICES ASSUME b \notin disturbed'  PROVE Orderly(b)'
      BY DEF Orderly
    <2>2. \A i : ~ InboxQuery(b, i) /\ ~ InboxAnswer(b, i)
      BY <1>13, <2>1 DEF Parts, Orderly, ReadingInbox
    <2>3. unasked'[b] = {}
      BY <1>5, <1>13, <2>1 DEF Parts, Orderly
    <2>4. \A d \in Calls : Open(b, d)' => d = c
      BY <1>7, <1>13, <2>1
    <2>5. \A i : ~ InboxAnswer(b, i)'
      BY <1>8, <2>2
    <2>6. \A i : InboxQuery(b, i)' => i = last /\ ReadingInbox(b, c)'
      BY <1>4, <1>7, <2>2
    <2>7. \A d \in Calls : Open(b, d)' =>
             calls'[b][d].got = "none" /\ calls'[b][d].answer = {}
      BY <1>6, <2>4
    <2> QED  BY <1>6, <2>3, <2>4, <2>5, <2>6, <2>7 DEF Orderly, ReadingInbox
  <1>15. Own(b)'
    <2>1. SUFFICES ASSUME b \notin disturbed', NEW d \in Calls, ReadingInbox(b, d)'
                   PROVE  /\ \A i : InboxQuery(b, i)' => up'[b][i].query = calls'[b][d].query
                          /\ \A i : ~ InboxAnswer(b, i)
                          /\ calls'[b][d].got = "none"
      BY <1>8 DEF Own
    <2>2. d = c
      BY <1>7, <1>13, <2>1 DEF ReadingInbox
    <2>3. \A i : ~ InboxQuery(b, i) /\ ~ InboxAnswer(b, i)
      BY <1>13, <2>1 DEF Parts, Orderly, ReadingInbox
    <2>4. \A i : InboxQuery(b, i)' => up'[b][i].query = called + 1
      BY <1>3, <1>4, <2>3
    <2> QED  BY <1>6, <2>2, <2>3, <2>4
  <1>16. Once(b)'
    <2>1. SUFFICES ASSUME b \notin disturbed'  PROVE Once(b)'
      BY DEF Once
    <2>2. b \notin disturbed
      BY <1>13, <2>1
    <2>3. \A d \in Calls : ReadingInbox(b, d)' =>
             \A n \in calls'[b][d].local \ leftover[b] :
                n <= MaxMessages => IsMarked(b, n)' \/ \E i : InboxQuery(b, i)'
      BY <1>4, <1>7, <1>13, <2>1 DEF ReadingInbox
    <2>4. \A n \in shown[b] \ leftover[b] :
              \A d \in Calls : Open(b, d)' => n \notin calls'[b][d].local
      BY <1>6, <1>7, <2>2 DEF Parts, Once
    <2> QED  BY <1>5, <1>8, <1>10, <2>2, <2>3, <2>4 DEF Parts, Once
  <1> QED  BY <1>11, <1>12, <1>14, <1>15, <1>16 DEF Parts

\* A call that times out keeps what it took from the inbox.
LEMMA TimeoutKeeps ==
    ASSUME Typed, NEW b \in Readers, Parts(b), NEW c \in Calls, Timeout(b, c)
    PROVE  Parts(b)'
  <1>1. /\ b \in disturbed'
        /\ UNCHANGED <<messages, readBy, online, gone, down, up, inbox, noticed, shown,
                       again, unasked, leftover>>
    BY DEF Timeout, table, links
  <1>2. /\ b \in Agents /\ calls[b][c] \in Call /\ calls[b][c].got = "none"
        /\ calls[b] \in [Calls -> Call \union {Idle}]
    BY ReadersAreAgents DEF Typed, TypeOK, Timeout, Waiting
  <1>3. /\ calls'[b][c] = [calls[b][c] EXCEPT !.got = "timeout"]
        /\ \A d \in Calls : d # c => calls'[b][d] = calls[b][d]
    BY <1>2 DEF Timeout, Typed, TypeOK
  <1>4. /\ calls'[b][c] # Idle /\ calls[b][c] # Idle
        /\ calls'[b][c].tool = calls[b][c].tool
        /\ calls'[b][c].local = calls[b][c].local
        /\ calls'[b][c].got = "timeout"
        /\ calls'[b][c].answer = calls[b][c].answer
    BY <1>2, <1>3 DEF Call, Idle
  <1>5. /\ \A d \in Calls : Open(b, d)' <=> Open(b, d)
        /\ \A d \in Calls : ReadingInbox(b, d)' <=> ReadingInbox(b, d)
        /\ \A d \in Calls : calls'[b][d].local = calls[b][d].local
        /\ \A d \in Calls : calls'[b][d].answer = calls[b][d].answer
        /\ \A d \in Calls : calls'[b][d].got \in {calls[b][d].got, "timeout"}
    BY <1>3, <1>4 DEF Open, ReadingInbox
  <1>6. /\ \A n : For(b, n)' <=> For(b, n)
        /\ \A n : IsMarked(b, n)' <=> IsMarked(b, n)
    BY <1>1 DEF For, IsMarked
  <1>7. /\ \A n : Arrived(b, n)' <=> Arrived(b, n)
        /\ \A n : Answered(b, n)' <=> Answered(b, n)
    BY <1>1, <1>5 DEF Arrived, Answered
  <1>8. Wired(b)'
    <2>1. \A i : /\ Live(down[b][i])' <=> Live(down[b][i])
                 /\ Forged(down[b][i])' <=> Forged(down[b][i])
      BY <1>1 DEF Live, Forged
    <2> QED  BY <1>1, <1>6, <1>7, <2>1 DEF Parts, Wired
  <1>9. Kept(b)'
    BY <1>1, <1>5, <1>6, <1>7 DEF Parts, Kept
  <1>10. Orderly(b)' /\ Own(b)' /\ Once(b)'
    BY <1>1 DEF Orderly, Own, Once
  <1> QED  BY <1>8, <1>9, <1>10 DEF Parts

\* The call shows what it has, and marks every entry read if that is anything.
Shows(b, c, displayed) ==
    /\ Open(b, c)
    /\ calls[b][c].got # "none"
    /\ displayed = IF calls[b][c].tool = "inbox"
                   THEN calls[b][c].local \union calls[b][c].answer ELSE {}
    /\ calls'[b][c] = Idle
    /\ \A d \in Calls : d # c => calls'[b][d] = calls[b][d]
    /\ \A e \in ToSet(inbox'[b]) : \E f \in ToSet(inbox[b]) : f.id = e.id
    /\ b \notin disturbed' =>
          /\ b \notin disturbed
          /\ displayed # {} => UnreadEntries(b)' = {}
          /\ displayed = {} => inbox'[b] = inbox[b]
    /\ shown'[b] = shown[b] \union displayed
    /\ again'[b] = again[b] \union (displayed \intersect shown[b])
    /\ UNCHANGED <<messages, readBy, online, gone, down, up, noticed, unasked, leftover>>

LEMMA FinishShows ==
    ASSUME Typed, NEW b \in Readers, NEW c \in Calls, Finish(b, c)
    PROVE  \E displayed : Shows(b, c, displayed)
  <1> DEFINE call == calls[b][c]
             displayed == IF call.tool = "inbox" THEN call.local \union call.answer ELSE {}
  <1>1. /\ b \in Agents /\ inbox[b] \in Seq(Entry)
        /\ calls[b] \in [Calls -> Call \union {Idle}]
    BY ReadersAreAgents DEF Typed, TypeOK
  <1>2. /\ calls'[b][c] = Idle
        /\ \A d \in Calls : d # c => calls'[b][d] = calls[b][d]
        /\ Open(b, c) /\ call.got # "none"
        /\ UNCHANGED <<messages, readBy, online, gone, down, up, noticed, unasked, leftover>>
    BY <1>1 DEF Finish, Open, Typed, TypeOK, table, links
  <1>3. /\ shown'[b] = shown[b] \union displayed
        /\ again'[b] = again[b] \union (displayed \intersect shown[b])
    BY <1>1 DEF Finish, Typed, TypeOK
  <1>4. inbox'[b] = IF call.mark THEN MarkAllRead(inbox[b], displayed) ELSE inbox[b]
    BY <1>1 DEF Finish, Typed, TypeOK
  <1>5. b \notin disturbed' => call.mark /\ b \notin disturbed
    BY <1>1 DEF Finish
  <1> HIDE DEF displayed
  <1>6. /\ \A e \in ToSet(MarkAllRead(inbox[b], displayed)) :
              /\ \E f \in ToSet(inbox[b]) : f.id = e.id
              /\ displayed # {} => e.read
        /\ displayed = {} => MarkAllRead(inbox[b], displayed) = inbox[b]
    BY <1>1, MarkedType
  <1>7. \A e \in ToSet(inbox'[b]) : \E f \in ToSet(inbox[b]) : f.id = e.id
    BY <1>4, <1>6
  <1>8. b \notin disturbed' =>
           /\ b \notin disturbed
           /\ displayed # {} => UnreadEntries(b)' = {}
           /\ displayed = {} => inbox'[b] = inbox[b]
    BY <1>4, <1>5, <1>6 DEF UnreadEntries
  <1>9. Shows(b, c, displayed)
    BY <1>2, <1>3, <1>7, <1>8 DEF Shows, displayed
  <1> QED  BY <1>9

LEMMA ShowsKeeps ==
    ASSUME Typed, NEW b \in Readers, Parts(b), NEW c \in Calls, NEW displayed,
           Shows(b, c, displayed)
    PROVE  Parts(b)'
  <1>1. /\ \A n : For(b, n)' <=> For(b, n)
        /\ \A n : IsMarked(b, n)' <=> IsMarked(b, n)
        /\ \A i : InboxQuery(b, i)' <=> InboxQuery(b, i)
        /\ \A i : InboxAnswer(b, i)' <=> InboxAnswer(b, i)
    BY DEF Shows, For, IsMarked, InboxQuery, InboxAnswer
  <1>2. /\ \A d \in Calls : Open(b, d)' <=> Open(b, d) /\ d # c
        /\ \A d \in Calls : ReadingInbox(b, d)' <=> ReadingInbox(b, d) /\ d # c
        /\ \A d \in Calls : Open(b, d)' => calls'[b][d] = calls[b][d]
    BY DEF Shows, Open, ReadingInbox
  <1>3. \A n \in displayed : /\ ReadingInbox(b, c)
                             /\ n \in calls[b][c].local \/ n \in calls[b][c].answer
    BY DEF Shows, ReadingInbox
  <1>4. \A n : Arrived(b, n)' => Arrived(b, n)
    <2>1. SUFFICES ASSUME NEW n, Arrived(b, n)'  PROVE Arrived(b, n)
      OBVIOUS
    <2>2. CASE \E e \in ToSet(inbox'[b]) : e.id = n
      BY <2>2 DEF Shows, Arrived
    <2>3. CASE \E d \in Calls : Open(b, d)' /\ n \in calls'[b][d].local
      BY <1>2, <2>3 DEF Arrived
    <2>4. CASE \E d \in Calls : ReadingInbox(b, d)' /\ n \in calls'[b][d].answer \ {0}
      BY <1>2, <2>4 DEF Arrived, ReadingInbox
    <2>5. CASE n \in shown'[b] \ {0}
      BY <1>3, <2>5 DEF Arrived, Shows, ReadingInbox
    <2> QED  BY <2>1, <2>2, <2>3, <2>4, <2>5 DEF Arrived
  <1>5. \A n : Answered(b, n)' => Answered(b, n)
    BY <1>2 DEF Answered, Shows, ReadingInbox
  <1>6. Wired(b)'
    <2>1. UNCHANGED <<online, down, up>>
      BY DEF Shows
    <2>2. \A i : /\ Live(down[b][i])' <=> Live(down[b][i])
                 /\ Forged(down[b][i])' <=> Forged(down[b][i])
      BY <2>1 DEF Live, Forged
    <2> QED  BY <1>1, <1>4, <2>1, <2>2 DEF Parts, Wired
  <1>7. Kept(b)'
    <2>1. ASSUME b \in online, NEW n, IsMarked(b, n)
          PROVE  Answered(b, n)' \/ n \in shown'[b] \union unasked[b]
      <3>1. CASE n \in shown[b] \union unasked[b]
        BY <3>1 DEF Shows
      <3>2. CASE \E i \in DOMAIN down[b] :
                    down[b][i].type = "inbox" /\ n \in down[b][i].ids \ {0}
        BY <3>2 DEF Answered, Shows
      <3>3. ASSUME NEW d \in Calls, ReadingInbox(b, d), n \in calls[b][d].answer \ {0}
            PROVE  Answered(b, n)' \/ n \in shown'[b]
        <4>1. CASE d = c
          BY <3>3, <4>1 DEF Shows, ReadingInbox
        <4>2. CASE d # c
          BY <1>2, <3>3, <4>2 DEF Answered, ReadingInbox
        <4> QED  BY <4>1, <4>2
      <3> QED  BY <2>1, <3>1, <3>2, <3>3 DEF Parts, Kept, Answered
    <2>2. UNCHANGED <<online, gone, unasked>>
      BY DEF Shows
    <2> QED  BY <1>1, <1>2, <1>5, <2>1, <2>2 DEF Parts, Kept, ReadingInbox
  <1>8. Orderly(b)'
    <2>1. SUFFICES ASSUME b \notin disturbed'  PROVE Orderly(b)'
      BY DEF Orderly
    <2>2. b \notin disturbed /\ unasked' = unasked
      BY <2>1 DEF Shows
    <2>3. \A d \in Calls : ~ Open(b, d)'
      BY <1>2, <2>2 DEF Parts, Orderly, Shows
    <2>4. \A i : ~ InboxQuery(b, i)' /\ ~ InboxAnswer(b, i)'
      BY <1>1, <2>2 DEF Parts, Orderly, Shows, ReadingInbox
    <2> QED  BY <2>2, <2>3, <2>4 DEF Parts, Orderly, ReadingInbox
  <1>9. Own(b)'
    <2>1. SUFFICES ASSUME b \notin disturbed'
                   PROVE  \A d \in Calls : ~ Open(b, d)'
      BY DEF Own, ReadingInbox
    <2> QED  BY <1>2, <2>1 DEF Parts, Orderly, Shows
  <1>10. Once(b)'
    <2>1. SUFFICES ASSUME b \notin disturbed'  PROVE Once(b)'
      BY DEF Once
    <2>2. b \notin disturbed
      BY <2>1 DEF Shows
    <2>3. /\ \A d \in Calls : ~ Open(b, d)'
          /\ \A i : ~ InboxQuery(b, i) /\ ~ InboxAnswer(b, i)
      BY <1>2, <2>2 DEF Parts, Orderly, Shows, ReadingInbox
    <2>4. \A n \in displayed : n \in shown[b] => n \in leftover[b]
      <3>1. \A n \in calls[b][c].answer : ReadingInbox(b, c) => n # 0
        BY <2>2 DEF Parts, Orderly
      <3> QED  BY <1>3, <2>2, <3>1 DEF Parts, Once, Answered, ReadingInbox
    <2>5. \A n : ~ Answered(b, n)'
      <3>1. \A i \in DOMAIN down[b] : down[b][i].type = "inbox" =>
               down[b][i].ids \ {0} = {}
        BY <2>3 DEF Parts, Wired, Forged, InboxAnswer
      <3>2. down' = down
        BY DEF Shows
      <3> QED  BY <2>3, <3>1, <3>2 DEF Answered, ReadingInbox
    <2>6. ASSUME NEW n \in shown'[b] \ leftover[b]
          PROVE  /\ n \notin UnreadEntries(b)'
                 /\ n <= MaxMessages => IsMarked(b, n)'
      <3>1. CASE n \in displayed
        <4>1. UnreadEntries(b)' = {}
          BY <2>1, <3>1 DEF Shows
        <4>2. n \in calls[b][c].answer => IsMarked(b, n)
          <5>1. n \in calls[b][c].answer => n # 0
            BY <1>3, <2>2, <3>1 DEF Parts, Orderly
          <5> QED  BY <1>3, <3>1, <5>1 DEF Parts, Kept, Answered
        <4>3. n \in calls[b][c].local /\ n <= MaxMessages => IsMarked(b, n)
          BY <1>3, <2>2, <2>3, <2>6, <3>1 DEF Parts, Once
        <4> QED  BY <1>1, <1>3, <3>1, <4>1, <4>2, <4>3
      <3>2. CASE n \notin displayed
        <4>1. n \in shown[b] \ leftover[b]
          BY <2>6, <3>2 DEF Shows
        <4>2. n \notin UnreadEntries(b) /\ (n <= MaxMessages => IsMarked(b, n))
          BY <2>2, <4>1 DEF Parts, Once
        <4>3. UnreadEntries(b)' = {} \/ UnreadEntries(b)' = UnreadEntries(b)
          BY <2>1 DEF Shows, UnreadEntries
        <4> QED  BY <1>1, <4>2, <4>3
      <3> QED  BY <3>1, <3>2
    <2>7. again'[b] \subseteq leftover[b] /\ leftover' = leftover
      BY <2>2, <2>4 DEF Parts, Once, Shows
    <2>8. \A d \in Calls : ~ ReadingInbox(b, d)'
      BY <2>3 DEF ReadingInbox
    <2> QED  BY <2>3, <2>5, <2>6, <2>7, <2>8 DEF Once
  <1> QED  BY <1>6, <1>7, <1>8, <1>9, <1>10 DEF Parts

-----------------------------------------------------------------------------
(* Every step is, for a client, its own or aside.                           *)

LEMMA RegisterAside ==
    ASSUME Typed, NEW b \in Readers, NEW a \in Agents, Register(a)
    PROVE  Apart(b)
  BY DEF Register, Apart, Same, Aside, For, IsMarked, table, ghosts

LEMMA LeaveAside ==
    ASSUME Typed, NEW b \in Readers, NEW a \in Agents, a # b, Leave(a)
    PROVE  Apart(b)
  <1>1. /\ down'[b] = down[b] /\ up'[b] = up[b] /\ inbox'[b] = inbox[b]
        /\ calls'[b] = calls[b]
    BY ReadersAreAgents DEF Leave, Typed, TypeOK
  <1> QED  BY <1>1 DEF Leave, Apart, Same, Aside, For, IsMarked, table, ghosts

LEMMA HandleQueryAside ==
    ASSUME Typed, NEW b \in Readers, NEW a \in Agents, a # b, HandleQuery(a)
    PROVE  Apart(b)
  <1>1. /\ down'[b] = down[b] /\ up'[b] = up[b] /\ leftover'[b] = leftover[b]
    BY ReadersAreAgents DEF HandleQuery, Deliver, Typed, TypeOK
  <1>2. \A n : IsMarked(b, n)' <=> IsMarked(b, n)
    BY DEF HandleQuery, IsMarked
  <1>3. UNCHANGED <<messages, online, gone, inbox, calls, noticed, shown, again, unasked,
                    disturbed>>
    BY DEF HandleQuery, links
  <1> QED  BY <1>1, <1>2, <1>3 DEF Apart, Same, Aside, For

LEMMA SendNoticeAside ==
    ASSUME Typed, NEW b \in Readers, NEW a \in Agents, SendNotice(a)
    PROVE  Apart(b) \/ Gets(b)
  <1> PICK n : n = MaxMessages + noticed + 1
    OBVIOUS
  <1> DEFINE packet == [type |-> "notice", ids |-> {n}, query |-> 0]
  <1>1. noticed \in Nat /\ noticed < MaxNotices /\ noticed' = noticed + 1
    BY Numbers DEF Typed, TypeOK, SendNotice
  <1>2. /\ UNCHANGED <<messages, readBy, online, gone>>
        /\ Same(b)
    BY DEF SendNotice, Same, table, links, ghosts
  <1>3. Aside(b)
    BY <1>1, <1>2, Numbers DEF Aside, For, IsMarked
  <1>4. CASE a = b
    <2>1. packet \in Packet /\ Live(packet)
      BY <1>1, Numbers DEF Packet, Ids, Live
    <2>2. down'[b] = Append(down[b], packet)
      BY <1>4, ReadersAreAgents DEF SendNotice, Deliver
    <2>3. ~ For(b, n) /\ For(b, n)'
      <3>1. Len(messages) \in 0 .. MaxMessages
        BY UnreadType
      <3> QED  BY <1>1, <1>2, <3>1, Numbers DEF For
    <2>4. Unanswering(b, packet)
      BY <2>1, <2>3 DEF Unanswering
    <2> HIDE DEF packet
    <2> QED  BY <1>2, <1>3, <2>1, <2>2, <2>4 DEF Gets
  <1>5. CASE a # b
    <2>1. down'[b] = down[b]
      BY <1>5, ReadersAreAgents DEF SendNotice, Deliver
    <2> QED  BY <1>2, <1>3, <2>1 DEF Apart
  <1> QED  BY <1>4, <1>5

LEMMA PeerMessageAside ==
    ASSUME Typed, NEW b \in Readers, NEW from \in Agents, NEW to \in Targets,
           NEW type \in PeerTypes, PeerMessage(from, to, type)
    PROVE  Apart(b) \/ Gets(b)
  <1> PICK n : n = Len(messages) + 1
    OBVIOUS
  <1>1. /\ messages \in Seq(Targets)
        /\ readBy \in Seq(SUBSET Agents) /\ Len(readBy) = Len(messages)
        /\ b \in Agents
    BY ReadersAreAgents DEF Typed, TypeOK
  <1>2. n \in Nat /\ n >= 1 /\ n <= MaxMessages
    BY <1>1 DEF PeerMessage
  <1>3. /\ messages' = Append(messages, to)
        /\ readBy' = Append(readBy, {})
        /\ UNCHANGED <<online, gone, noticed>>
        /\ Same(b)
    BY DEF PeerMessage, Same, links, ghosts
  <1>4. /\ DOMAIN messages = 1 .. Len(messages)
        /\ Len(messages') = n
        /\ \A i \in DOMAIN messages : messages'[i] = messages[i]
        /\ messages'[n] = to
    BY <1>1, <1>3, AppendProperties
  <1>5. /\ DOMAIN readBy' = 1 .. n /\ DOMAIN readBy = 1 .. Len(messages)
        /\ \A i \in DOMAIN readBy : readBy'[i] = readBy[i]
        /\ readBy'[n] = {}
    <2>1. {} \in SUBSET Agents
      OBVIOUS
    <2> QED  BY <1>1, <1>3, <2>1, AppendIndices
  <1>6. \A k : IsMarked(b, k)' <=> IsMarked(b, k)
    BY <1>1, <1>2, <1>5 DEF IsMarked
  <1>7. Aside(b)
    BY <1>1, <1>2, <1>3, <1>4, <1>6 DEF Aside, For
  <1> DEFINE receivers == IF type = "hidden" THEN {} ELSE LiveTo(from, to)
  <1>8. PICK ids \in Contents(type, n) :
           Deliver(receivers, [type |-> type, ids |-> ids, query |-> 0])
    BY DEF PeerMessage
  <1>9. CASE b \in receivers
    <2> DEFINE packet == [type |-> type, ids |-> ids, query |-> 0]
    <2>1. /\ type \in PeerTypes \ {"hidden"}
          /\ to \in {b, "broadcast"}
      BY <1>9 DEF LiveTo
    <2>2. ids = IF type \in {"chat", "share"} THEN {n} ELSE ids \intersect {0}
      BY <1>8, <2>1 DEF Contents, PeerTypes
    <2>3. type # "inbox" => ids = {} \/ type \in {"chat", "share"}
      BY <1>8, <2>1 DEF Contents, PeerTypes
    <2>4. packet \in Packet
      <3>1. ids \in SUBSET Ids
        BY <1>2, <2>2, Numbers DEF Ids
      <3> QED  BY <2>1, <3>1, Numbers DEF Packet
    <2>5. down'[b] = Append(down[b], packet)
      BY <1>1, <1>8, <1>9 DEF Deliver
    <2>6. ~ For(b, n) /\ For(b, n)'
      BY <1>1, <1>2, <1>4, <2>1, Numbers DEF For
    <2>7. Unanswering(b, packet)
      BY <2>1, <2>2, <2>3, <2>6 DEF Unanswering, Live, Forged, PeerTypes
    <2> HIDE DEF packet
    <2> QED  BY <1>3, <1>7, <2>4, <2>5, <2>7 DEF Gets
  <1>10. CASE b \notin receivers
    <2>1. down'[b] = down[b]
      BY <1>1, <1>8, <1>10 DEF Deliver
    <2> QED  BY <1>3, <1>7, <2>1 DEF Apart
  <1> QED  BY <1>9, <1>10

LEMMA ClientAside ==
    ASSUME Typed, NEW b \in Readers, NEW a \in Readers, a # b, ClientStep(a)
    PROVE  Apart(b)
  <1>1. a \in Agents /\ b \in Agents
    BY ReadersAreAgents
  <1>2. SUFFICES /\ UNCHANGED <<messages, readBy, online, gone, noticed>>
                 /\ down'[b] = down[b]
                 /\ Same(b)
    BY DEF Apart, Aside, For, IsMarked
  <1>3. CASE Receive(a)
    BY <1>1, <1>3 DEF Receive, Same, Typed, TypeOK, table, links
  <1>4. ASSUME NEW c \in Calls, NEW tool, NEW mark, StartCall(a, c, tool, mark)
        PROVE  /\ UNCHANGED <<messages, readBy, online, gone, noticed>>
               /\ down'[b] = down[b]
               /\ Same(b)
    BY <1>1, <1>4 DEF StartCall, Same, Typed, TypeOK, table, links
  <1>5. ASSUME NEW c \in Calls, Timeout(a, c)
        PROVE  /\ UNCHANGED <<messages, readBy, online, gone, noticed>>
               /\ down'[b] = down[b]
               /\ Same(b)
    BY <1>1, <1>5 DEF Timeout, Same, Typed, TypeOK, table, links
  <1>6. ASSUME NEW c \in Calls, Finish(a, c)
        PROVE  /\ UNCHANGED <<messages, readBy, online, gone, noticed>>
               /\ down'[b] = down[b]
               /\ Same(b)
    BY <1>1, <1>6 DEF Finish, Same, Typed, TypeOK, table, links
  <1> QED  BY <1>3, <1>4, <1>5, <1>6 DEF ClientStep

-----------------------------------------------------------------------------
(* MailInv is inductive.                                                    *)

LEMMA PartsStep ==
    ASSUME Typed, NEW b \in Readers, Parts(b), Next
    PROVE  Parts(b)'
  <1>1. ASSUME NEW a \in Agents, Register(a)  PROVE Parts(b)'
    BY <1>1, RegisterAside, AsideKeeps
  <1>2. ASSUME NEW a \in Agents, Leave(a)  PROVE Parts(b)'
    BY <1>2, LeaveAside, LeaveKeeps, AsideKeeps
  <1>3. ASSUME NEW a \in Agents, HandleQuery(a)  PROVE Parts(b)'
    BY <1>3, HandleQueryAside, HandleQueryAnswers, AnswersKeeps, AsideKeeps
  <1>4. ASSUME NEW a \in Agents, SendNotice(a)  PROVE Parts(b)'
    BY <1>4, SendNoticeAside, AsideKeeps
  <1>5. ASSUME NEW a \in Agents, NEW to \in Targets, NEW type \in PeerTypes,
               PeerMessage(a, to, type)
        PROVE  Parts(b)'
    BY <1>5, PeerMessageAside, AsideKeeps
  <1>6. ASSUME NEW a \in Readers, ClientStep(a)  PROVE Parts(b)'
    <2>1. CASE a # b
      BY <1>6, <2>1, ClientAside, AsideKeeps
    <2>2. CASE Receive(b)
      BY <2>2, ReceiveTakes, TookKeeps
    <2>3. ASSUME NEW c \in Calls, NEW tool \in {"inbox", "status"}, NEW mark,
                 StartCall(b, c, tool, mark)
          PROVE  Parts(b)'
      BY <2>3, StartCallKeeps
    <2>4. ASSUME NEW c \in Calls, Timeout(b, c)  PROVE Parts(b)'
      BY <2>4, TimeoutKeeps
    <2>5. ASSUME NEW c \in Calls, Finish(b, c)  PROVE Parts(b)'
      BY <2>5, FinishShows, ShowsKeeps
    <2> QED  BY <1>6, <2>1, <2>2, <2>3, <2>4, <2>5 DEF ClientStep
  <1> QED  BY <1>1, <1>2, <1>3, <1>4, <1>5, <1>6 DEF Next

LEMMA MailInit == Init => MailInv
  <1> SUFFICES ASSUME Init  PROVE MailInv
    OBVIOUS
  <1>1. Typed
    BY TypeInit
  <1>2. \A a \in Agents \ Readers : up[a] = <<>>
    BY DEF Init
  <1>3. ASSUME NEW a \in Readers  PROVE Parts(a)
    <2>1. /\ down[a] = <<>> /\ up[a] = <<>> /\ inbox[a] = <<>>
          /\ \A c \in Calls : calls[a][c] = Idle
          /\ shown[a] = {} /\ again[a] = {} /\ unasked[a] = {} /\ readBy = <<>>
      BY ReadersAreAgents DEF Init
    <2>2. /\ \A n : ~ Arrived(a, n) /\ ~ Answered(a, n) /\ ~ IsMarked(a, n)
          /\ \A i : ~ InboxQuery(a, i) /\ ~ InboxAnswer(a, i)
          /\ \A c \in Calls : ~ Open(a, c) /\ ~ ReadingInbox(a, c)
      BY <2>1 DEF Arrived, Answered, IsMarked, InboxQuery, InboxAnswer, Open, ReadingInbox,
                  ToSet
    <2> QED  BY <2>1, <2>2 DEF Parts, Wired, Kept, Orderly, Own, Once
  <1> QED  BY <1>1, <1>2, <1>3 DEF MailInv

LEMMA MailStep == MailInv /\ [Next]_vars => MailInv'
  <1> SUFFICES ASSUME MailInv, [Next]_vars  PROVE MailInv'
    OBVIOUS
  <1>1. Typed'
    BY TypeStep DEF MailInv
  <1>2. CASE UNCHANGED vars
    <2>1. ASSUME NEW b \in Readers  PROVE Parts(b)'
      <3>1. Apart(b)
        BY <1>2 DEF Apart, Same, Aside, For, IsMarked, vars, table, links, ghosts
      <3> QED  BY <3>1, AsideKeeps DEF MailInv
    <2> QED  BY <1>1, <1>2, <2>1 DEF MailInv, vars
  <1>3. CASE Next
    <2>1. \A b \in Readers : Parts(b)'
      BY <1>3, PartsStep DEF MailInv
    <2>2. ASSUME NEW a \in Agents \ Readers  PROVE up'[a] = <<>>
      <3>1. up[a] = <<>>
        BY DEF MailInv
      <3>2. \A b \in Readers : b # a
        OBVIOUS
      <3> QED
        BY <1>3, <3>1, <3>2 DEF Next, Register, Leave, HandleQuery, SendNotice, PeerMessage,
           ClientStep, Receive, StartCall, Timeout, Finish, MailInv, Typed, TypeOK
    <2> QED  BY <1>1, <2>1, <2>2 DEF MailInv
  <1> QED  BY <1>2, <1>3

LEMMA MailInvariant == Spec => []MailInv
  BY MailInit, MailStep, PTL DEF Spec

-----------------------------------------------------------------------------
(* What follows.                                                            *)

\* A message that the server has marked read has been shown or is on its way to
\* be, unless its answer came when no inbox query waited; which takes calls that
\* overlap or time out, or a peer's inbox_response that one of them has taken.
THEOREM MarkedReadIsNotLost == Spec => []MarkedReadIsShown
  <1>1. MailInv => MarkedReadIsShown
    <2> SUFFICES ASSUME MailInv, NEW a \in online \intersect Readers
                 PROVE  /\ \A n \in DOMAIN messages :
                              a \in readBy[n] => n \in shown[a] \union InAnswer(a) \union unasked[a]
                        /\ a \notin disturbed => unasked[a] = {}
      BY DEF MarkedReadIsShown
    <2>1. DOMAIN readBy = DOMAIN messages
      BY UnreadType DEF MailInv
    <2>2. \A n : Answered(a, n) => n \in InAnswer(a)
      BY DEF Answered, InAnswer, ReadingInbox, Open
    <2>3. \A n \in DOMAIN messages :
             a \in readBy[n] => n \in shown[a] \union InAnswer(a) \union unasked[a]
      BY <2>1, <2>2 DEF MailInv, Parts, Kept, IsMarked
    <2>4. a \notin disturbed => unasked[a] = {}
      BY DEF MailInv, Parts, Orderly
    <2> QED  BY <2>3, <2>4
  <1> QED  BY <1>1, MailInvariant, PTL

\* Calls one after the other that mark what they show as read, and take no peer's
\* inbox_response, show each message once, unless a query left it unread because
\* of its limit.
THEOREM EachIsShownOnce == Spec => []ShownOnce
  <1>1. MailInv => ShownOnce
    BY DEF MailInv, Parts, Once, ShownOnce
  <1> QED  BY <1>1, MailInvariant, PTL

\* nexus_read_inbox has the answer to its own query, though no answer names its
\* query, unless calls have overlapped or timed out or one has taken a peer's
\* inbox_response.
THEOREM AnswersAreOwn == Spec => []OwnAnswer
  <1>1. MailInv => OwnAnswer
    BY DEF MailInv, Parts, Own, ReadingInbox, Open, OwnAnswer
  <1> QED  BY <1>1, MailInvariant, PTL
=============================================================================
