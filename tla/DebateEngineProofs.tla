------------------------- MODULE DebateEngineProofs --------------------------
(***************************************************************************)
(* Proofs about DebateEngine, for any participants, positions, numbers of  *)
(* debates, rounds and arguments.  Verdicts are opaque here: only that     *)
(* evaluate() returns one matters.                                         *)
(***************************************************************************)
EXTENDS DebateEngine, SequenceTheorems, TLAPS

Results == {Evaluate(args) : args \in Seq(Argument) \ {<<>>}}

ProvedSession ==
    [taskId : Topics,
     participants : SUBSET Participants,
     arguments : Seq(Argument),
     currentRound : 1 .. MaxRounds,
     verdict : Results \union {NoVerdict}]

\* A session whose rounds are complete: the strengthening of RoundsAreComplete.
Good(s) ==
    /\ s \in ProvedSession
    /\ \A i \in DOMAIN s.arguments :
          /\ s.arguments[i].agentId \in s.participants
          /\ s.arguments[i].round <= s.currentRound
    /\ \A i, j \in DOMAIN s.arguments :
          i < j => s.arguments[i].round <= s.arguments[j].round
    /\ \A r \in 1 .. s.currentRound - 1 : ArguedIn(s.arguments, r) = s.participants
    /\ s.currentRound > 1 => s.arguments # <<>>

EngineInv ==
    /\ sessions \in Seq(ProvedSession)
    /\ \A d \in DOMAIN sessions : Good(sessions[d])

\* evaluate() returns a verdict.
LEMMA ResultIsVerdict == \A v \in Results : v # NoVerdict
  <1> SUFFICES ASSUME NEW args \in Seq(Argument)  PROVE Evaluate(args) # NoVerdict
    BY DEF Results
  <1>1. Evaluate(args).outcome \in {"consensus", "majority", "tiebreak"}
    BY DEF Evaluate
  <1>2. NoVerdict.outcome = "none"
    BY DEF NoVerdict
  <1> QED  BY <1>1, <1>2

\* One more argument adds its agent to those who argued in its round.
LEMMA ArguedInAppend ==
    ASSUME NEW args \in Seq(Argument), NEW x \in Argument, NEW r
    PROVE  ArguedIn(Append(args, x), r) =
               IF x.round = r THEN ArguedIn(args, r) \union {x.agentId}
                              ELSE ArguedIn(args, r)
  <1> DEFINE new == Append(args, x)
             n == Len(args)
  <1>1. /\ DOMAIN new = 1 .. n + 1 /\ DOMAIN args = 1 .. n /\ n \in Nat
        /\ \A i \in 1 .. n : new[i] = args[i]
        /\ new[n + 1] = x
    BY AppendProperties
  <1> HIDE DEF new, n
  <1>2. ASSUME NEW a \in ArguedIn(new, r)
        PROVE  a \in ArguedIn(args, r) \/ (a = x.agentId /\ x.round = r)
    <2>1. PICK i \in DOMAIN new : new[i].round = r /\ a = new[i].agentId
      BY <1>2 DEF ArguedIn
    <2>2. i \in 1 .. n \/ i = n + 1
      BY <1>1, <2>1
    <2> QED  BY <1>1, <2>1, <2>2 DEF ArguedIn
  <1>3. ArguedIn(args, r) \subseteq ArguedIn(new, r)
    BY <1>1 DEF ArguedIn
  <1>4. x.round = r => x.agentId \in ArguedIn(new, r)
    <2>1. n + 1 \in DOMAIN new
      BY <1>1
    <2> QED  BY <1>1, <2>1 DEF ArguedIn
  <1> QED  BY <1>2, <1>3, <1>4 DEF new

\* In a good session nobody has argued in a later round.
LEMMA NobodyIsAhead ==
    ASSUME NEW s, Good(s)
    PROVE  ArguedIn(s.arguments, s.currentRound + 1) = {}
  <1> SUFFICES ASSUME NEW i \in DOMAIN s.arguments,
                      s.arguments[i].round = s.currentRound + 1
               PROVE  FALSE
    BY DEF ArguedIn
  <1>1. s.currentRound \in Nat /\ s.arguments[i].round <= s.currentRound
    BY DEF Good, ProvedSession
  <1> QED  BY <1>1

\* An argument of a participant, before maybeAdvanceRound looks at it.
LEMMA ArgumentKeepsGood ==
    ASSUME NEW s, Good(s), NEW x \in Argument, x.agentId \in s.participants,
           x.round = s.currentRound,
           NEW t, t = [s EXCEPT !.arguments = Append(s.arguments, x)]
    PROVE  /\ Good(t)
           /\ t.arguments # <<>>
           /\ t.taskId = s.taskId /\ t.participants = s.participants
           /\ t.currentRound = s.currentRound /\ t.verdict = s.verdict
           /\ ArguedIn(t.arguments, s.currentRound) =
                  ArguedIn(s.arguments, s.currentRound) \union {x.agentId}
  <1> DEFINE new == Append(s.arguments, x)
             n == Len(s.arguments)
  <1>1. s.currentRound \in 1 .. MaxRounds /\ s.arguments \in Seq(Argument)
    BY DEF Good, ProvedSession
  <1>2. /\ new \in Seq(Argument) /\ new # <<>>
        /\ DOMAIN new = 1 .. n + 1 /\ DOMAIN s.arguments = 1 .. n /\ n \in Nat
        /\ \A i \in 1 .. n : new[i] = s.arguments[i]
        /\ new[n + 1] = x
    BY <1>1, AppendProperties
  <1>3. \A r : ArguedIn(new, r) = IF r = s.currentRound
                                  THEN ArguedIn(s.arguments, r) \union {x.agentId}
                                  ELSE ArguedIn(s.arguments, r)
    BY <1>1, ArguedInAppend
  <1> HIDE DEF new, n
  <1>4. /\ t \in ProvedSession /\ t.arguments = new
        /\ t.taskId = s.taskId /\ t.participants = s.participants
        /\ t.currentRound = s.currentRound /\ t.verdict = s.verdict
    BY <1>2 DEF Good, ProvedSession, new
  <1>5. \A i \in DOMAIN new : new[i].agentId \in s.participants
                              /\ new[i].round <= s.currentRound
    <2> TAKE i \in DOMAIN new
    <2>1. CASE i \in 1 .. n
      BY <1>2, <2>1 DEF Good
    <2>2. CASE i = n + 1
      BY <1>1, <1>2, <2>2
    <2> QED  BY <1>2, <2>1, <2>2
  <1>6. \A i, j \in DOMAIN new : i < j => new[i].round <= new[j].round
    <2> SUFFICES ASSUME NEW i \in DOMAIN new, NEW j \in DOMAIN new, i < j
                 PROVE  new[i].round <= new[j].round
      OBVIOUS
    <2>1. CASE j \in 1 .. n
      <3>1. i \in 1 .. n
        BY <1>2, <2>1
      <3> QED  BY <1>2, <2>1, <3>1 DEF Good
    <2>2. CASE j = n + 1
      BY <1>1, <1>2, <1>5, <2>2
    <2> QED  BY <1>2, <2>1, <2>2
  <1>7. \A r \in 1 .. s.currentRound - 1 : ArguedIn(new, r) = s.participants
    BY <1>1, <1>3 DEF Good
  <1>8. Good(t)
    BY <1>2, <1>4, <1>5, <1>6, <1>7 DEF Good
  <1> QED  BY <1>2, <1>3, <1>4, <1>8

\* maybeAdvanceRound keeps the rounds complete.
LEMMA AdvanceKeepsGood ==
    ASSUME NEW s, Good(s), s.arguments # <<>>
    PROVE  Good(MaybeAdvanceRound(s))
  <1> DEFINE cr == s.currentRound
             decided == [s EXCEPT !.verdict = Evaluate(s.arguments)]
             next == [s EXCEPT !.currentRound = s.currentRound + 1]
  <1>1. cr \in 1 .. MaxRounds /\ s.arguments \in Seq(Argument)
    BY DEF Good, ProvedSession
  <1>2. CASE ~ (s.participants \subseteq ArguedIn(s.arguments, cr))
    BY <1>2 DEF MaybeAdvanceRound
  <1>3. CASE s.participants \subseteq ArguedIn(s.arguments, cr) /\ cr >= MaxRounds
    <2>1. MaybeAdvanceRound(s) = decided
      BY <1>3 DEF MaybeAdvanceRound
    <2>2. Evaluate(s.arguments) \in Results
      BY <1>1 DEF Results
    <2>3. /\ decided \in ProvedSession /\ decided.arguments = s.arguments
          /\ decided.participants = s.participants /\ decided.currentRound = cr
      BY <2>2 DEF Good, ProvedSession
    <2> HIDE DEF decided
    <2> QED  BY <2>1, <2>3 DEF Good
  <1>4. CASE s.participants \subseteq ArguedIn(s.arguments, cr) /\ ~ (cr >= MaxRounds)
    <2>1. MaybeAdvanceRound(s) = next
      BY <1>4 DEF MaybeAdvanceRound
    <2>2. cr + 1 \in 1 .. MaxRounds
      BY <1>1, <1>4, RoundsArePositive
    <2>3. /\ next \in ProvedSession /\ next.arguments = s.arguments
          /\ next.participants = s.participants /\ next.currentRound = cr + 1
      BY <2>2 DEF Good, ProvedSession
    <2>4. ArguedIn(s.arguments, cr) = s.participants
      BY <1>4 DEF Good, ArguedIn
    <2>5. \A r \in 1 .. (cr + 1) - 1 : ArguedIn(s.arguments, r) = s.participants
      BY <1>1, <2>4 DEF Good
    <2>6. \A i \in DOMAIN s.arguments : s.arguments[i].round \in Nat
      <3>1. \A i \in DOMAIN s.arguments : s.arguments[i] \in Argument
        BY <1>1
      <3> QED  BY <3>1, RoundsArePositive DEF Argument
    <2>7. \A i \in DOMAIN s.arguments : s.arguments[i].round <= cr + 1
      BY <1>1, <2>6 DEF Good
    <2> HIDE DEF next
    <2> QED  BY <2>1, <2>3, <2>5, <2>7 DEF Good
  <1> QED  BY <1>2, <1>3, <1>4

\* A session has arguments exactly when the server's model says so.
LEMMA ArgumentsAreSeen ==
    ASSUME NEW s, Good(s)
    PROVE  s.arguments # <<>> <=>
               s.currentRound > 1 \/ ArguedIn(s.arguments, s.currentRound) # {}
  <1>1. s.currentRound \in Nat /\ s.arguments \in Seq(Argument)
        /\ s.currentRound >= 1
    BY RoundsArePositive DEF Good, ProvedSession
  <1>2. ASSUME s.arguments # <<>>, ~ s.currentRound > 1
        PROVE  ArguedIn(s.arguments, s.currentRound) # {}
    <2>1. 1 \in DOMAIN s.arguments /\ s.currentRound = 1
      BY <1>1, <1>2
    <2>2. s.arguments[1] \in Argument
      BY <1>1, <2>1
    <2>3. s.arguments[1].round <= 1 /\ s.arguments[1].round \in 1 .. MaxRounds
      BY <2>1, <2>2 DEF Good, Argument
    <2>4. s.arguments[1].round = 1
      BY <2>3, RoundsArePositive
    <2> QED  BY <2>1, <2>4 DEF ArguedIn
  <1>3. ASSUME ArguedIn(s.arguments, s.currentRound) # {}  PROVE s.arguments # <<>>
    BY <1>3 DEF ArguedIn
  <1> QED  BY <1>2, <1>3 DEF Good

-----------------------------------------------------------------------------
(* Every step keeps EngineInv, and is a step of DebateSessions.             *)

\* What the server's model sees of a session
SeenOf(s) ==
    [taskId |-> s.taskId, participants |-> s.participants,
     currentRound |-> s.currentRound,
     argued |-> ArguedIn(s.arguments, s.currentRound),
     status |-> IF Active(s) THEN "active" ELSE "resolved"]

\* What the task server sees of the engine, session by session.
LEMMA SeenSessions ==
    /\ Seen = [d \in DOMAIN sessions |-> SeenOf(sessions[d])]
    /\ Seen' = [d \in DOMAIN sessions' |-> SeenOf(sessions'[d])]
  BY DEF Seen, SeenOf, Active

\* Seen is a sequence as well.
LEMMA SeenIsASequence ==
    ASSUME NEW q \in Seq(ProvedSession)
    PROVE  /\ [d \in DOMAIN q |-> SeenOf(q[d])] \in Seq({SeenOf(s) : s \in ProvedSession})
           /\ Len([d \in DOMAIN q |-> SeenOf(q[d])]) = Len(q)
  <1>1. DOMAIN q = 1 .. Len(q) /\ Len(q) \in Nat
    OBVIOUS
  <1>2. \A d \in DOMAIN q : SeenOf(q[d]) \in {SeenOf(s) : s \in ProvedSession}
    BY ElementOfSeq
  <1> HIDE DEF SeenOf
  <1> QED  BY <1>1, <1>2

\* A new debate is a new one for the server, too.
LEMMA InitiateStep ==
    ASSUME EngineInv, NEW t \in Topics, NEW P \in SUBSET Participants, Initiate(t, P)
    PROVE  EngineInv' /\ Sessions!Initiate(t, P)
  <1> DEFINE new == [taskId |-> t, participants |-> P, arguments |-> <<>>,
                     currentRound |-> 1, verdict |-> NoVerdict]
             n == Len(sessions)
             seen == [taskId |-> t, participants |-> P, currentRound |-> 1,
                      argued |-> {}, status |-> "active"]
  <1>1. new \in ProvedSession
    <2>1. <<>> \in Seq(Argument) /\ 1 \in 1 .. MaxRounds
      BY RoundsArePositive
    <2> QED  BY <2>1 DEF ProvedSession
  <1>2. Good(new)
    BY <1>1 DEF Good
  <1>3. SeenOf(new) = seen
    BY DEF SeenOf, ArguedIn, Active
  <1>4. sessions' = Append(sessions, new)
    BY DEF Initiate
  <1> HIDE DEF new, seen
  <1>5. /\ sessions' \in Seq(ProvedSession) /\ Len(sessions') = n + 1 /\ n \in Nat
        /\ DOMAIN sessions' = 1 .. n + 1 /\ DOMAIN sessions = 1 .. n
        /\ \A d \in 1 .. n : sessions'[d] = sessions[d]
        /\ sessions'[n + 1] = new
    BY <1>1, <1>4, AppendProperties DEF EngineInv
  <1> HIDE DEF n
  <1>6. EngineInv'
    <2> SUFFICES ASSUME NEW d \in DOMAIN sessions'  PROVE Good(sessions'[d])
      BY <1>5 DEF EngineInv
    <2>1. d \in 1 .. n \/ d = n + 1
      BY <1>5
    <2> QED  BY <1>2, <1>5, <2>1 DEF EngineInv
  <1>7. Seen' = Append(Seen, seen)
    <2> DEFINE S == {SeenOf(s) : s \in ProvedSession}
    <2>1. /\ Seen \in Seq(S) /\ Len(Seen) = n /\ Seen' \in Seq(S) /\ Len(Seen') = n + 1
      BY <1>5, SeenSessions, SeenIsASequence DEF EngineInv, n
    <2>2. seen \in S
      BY <1>1, <1>3
    <2> HIDE DEF S
    <2>3. /\ Append(Seen, seen) \in Seq(S) /\ Len(Append(Seen, seen)) = n + 1
          /\ \A i \in 1 .. n : Append(Seen, seen)[i] = Seen[i]
          /\ Append(Seen, seen)[n + 1] = seen
      BY <2>1, <2>2, AppendProperties
    <2>4. ASSUME NEW i \in 1 .. n + 1  PROVE Seen'[i] = Append(Seen, seen)[i]
      <3>1. Seen'[i] = SeenOf(sessions'[i])
        BY <1>5, SeenSessions
      <3>2. CASE i \in 1 .. n
        <4>1. Seen[i] = SeenOf(sessions[i])
          BY <1>5, <3>2, SeenSessions
        <4> QED  BY <1>5, <2>3, <3>1, <3>2, <4>1
      <3>3. CASE i = n + 1
        BY <1>3, <1>5, <2>3, <3>1, <3>3
      <3>4. i \in 1 .. n \/ i = n + 1
        BY <1>5
      <3> QED  BY <3>2, <3>3, <3>4
    <2> QED  BY <2>1, <2>3, <2>4, SeqEqual
  <1> QED  BY <1>6, <1>7 DEF Sessions!Initiate, seen

\* What becomes of one session changes the sequence in one place.
LEMMA OneSessionChanges ==
    ASSUME EngineInv, NEW d \in DOMAIN sessions, NEW new, Good(new),
           sessions' = [sessions EXCEPT ![d] = new]
    PROVE  /\ EngineInv'
           /\ Seen' = [Seen EXCEPT ![d] = SeenOf(new)]
  <1>1. new \in ProvedSession
    BY DEF Good
  <1>2. sessions' \in Seq(ProvedSession) /\ DOMAIN sessions' = DOMAIN sessions
    BY <1>1, ExceptSeq DEF EngineInv
  <1>3. \A e \in DOMAIN sessions : sessions'[e] = IF e = d THEN new ELSE sessions[e]
    OBVIOUS
  <1>4. EngineInv'
    BY <1>2, <1>3 DEF EngineInv
  <1>5. Seen' = [Seen EXCEPT ![d] = SeenOf(new)]
    BY <1>2, <1>3, SeenSessions
  <1> QED  BY <1>4, <1>5

\* An argument counts for the server as its sender's, and ends the round, or
\* the debate, at the same moment.
LEMMA ArgueStep ==
    ASSUME EngineInv, NEW d \in DOMAIN sessions, NEW a \in Participants,
           NEW p \in Positions, NEW c \in Confidences, SubmitArgument(d, a, p, c)
    PROVE  EngineInv' /\ Sessions!MayArgue(d, a) /\ Sessions!SubmitArgument(d, a)
  <1> DEFINE s == sessions[d]
             x == [agentId |-> a, position |-> p, confidence |-> c,
                   round |-> s.currentRound]
             t == [s EXCEPT !.arguments = Append(s.arguments, x)]
             new == MaybeAdvanceRound(t)
             cr == s.currentRound
             argued == ArguedIn(s.arguments, cr) \union {a}
  <1>1. Good(s) /\ Active(s) /\ a \in s.participants
    BY DEF EngineInv, SubmitArgument
  <1>3. sessions' = [sessions EXCEPT ![d] = new]
    BY DEF SubmitArgument
  <1> HIDE DEF s
  <1>2. /\ Good(t) /\ t.arguments # <<>>
        /\ t.taskId = s.taskId /\ t.participants = s.participants
        /\ t.currentRound = cr /\ t.verdict = s.verdict
        /\ ArguedIn(t.arguments, cr) = argued
    <2>1. x \in Argument /\ x.agentId = a /\ x.round = cr
      BY <1>1 DEF Good, ProvedSession, Argument
    <2> HIDE DEF x
    <2> QED  BY <1>1, <2>1, ArgumentKeepsGood
  <1> HIDE DEF t, x
  <1>4. Good(new)
    BY <1>2, AdvanceKeepsGood
  <1>5. EngineInv' /\ Seen' = [Seen EXCEPT ![d] = SeenOf(new)]
    BY <1>3, <1>4, OneSessionChanges
  <1>6. Seen[d] = SeenOf(s)
    BY SeenSessions DEF s
  <1>7. SeenOf(s).status = "active" /\ SeenOf(s).participants = s.participants
        /\ SeenOf(s).currentRound = cr
        /\ SeenOf(s).argued = ArguedIn(s.arguments, cr)
    BY <1>1 DEF SeenOf
  <1>8. SeenOf(new) =
            IF ~ (s.participants \subseteq argued)
            THEN [SeenOf(s) EXCEPT !.argued = argued]
            ELSE IF cr >= MaxRounds
            THEN [SeenOf(s) EXCEPT !.argued = argued, !.status = "resolved"]
            ELSE [SeenOf(s) EXCEPT !.argued = {}, !.currentRound = cr + 1]
    <2>1. t.arguments \in Seq(Argument) /\ cr \in Nat
      BY <1>2, RoundsArePositive DEF Good, ProvedSession
    <2>2. CASE ~ (s.participants \subseteq argued)
      <3>1. new = t
        BY <1>2, <2>2 DEF MaybeAdvanceRound
      <3> QED  BY <1>1, <1>2, <2>2, <3>1 DEF SeenOf, Active
    <2>3. CASE s.participants \subseteq argued /\ cr >= MaxRounds
      <3> DEFINE v == Evaluate(t.arguments)
      <3>1. new = [t EXCEPT !.verdict = v]
        BY <1>2, <2>3 DEF MaybeAdvanceRound
      <3>2. v # NoVerdict
        BY <1>2, <2>1, ResultIsVerdict DEF Results
      <3> HIDE DEF v, new
      <3>3. /\ new.taskId = s.taskId /\ new.participants = s.participants
            /\ new.currentRound = cr /\ new.arguments = t.arguments /\ new.verdict = v
        BY <1>2, <3>1 DEF Good, ProvedSession
      <3> QED  BY <1>1, <1>2, <2>3, <3>2, <3>3 DEF SeenOf, Active
    <2>4. CASE s.participants \subseteq argued /\ ~ (cr >= MaxRounds)
      <3>1. new = [t EXCEPT !.currentRound = t.currentRound + 1]
        BY <1>2, <2>4 DEF MaybeAdvanceRound
      <3> HIDE DEF new
      <3>2. /\ new.taskId = s.taskId /\ new.participants = s.participants
            /\ new.currentRound = cr + 1 /\ new.arguments = t.arguments
            /\ new.verdict = s.verdict
        BY <1>2, <3>1 DEF Good, ProvedSession
      <3>3. ArguedIn(t.arguments, cr + 1) = {}
        BY <1>2, NobodyIsAhead
      <3> QED  BY <1>1, <1>2, <2>4, <3>2, <3>3 DEF SeenOf, Active
    <2> QED  BY <2>2, <2>3, <2>4
  <1>9. Sessions!MayArgue(d, a)
    BY <1>1, <1>6, <1>7 DEF Sessions!MayArgue, Sessions!Active
  <1> HIDE DEF new
  <1>10. Sessions!SubmitArgument(d, a)
    BY <1>5, <1>6, <1>7, <1>8 DEF Sessions!SubmitArgument
  <1> QED  BY <1>5, <1>9, <1>10

\* A health check resolves the same debates that it does for the server.
LEMMA TimeoutStep ==
    ASSUME EngineInv, NEW E \in SUBSET DOMAIN sessions, Timeout(E)
    PROVE  EngineInv' /\ Sessions!EvaluateAll(E)
  <1> DEFINE Ends(d) == d \in E /\ Active(sessions[d]) /\ sessions[d].arguments # <<>>
             ended(d) == [sessions[d] EXCEPT !.verdict = Evaluate(sessions[d].arguments)]
  <1>1. /\ DOMAIN sessions = 1 .. Len(sessions) /\ Len(sessions) \in Nat
        /\ \A d \in DOMAIN sessions : Good(sessions[d])
    BY DEF EngineInv
  <1>2. sessions' = [d \in DOMAIN sessions |-> IF Ends(d) THEN ended(d) ELSE sessions[d]]
    BY DEF Timeout
  <1>3. ASSUME NEW d \in DOMAIN sessions, Ends(d)
        PROVE  /\ Good(ended(d))
               /\ SeenOf(ended(d)) = [SeenOf(sessions[d]) EXCEPT !.status = "resolved"]
    <2> DEFINE s == sessions[d]
               v == Evaluate(s.arguments)
               t == ended(d)
    <2>1. Good(s) /\ s.arguments \in Seq(Argument) /\ s.arguments # <<>>
      BY <1>1, <1>3 DEF Good, ProvedSession
    <2>2. v \in Results /\ v # NoVerdict
      BY <2>1, ResultIsVerdict DEF Results
    <2> HIDE DEF v
    <2>3. t = [s EXCEPT !.verdict = v]
      BY DEF v
    <2> HIDE DEF s, t
    <2>4. /\ t \in ProvedSession /\ t.arguments = s.arguments /\ t.verdict = v
          /\ t.taskId = s.taskId /\ t.participants = s.participants
          /\ t.currentRound = s.currentRound
      BY <2>1, <2>2, <2>3 DEF Good, ProvedSession
    <2>5. Good(t)
      BY <2>1, <2>4 DEF Good
    <2>6. SeenOf(t) = [SeenOf(s) EXCEPT !.status = "resolved"]
      BY <2>2, <2>4 DEF SeenOf, Active
    <2> QED  BY <2>5, <2>6 DEF s, t
  <1>4. ASSUME NEW d \in DOMAIN sessions
        PROVE  /\ Ends(d) <=>
                     d \in E /\ Sessions!Active(d) /\ Sessions!HasArguments(d)
               /\ Seen[d] = SeenOf(sessions[d])
    <2> DEFINE s == sessions[d]
    <2>1. Seen[d] = SeenOf(s) /\ Good(s)
      BY <1>1, SeenSessions
    <2>2. /\ SeenOf(s).status = "active" <=> Active(s)
          /\ SeenOf(s).currentRound = s.currentRound
          /\ SeenOf(s).argued = ArguedIn(s.arguments, s.currentRound)
      BY DEF SeenOf
    <2>3. s.arguments # <<>> <=>
              s.currentRound > 1 \/ ArguedIn(s.arguments, s.currentRound) # {}
      BY <2>1, ArgumentsAreSeen
    <2> HIDE DEF s
    <2> QED  BY <2>1, <2>2, <2>3 DEF Sessions!Active, Sessions!HasArguments, s
  <1> HIDE DEF Ends, ended
  <1>5. /\ DOMAIN sessions' = DOMAIN sessions
        /\ \A d \in DOMAIN sessions :
              sessions'[d] = IF Ends(d) THEN ended(d) ELSE sessions[d]
    BY <1>2
  <1>6. \A d \in DOMAIN sessions : Good(sessions'[d])
    BY <1>1, <1>3, <1>5
  <1>7. sessions' \in Seq(ProvedSession)
    <2>1. \A d \in 1 .. Len(sessions) :
              (IF Ends(d) THEN ended(d) ELSE sessions[d]) \in ProvedSession
      BY <1>1, <1>3 DEF Good
    <2> QED  BY <1>1, <1>2, <2>1
  <1>8. EngineInv'
    BY <1>5, <1>6, <1>7 DEF EngineInv
  <1>9. DOMAIN Seen = DOMAIN sessions
    BY SeenSessions
  <1>10. Seen' = [d \in DOMAIN sessions |->
                    IF d \in E /\ Sessions!Active(d) /\ Sessions!HasArguments(d)
                    THEN [Seen[d] EXCEPT !.status = "resolved"] ELSE Seen[d]]
    BY <1>3, <1>4, <1>5, SeenSessions
  <1>11. Sessions!EvaluateAll(E)
    BY <1>9, <1>10 DEF Sessions!EvaluateAll
  <1> QED  BY <1>8, <1>11

\* EngineInv is inductive, and a step of the engine is one of DebateSessions.
LEMMA EngineStep ==
    ASSUME EngineInv, [Next]_sessions
    PROVE  EngineInv' /\ [Sessions!Next]_Seen
  <1>1. DOMAIN Seen = DOMAIN sessions
    BY SeenSessions
  <1>2. ASSUME NEW t \in Topics, NEW P \in SUBSET Participants, Initiate(t, P)
        PROVE  EngineInv' /\ Sessions!Next
    BY <1>2, InitiateStep DEF Sessions!Next
  <1>3. ASSUME NEW d \in DOMAIN sessions, NEW a \in Participants,
               NEW p \in Positions, NEW c \in Confidences, SubmitArgument(d, a, p, c)
        PROVE  EngineInv' /\ Sessions!Next
    BY <1>1, <1>3, ArgueStep DEF Sessions!Next
  <1>4. ASSUME NEW E \in SUBSET DOMAIN sessions, Timeout(E)
        PROVE  EngineInv' /\ Sessions!Next
    BY <1>1, <1>4, TimeoutStep DEF Sessions!Next
  <1>5. CASE UNCHANGED sessions
    BY <1>5, SeenSessions DEF EngineInv
  <1> QED  BY <1>2, <1>3, <1>4, <1>5 DEF Next

\* No debates at first, on either side.
LEMMA EngineInit ==
    ASSUME Init
    PROVE  EngineInv /\ Sessions!Init
  <1>1. sessions = <<>>
    BY DEF Init
  <1>2. Seen = <<>>
    BY <1>1, SeenSessions
  <1> QED  BY <1>1, <1>2 DEF EngineInv, Sessions!Init

\* The engine, with its arguments and verdicts, does nothing that the model of
\* the debates inside the coordinator leaves out.
THEOREM EngineImplementsSessions == Spec => ImplementsSessions
  <1>1. Init => EngineInv /\ Sessions!Init
    BY EngineInit
  <1>2. EngineInv /\ [Next]_sessions => EngineInv' /\ [Sessions!Next]_Seen
    BY EngineStep
  <1> QED  BY <1>1, <1>2, PTL DEF Spec, ImplementsSessions, Sessions!Spec

\* No round ends before each participant has argued in it, however often the
\* others repeat themselves.
THEOREM RoundsAreAlwaysComplete == Spec => []RoundsAreComplete
  <1>1. EngineInv => RoundsAreComplete
    BY DEF EngineInv, Good, RoundsAreComplete
  <1> QED  BY <1>1, EngineInit, EngineStep, PTL DEF Spec
=============================================================================
