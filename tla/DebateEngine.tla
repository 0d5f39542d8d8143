---------------------------- MODULE DebateEngine -----------------------------
(***************************************************************************)
(* The debate engine of packages/nexus-server/src/debate-engine.ts with    *)
(* the arguments it collects and the verdicts it computes from them.  It   *)
(* implements DebateSessions, which is all the task server knows of it.    *)
(*                                                                         *)
(* A confidence is a double between 0 and 1, and every sum of confidences  *)
(* is rounded to the nearest double, so that it depends on the order of    *)
(* what is added.  All of them are multiples of the smallest double; here  *)
(* they are counted in that unit.                                          *)
(***************************************************************************)
EXTENDS Naturals, FiniteSets, FiniteSetsExt, Sequences

CONSTANTS
    Participants,    \* agent ids
    Topics,          \* task ids
    Positions,       \* what may be argued
    Doubles,         \* what a number can be, in units of the smallest one
    One,             \* the double 1, the highest confidence
    Confidences,     \* how firmly it may be argued
    Threshold,       \* a share that the division rounds to 0.7 or more, as a
                     \*   fraction [num, den]; consensusThreshold is 0.7
    MaxDebates,      \* bound: debates ever initiated
    MaxRounds,       \* config.maxRounds: 2 for a review
    MaxArguments     \* bound: arguments in one debate

ASSUME RoundsArePositive == MaxRounds \in Nat \ {0}
ASSUME BoundsAreNatural == MaxDebates \in Nat /\ MaxArguments \in Nat
ASSUME ConfidencesAreDoubles ==
    /\ Doubles \subseteq Nat /\ One \in Nat
    /\ \A c \in Confidences : c \in Doubles /\ c <= One

\* The integers that a sum of confidences can reach are doubles, and so is twice
\* a double up to the largest.  That one is out of reach of the sums.
ASSUME DoublesAreDense ==
    /\ \A n \in 0 .. MaxArguments : n * One \in Doubles
    /\ \E largest \in Doubles :
          /\ 2 * MaxArguments * One <= largest
          /\ \A f \in Doubles : 2 * f <= largest => 2 * f \in Doubles

\* A majority is more than half of the weight.
ASSUME ThresholdIsMajority ==
    /\ Threshold.num \in Nat /\ Threshold.den \in Nat
    /\ Threshold.den < 2 * Threshold.num

VARIABLE
    sessions         \* in the order of their initiation

DebateIds == 1 .. MaxDebates

Argument ==
    [agentId : Participants, position : Positions,
     confidence : Confidences, round : 1 .. MaxRounds]

Vote == [position : Positions, confidence : Confidences]

Verdict ==
    [outcome : {"consensus", "majority", "tiebreak"},
     winningPosition : Positions,
     votes : UNION {[A -> Vote] : A \in SUBSET Participants}]

\* status is "resolved" exactly when there is a verdict; NoVerdict is undefined.
NoVerdict == [outcome |-> "none"]

DebateSession ==
    [taskId : Topics,
     participants : SUBSET Participants,
     arguments : Seq(Argument),
     currentRound : 1 .. MaxRounds,
     verdict : Verdict \union {NoVerdict}]

Active(s) == s.verdict = NoVerdict

-----------------------------------------------------------------------------
(* evaluate                                                                 *)

PositionsOf(args) == {args[i].position : i \in DOMAIN args}

\* Of two neighbouring doubles the one that ends in a zero bit.
EvenOf(lo, hi) == IF (lo \div (hi - lo)) % 2 = 0 THEN lo ELSE hi

\* The double that is nearest to n; a tie goes to the even one.
Nearest(n) ==
    LET above == {f \in Doubles : f >= n}
        lo == Max({f \in Doubles : f <= n})
        hi == Min(above)
    IN  IF above = {} \/ n - lo < hi - n THEN lo
        ELSE IF hi - n < n - lo \/ lo = hi THEN hi
        ELSE EvenOf(lo, hi)

\* Addition of doubles.
Plus == [x \in Doubles |-> [y \in Doubles |-> Nearest(x + y)]]

\* What a loop over n numbers adds up.
RoundedSum(numbers, n) ==
    LET sum[i \in 0 .. n] == IF i = 0 THEN 0 ELSE Plus[sum[i - 1]][numbers[i]]
    IN  sum[n]

\* totalConfidence of a position, over the arguments of all rounds in the order
\* of their arrival.  To add a zero changes no sum.
Weight(args, p) ==
    RoundedSum([i \in DOMAIN args |->
                   IF args[i].position = p THEN args[i].confidence ELSE 0],
               Len(args))

\* The positions are added up in the order in which they were first argued.
TotalWeight(args) ==
    RoundedSum([i \in DOMAIN args |->
                   IF \E j \in 1 .. i - 1 : args[j].position = args[i].position
                   THEN 0 ELSE Weight(args, args[i].position)],
               Len(args))

\* The positions with a majority.  Without any weight a share is 0/0, which
\* compares with nothing.
Majority(args) ==
    LET total == TotalWeight(args)
    IN  {p \in PositionsOf(args) :
            total > 0 /\ Threshold.den * Weight(args, p) >= Threshold.num * total}

Heaviest(args) ==
    LET most == Max({Weight(args, p) : p \in PositionsOf(args)})
    IN  {p \in PositionsOf(args) : Weight(args, p) = most}

\* The map of positions is iterated in the order in which they were first argued.
FirstArgued(args, P) ==
    LET i == CHOOSE i \in DOMAIN args :
                /\ args[i].position \in P
                /\ \A j \in DOMAIN args : args[j].position \in P => i <= j
    IN  args[i].position

\* The latest argument from each agent.
Votes(args) ==
    [a \in {args[i].agentId : i \in DOMAIN args} |->
        LET i == CHOOSE i \in DOMAIN args :
                    /\ args[i].agentId = a
                    /\ \A j \in DOMAIN args : args[j].agentId = a => j <= i
        IN  [position |-> args[i].position, confidence |-> args[i].confidence]]

\* A tie that goes to whoever argued first.
Evaluate_FirstArguedWins(args) ==
    LET P == PositionsOf(args)
        M == Majority(args)
        decide(outcome, W) ==
            [outcome |-> outcome, winningPosition |-> FirstArgued(args, W),
             votes |-> Votes(args)]
    IN  IF Cardinality(P) = 1 THEN decide("consensus", P)
        ELSE IF M # {} THEN decide("majority", M)
        ELSE decide("tiebreak", P)

\* evaluate
Evaluate(args) ==
    LET P == PositionsOf(args)
        M == Majority(args)
        decide(outcome, W) ==
            [outcome |-> outcome, winningPosition |-> FirstArgued(args, W),
             votes |-> Votes(args)]
    IN  IF Cardinality(P) = 1 THEN decide("consensus", P)
        ELSE IF M # {} THEN decide("majority", M)
        ELSE decide("tiebreak", Heaviest(args))

-----------------------------------------------------------------------------
Init == sessions = <<>>

\* initiate, for the review of a result: its sender and one other agent.
Initiate(t, P) ==
    /\ Len(sessions) < MaxDebates
    /\ Cardinality(P) = 2
    /\ sessions' = Append(sessions,
                          [taskId |-> t, participants |-> P, arguments |-> <<>>,
                           currentRound |-> 1, verdict |-> NoVerdict])

\* Who has argued in the current round of a session with these arguments.
ArguedIn(args, round) ==
    {args[i].agentId : i \in {i \in DOMAIN args : args[i].round = round}}

\* Rounds without an end.
MaybeAdvanceRound_NoLimit(s) ==
    IF ~ (s.participants \subseteq ArguedIn(s.arguments, s.currentRound)) THEN s
    ELSE [s EXCEPT !.currentRound = @ + 1]

\* A round that counts arguments instead of the agents behind them.
MaybeAdvanceRound_Counting(s) ==
    IF Len(SelectSeq(s.arguments, LAMBDA x : x.round = s.currentRound))
          < Cardinality(s.participants) THEN s
    ELSE IF s.currentRound >= MaxRounds
    THEN [s EXCEPT !.verdict = Evaluate(s.arguments)]
    ELSE [s EXCEPT !.currentRound = @ + 1]

\* A verdict one round too early.
MaybeAdvanceRound_Early(s) ==
    IF ~ (s.participants \subseteq ArguedIn(s.arguments, s.currentRound)) THEN s
    ELSE IF s.currentRound + 1 >= MaxRounds
    THEN [s EXCEPT !.verdict = Evaluate(s.arguments)]
    ELSE [s EXCEPT !.currentRound = @ + 1]

\* maybeAdvanceRound
MaybeAdvanceRound(s) ==
    IF ~ (s.participants \subseteq ArguedIn(s.arguments, s.currentRound)) THEN s
    ELSE IF s.currentRound >= MaxRounds
    THEN [s EXCEPT !.verdict = Evaluate(s.arguments)]
    ELSE [s EXCEPT !.currentRound = @ + 1]

\* An engine that takes arguments after the verdict.
SubmitArgument_Late(d, a, p, c) ==
    LET s == sessions[d]
        argument == [agentId |-> a, position |-> p, confidence |-> c,
                     round |-> s.currentRound]
    IN  /\ a \in s.participants
        /\ Len(s.arguments) < MaxArguments
        /\ sessions' = [sessions EXCEPT ![d] =
               MaybeAdvanceRound([s EXCEPT !.arguments = Append(@, argument)])]

\* submitArgument: a participant may argue more than once in a round.
SubmitArgument(d, a, p, c) ==
    LET s == sessions[d]
        argument == [agentId |-> a, position |-> p, confidence |-> c,
                     round |-> s.currentRound]
    IN  /\ Active(s)
        /\ a \in s.participants
        /\ Len(s.arguments) < MaxArguments
        /\ sessions' = [sessions EXCEPT ![d] =
               MaybeAdvanceRound([s EXCEPT !.arguments = Append(@, argument)])]

\* A health check that takes a debate without majority for one to go on with.
Timeout_MajorityOnly(E) ==
    sessions' = [d \in DOMAIN sessions |->
        LET s == sessions[d]
        IN  IF /\ d \in E /\ Active(s) /\ s.arguments # <<>>
               /\ Evaluate(s.arguments).outcome # "tiebreak"
            THEN [s EXCEPT !.verdict = Evaluate(s.arguments)]
            ELSE s]

\* The health check, when E are the debates without an argument for 60 s:
\* evaluate() gives no verdict on one without any argument.
Timeout(E) ==
    sessions' = [d \in DOMAIN sessions |->
        LET s == sessions[d]
        IN  IF d \in E /\ Active(s) /\ s.arguments # <<>>
            THEN [s EXCEPT !.verdict = Evaluate(s.arguments)]
            ELSE s]

Next ==
    \/ \E t \in Topics, P \in SUBSET Participants : Initiate(t, P)
    \/ \E d \in DOMAIN sessions, a \in Participants,
          p \in Positions, c \in Confidences : SubmitArgument(d, a, p, c)
    \/ \E E \in SUBSET DOMAIN sessions : Timeout(E)

(* The health check runs every ten seconds; nobody has to argue.  Only that  *)
(* arguments do not go on for ever, each of which starts the 60 s again, is  *)
(* taken from MaxArguments.                                                  *)
Fairness ==
    \A d \in DebateIds :
        WF_sessions(\E E \in SUBSET DOMAIN sessions : d \in E /\ Timeout(E))

Spec == Init /\ [][Next]_sessions
FairSpec == Spec /\ Fairness

-----------------------------------------------------------------------------
\* Every session keeps its type.
TypeOK == sessions \in Seq(DebateSession)

\* Rounds do not run ahead of the participants: each has argued in every round
\* before the current one, also when somebody argues twice in a round, and the
\* arguments are in the order of their rounds.
RoundsAreComplete ==
    \A d \in DOMAIN sessions :
        LET s == sessions[d]
        IN  /\ \A r \in 1 .. s.currentRound - 1 :
                  ArguedIn(s.arguments, r) = s.participants
            /\ \A i, j \in DOMAIN s.arguments :
                  i < j => s.arguments[i].round <= s.arguments[j].round
            /\ \A i \in DOMAIN s.arguments :
                  s.arguments[i].round <= s.currentRound

Swap(args, i) ==
    [args EXCEPT ![i] = args[i + 1], ![i + 1] = args[i]]

\* The order in which sockets deliver arguments for different positions decides
\* between equally heavy positions only.  (Between arguments for one position it
\* decides more: sums of doubles differ with their order.)  The loops of evaluate
\* take the first position that qualifies.
RivalsOrderDecidesTiesOnly ==
    \A d \in DOMAIN sessions :
        LET args == sessions[d].arguments
            p == Evaluate(args).winningPosition
        IN  \A i \in 1 .. Len(args) - 1 :
                args[i].position # args[i + 1].position =>
                    LET q == Evaluate(Swap(args, i)).winningPosition
                    IN  p # q => {p, q} \subseteq Heaviest(args)

\* A verdict is about all that is argued, whether the last argument brought it
\* about or the health check did: no position has more weight than the one it
\* names, and the vote of each agent is the last that the agent has argued.
VerdictsCoverArguments ==
    \A d \in DOMAIN sessions :
        LET s == sessions[d]
            args == s.arguments
        IN  ~ Active(s) =>
                /\ s.verdict.winningPosition \in Heaviest(args)
                /\ \A i \in DOMAIN args :
                      (\A j \in DOMAIN args : args[j].agentId = args[i].agentId => j <= i)
                      => /\ args[i].agentId \in DOMAIN s.verdict.votes
                         /\ s.verdict.votes[args[i].agentId] =
                               [position |-> args[i].position,
                                confidence |-> args[i].confidence]

\* The sessions as the task server sees them.
Seen ==
    [d \in DOMAIN sessions |->
        LET s == sessions[d]
        IN  [taskId |-> s.taskId, participants |-> s.participants,
             currentRound |-> s.currentRound,
             argued |-> ArguedIn(s.arguments, s.currentRound),
             status |-> IF Active(s) THEN "active" ELSE "resolved"]]

Sessions == INSTANCE DebateSessions WITH debates <- Seen

\* The engine does with arguments and verdicts what DebateSessions, which the
\* coordinator's model is built on, does with sets of agents.
ImplementsSessions == Sessions!Spec

\* A debate in which somebody has argued comes to a verdict although the other
\* participant has left or never answers: the health check sees to that.
ArguedDebatesEnd ==
    \A d \in DebateIds :
        (d \in DOMAIN sessions /\ sessions[d].arguments # <<>>)
            ~> (d \in DOMAIN sessions /\ ~ Active(sessions[d]))

=============================================================================
