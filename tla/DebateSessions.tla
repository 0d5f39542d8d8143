--------------------------- MODULE DebateSessions ----------------------------
(***************************************************************************)
(* The review debates of packages/nexus-server/src/debate-engine.ts, as    *)
(* far as the task server depends on them: who still has to argue, in      *)
(* which round, and whether there is a verdict.  What the verdict is, and  *)
(* the arguments it is computed from, do not matter to the server.         *)
(*                                                                         *)
(* Every argument of a past round came from a round in which all           *)
(* participants argued, so a session has arguments exactly when its round  *)
(* is not the first or somebody has argued in it (HasArguments).           *)
(***************************************************************************)
EXTENDS Naturals, FiniteSets, Sequences

CONSTANTS
    Participants,    \* agent ids
    Topics,          \* task ids
    MaxDebates,      \* bound: debates ever initiated
    MaxRounds        \* config.maxRounds: 2 for a review

VARIABLE
    debates          \* the sessions, in the order of their initiation

DebateIds == 1 .. MaxDebates

Session ==
    [taskId : Topics,
     participants : SUBSET Participants,
     currentRound : 1 .. MaxRounds,
     argued : SUBSET Participants,      \* agents with an argument this round
     status : {"active", "resolved"}]

Active(d) == debates[d].status = "active"

HasArguments(d) == debates[d].currentRound > 1 \/ debates[d].argued # {}

\* initiate
Initiate(t, P) ==
    debates' = Append(debates,
                      [taskId |-> t, participants |-> P, currentRound |-> 1,
                       argued |-> {}, status |-> "active"])

\* submitArgument accepts the argument.
MayArgue(d, a) == Active(d) /\ a \in debates[d].participants

\* The argument is the last one of the last round: maybeAdvanceRound evaluates.
Concludes(d, a) ==
    /\ debates[d].participants \subseteq debates[d].argued \union {a}
    /\ debates[d].currentRound >= MaxRounds

\* Rounds without an end.
SubmitArgument_NoLimit(d, a) ==
    LET s == debates[d]
        argued == s.argued \union {a}
    IN  debates' = [debates EXCEPT ![d] =
            IF ~ (s.participants \subseteq argued)
            THEN [s EXCEPT !.argued = argued]
            ELSE [s EXCEPT !.argued = {}, !.currentRound = @ + 1]]

\* submitArgument, with maybeAdvanceRound and evaluate.
SubmitArgument(d, a) ==
    LET s == debates[d]
        argued == s.argued \union {a}
    IN  debates' = [debates EXCEPT ![d] =
            IF ~ (s.participants \subseteq argued)
            THEN [s EXCEPT !.argued = argued]
            ELSE IF s.currentRound >= MaxRounds
            THEN [s EXCEPT !.argued = argued, !.status = "resolved"]
            ELSE [s EXCEPT !.argued = {}, !.currentRound = @ + 1]]

\* The health check evaluates the timed-out debates E; without any argument
\* evaluate() returns undefined and the session stays active.
EvaluateAll(E) ==
    debates' = [d \in DOMAIN debates |->
                   IF d \in E /\ Active(d) /\ HasArguments(d)
                   THEN [debates[d] EXCEPT !.status = "resolved"]
                   ELSE debates[d]]

-----------------------------------------------------------------------------
(* The engine as a system of its own: what a more detailed one implements.  *)

Init == debates = <<>>

Next ==
    \/ \E t \in Topics, P \in SUBSET Participants : Initiate(t, P)
    \/ \E d \in DOMAIN debates, a \in Participants :
          MayArgue(d, a) /\ SubmitArgument(d, a)
    \/ \E E \in SUBSET DOMAIN debates : EvaluateAll(E)

Spec == Init /\ [][Next]_debates
=============================================================================
