---------------------------- MODULE MCNexusServer ----------------------------
(* Small instances of NexusServer for TLC.                                  *)
EXTENDS NexusServer, TLC

CONSTANTS a1, a2, a3

TwoAgents == {a1, a2}
ThreeAgents == {a1, a2, a3}
OneTask == {1}
TwoTasks == {1, 2}

\* Agents alike: any permutation of them is a symmetry.
AllMatch == [t \in Tasks |-> [a \in Agents |-> 100]]
AgentSymmetry == Permutations(Agents)

\* a1 has the skills of every task, the others have none.
NoneMatches == [t \in Tasks |-> [a \in Agents |-> 0]]
OneMatches == [t \in Tasks |-> [a \in Agents |-> IF a = a1 THEN 100 ELSE 0]]

\* The last task submitted is the most urgent, and the first the least.
LaterIsUrgent == [t \in Tasks |-> IF t = 1 THEN 3 ELSE 0]

NoneSimilar == {}
=============================================================================
