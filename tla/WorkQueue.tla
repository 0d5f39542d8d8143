------------------------------ MODULE WorkQueue ------------------------------
(***************************************************************************)
(* What the coordinator promises about work, without its messages, lists,  *)
(* heartbeats, scores and debates: the calls that                          *)
(* packages/nexus-server/src/task-engine.ts gets from server.ts, as a      *)
(* system of its own.                                                      *)
(*                                                                         *)
(*   - Work is claimed from the queue only, and only by a worker that is   *)
(*     present.                                                            *)
(*   - It is offered to workers that have claimed none, one piece to each, *)
(*     and no queued piece is passed over for a less urgent one.           *)
(*   - A worker that leaves leaves nothing behind that it has claimed: in  *)
(*     the same step all of that is queued again.                          *)
(*   - What was reported on is queued again only in a step in which a      *)
(*     worker leaves.                                                      *)
(*                                                                         *)
(* An item that was offered and not claimed may stay with a worker that    *)
(* has left, until somebody finds that it is late (Requeue).               *)
(***************************************************************************)
CONSTANTS
    Workers,         \* agent ids
    Items,           \* task ids
    Nobody,          \* the holder of what is in the queue
    MoreUrgent       \* <<t, u>>: t has the higher priority

VARIABLES
    present,         \* the workers that are registered
    status,          \* the status of each item
    holder           \* its assignedAgentId

work == <<present, status, holder>>

ClaimedBy(a) == {t \in Items : status[t] = "in_progress" /\ holder[t] = a}

Idle == {a \in present : ClaimedBy(a) = {}}

Queue == {t \in Items : status[t] = "queued"}

\* The items of T get status s.
Become(T, s) == status' = [t \in Items |-> IF t \in T THEN s ELSE status[t]]

\* register
Join(a) ==
    /\ a \notin present
    /\ present' = present \union {a}
    /\ UNCHANGED <<status, holder>>

\* submit, when nobody is free
Submit(t) ==
    /\ status[t] = "none"
    /\ Become({t}, "queued")
    /\ UNCHANGED <<present, holder>>

\* submit and assign
SubmitTo(t, a) ==
    /\ status[t] = "none"
    /\ a \in Idle
    /\ Become({t}, "assigned")
    /\ holder' = [holder EXCEPT ![t] = a]
    /\ UNCHANGED present

\* autoAssignQueued: the items of T, each to a worker of its own.
Offer(T, f) ==
    /\ \A u \in T, t \in Queue : <<t, u>> \in MoreUrgent => t \in T
    /\ \A t, u \in T : f[t] = f[u] => t = u
    /\ Become(T, "assigned")
    /\ holder' = [t \in Items |-> IF t \in T THEN f[t] ELSE holder[t]]
    /\ UNCHANGED present

\* claim
Claim(t, a) ==
    /\ t \in Queue
    /\ a \in present
    /\ Become({t}, "in_progress")
    /\ holder' = [holder EXCEPT ![t] = a]
    /\ UNCHANGED present

\* submitResult, when it asks for a review
Review(t) ==
    /\ status[t] = "in_progress"
    /\ Become({t}, "debating")
    /\ UNCHANGED <<present, holder>>

\* complete and approve
Finish(t) ==
    /\ status[t] \in {"in_progress", "debating"}
    /\ Become({t}, "completed")
    /\ UNCHANGED <<present, holder>>

\* reassign, for the late items and those of the workers S that leave.
Requeue(S, T) ==
    /\ \A a \in S : ClaimedBy(a) \subseteq T
    /\ \A t \in T : status[t] # "none"
    /\ S = {} => \A t \in T : status[t] \in {"assigned", "in_progress"}
    /\ present' = present \ S
    /\ Become(T, "queued")
    /\ holder' = [t \in Items |-> IF t \in T THEN Nobody ELSE holder[t]]

-----------------------------------------------------------------------------
Init ==
    /\ present = {}
    /\ status = [t \in Items |-> "none"]
    /\ holder = [t \in Items |-> Nobody]

Next ==
    \/ \E a \in Workers : Join(a)
    \/ \E t \in Items : Submit(t) \/ Review(t) \/ Finish(t)
    \/ \E t \in Items, a \in present : SubmitTo(t, a) \/ Claim(t, a)
    \/ \E T \in SUBSET Queue : \E f \in [T -> Idle] : Offer(T, f)
    \/ \E S \in SUBSET present, T \in SUBSET Items : Requeue(S, T)

Spec == Init /\ [][Next]_work
=============================================================================
