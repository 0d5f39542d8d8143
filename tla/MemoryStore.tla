----------------------------- MODULE MemoryStore -----------------------------
(***************************************************************************)
(* The shared memory of packages/nexus-server/src/memory-store.ts:         *)
(* versioned rows with a time to live, and the snapshots by which one      *)
(* store is merged into another, or into an earlier state of itself.       *)
(*                                                                         *)
(* A row is one (key, scope) pair.  Every write writes a value of its own, *)
(* the number of the write, so that two rows have the same contents only   *)
(* if they come from the same write.  Snapshots travel freely: they may be *)
(* applied late, in any order, more than once or never.                    *)
(***************************************************************************)
EXTENDS Naturals, FiniteSets

CONSTANTS
    Stores,          \* the databases of the servers
    Keys,
    Ttls,            \* times to live in use; 0 is a write without one
    MaxWrites,       \* bound: writes in all
    MaxSnapshots,    \* bound: snapshots in all
    MaxRestarts,     \* bound: restarts in all
    MaxDeletions,    \* bound: expired rows deleted, in all
    MaxTime          \* bound: the clock

ASSUME TtlsAreTimes == Ttls \subseteq Nat
ASSUME BoundsAreNatural ==
    {MaxWrites, MaxSnapshots, MaxRestarts, MaxDeletions, MaxTime} \subseteq Nat

VARIABLES
    table,           \* the memory table of each store
    globalVersion,   \* MemoryStore.globalVersion of each store
    sent,            \* the snapshots taken so far
    writes, restarts, deletions,   \* how many there have been
    now              \* Date.now()

vars == <<table, globalVersion, sent, writes, restarts, deletions, now>>
counters == <<writes, restarts, deletions>>

\* No version is higher than the number of writes: merging makes none.
Row ==
    [version : 0 .. MaxWrites, value : 0 .. MaxWrites,
     createdAt : 0 .. MaxTime, updatedAt : 0 .. MaxTime, ttl : Ttls \union {0}]

\* No row for this key; real rows have version 1 or more.
NoRow == [version |-> 0, value |-> 0, createdAt |-> 0, updatedAt |-> 0, ttl |-> 0]

Present(row) == row.version > 0

\* A row without a ttl never expires.
Expired(row) == row.ttl > 0 /\ now > row.createdAt + row.ttl

\* A key without an entry has NoRow.
Snapshot == [entries : [Keys -> Row], version : Nat]

Init ==
    /\ table = [s \in Stores |-> [k \in Keys |-> NoRow]]
    /\ globalVersion = [s \in Stores |-> 0]
    /\ sent = {}
    /\ writes = 0
    /\ restarts = 0
    /\ deletions = 0
    /\ now = 0

-----------------------------------------------------------------------------
\* What write() stores over a row: also over one that has expired, whose
\* version it continues.  created_at is not among the columns it updates.
Written(row, ttl) ==
    [version |-> row.version + 1,
     value |-> writes + 1,
     createdAt |-> IF Present(row) THEN row.createdAt ELSE now,
     updatedAt |-> now,
     ttl |-> ttl]

Write(s, k, ttl) ==
    /\ writes < MaxWrites
    /\ table' = [table EXCEPT ![s][k] = Written(@, ttl)]
    /\ globalVersion' = [globalVersion EXCEPT ![s] = @ + 1]
    /\ writes' = writes + 1
    /\ UNCHANGED <<sent, restarts, deletions, now>>

\* read() of an expired row deletes it; any other read changes nothing.
Read(s, k) ==
    /\ deletions < MaxDeletions
    /\ Present(table[s][k])
    /\ Expired(table[s][k])
    /\ table' = [table EXCEPT ![s][k] = NoRow]
    /\ globalVersion' = [globalVersion EXCEPT ![s] = @ + 1]
    /\ deletions' = deletions + 1
    /\ UNCHANGED <<sent, writes, restarts, now>>

\* What list() shows, and a snapshot holds: rows that have not expired.
Live(s) == {k \in Keys : Present(table[s][k]) /\ ~ Expired(table[s][k])}

\* getSnapshot(since): without since (0) every live row, with it those that
\* were updated later.
SnapshotOf(s, since) ==
    LET K == {k \in Live(s) : since = 0 \/ table[s][k].updatedAt > since}
    IN  [entries |-> [k \in Keys |-> IF k \in K THEN table[s][k] ELSE NoRow],
         version |-> globalVersion[s]]

GetSnapshot(s, since) ==
    /\ Cardinality(sent) < MaxSnapshots
    /\ sent' = sent \union {SnapshotOf(s, since)}
    /\ UNCHANGED <<table, globalVersion, counters, now>>

\* An upsert without its WHERE clause.
Upserted_Always(row, entry) ==
    [entry EXCEPT !.createdAt = IF Present(row) THEN row.createdAt ELSE @]

\* An upsert that lets an entry of the same version in.
Upserted_AtLeast(row, entry) ==
    IF entry.version >= row.version
    THEN [entry EXCEPT !.createdAt = IF Present(row) THEN row.createdAt ELSE @]
    ELSE row

\* A merge that counts as one more write of the key.
Upserted_Bumping(row, entry) ==
    IF entry.version > row.version
    THEN [entry EXCEPT !.version = @ + 1] ELSE row

\* The upsert of applySnapshot: an absent row is inserted, a present one is
\* updated if the entry's version is higher, and keeps its created_at.
Upserted(row, entry) ==
    IF entry.version > row.version
    THEN [entry EXCEPT !.createdAt = IF Present(row) THEN row.createdAt ELSE @]
    ELSE row

Merged(rows, entries) == [k \in Keys |-> Upserted(rows[k], entries[k])]

Larger_Second(m, n) == n

Larger(m, n) == IF m > n THEN m ELSE n

\* applySnapshot
ApplySnapshot(s, snapshot) ==
    /\ table' = [table EXCEPT ![s] = Merged(@, snapshot.entries)]
    /\ globalVersion' = [globalVersion EXCEPT ![s] = Larger(@, snapshot.version)]
    /\ UNCHANGED <<sent, counters, now>>

\* A new MemoryStore over the same database file.
Restart(s) ==
    /\ restarts < MaxRestarts
    /\ globalVersion' = [globalVersion EXCEPT ![s] = 0]
    /\ restarts' = restarts + 1
    /\ UNCHANGED <<table, sent, writes, deletions, now>>

Tick ==
    /\ now < MaxTime
    /\ now' = now + 1
    /\ UNCHANGED <<table, globalVersion, sent, counters>>

Next ==
    \/ \E s \in Stores, k \in Keys :
          \/ \E ttl \in Ttls : Write(s, k, ttl)
          \/ Read(s, k)
    \/ \E s \in Stores :
          \/ \E since \in 0 .. now : GetSnapshot(s, since)
          \/ \E snapshot \in sent : ApplySnapshot(s, snapshot)
          \/ Restart(s)
    \/ Tick

Spec == Init /\ [][Next]_vars

-----------------------------------------------------------------------------
\* Tables and snapshots keep their types.
TypeOK ==
    /\ table \in [Stores -> [Keys -> Row]]
    /\ globalVersion \in [Stores -> Nat]
    /\ sent \subseteq Snapshot
    /\ writes \in 0 .. MaxWrites
    /\ restarts \in 0 .. MaxRestarts
    /\ deletions \in 0 .. MaxDeletions
    /\ now \in 0 .. MaxTime

\* Whatever is written, merged late or merged twice: a row gives way only to a
\* higher version of its key, or is deleted after its time.
RowsAdvance ==
    [][\A s \in Stores, k \in Keys :
          table'[s][k] # table[s][k] =>
             \/ table'[s][k].version > table[s][k].version
             \/ table'[s][k] = NoRow /\ Expired(table[s][k])]_vars

\* The version that a server reports (get status) covers every row's as long
\* as no server was restarted, through any exchange of snapshots.
VersionsAreCovered ==
    restarts = 0 =>
        \A s \in Stores, k \in Keys : table[s][k].version <= globalVersion[s]

\* Two stores that exchange full snapshots come to hold the same version of
\* every key that neither has expired, and the same value unless each had
\* already written a value of its own under that version.
ExchangeAgrees ==
    \A s, r \in Stores :
        LET here == Merged(table[s], SnapshotOf(r, 0).entries)
            there == Merged(table[r], SnapshotOf(s, 0).entries)
        IN  \A k \in Keys :
                ~ Expired(table[s][k]) /\ ~ Expired(table[r][k]) =>
                    /\ here[k].version = there[k].version
                    /\ table[s][k].version # table[r][k].version =>
                          here[k].value = there[k].value

-----------------------------------------------------------------------------
(* A statement of the documentation that does not hold.                     *)

\* docs/architecture.md:46-47 "merges snapshots by version, so a stale write
\* never clobbers a newer one".  A deleted key starts again with version 1, and
\* a snapshot taken before the deletion then has the higher version.
StaleNeverClobbers ==
    [][\A s \in Stores, k \in Keys :
          Present(table[s][k]) /\ Present(table'[s][k])
             => table'[s][k].updatedAt >= table[s][k].updatedAt]_vars
=============================================================================
