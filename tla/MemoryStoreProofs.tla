-------------------------- MODULE MemoryStoreProofs --------------------------
(***************************************************************************)
(* Proofs about MemoryStore, for any stores, keys, times and numbers of    *)
(* writes, snapshots and restarts.                                         *)
(***************************************************************************)
EXTENDS MemoryStore, TLAPS

\* The strengthening of TypeOK: no version is higher than the writes so far.
TypeInv ==
    /\ TypeOK
    /\ \A s \in Stores, k \in Keys : table[s][k].version <= writes
    /\ \A snapshot \in sent, k \in Keys : snapshot.entries[k].version <= writes

\* The strengthening of VersionsAreCovered: snapshots are covered too.
CoverInv ==
    restarts = 0 =>
        /\ \A s \in Stores, k \in Keys : table[s][k].version <= globalVersion[s]
        /\ \A snapshot \in sent, k \in Keys :
               snapshot.entries[k].version <= snapshot.version

\* An absent row is a row.
LEMMA NoRowIsRow == NoRow \in Row /\ NoRow.version = 0
  BY BoundsAreNatural DEF NoRow, Row

\* An upsert chooses one of two rows, and the present one unless the other has
\* the higher version.
LEMMA UpsertedChooses ==
    ASSUME NEW row \in Row, NEW entry \in Row
    PROVE  /\ Upserted(row, entry) \in Row
           /\ entry.version > row.version =>
                 /\ Upserted(row, entry).version = entry.version
                 /\ Upserted(row, entry).value = entry.value
           /\ ~ (entry.version > row.version) => Upserted(row, entry) = row
  BY DEF Upserted, Row

\* A write raises the version by one.
LEMMA WrittenRaises ==
    ASSUME TypeOK, NEW row \in Row, row.version <= writes, writes < MaxWrites,
           NEW ttl \in Ttls
    PROVE  /\ Written(row, ttl) \in Row
           /\ Written(row, ttl).version = row.version + 1
  <1>1. row.version + 1 \in 0 .. MaxWrites /\ writes + 1 \in 0 .. MaxWrites
    BY BoundsAreNatural DEF TypeOK, Row
  <1>2. (IF Present(row) THEN row.createdAt ELSE now) \in 0 .. MaxTime
    BY DEF TypeOK, Row
  <1> QED  BY <1>1, <1>2 DEF Written, Row, TypeOK

\* What a snapshot holds of a key is the store's row, or nothing.
LEMMA SnapshotHolds ==
    ASSUME TypeOK, NEW s \in Stores, NEW since
    PROVE  /\ SnapshotOf(s, since) \in Snapshot
           /\ SnapshotOf(s, since).version = globalVersion[s]
           /\ \A k \in Keys : SnapshotOf(s, since).entries[k] \in {table[s][k], NoRow}
  <1> DEFINE K == {k \in Live(s) : since = 0 \/ table[s][k].updatedAt > since}
             e == [k \in Keys |-> IF k \in K THEN table[s][k] ELSE NoRow]
  <1>1. \A k \in Keys : table[s][k] \in Row
    BY DEF TypeOK
  <1>2. e \in [Keys -> Row] /\ \A k \in Keys : e[k] \in {table[s][k], NoRow}
    BY <1>1, NoRowIsRow
  <1>3. SnapshotOf(s, since) = [entries |-> e, version |-> globalVersion[s]]
    BY DEF SnapshotOf
  <1>4. globalVersion[s] \in Nat
    BY DEF TypeOK
  <1> HIDE DEF e
  <1> QED  BY <1>2, <1>3, <1>4 DEF Snapshot

\* How each operation changes the rows.
LEMMA WriteRows ==
    ASSUME TypeInv, NEW s \in Stores, NEW k \in Keys, NEW ttl \in Ttls, Write(s, k, ttl)
    PROVE  /\ table' \in [Stores -> [Keys -> Row]]
           /\ table'[s][k].version = table[s][k].version + 1
           /\ \A r \in Stores, j \in Keys :
                 r # s \/ j # k => table'[r][j] = table[r][j]
  <1>1. table[s][k] \in Row /\ table[s][k].version <= writes /\ table \in [Stores -> [Keys -> Row]]
    BY DEF TypeInv, TypeOK
  <1>2. Written(table[s][k], ttl) \in Row
        /\ Written(table[s][k], ttl).version = table[s][k].version + 1
    BY <1>1, WrittenRaises DEF Write, TypeInv
  <1>3. table' = [table EXCEPT ![s] = [table[s] EXCEPT ![k] = Written(table[s][k], ttl)]]
    BY DEF Write
  <1> QED  BY <1>1, <1>2, <1>3

\* A read removes at most the one row that it finds expired.
LEMMA ReadRows ==
    ASSUME TypeInv, NEW s \in Stores, NEW k \in Keys, Read(s, k)
    PROVE  /\ table' \in [Stores -> [Keys -> Row]]
           /\ table'[s][k] = NoRow /\ Expired(table[s][k])
           /\ \A r \in Stores, j \in Keys :
                 r # s \/ j # k => table'[r][j] = table[r][j]
  <1>1. table \in [Stores -> [Keys -> Row]]
    BY DEF TypeInv, TypeOK
  <1>2. table' = [table EXCEPT ![s] = [table[s] EXCEPT ![k] = NoRow]]
    BY DEF Read
  <1> QED  BY <1>1, <1>2, NoRowIsRow DEF Read

\* Merging a snapshot is an upsert of every row of the one store.
LEMMA ApplyRows ==
    ASSUME TypeInv, NEW s \in Stores, NEW snapshot \in sent, ApplySnapshot(s, snapshot)
    PROVE  /\ table' \in [Stores -> [Keys -> Row]]
           /\ \A k \in Keys : table'[s][k] = Upserted(table[s][k], snapshot.entries[k])
           /\ \A r \in Stores \ {s} : table'[r] = table[r]
  <1>1. table \in [Stores -> [Keys -> Row]] /\ snapshot.entries \in [Keys -> Row]
    BY DEF TypeInv, TypeOK, Snapshot
  <1>2. \A k \in Keys : Upserted(table[s][k], snapshot.entries[k]) \in Row
    BY <1>1, UpsertedChooses
  <1>3. table' = [table EXCEPT ![s] =
                     [k \in Keys |-> Upserted(table[s][k], snapshot.entries[k])]]
    BY DEF ApplySnapshot, Merged
  <1> QED  BY <1>1, <1>2, <1>3

\* TypeInv is inductive.
LEMMA TypeStep ==
    ASSUME TypeInv, [Next]_vars
    PROVE  TypeInv'
  <1> USE BoundsAreNatural
  <1>1. ASSUME NEW s \in Stores, NEW k \in Keys, NEW ttl \in Ttls, Write(s, k, ttl)
        PROVE  TypeInv'
    <2>1. writes' = writes + 1 /\ writes' \in 0 .. MaxWrites /\ writes \in Nat
      BY <1>1 DEF Write, TypeInv, TypeOK
    <2>2. globalVersion' \in [Stores -> Nat]
      BY <1>1 DEF Write, TypeInv, TypeOK
    <2>3. TypeOK'
      BY <1>1, <2>1, <2>2, WriteRows DEF Write, TypeInv, TypeOK
    <2>4. ASSUME NEW r \in Stores, NEW j \in Keys
          PROVE  table'[r][j].version <= writes'
      <3>1. table[r][j].version <= writes /\ table[r][j].version \in Nat
        BY DEF TypeInv, TypeOK, Row
      <3> QED  BY <1>1, <2>1, <3>1, WriteRows
    <2>5. ASSUME NEW snapshot \in sent, NEW j \in Keys
          PROVE  snapshot.entries[j].version <= writes'
      <3>1. snapshot.entries[j].version \in Nat
        BY DEF TypeInv, TypeOK, Snapshot, Row
      <3> QED  BY <2>1, <3>1 DEF TypeInv
    <2> QED  BY <1>1, <2>3, <2>4, <2>5 DEF TypeInv, Write
  <1>2. ASSUME NEW s \in Stores, NEW k \in Keys, Read(s, k)  PROVE TypeInv'
    <2>1. globalVersion' \in [Stores -> Nat]
      BY <1>2 DEF Read, TypeInv, TypeOK
    <2>2. deletions' \in 0 .. MaxDeletions
      BY <1>2 DEF Read, TypeInv, TypeOK
    <2>3. TypeOK'
      BY <1>2, <2>1, <2>2, ReadRows DEF Read, TypeInv, TypeOK
    <2>4. ASSUME NEW r \in Stores, NEW j \in Keys
          PROVE  table'[r][j].version <= writes'
      BY <1>2, ReadRows, NoRowIsRow DEF Read, TypeInv, TypeOK
    <2> QED  BY <1>2, <2>3, <2>4 DEF TypeInv, Read
  <1>3. ASSUME NEW s \in Stores, NEW since \in 0 .. now, GetSnapshot(s, since)
        PROVE  TypeInv'
    <2> DEFINE new == SnapshotOf(s, since)
    <2>1. new \in Snapshot /\ \A k \in Keys : new.entries[k] \in {table[s][k], NoRow}
      BY SnapshotHolds DEF TypeInv
    <2>2. \A k \in Keys : new.entries[k].version <= writes
      BY <2>1, NoRowIsRow DEF TypeInv, TypeOK
    <2>3. sent' = sent \union {new}
      BY <1>3 DEF GetSnapshot
    <2> HIDE DEF new
    <2> QED  BY <1>3, <2>1, <2>2, <2>3 DEF GetSnapshot, TypeInv, TypeOK, counters
  <1>4. ASSUME NEW s \in Stores, NEW snapshot \in sent, ApplySnapshot(s, snapshot)
        PROVE  TypeInv'
    <2>1. globalVersion' \in [Stores -> Nat]
      BY <1>4 DEF ApplySnapshot, Larger, TypeInv, TypeOK, Snapshot
    <2>2. TypeOK'
      BY <1>4, <2>1, ApplyRows DEF ApplySnapshot, counters, TypeInv, TypeOK
    <2>3. ASSUME NEW r \in Stores, NEW k \in Keys
          PROVE  table'[r][k].version <= writes'
      <3>1. snapshot.entries[k] \in Row /\ table[s][k] \in Row
        BY DEF TypeInv, TypeOK, Snapshot
      <3>2. Upserted(table[s][k], snapshot.entries[k]).version <= writes
        BY <3>1, UpsertedChooses DEF TypeInv
      <3>3. CASE r = s
        <4>1. table'[r][k] = Upserted(table[s][k], snapshot.entries[k])
          BY <1>4, <3>3, ApplyRows
        <4> QED  BY <1>4, <3>2, <4>1 DEF ApplySnapshot, counters
      <3>4. CASE r # s
        <4>1. table'[r][k] = table[r][k]
          BY <1>4, <3>4, ApplyRows
        <4> QED  BY <1>4, <4>1 DEF TypeInv, ApplySnapshot, counters
      <3> QED  BY <3>3, <3>4
    <2> QED  BY <1>4, <2>2, <2>3 DEF TypeInv, ApplySnapshot, counters
  <1>5. ASSUME NEW s \in Stores, Restart(s)  PROVE TypeInv'
    <2>1. restarts' \in 0 .. MaxRestarts /\ globalVersion' \in [Stores -> Nat]
      BY <1>5 DEF Restart, TypeInv, TypeOK
    <2> QED  BY <1>5, <2>1 DEF Restart, TypeInv, TypeOK
  <1>6. CASE Tick
    <2>1. now' \in 0 .. MaxTime
      BY <1>6 DEF Tick, TypeInv, TypeOK
    <2> QED  BY <1>6, <2>1 DEF Tick, TypeInv, TypeOK, counters
  <1>7. CASE UNCHANGED vars
    BY <1>7 DEF vars, TypeInv, TypeOK
  <1> QED  BY <1>1, <1>2, <1>3, <1>4, <1>5, <1>6, <1>7 DEF Next

\* TypeInv holds at first.
LEMMA TypeInit ==
    ASSUME Init
    PROVE  TypeInv
  BY BoundsAreNatural, NoRowIsRow DEF Init, TypeInv, TypeOK

\* Every table and every snapshot under way holds rows, and no merge makes a
\* version that no write made.
THEOREM StoreTypes == Spec => []TypeOK
  <1>1. TypeInv => TypeOK
    BY DEF TypeInv
  <1> QED  BY <1>1, TypeInit, TypeStep, PTL DEF Spec

\* One step replaces a row by a higher version or deletes it when it has expired.
LEMMA RowsStep ==
    ASSUME TypeInv, [Next]_vars, NEW s \in Stores, NEW k \in Keys,
           table'[s][k] # table[s][k]
    PROVE  \/ table'[s][k].version > table[s][k].version
           \/ table'[s][k] = NoRow /\ Expired(table[s][k])
  <1>1. table[s][k] \in Row /\ table[s][k].version \in Nat
    BY DEF TypeInv, TypeOK, Row
  <1>2. ASSUME NEW r \in Stores, NEW j \in Keys, NEW ttl \in Ttls, Write(r, j, ttl)
        PROVE  table'[s][k].version > table[s][k].version
    <2>1. r = s /\ j = k
      BY <1>2, WriteRows
    <2> QED  BY <1>1, <1>2, <2>1, WriteRows
  <1>3. ASSUME NEW r \in Stores, NEW j \in Keys, Read(r, j)
        PROVE  table'[s][k] = NoRow /\ Expired(table[s][k])
    <2>1. r = s /\ j = k
      BY <1>3, ReadRows
    <2> QED  BY <1>3, <2>1, ReadRows
  <1>4. ASSUME NEW r \in Stores, NEW snapshot \in sent, ApplySnapshot(r, snapshot)
        PROVE  table'[s][k].version > table[s][k].version
    <2>1. r = s
      BY <1>4, ApplyRows
    <2>2. snapshot.entries[k] \in Row /\ snapshot.entries[k].version \in Nat
      BY DEF TypeInv, TypeOK, Snapshot, Row
    <2>3. table'[s][k] = Upserted(table[s][k], snapshot.entries[k])
      BY <1>4, <2>1, ApplyRows
    <2> QED  BY <1>1, <2>2, <2>3, UpsertedChooses
  <1>5. ASSUME table' = table  PROVE FALSE
    BY <1>5
  <1> QED  BY <1>2, <1>3, <1>4, <1>5
           DEF Next, GetSnapshot, Restart, Tick, vars

\* A row gives way to a higher version only, or is deleted after its time,
\* however late and however often snapshots are merged.
THEOREM RowsOnlyAdvance == Spec => RowsAdvance
  <1>1. TypeInv /\ [Next]_vars =>
          [\A s \in Stores, k \in Keys :
              table'[s][k] # table[s][k] =>
                 \/ table'[s][k].version > table[s][k].version
                 \/ table'[s][k] = NoRow /\ Expired(table[s][k])]_vars
    BY RowsStep
  <1> QED  BY <1>1, TypeInit, TypeStep, PTL DEF Spec, RowsAdvance

\* CoverInv is inductive.
LEMMA CoverStep ==
    ASSUME TypeInv, CoverInv, [Next]_vars
    PROVE  CoverInv'
  <1> SUFFICES ASSUME restarts' = 0
               PROVE  /\ \A s \in Stores, k \in Keys :
                            table'[s][k].version <= globalVersion'[s]
                      /\ \A snapshot \in sent', k \in Keys :
                            snapshot.entries[k].version <= snapshot.version
    BY DEF CoverInv
  <1>1. /\ \A s \in Stores : globalVersion[s] \in Nat
        /\ \A s \in Stores, k \in Keys : table[s][k] \in Row /\ table[s][k].version \in Nat
        /\ globalVersion \in [Stores -> Nat]
    BY DEF TypeInv, TypeOK, Row
  <1>2. ~ \E s \in Stores : Restart(s)
    BY DEF Restart, TypeInv, TypeOK
  <1>3. restarts = 0
    BY <1>2 DEF Next, Write, Read, GetSnapshot, ApplySnapshot, Tick, vars, counters
  <1>4. /\ \A s \in Stores, k \in Keys : table[s][k].version <= globalVersion[s]
        /\ \A snapshot \in sent, k \in Keys :
              snapshot.entries[k].version <= snapshot.version
    BY <1>3 DEF CoverInv
  <1>5. ASSUME NEW s \in Stores, NEW k \in Keys, NEW ttl \in Ttls, Write(s, k, ttl)
        PROVE  /\ sent' = sent
               /\ \A r \in Stores, j \in Keys : table'[r][j].version <= globalVersion'[r]
    <2>1. /\ globalVersion'[s] = globalVersion[s] + 1
          /\ \A r \in Stores \ {s} : globalVersion'[r] = globalVersion[r]
      BY <1>1, <1>5 DEF Write
    <2>2. ASSUME NEW r \in Stores, NEW j \in Keys
          PROVE  table'[r][j].version <= globalVersion'[r]
      <3>1. /\ table[r][j].version <= globalVersion[r]
            /\ table[r][j].version \in Nat /\ globalVersion[r] \in Nat
        BY <1>1, <1>4
      <3>2. \/ r = s /\ j = k /\ table'[r][j].version = table[r][j].version + 1
            \/ table'[r][j] = table[r][j]
        BY <1>5, WriteRows
      <3>3. globalVersion'[r] \in {globalVersion[r], globalVersion[r] + 1}
            /\ (r = s => globalVersion'[r] = globalVersion[r] + 1)
        BY <2>1
      <3> QED  BY <3>1, <3>2, <3>3
    <2> QED  BY <1>5, <2>2 DEF Write
  <1>6. ASSUME NEW s \in Stores, NEW k \in Keys, Read(s, k)
        PROVE  /\ sent' = sent
               /\ \A r \in Stores, j \in Keys : table'[r][j].version <= globalVersion'[r]
    <2>1. /\ globalVersion'[s] = globalVersion[s] + 1
          /\ \A r \in Stores \ {s} : globalVersion'[r] = globalVersion[r]
      BY <1>1, <1>6 DEF Read
    <2>2. ASSUME NEW r \in Stores, NEW j \in Keys
          PROVE  table'[r][j].version <= globalVersion'[r]
      <3>1. /\ table[r][j].version <= globalVersion[r]
            /\ table[r][j].version \in Nat /\ globalVersion[r] \in Nat
        BY <1>1, <1>4
      <3>2. table'[r][j].version = 0 \/ table'[r][j] = table[r][j]
        BY <1>6, ReadRows, NoRowIsRow
      <3>3. globalVersion'[r] \in {globalVersion[r], globalVersion[r] + 1}
        BY <2>1
      <3> QED  BY <3>1, <3>2, <3>3
    <2> QED  BY <1>6, <2>2 DEF Read
  <1>7. ASSUME NEW s \in Stores, NEW since \in 0 .. now, GetSnapshot(s, since)
        PROVE  /\ table' = table /\ globalVersion' = globalVersion
               /\ \A snapshot \in sent', k \in Keys :
                     snapshot.entries[k].version <= snapshot.version
    <2> DEFINE new == SnapshotOf(s, since)
    <2>1. /\ new.version = globalVersion[s]
          /\ \A k \in Keys : new.entries[k] \in {table[s][k], NoRow}
      BY SnapshotHolds DEF TypeInv
    <2>2. \A k \in Keys : new.entries[k].version <= new.version
      BY <1>1, <1>4, <2>1, NoRowIsRow
    <2>3. sent' = sent \union {new}
      BY <1>7 DEF GetSnapshot
    <2> HIDE DEF new
    <2> QED  BY <1>4, <1>7, <2>2, <2>3 DEF GetSnapshot
  <1>8. ASSUME NEW s \in Stores, NEW snapshot \in sent, ApplySnapshot(s, snapshot)
        PROVE  /\ sent' = sent
               /\ \A r \in Stores, j \in Keys : table'[r][j].version <= globalVersion'[r]
    <2>1. snapshot.version \in Nat
      BY DEF TypeInv, TypeOK, Snapshot
    <2>2. /\ globalVersion'[s] = Larger(globalVersion[s], snapshot.version)
          /\ \A r \in Stores \ {s} : globalVersion'[r] = globalVersion[r]
      BY <1>1, <1>8 DEF ApplySnapshot
    <2>3. /\ globalVersion'[s] \in Nat /\ globalVersion'[s] >= globalVersion[s]
          /\ globalVersion'[s] >= snapshot.version
      BY <1>1, <2>1, <2>2 DEF Larger
    <2>4. ASSUME NEW j \in Keys
          PROVE  table'[s][j].version <= globalVersion'[s]
      <3>1. snapshot.entries[j] \in Row /\ snapshot.entries[j].version \in Nat
        BY DEF TypeInv, TypeOK, Snapshot, Row
      <3>2. table'[s][j].version \in {table[s][j].version, snapshot.entries[j].version}
        <4>1. table'[s][j] = Upserted(table[s][j], snapshot.entries[j])
          BY <1>8, ApplyRows
        <4> QED  BY <1>1, <3>1, <4>1, UpsertedChooses
      <3> QED  BY <1>1, <1>4, <2>1, <2>3, <3>1, <3>2
    <2>5. \A r \in Stores \ {s}, j \in Keys : table'[r][j].version <= globalVersion'[r]
      BY <1>4, <1>8, <2>2, ApplyRows
    <2> QED  BY <1>8, <2>4, <2>5 DEF ApplySnapshot
  <1>9. CASE Tick \/ UNCHANGED vars
    BY <1>4, <1>9 DEF Tick, vars
  <1> QED  BY <1>2, <1>4, <1>5, <1>6, <1>7, <1>8, <1>9 DEF Next

\* As long as no server is restarted, the version it reports is at least that of
\* every row it holds.
THEOREM ReportedVersionCovers == Spec => []VersionsAreCovered
  <1>1. Init => CoverInv
    BY NoRowIsRow DEF Init, CoverInv
  <1>2. TypeInv /\ CoverInv /\ [Next]_vars => CoverInv'
    BY CoverStep
  <1>3. CoverInv => VersionsAreCovered
    BY DEF CoverInv, VersionsAreCovered
  <1> QED  BY <1>1, <1>2, <1>3, TypeInit, TypeStep, PTL DEF Spec

\* Two stores that merge each other's full snapshot agree on the version of every
\* key that neither has expired, and on its value if one of them was ahead.
THEOREM ExchangesAgree == Spec => []ExchangeAgrees
  <1>1. TypeOK => ExchangeAgrees
    <2> SUFFICES ASSUME TypeOK, NEW s \in Stores, NEW r \in Stores, NEW k \in Keys,
                        ~ Expired(table[s][k]), ~ Expired(table[r][k])
                 PROVE  LET here == Merged(table[s], SnapshotOf(r, 0).entries)
                            there == Merged(table[r], SnapshotOf(s, 0).entries)
                        IN  /\ here[k].version = there[k].version
                            /\ table[s][k].version # table[r][k].version =>
                                  here[k].value = there[k].value
      BY DEF ExchangeAgrees
    <2> DEFINE x == table[s][k]
               y == table[r][k]
               ex == SnapshotOf(s, 0).entries[k]
               ey == SnapshotOf(r, 0).entries[k]
    <2>1. x \in Row /\ y \in Row
      BY DEF TypeOK
    <2>2. ex = IF Present(x) THEN x ELSE NoRow
      BY DEF SnapshotOf, Live
    <2>3. ey = IF Present(y) THEN y ELSE NoRow
      BY DEF SnapshotOf, Live
    <2>4. /\ Merged(table[s], SnapshotOf(r, 0).entries)[k] = Upserted(x, ey)
          /\ Merged(table[r], SnapshotOf(s, 0).entries)[k] = Upserted(y, ex)
      BY DEF Merged
    <2>5. /\ ex \in Row /\ ex.version = x.version /\ (Present(x) => ex.value = x.value)
          /\ ey \in Row /\ ey.version = y.version /\ (Present(y) => ey.value = y.value)
      BY <2>1, <2>2, <2>3, NoRowIsRow DEF Present, Row
    <2>6. x.version \in Nat /\ y.version \in Nat
      BY <2>1 DEF Row
    <2> HIDE DEF x, y, ex, ey
    <2>7. /\ Upserted(x, ey).version = Upserted(y, ex).version
          /\ x.version # y.version => Upserted(x, ey).value = Upserted(y, ex).value
      <3>1. CASE y.version > x.version
        BY <2>1, <2>5, <2>6, <3>1, UpsertedChooses DEF Present
      <3>2. CASE x.version > y.version
        BY <2>1, <2>5, <2>6, <3>2, UpsertedChooses DEF Present
      <3>3. CASE x.version = y.version
        BY <2>1, <2>5, <2>6, <3>3, UpsertedChooses
      <3> QED  BY <2>6, <3>1, <3>2, <3>3
    <2> QED  BY <2>4, <2>7 DEF x, y
  <1> QED  BY <1>1, StoreTypes, PTL
=============================================================================
