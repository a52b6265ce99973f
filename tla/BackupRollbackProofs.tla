------------------------ MODULE BackupRollbackProofs ------------------------
(***************************************************************************)
(* Proofs about BackupRollback, for any table, any statements and any      *)
(* number of concurrent calls.  What a step does to the request that takes *)
(* it is separated from what the other requests see of it: they see that   *)
(* saved snapshots stay and, inside a transaction, that the target does.   *)
(***************************************************************************)
EXTENDS BackupRollback, TLAPS

-----------------------------------------------------------------------------
(* Tables, statements and snapshots.                                       *)

\* The points of a request, one by one.
LEMMA PointsAre ==
  /\ {"read", "save", "write", "commit"} = InTransaction
  /\ {"delete", "insert", "commit_restore"} = Restoring
  /\ {"idle", "read", "save", "read_reverse", "save_reverse"} = Unsaved
  /\ {"mark", "log"} = Restored
  /\ {"record", "load", "decode", "begin", "mark", "log", "reject", "delete",
      "insert", "commit_restore"} = Reversed
  BY DEF InTransaction, Restoring, Unsaved, Restored, Reversed

\* Snapshots, statements and restores make tables of tables.
LEMMA TablesAre ==
  /\ NoRows \in Tables
  /\ \A cond \in Conditions, t \in Tables : Snapshot(cond, t) \in Tables
  /\ \A cond \in Conditions, t \in Tables : Deleted(cond, t) \in Tables
  /\ \A op \in Operations, cond \in Conditions, set \in Assignments,
        t \in Tables : Effect(op, cond, set, t) \in Tables
  /\ \A t \in Tables, rows \in Tables :
       Without(t, rows) \in Tables /\ With(t, rows) \in Tables
<1>1. NoRows \in Tables
  BY DEF NoRows, Tables
<1>2. ASSUME NEW cond \in Conditions, NEW t \in Tables
      PROVE  Snapshot(cond, t) \in Tables
  <2>1. \A k \in Keys : Meets(cond, t, k) => Stored[t[k]] \in Values
    BY BackupAssumption DEF Meets, Conditions
  <2> QED
    BY <2>1 DEF Snapshot, Tables
<1>3. ASSUME NEW cond \in Conditions, NEW t \in Tables
      PROVE  Deleted(cond, t) \in Tables
  BY DEF Deleted, Tables
<1>4. ASSUME NEW t \in Tables, NEW rows \in Tables
      PROVE  Without(t, rows) \in Tables /\ With(t, rows) \in Tables
  BY DEF Without, With, Tables
<1>5. ASSUME NEW op \in Operations, NEW cond \in Conditions,
             NEW set \in Assignments, NEW t \in Tables
      PROVE  Effect(op, cond, set, t) \in Tables
  <2>1. Updated(cond, set, t) \in Tables
    BY DEF Updated, Tables
  <2> QED
    BY <1>3, <1>4, <2>1 DEF Effect
<1> QED
  BY <1>1, <1>2, <1>3, <1>4, <1>5

\* Deleting the rows of a snapshot first makes no difference to inserting
\* them, and inserting no rows makes none at all.
LEMMA InsertAfterDelete ==
  ASSUME NEW t \in Tables, NEW rows \in Tables
  PROVE  /\ With(Without(t, rows), rows) = With(t, rows)
         /\ With(t, NoRows) = t
BY DEF With, Without, NoRows, Tables

\* The rows a statement filters by are rows, and remain rows in a snapshot.
LEMMA MetRowsAreRows ==
  ASSUME NEW cond \in Conditions, NEW t \in Tables, NEW k \in Keys,
         Meets(cond, t, k)
  PROVE  /\ t[k] \in Values /\ t[k] # NoRow
         /\ Stored[t[k]] \in Values /\ Stored[t[k]] # NoRow
BY BackupAssumption DEF Meets, Conditions

\* An UPDATE that keeps the primary key unique puts no row where there is one
\* that it does not select.
LEMMA UpdateSpares ==
  ASSUME NEW cond \in Conditions, NEW set \in Assignments, NEW t \in Tables,
         Fits(cond, set, t), NEW k \in Keys, ~Meets(cond, t, k), t[k] # NoRow
  PROVE  Updated(cond, set, t)[k] = NoRow
<1> DEFINE new == {set[<<j, t[j]>>] : j \in {i \in Keys : Meets(cond, t, i)}}
<1>1. ASSUME NEW v \in Values, <<k, v>> \in new PROVE FALSE
  <2>1. PICK j \in Keys : Meets(cond, t, j) /\ set[<<j, t[j]>>] = <<k, v>>
    BY <1>1
  <2>2. j # k /\ t[j] # NoRow
    BY <2>1, MetRowsAreRows
  <2>3. KeyAfter(cond, set, t, j) = k
    BY <2>1 DEF KeyAfter
  <2>4. KeyAfter(cond, set, t, k) = k
    BY DEF KeyAfter
  <2> QED
    BY <2>2, <2>3, <2>4 DEF Fits
<1>2. Updated(cond, set, t)[k]
        = IF \E v \in Values : <<k, v>> \in new
          THEN CHOOSE v \in Values : <<k, v>> \in new ELSE NoRow
  BY DEF Updated
<1> HIDE DEF new
<1> QED
  BY <1>1, <1>2

\* The snapshot of the rows a statement is going to change brings them back,
\* and leaves what was not a row before the statement as the statement left it.
LEMMA SnapshotUndoes ==
  ASSUME NEW op \in {"UPDATE", "DELETE"}, NEW cond \in Conditions,
         NEW set \in Assignments, NEW t \in Tables,
         op = "UPDATE" => Fits(cond, set, t)
  PROVE  With(Effect(op, cond, set, t), Snapshot(cond, t))
           = [k \in Keys |-> IF t[k] = NoRow THEN Effect(op, cond, set, t)[k]
                             ELSE IF Meets(cond, t, k) THEN Stored[t[k]] ELSE t[k]]
<1> DEFINE rows == Snapshot(cond, t)
           after == Effect(op, cond, set, t)
<1>1. ASSUME NEW k \in Keys, Meets(cond, t, k)
      PROVE  rows[k] = Stored[t[k]] /\ rows[k] # NoRow /\ t[k] # NoRow
  BY <1>1, MetRowsAreRows DEF Snapshot
<1>2. ASSUME NEW k \in Keys, ~Meets(cond, t, k)
      PROVE  rows[k] = NoRow
  BY <1>2 DEF Snapshot
<1>3. ASSUME NEW k \in Keys, ~Meets(cond, t, k), t[k] # NoRow
      PROVE  after[k] = t[k]
  <2>1. Deleted(cond, t)[k] = t[k]
    BY <1>3 DEF Deleted
  <2>2. CASE op = "DELETE"
    BY <2>1, <2>2 DEF Effect
  <2>3. CASE op = "UPDATE"
    <3>1. Updated(cond, set, t)[k] = NoRow
      BY <1>3, <2>3, UpdateSpares
    <3>2. after = With(Deleted(cond, t), Updated(cond, set, t))
      BY <2>3 DEF Effect
    <3> QED
      BY <2>1, <3>1, <3>2 DEF With
  <2> QED
    BY <2>2, <2>3
<1> HIDE DEF rows, after
<1>4. With(after, rows)
        = [k \in Keys |-> IF t[k] = NoRow THEN after[k]
                          ELSE IF Meets(cond, t, k) THEN Stored[t[k]] ELSE t[k]]
  BY <1>1, <1>2, <1>3 DEF With
<1> QED
  BY <1>4 DEF rows, after

\* A deletion leaves no row that meets its condition, and deletes what the
\* restored snapshot has inserted, when the condition does not tell a value
\* from its stored form.
LEMMA DeletionRepeats ==
  ASSUME NEW cond \in Conditions, NEW t \in Tables,
         \A k \in Keys, v \in Values :
           <<k, v>> \in cond => <<k, Stored[v]>> \in cond
  PROVE  LET after == Deleted(cond, t) IN
         /\ Snapshot(cond, after) = NoRows
         /\ Deleted(cond, With(after, Snapshot(cond, t))) = after
<1> DEFINE after == Deleted(cond, t)
           rows == Snapshot(cond, t)
           again == With(after, rows)
<1>1. ASSUME NEW k \in Keys, Meets(cond, t, k)
      PROVE  /\ after[k] = NoRow /\ ~Meets(cond, after, k)
             /\ again[k] = Stored[t[k]] /\ Meets(cond, again, k)
  <2>1. after[k] = NoRow
    BY <1>1 DEF Deleted
  <2>2. <<k, NoRow>> \notin cond
    BY BackupAssumption DEF Conditions
  <2>3. rows[k] = Stored[t[k]] /\ rows[k] # NoRow /\ t[k] \in Values
    BY <1>1, MetRowsAreRows DEF Snapshot
  <2>4. again[k] = Stored[t[k]]
    BY <2>3 DEF With
  <2>5. <<k, Stored[t[k]]>> \in cond
    BY <1>1, <2>3 DEF Meets
  <2> QED
    BY <2>1, <2>2, <2>4, <2>5 DEF Meets
<1>2. ASSUME NEW k \in Keys, ~Meets(cond, t, k)
      PROVE  /\ after[k] = t[k] /\ ~Meets(cond, after, k)
             /\ again[k] = after[k] /\ ~Meets(cond, again, k)
  <2>1. after[k] = t[k] /\ rows[k] = NoRow
    BY <1>2 DEF Deleted, Snapshot
  <2>2. again[k] = after[k]
    BY <2>1 DEF With
  <2> QED
    BY <1>2, <2>1, <2>2 DEF Meets
<1>3. Snapshot(cond, after) = NoRows
  BY <1>1, <1>2 DEF Snapshot, NoRows
<1>4. Deleted(cond, again) = after
  <2>1. \A k \in Keys :
          after[k] = IF Meets(cond, again, k) THEN NoRow ELSE again[k]
    BY <1>1, <1>2
  <2>2. Deleted(cond, again) =
          [k \in Keys |-> IF Meets(cond, again, k) THEN NoRow ELSE again[k]]
    BY DEF Deleted
  <2>3. after = [k \in Keys |-> after[k]]
    BY DEF Deleted
  <2> HIDE DEF after, again
  <2> QED
    BY <2>1, <2>2, <2>3
<1> QED
  BY <1>3, <1>4

-----------------------------------------------------------------------------
(* Typing.                                                                 *)

\* A request that goes on to another point keeps its shape, also when it
\* takes rows along.
LEMMA GotoType ==
  ASSUME req \in [Requests -> RequestState], NEW q \in Requests,
         NEW pc \in Points, NEW rows \in Tables,
         \/ Goto(q, pc)
         \/ req' = [req EXCEPT ![q].pc = pc, ![q].rows = rows]
  PROVE  req' \in [Requests -> RequestState]
  BY DEF Goto, RequestState

\* The points from which a request is started or ended are points.
LEMMA PointsType ==
  /\ InTransaction \cup Restoring \cup Unsaved \cup Reversed \cup {"done"}
       \subseteq Points
  /\ Points \subseteq
       InTransaction \cup Restoring \cup Unsaved \cup Reversed \cup {"done"}
  BY DEF Points, InTransaction, Restoring, Unsaved, Reversed

\* A new backup has the shape of a row.
LEMMA NewBackupType ==
  ASSUME req \in [Requests -> RequestState], NEW q \in Requests
  PROVE  NewBackup(q) \in BackupRow
  BY DEF NewBackup, BackupRow, RequestState

\* So has one that gets another status.
LEMMA StatusType ==
  ASSUME backup \in [Requests -> BackupRow], NEW b \in Requests,
         NEW s \in {"none", "active", "rolled_back", "expired"}
  PROVE  [backup EXCEPT ![b].status = s] \in [Requests -> BackupRow]
  BY DEF BackupRow

\* The initial rows and requests have their shapes.
LEMMA TypeInit ==
  ASSUME Init
  PROVE  TypeOK
<1>1. NoBackup \in BackupRow /\ IdleReq \in RequestState
      /\ NothingWritten \in Written
  BY TablesAre DEF NoBackup, BackupRow, IdleReq, RequestState, NothingWritten,
     Written, Operations, Conditions, Assignments, Points
<1>2. table \in Tables
  BY BackupAssumption DEF Init, Tables
<1> QED
  BY <1>1, <1>2 DEF Init, TypeOK

\* Every step keeps the shapes.
LEMMA TypeInduction ==
  ASSUME TypeOK, ProgressInv, [Next]_vars
  PROVE  TypeOK'
<1> USE DEF target
<1>1. ASSUME NEW q \in Requests, NEW s \in Statements, BeginWrite(q, s)
      PROVE  TypeOK'
  <2>1. Statement(q, s) \in RequestState
    BY BackupAssumption, TablesAre DEF Statement, IdleReq, RequestState,
       Operations, Conditions, Assignments, Points
  <2> QED
    BY <2>1, <1>1 DEF BeginWrite, TypeOK
<1>2. ASSUME NEW q \in Requests, ReadRows(q) \/ ReadReverse(q)
      PROVE  TypeOK'
  <2>1. Snapshot(req[q].cond, work) \in Tables
    BY TablesAre DEF TypeOK, RequestState
  <2>2. req' \in [Requests -> RequestState]
    BY <1>2, <2>1, GotoType DEF ReadRows, ReadReverse, TypeOK, Points
  <2> QED
    BY <2>2, <1>2 DEF ReadRows, ReadReverse, TypeOK
<1>3. ASSUME NEW q \in Requests, SaveBackup(q) \/ SaveReverse(q)
      PROVE  TypeOK'
  <2>1. backup' \in [Requests -> BackupRow]
    BY <1>3, NewBackupType DEF SaveBackup, SaveReverse, TypeOK
  <2>2. req' \in [Requests -> RequestState]
    BY <1>3, GotoType, TablesAre DEF SaveBackup, SaveReverse, TypeOK, Points
  <2> QED
    BY <2>1, <2>2, <1>3 DEF SaveBackup, SaveReverse, TypeOK
<1>4. ASSUME NEW q \in Requests,
             \/ ExecuteWrite(q) \/ DeleteRows(q) \/ InsertRows(q)
      PROVE  TypeOK'
  <2>1. work' \in Tables
    <3>1. /\ req[q].op \in Operations /\ req[q].cond \in Conditions
          /\ req[q].set \in Assignments /\ req[q].rows \in Tables
          /\ work \in Tables
      BY DEF TypeOK, RequestState
    <3>2. CASE ExecuteWrite(q)
      BY <3>1, <3>2, TablesAre DEF ExecuteWrite
    <3>3. CASE DeleteRows(q)
      <4>1. \/ work' = Deleted(req[q].cond, work)
            \/ work' = Without(work, req[q].rows)
        BY <3>3 DEF DeleteRows
      <4> QED
        BY <3>1, <4>1, TablesAre
    <3>4. CASE InsertRows(q)
      BY <3>1, <3>4, TablesAre DEF InsertRows
    <3> QED
      BY <1>4, <3>2, <3>3, <3>4
  <2>2. req' \in [Requests -> RequestState]
    BY <1>4, GotoType, TablesAre
       DEF ExecuteWrite, DeleteRows, InsertRows, TypeOK, Points
  <2> QED
    BY <2>1, <2>2, <1>4 DEF ExecuteWrite, DeleteRows, InsertRows, TypeOK
<1>5. ASSUME NEW q \in Requests, CommitWrite(q) \/ CommitRestore(q)
      PROVE  TypeOK'
  <2>1. req' \in [Requests -> RequestState]
    BY <1>5, GotoType, TablesAre
       DEF CommitWrite, CommitRestore, TypeOK, Points
  <2>2. wrote' \in [Requests -> Written]
    BY <1>5 DEF CommitWrite, CommitRestore, TypeOK, Written
  <2> QED
    BY <2>1, <2>2, <1>5 DEF CommitWrite, CommitRestore, TypeOK
<1>6. ASSUME NEW q \in Requests,
             \/ AbortWrite(q) \/ AbortRestore(q) \/ BeginRestore(q)
      PROVE  TypeOK'
  <2>1. req' \in [Requests -> RequestState]
    BY <1>6, GotoType, TablesAre
       DEF AbortWrite, AbortRestore, BeginRestore, TypeOK, Points
  <2> QED
    BY <2>1, <1>6 DEF AbortWrite, AbortRestore, BeginRestore, TypeOK
<1>7. ASSUME NEW q \in Requests, NEW b \in Requests, StartRollback(q, b)
      PROVE  TypeOK'
  <2>1. backup[b].cond \in Conditions
    BY DEF TypeOK, BackupRow
  <2>2. [IdleReq EXCEPT !.pc = "read_reverse", !.of = b,
                        !.cond = backup[b].cond] \in RequestState
    BY <2>1, TablesAre DEF IdleReq, RequestState, Operations, Assignments, Points
  <2> QED
    BY <2>2, <1>7 DEF StartRollback, TypeOK
<1>8. ASSUME NEW q \in Requests,
             \/ AddRecord(q) \/ CompleteRecord(q) \/ RejectRecord(q)
             \/ Load(q) \/ Abandon(q)
      PROVE  TypeOK'
  <2>1. req' \in [Requests -> RequestState]
    BY <1>8, GotoType, TablesAre DEF AddRecord, CompleteRecord, RejectRecord,
       Load, Abandon, TypeOK, Points
  <2> QED
    BY <2>1, <1>8 DEF AddRecord, CompleteRecord, RejectRecord, Load, Abandon,
       TypeOK
<1>9. ASSUME NEW q \in Requests, Decode(q)
      PROVE  TypeOK'
  <2>1. req[q].of \in Requests
    BY <1>9, PointsAre DEF Decode, ProgressInv, Progress, TypeOK, RequestState
  <2>2. backup[req[q].of].rows \in Tables
    BY <2>1 DEF TypeOK, BackupRow
  <2>3. req' \in [Requests -> RequestState]
    BY <1>9, <2>2, GotoType DEF Decode, TypeOK, Points
  <2> QED
    BY <2>3, <1>9 DEF Decode, TypeOK
<1>10. ASSUME NEW q \in Requests, MarkRolledBack(q)
       PROVE  TypeOK'
  <2>1. req[q].of \in Requests
    BY <1>10, PointsAre DEF MarkRolledBack, ProgressInv, Progress, TypeOK,
       RequestState
  <2>2. backup' \in [Requests -> BackupRow]
    BY <1>10, <2>1, StatusType DEF MarkRolledBack, TypeOK
  <2>3. req' \in [Requests -> RequestState]
    BY <1>10, GotoType, TablesAre DEF MarkRolledBack, TypeOK, Points
  <2> QED
    BY <2>2, <2>3, <1>10 DEF MarkRolledBack, TypeOK
<1>11. ASSUME CleanupRead PROVE TypeOK'
  BY <1>11 DEF CleanupRead, TypeOK
<1>12. ASSUME CleanupCommit \/ Rotate PROVE TypeOK'
  <2>1. backup' \in [Requests -> BackupRow]
    <3>1. \A b \in Requests :
            /\ backup[b] \in BackupRow
            /\ [backup[b] EXCEPT !.status = "expired", !.chunks = "deleted"]
                 \in BackupRow
            /\ [backup[b] EXCEPT !.marker = "encrypted"] \in BackupRow
      BY DEF TypeOK, BackupRow
    <3>2. CASE CleanupCommit
      BY <3>1, <3>2 DEF CleanupCommit
    <3>3. CASE Rotate
      BY <3>1, <3>3 DEF Rotate
    <3> QED
      BY <1>12, <3>2, <3>3
  <2> QED
    BY <2>1, <1>12 DEF CleanupCommit, Rotate, TypeOK
<1>13. ASSUME NEW k \in Keys, NEW v \in Values \cup {NoRow}, Outside(k, v)
       PROVE  TypeOK'
  BY <1>13, BackupAssumption DEF Outside, TypeOK, Tables
<1>14. ASSUME Crash PROVE TypeOK'
  <2>1. req' \in [Requests -> RequestState]
    BY <1>14 DEF Crash, TypeOK, RequestState, Points
  <2> QED
    BY <2>1, <1>14 DEF Crash, TypeOK
<1>15. ASSUME UNCHANGED vars PROVE TypeOK'
  BY <1>15 DEF vars, TypeOK
<1> QED
  BY <1>1, <1>2, <1>3, <1>4, <1>5, <1>6, <1>7, <1>8, <1>9, <1>10, <1>11,
     <1>12, <1>13, <1>14, <1>15 DEF Next, Write, Rollback

-----------------------------------------------------------------------------
(* What a request sees of the steps of others.                             *)

\* What the invariant says of one request.
Local(q) ==
  Locked(q) /\ Covered(q) /\ Recoverable(q) /\ Progress(q) /\ Restores(q)

\* A saved backup keeps its snapshot, and never becomes active again.
SavedStays ==
  \A b \in Requests :
    backup[b].status # "none" =>
      /\ backup'[b].status # "none"
      /\ backup[b].status # "active" => backup'[b].status # "active"
      /\ backup'[b].op = backup[b].op
      /\ backup'[b].cond = backup[b].cond
      /\ backup'[b].rows = backup[b].rows

\* A step of somebody else leaves p alone, and the target too while p is in
\* a transaction.
Elsewhere(p) ==
  /\ req'[p] = req[p] /\ record'[p] = record[p] /\ wrote'[p] = wrote[p]
  /\ backup[p].status = "none" => backup'[p].status = "none"
  /\ holder = p => UNCHANGED <<table, work, holder>>

\* The request a rollback works for, when there is one.
LEMMA OfType ==
  ASSUME TypeOK, NEW q \in Requests, req[q].of # NoRequest
  PROVE  req[q].of \in Requests
  BY DEF TypeOK, RequestState

\* No step takes a saved snapshot away.
LEMMA BackupsStay ==
  ASSUME TypeOK, ProgressInv, [Next]_vars
  PROVE  SavedStays
<1>1. ASSUME NEW q \in Requests, SaveBackup(q) \/ SaveReverse(q)
      PROVE  SavedStays
  <2>1. backup[q].status = "none"
    BY <1>1 DEF SaveBackup, SaveReverse, ProgressInv, Progress, Unsaved
  <2>2. \A b \in Requests : b # q => backup'[b] = backup[b]
    BY <1>1 DEF SaveBackup, SaveReverse, TypeOK
  <2> QED
    BY <2>1, <2>2 DEF SavedStays
<1>2. ASSUME NEW q \in Requests, MarkRolledBack(q)
      PROVE  SavedStays
  BY <1>2 DEF MarkRolledBack, TypeOK, BackupRow, SavedStays
<1>3. ASSUME CleanupCommit \/ Rotate
      PROVE  SavedStays
  <2>1. ASSUME NEW b \in Requests
        PROVE  /\ backup'[b].op = backup[b].op
               /\ backup'[b].cond = backup[b].cond
               /\ backup'[b].rows = backup[b].rows
               /\ backup'[b].status \in {backup[b].status, "expired"}
    <3>1. backup'[b] \in
            {backup[b],
             [backup[b] EXCEPT !.status = "expired", !.chunks = "deleted"],
             [backup[b] EXCEPT !.marker = "encrypted"]}
      BY <1>3 DEF CleanupCommit, Rotate
    <3> QED
      BY <3>1 DEF TypeOK, BackupRow
  <2> QED
    BY <2>1 DEF SavedStays
<1>4. ASSUME UNCHANGED backup PROVE SavedStays
  BY <1>4 DEF SavedStays
<1>5. ASSUME NEW q \in Requests, Write(q), ~SaveBackup(q)
      PROVE  UNCHANGED backup
  BY <1>5 DEF Write, BeginWrite, ReadRows, ExecuteWrite, CommitWrite,
     AbortWrite
<1>6. ASSUME NEW q \in Requests, Rollback(q), ~SaveReverse(q),
             ~MarkRolledBack(q)
      PROVE  UNCHANGED backup
  BY <1>6 DEF Rollback, StartRollback, ReadReverse, AddRecord, Load, Decode,
     BeginRestore, DeleteRows, InsertRows, CommitRestore, AbortRestore,
     CompleteRecord, RejectRecord, Abandon
<1>7. ASSUME \/ CleanupRead \/ Crash \/ UNCHANGED vars
             \/ \E k \in Keys, v \in Values \cup {NoRow} : Outside(k, v)
      PROVE  UNCHANGED backup
  BY <1>7 DEF CleanupRead, Crash, vars, Outside
<1> QED
  BY <1>1, <1>2, <1>3, <1>4, <1>5, <1>6, <1>7 DEF Next

\* A step of q is seen by nobody else.
LEMMA OthersSee ==
  ASSUME TypeOK, LockInv, ProgressInv, NEW q \in Requests,
         Write(q) \/ Rollback(q), NEW p \in Requests, p # q
  PROVE  Elsewhere(p)
<1>1. req'[p] = req[p]
  BY DEF TypeOK, Goto, Write, BeginWrite, ReadRows, SaveBackup, ExecuteWrite,
     CommitWrite, AbortWrite, Rollback, StartRollback, ReadReverse,
     SaveReverse, AddRecord, Load, Decode, BeginRestore, DeleteRows,
     InsertRows, CommitRestore, AbortRestore, MarkRolledBack, CompleteRecord,
     RejectRecord, Abandon
<1>2. record'[p] = record[p]
  BY DEF TypeOK, Write, BeginWrite, ReadRows, SaveBackup, ExecuteWrite,
     CommitWrite, AbortWrite, Rollback, StartRollback, ReadReverse,
     SaveReverse, AddRecord, Load, Decode, BeginRestore, DeleteRows,
     InsertRows, CommitRestore, AbortRestore, MarkRolledBack, CompleteRecord,
     RejectRecord, Abandon
<1>3. wrote'[p] = wrote[p]
  BY DEF target, TypeOK, Write, BeginWrite, ReadRows, SaveBackup, ExecuteWrite,
     CommitWrite, AbortWrite, Rollback, StartRollback, ReadReverse,
     SaveReverse, AddRecord, Load, Decode, BeginRestore, DeleteRows,
     InsertRows, CommitRestore, AbortRestore, MarkRolledBack, CompleteRecord,
     RejectRecord, Abandon
<1>4. backup[p].status = "none" => backup'[p].status = "none"
  <2>1. CASE UNCHANGED backup
    BY <2>1
  <2>2. CASE SaveBackup(q) \/ SaveReverse(q)
    BY <2>2 DEF SaveBackup, SaveReverse, TypeOK
  <2>3. CASE MarkRolledBack(q)
    <3>1. req[q].of \in Requests /\ backup[req[q].of].status # "none"
      BY <2>3, OfType DEF MarkRolledBack, ProgressInv, Progress, Reversed
    <3> QED
      BY <2>3, <3>1 DEF MarkRolledBack, TypeOK
  <2>4. ASSUME Write(q), ~SaveBackup(q) PROVE UNCHANGED backup
    BY <2>4 DEF Write, BeginWrite, ReadRows, ExecuteWrite, CommitWrite,
       AbortWrite
  <2>5. ASSUME Rollback(q), ~SaveReverse(q), ~MarkRolledBack(q)
        PROVE  UNCHANGED backup
    BY <2>5 DEF Rollback, StartRollback, ReadReverse, AddRecord, Load, Decode,
       BeginRestore, DeleteRows, InsertRows, CommitRestore, AbortRestore,
       CompleteRecord, RejectRecord, Abandon
  <2> QED
    BY <2>1, <2>2, <2>3, <2>4, <2>5
<1>5. ASSUME holder = p PROVE UNCHANGED <<table, work, holder>>
  <2>1. holder # q /\ holder # NoRequest
    BY <1>5, BackupAssumption
  <2>2. req[q].pc \notin InTransaction \cup Restoring
    BY <2>1 DEF LockInv, Locked
  <2>3. req[q].pc \notin {"write", "commit", "delete", "insert",
                          "commit_restore"}
    BY <2>2, PointsAre
  <2> QED
    BY <2>1, <2>2, <2>3 DEF target, Write, BeginWrite, ReadRows, SaveBackup,
       ExecuteWrite, CommitWrite, AbortWrite, Rollback, StartRollback,
       ReadReverse, SaveReverse, AddRecord, Load, Decode, BeginRestore,
       DeleteRows, InsertRows, CommitRestore, AbortRestore, MarkRolledBack,
       CompleteRecord, RejectRecord, Abandon
<1> QED
  BY <1>1, <1>2, <1>3, <1>4, <1>5 DEF Elsewhere

\* Nor is the background, and other programs keep out of a transaction.
LEMMA BackgroundSeen ==
  ASSUME TypeOK, ProgressInv, NEW p \in Requests,
         \/ CleanupRead \/ CleanupCommit \/ Rotate \/ UNCHANGED vars
         \/ \E k \in Keys, v \in Values \cup {NoRow} : Outside(k, v)
  PROVE  Elsewhere(p)
<1>1. CASE CleanupRead \/ UNCHANGED vars
  BY <1>1 DEF CleanupRead, vars, target, Elsewhere
<1>2. CASE CleanupCommit
  <2>1. backup[p].status = "none" => backup'[p] = backup[p]
    BY <1>2 DEF CleanupCommit, ProgressInv
  <2> QED
    BY <1>2, <2>1 DEF CleanupCommit, target, Elsewhere
<1>3. CASE Rotate
  <2>1. backup[p].status = "none" => backup'[p] = backup[p]
    BY <1>3 DEF Rotate
  <2> QED
    BY <1>3, <2>1 DEF Rotate, target, Elsewhere
<1>4. ASSUME NEW k \in Keys, NEW v \in Values \cup {NoRow}, Outside(k, v)
      PROVE  Elsewhere(p)
  BY <1>4, BackupAssumption DEF Outside, Elsewhere
<1> QED
  BY <1>1, <1>2, <1>3, <1>4

\* What holds of p is not disturbed from elsewhere.
LEMMA LocalStays ==
  ASSUME TypeOK, NEW p \in Requests, Local(p), Elsewhere(p), SavedStays
  PROVE  Local(p)'
<1>1. req[p].of # NoRequest =>
        /\ backup[req[p].of].status # "none"
        /\ backup'[req[p].of].status # "none"
        /\ backup[req[p].of].status # "active" =>
             backup'[req[p].of].status # "active"
        /\ backup'[req[p].of].op = backup[req[p].of].op
        /\ backup'[req[p].of].cond = backup[req[p].of].cond
        /\ backup'[req[p].of].rows = backup[req[p].of].rows
  BY OfType DEF Local, Progress, SavedStays
<1>2. req[p].pc \in InTransaction \cup Restoring =>
        UNCHANGED <<table, work, holder>> /\ holder = p
  BY DEF Local, Locked, Elsewhere
<1>3. Locked(p)'
  BY <1>2, PointsAre DEF Local, Locked, Elsewhere
<1>4. Covered(p)'
  BY <1>2, PointsAre DEF Local, Covered, Elsewhere, SavedStays
<1>5. Recoverable(p)'
  BY DEF Local, Recoverable, Elsewhere, SavedStays
<1>6. Progress(p)'
  BY <1>1, PointsAre DEF Local, Progress, Elsewhere
<1>7. Restores(p)'
  BY <1>1, <1>2, PointsAre DEF Local, Restores, Elsewhere,
     SavedStays, Undo
<1> QED
  BY <1>3, <1>4, <1>5, <1>6, <1>7 DEF Local

-----------------------------------------------------------------------------
(* What a request does to itself.                                          *)

\* A request that only goes on to another point, on an unchanged target.
Goes(q, pc) ==
  /\ req'[q].pc = pc
  /\ req'[q].of = req[q].of /\ req'[q].op = req[q].op
  /\ req'[q].cond = req[q].cond /\ req'[q].set = req[q].set
  /\ req'[q].rows = req[q].rows

LEMMA GotoGoes ==
  ASSUME TypeOK, NEW q \in Requests, NEW pc, Goto(q, pc)
  PROVE  Goes(q, pc)
  BY DEF TypeOK, RequestState, Goto, Goes

\* What q knows of the backup it rolls back stays true.
LEMMA OfStays ==
  ASSUME TypeOK, NEW q \in Requests, Progress(q), SavedStays,
         req[q].of # NoRequest
  PROVE  /\ req[q].of \in Requests
         /\ backup[req[q].of].status # "none"
         /\ backup'[req[q].of].status # "none"
         /\ backup[req[q].of].status # "active" =>
              backup'[req[q].of].status # "active"
         /\ backup'[req[q].of].op = backup[req[q].of].op
         /\ backup'[req[q].of].cond = backup[req[q].of].cond
         /\ backup'[req[q].of].rows = backup[req[q].of].rows
  BY OfType DEF Progress, SavedStays

\* The transaction of approve_review: the snapshot, its backup, the statement
\* and the commit meet one and the same table.
LEMMA WriteKeeps ==
  ASSUME TypeOK, LockInv, NEW q \in Requests, Local(q), SavedStays, Write(q)
  PROVE  Local(q)'
<1> USE DEF target, Local
<1>1. ASSUME NEW s \in Statements, BeginWrite(q, s) PROVE Local(q)'
  <2>1. /\ req'[q].pc = "read" /\ req'[q].of = NoRequest
        /\ req'[q].op = s.op /\ s.op # "ROLLBACK"
    BY <1>1, BackupAssumption DEF BeginWrite, Statement, IdleReq, TypeOK
  <2>2. /\ holder' = q /\ work = table
        /\ UNCHANGED <<table, work, backup, record, wrote>>
    BY <1>1 DEF BeginWrite, LockInv
  <2>3. /\ backup[q].status = "none" /\ wrote[q].by = "nobody"
        /\ record[q] \notin {"completed", "failed"}
    BY <1>1 DEF BeginWrite, Progress, Unsaved, Restored
  <2> QED
    BY <2>1, <2>2, <2>3 DEF Locked, Covered, Recoverable, Progress, Restores,
       InTransaction, Restoring, Unsaved, Reversed, Restored
<1>2. CASE ReadRows(q)
  <2>1. /\ req'[q].pc = "save" /\ req'[q].of = req[q].of
        /\ req'[q].op = req[q].op /\ req'[q].cond = req[q].cond
        /\ req'[q].rows = Snapshot(req[q].cond, work)
    BY <1>2 DEF ReadRows, TypeOK, RequestState
  <2>2. /\ holder = q /\ work = table
        /\ UNCHANGED <<table, work, holder, backup, record, wrote>>
    BY <1>2 DEF ReadRows, Locked, InTransaction
  <2> QED
    BY <1>2, <2>1, <2>2 DEF ReadRows, Locked, Covered, Recoverable, Progress,
       Restores, InTransaction, Restoring, Unsaved, Reversed, Restored
<1>3. CASE SaveBackup(q)
  <2>1. Goes(q, "write")
    BY <1>3, GotoGoes DEF SaveBackup
  <2>2. /\ backup'[q].status = "active" /\ backup'[q].op = req[q].op
        /\ backup'[q].cond = req[q].cond /\ backup'[q].rows = req[q].rows
    BY <1>3 DEF SaveBackup, NewBackup, TypeOK
  <2>3. UNCHANGED <<table, work, holder, record, wrote>>
    BY <1>3 DEF SaveBackup
  <2> QED
    BY <1>3, <2>1, <2>2, <2>3, OfStays DEF SaveBackup, Goes, Locked, Covered,
       Recoverable, Progress, Restores, InTransaction, Restoring, Unsaved,
       Reversed, Restored
<1>4. CASE ExecuteWrite(q)
  <2>1. Goes(q, "commit")
    BY <1>4, GotoGoes DEF ExecuteWrite
  <2>2. /\ holder' = q /\ work = table
        /\ work' = Effect(req[q].op, req[q].cond, req[q].set, work)
        /\ req[q].op = "UPDATE" => Fits(req[q].cond, req[q].set, work)
        /\ UNCHANGED <<table, backup, record, wrote>>
    BY <1>4 DEF ExecuteWrite, Locked
  <2> QED
    BY <1>4, <2>1, <2>2 DEF ExecuteWrite, Goes, Locked, Covered, Recoverable,
       Progress, Restores, InTransaction, Restoring, Unsaved, Reversed, Restored
<1>5. CASE CommitWrite(q)
  <2>1. Goes(q, "done")
    BY <1>5, GotoGoes DEF CommitWrite
  <2>2. /\ wrote'[q].by = "statement" /\ wrote'[q].before = table
        /\ wrote'[q].after = work
        /\ UNCHANGED <<backup, record>>
    BY <1>5 DEF CommitWrite, TypeOK, Written
  <2>3. /\ backup[q].status # "none" /\ backup[q].op # "ROLLBACK"
        /\ backup[q].rows = Snapshot(backup[q].cond, table)
        /\ work = Effect(backup[q].op, backup[q].cond, req[q].set, table)
        /\ backup[q].op = "UPDATE" => Fits(backup[q].cond, req[q].set, table)
    BY <1>5 DEF CommitWrite, Covered, InTransaction
  <2>4. req[q].set \in Assignments
    BY DEF TypeOK, RequestState
  <2>5. Recoverable(q)'
    BY <2>1, <2>2, <2>3, <2>4 DEF Goes, Recoverable
  <2> QED
    BY <1>5, <2>1, <2>2, <2>5 DEF CommitWrite, Goes, Locked, Covered,
       Progress, Restores, InTransaction, Restoring, Unsaved, Reversed, Restored
<1>6. CASE AbortWrite(q)
  <2>1. Goes(q, "done")
    BY <1>6, GotoGoes DEF AbortWrite
  <2>2. wrote[q].by = "nobody"
    BY <1>6, PointsAre DEF AbortWrite, Progress
  <2> QED
    BY <1>6, <2>1, <2>2 DEF AbortWrite, Goes, Locked, Covered, Recoverable,
       Progress, Restores, InTransaction, Restoring, Unsaved, Reversed, Restored
<1> QED
  BY <1>1, <1>2, <1>3, <1>4, <1>5, <1>6 DEF Write

\* rollback_operation: what is restored are the rows of the backup, and the
\* result is its Undo.
LEMMA RollbackKeeps ==
  ASSUME TypeOK, LockInv, NEW q \in Requests, Local(q), SavedStays, Rollback(q)
  PROVE  Local(q)'
<1> USE DEF target, Local
<1>1. ASSUME NEW b \in Requests, StartRollback(q, b) PROVE Local(q)'
  <2>1. /\ req'[q].pc = "read_reverse" /\ req'[q].of = b
        /\ req'[q].op = "ROLLBACK" /\ req'[q].cond = backup[b].cond
        /\ backup[b].status # "none" /\ b # NoRequest
        /\ UNCHANGED <<table, work, holder, backup, record, wrote>>
    BY <1>1, BackupAssumption DEF StartRollback, IdleReq, TypeOK
  <2>2. /\ backup[q].status = "none" /\ wrote[q].by = "nobody"
        /\ record[q] \notin {"completed", "failed"}
    BY <1>1 DEF StartRollback, Progress, Unsaved, Restored
  <2> QED
    BY <2>1, <2>2 DEF Locked, Covered, Recoverable, Progress, Restores,
       InTransaction, Restoring, Unsaved, Reversed, Restored
<1>2. CASE ReadReverse(q)
  <2>1. /\ req'[q].pc = "save_reverse" /\ req'[q].of = req[q].of
        /\ req'[q].op = req[q].op /\ req'[q].cond = req[q].cond
        /\ UNCHANGED <<table, work, holder, backup, record, wrote>>
    BY <1>2 DEF ReadReverse, TypeOK, RequestState
  <2> QED
    BY <1>2, <2>1 DEF ReadReverse, Locked, Covered, Recoverable, Progress,
       Restores, InTransaction, Restoring, Unsaved, Reversed, Restored
<1>3. CASE SaveReverse(q)
  <2>1. Goes(q, "record")
    BY <1>3, GotoGoes DEF SaveReverse
  <2>2. /\ backup'[q].status = "active" /\ backup'[q].op = req[q].op
        /\ backup'[q].cond = req[q].cond
    BY <1>3 DEF SaveReverse, NewBackup, TypeOK
  <2>3. UNCHANGED <<table, work, holder, record, wrote>>
    BY <1>3 DEF SaveReverse
  <2> QED
    BY <1>3, <2>1, <2>2, <2>3, OfStays DEF SaveReverse, Goes, Locked, Covered,
       Recoverable, Progress, Restores, InTransaction, Restoring, Unsaved,
       Reversed, Restored
<1>4. CASE AddRecord(q)
  <2>1. Goes(q, "load") /\ record'[q] = "executing"
    BY <1>4, GotoGoes DEF AddRecord, TypeOK
  <2> QED
    BY <1>4, <2>1 DEF AddRecord, Goes, Locked, Covered, Recoverable, Progress,
       Restores, InTransaction, Restoring, Unsaved, Reversed, Restored
<1>5. CASE Load(q)
  <2>1. Goes(q, "decode") \/ Goes(q, "reject")
    BY <1>5, GotoGoes DEF Load
  <2> QED
    BY <1>5, <2>1 DEF Load, Goes, Locked, Covered, Recoverable, Progress,
       Restores, InTransaction, Restoring, Unsaved, Reversed, Restored
<1>6. CASE Decode(q)
  <2>1. \/ Goes(q, "reject")
        \/ /\ req'[q].pc = "begin" /\ req'[q].of = req[q].of
           /\ req'[q].op = req[q].op /\ req'[q].cond = req[q].cond
           /\ req'[q].rows = backup[req[q].of].rows
    BY <1>6, GotoGoes DEF Decode, TypeOK, RequestState
  <2> QED
    BY <1>6, <2>1 DEF Decode, Goes, Locked, Covered, Recoverable, Progress,
       Restores, InTransaction, Restoring, Unsaved, Reversed, Restored
<1>7. CASE BeginRestore(q)
  <2>1. Goes(q, "delete")
    BY <1>7, GotoGoes DEF BeginRestore
  <2> QED
    BY <1>7, <2>1 DEF BeginRestore, LockInv, Goes, Locked, Covered,
       Recoverable, Progress, Restores, InTransaction, Restoring, Unsaved,
       Reversed, Restored
<1>8. CASE DeleteRows(q)
  <2>1. Goes(q, "insert")
    BY <1>8, GotoGoes DEF DeleteRows
  <2>2. /\ work = table /\ req[q].rows = backup[req[q].of].rows
        /\ req[q].cond = backup[req[q].of].cond
    BY <1>8 DEF DeleteRows, Locked, Restores, Restoring, Reversed
  <2>3. work' = IF DeletesAgain(backup[req[q].of].op, backup[req[q].of].rows)
                THEN Deleted(backup[req[q].of].cond, table)
                ELSE Without(table, backup[req[q].of].rows)
    BY <1>8, <2>2 DEF DeleteRows
  <2> QED
    BY <1>8, <2>1, <2>3 DEF DeleteRows, Goes, Locked, Covered, Recoverable,
       Progress, Restores, InTransaction, Restoring, Unsaved, Reversed, Restored
<1>9. CASE InsertRows(q)
  <2> DEFINE b == backup[req[q].of]
  <2>1. Goes(q, "commit_restore")
    BY <1>9, GotoGoes DEF InsertRows
  <2>2. /\ req[q].rows = b.rows
        /\ work = IF DeletesAgain(b.op, b.rows)
                  THEN Deleted(b.cond, table)
                  ELSE Without(table, b.rows)
        /\ work' = With(work, b.rows)
    BY <1>9 DEF InsertRows, Restores, Restoring
  <2>3. b.rows \in Tables /\ work \in Tables /\ table \in Tables
    BY <1>9, OfType DEF InsertRows, Progress, Reversed, Restoring, TypeOK,
       BackupRow
  <2>4. work' = Undo(b, table)
    BY <2>2, <2>3, InsertAfterDelete DEF Undo, DeletesAgain
  <2> HIDE DEF b
  <2>5. UNCHANGED <<table, holder, backup, record, wrote>>
    BY <1>9 DEF InsertRows
  <2> QED
    BY <1>9, <2>1, <2>4, <2>5 DEF b, InsertRows, Goes, Locked, Covered,
       Recoverable, Progress, Restores, InTransaction, Restoring, Unsaved,
       Reversed, Restored
<1>10. CASE CommitRestore(q)
  <2>1. Goes(q, "mark")
    BY <1>10, GotoGoes DEF CommitRestore
  <2>2. /\ wrote'[q].by = "rollback" /\ wrote'[q].before = table
        /\ wrote'[q].after = work
        /\ UNCHANGED <<backup, record>>
    BY <1>10 DEF CommitRestore, TypeOK, Written
  <2> QED
    BY <1>10, <2>1, <2>2 DEF CommitRestore, Goes, Locked, Covered, Recoverable,
       Progress, Restores, InTransaction, Restoring, Unsaved, Reversed, Restored
<1>11. CASE AbortRestore(q)
  <2>1. Goes(q, "reject") \/ Goes(q, "done")
    BY <1>11, GotoGoes DEF AbortRestore
  <2> QED
    BY <1>11, <2>1 DEF AbortRestore, Goes, Locked, Covered, Recoverable,
       Progress, Restores, InTransaction, Restoring, Unsaved, Reversed, Restored
<1>12. CASE MarkRolledBack(q)
  <2>1. Goes(q, "log")
    BY <1>12, GotoGoes DEF MarkRolledBack
  <2>2. req[q].of # NoRequest /\ wrote[q].by = "rollback"
        /\ backup[q].status # "none" /\ record[q] \notin {"completed", "failed"}
    BY <1>12 DEF MarkRolledBack, Progress, Restores, Reversed, Restored
  <2>3. backup'[req[q].of].status = "rolled_back"
    BY <1>12, <2>2, OfType DEF MarkRolledBack, TypeOK, BackupRow
  <2>4. UNCHANGED <<table, work, holder, record, wrote>>
    BY <1>12 DEF MarkRolledBack
  <2>5. Locked(q)' /\ Covered(q)' /\ Recoverable(q)'
    BY <2>1, <2>2, <2>4 DEF Goes, Locked, Covered, Recoverable, InTransaction,
       Restoring
  <2>6. Progress(q)'
    BY <2>1, <2>2, <2>3, <2>4, OfStays DEF Goes, Progress, Unsaved, Reversed,
       Restored, Restoring
  <2>7. Restores(q)'
    <3>1. /\ backup'[req[q].of].op = backup[req[q].of].op
          /\ backup'[req[q].of].cond = backup[req[q].of].cond
          /\ backup'[req[q].of].rows = backup[req[q].of].rows
      BY <2>2, OfStays
    <3>2. /\ backup'[q].status # "none" /\ backup'[q].op = backup[q].op
          /\ backup'[q].cond = backup[q].cond
      BY <2>2 DEF SavedStays
    <3>3. /\ req[q].cond = backup[req[q].of].cond
          /\ backup[q].op = "ROLLBACK" /\ backup[q].cond = req[q].cond
          /\ wrote[q].after = Undo(backup[req[q].of], wrote[q].before)
      BY <2>2 DEF Restores
    <3>4. wrote[q].after = Undo(backup'[req[q].of], wrote[q].before)
      BY <3>1, <3>3 DEF Undo
    <3> QED
      BY <2>1, <2>2, <2>4, <3>1, <3>2, <3>3, <3>4 DEF Goes, Restores, Restoring
  <2> QED
    BY <2>5, <2>6, <2>7
<1>13. CASE CompleteRecord(q) \/ RejectRecord(q)
  <2>1. Goes(q, "done")
    BY <1>13, GotoGoes DEF CompleteRecord, RejectRecord
  <2> QED
    BY <1>13, <2>1 DEF CompleteRecord, RejectRecord, Goes, Locked, Covered,
       Recoverable, Progress, Restores, InTransaction, Restoring, Unsaved,
       Reversed, Restored
<1>14. CASE Abandon(q)
  <2>1. Goes(q, "done")
    BY <1>14, GotoGoes DEF Abandon
  <2> QED
    BY <1>14, <2>1 DEF Abandon, Goes, Locked, Covered, Recoverable, Progress,
       Restores, InTransaction, Restoring, Unsaved, Reversed, Restored
<1> QED
  BY <1>1, <1>2, <1>3, <1>4, <1>5, <1>6, <1>7, <1>8, <1>9, <1>10, <1>11,
     <1>12, <1>13, <1>14 DEF Rollback

\* A crash takes every request to its end and leaves its records.
LEMMA CrashKeeps ==
  ASSUME TypeOK, NEW q \in Requests, Local(q), Crash
  PROVE  Local(q)'
<1>1. \/ req[q].pc = "idle" /\ req'[q] = req[q]
      \/ Goes(q, "done")
  BY DEF Crash, TypeOK, RequestState, Goes
<1>2. UNCHANGED <<table, backup, record, wrote>>
  BY DEF Crash
<1> QED
  BY <1>1, <1>2 DEF Local, Goes, Locked, Covered, Recoverable, Progress,
     Restores, InTransaction, Restoring, Unsaved, Reversed, Restored

-----------------------------------------------------------------------------
(* The invariant.                                                          *)

\* A step is taken by a request, by the background, or it is a crash.
LEMMA StepsAre ==
  ASSUME [Next]_vars
  PROVE  \/ \E q \in Requests : Write(q) \/ Rollback(q)
         \/ CleanupRead \/ CleanupCommit \/ Rotate \/ UNCHANGED vars
         \/ \E k \in Keys, v \in Values \cup {NoRow} : Outside(k, v)
         \/ Crash
  BY DEF Next

\* What holds of every request holds of it after every step.
LEMMA LocalInduction ==
  ASSUME TypeOK, LockInv, ProgressInv, \A q \in Requests : Local(q),
         [Next]_vars
  PROVE  \A q \in Requests : Local(q)'
<1> SUFFICES ASSUME NEW p \in Requests PROVE Local(p)'
  OBVIOUS
<1>1. SavedStays
  BY BackupsStay
<1>2. ASSUME NEW q \in Requests, Write(q) \/ Rollback(q) PROVE Local(p)'
  <2>1. CASE p = q
    BY <1>1, <1>2, <2>1, WriteKeeps, RollbackKeeps
  <2>2. CASE p # q
    BY <1>1, <1>2, <2>2, OthersSee, LocalStays
  <2> QED
    BY <2>1, <2>2
<1>3. ASSUME \/ CleanupRead \/ CleanupCommit \/ Rotate \/ UNCHANGED vars
             \/ \E k \in Keys, v \in Values \cup {NoRow} : Outside(k, v)
      PROVE  Local(p)'
  BY <1>1, <1>3, BackgroundSeen, LocalStays
<1>4. CASE Crash
  BY <1>4, CrashKeeps
<1> QED
  BY <1>2, <1>3, <1>4, StepsAre

\* A free connection shows the committed table.
LEMMA FreeInduction ==
  ASSUME TypeOK, LockInv, [Next]_vars, holder' = NoRequest
  PROVE  work' = table'
<1>1. ASSUME NEW q \in Requests, Write(q) PROVE work' = table'
  BY <1>1, BackupAssumption DEF LockInv, target, Write, BeginWrite, ReadRows,
     SaveBackup, ExecuteWrite, CommitWrite, AbortWrite
<1>2. ASSUME NEW q \in Requests, DeleteRows(q) \/ InsertRows(q) PROVE FALSE
  <2>1. holder = q
    BY <1>2 DEF DeleteRows, InsertRows, LockInv, Locked, Restoring
  <2> QED
    BY <1>2, <2>1, BackupAssumption DEF DeleteRows, InsertRows
<1>3. ASSUME NEW q \in Requests, Rollback(q), ~DeleteRows(q), ~InsertRows(q)
      PROVE  work' = table'
  <2>1. CASE BeginRestore(q) \/ CommitRestore(q) \/ AbortRestore(q)
    BY <2>1, BackupAssumption DEF BeginRestore, CommitRestore, AbortRestore
  <2>2. CASE UNCHANGED <<table, work, holder>>
    BY <2>2 DEF LockInv
  <2> QED
    BY <1>3, <2>1, <2>2 DEF target, Rollback, StartRollback, ReadReverse,
       SaveReverse, AddRecord, Load, Decode, MarkRolledBack, CompleteRecord,
       RejectRecord, Abandon
<1>4. ASSUME \/ CleanupRead \/ CleanupCommit \/ Rotate \/ UNCHANGED vars
             \/ Crash
      PROVE  work' = table'
  BY <1>4 DEF LockInv, target, vars, CleanupRead, CleanupCommit, Rotate, Crash
<1>5. ASSUME NEW k \in Keys, NEW v \in Values \cup {NoRow}, Outside(k, v)
      PROVE  work' = table'
  BY <1>5 DEF LockInv, Outside
<1> QED
  BY <1>1, <1>2, <1>3, <1>4, <1>5, StepsAre

\* Cleanup only deletes backups that exist.
LEMMA CleaningInduction ==
  ASSUME TypeOK, ProgressInv, [Next]_vars
  PROVE  \A b \in cleaning' : backup'[b].status # "none"
<1>1. SavedStays /\ cleaning \subseteq Requests
  BY BackupsStay DEF TypeOK
<1>2. CASE cleaning' \subseteq cleaning
  BY <1>1, <1>2 DEF ProgressInv, SavedStays
<1>3. CASE CleanupRead
  <2>1. \A b \in cleaning' : b \in Requests /\ backup[b].status = "active"
    BY <1>3 DEF CleanupRead
  <2> QED
    BY <1>1, <2>1 DEF SavedStays
<1>4. ASSUME NEW q \in Requests, Write(q) PROVE cleaning' = cleaning
  BY <1>4 DEF Write, BeginWrite, ReadRows, SaveBackup, ExecuteWrite,
     CommitWrite, AbortWrite
<1>5. ASSUME NEW q \in Requests, Rollback(q) PROVE cleaning' = cleaning
  BY <1>5 DEF Rollback, StartRollback, ReadReverse, SaveReverse, AddRecord,
     Load, Decode, BeginRestore, DeleteRows, InsertRows, CommitRestore,
     AbortRestore, MarkRolledBack, CompleteRecord, RejectRecord, Abandon
<1>6. ASSUME \/ CleanupCommit \/ Rotate \/ UNCHANGED vars \/ Crash
             \/ \E k \in Keys, v \in Values \cup {NoRow} : Outside(k, v)
      PROVE  cleaning' \subseteq cleaning
  BY <1>6 DEF CleanupCommit, Rotate, vars, Crash, Outside
<1> QED
  BY <1>2, <1>3, <1>4, <1>5, <1>6, StepsAre

\* What a request has committed, and the backup it was for, is history.
LEMMA HistoryStays ==
  ASSUME TypeOK, LockInv, ProgressInv, NEW p \in Requests, Local(p),
         wrote[p].by # "nobody", [Next]_vars
  PROVE  wrote'[p] = wrote[p] /\ req'[p].of = req[p].of
<1>1. req[p].pc \in Restored \cup {"done"}
  BY DEF Local, Progress
<1>2. ASSUME NEW q \in Requests, Write(q) \/ Rollback(q), p # q
      PROVE  wrote'[p] = wrote[p] /\ req'[p].of = req[p].of
  BY <1>2, OthersSee DEF Elsewhere
<1>3. ASSUME Write(p) PROVE FALSE
  BY <1>1, <1>3 DEF Restored, InTransaction, Write, BeginWrite, ReadRows,
     SaveBackup, ExecuteWrite, CommitWrite, AbortWrite
<1>4. ASSUME Rollback(p)
      PROVE  wrote'[p] = wrote[p] /\ req'[p].of = req[p].of
  <2>1. MarkRolledBack(p) \/ CompleteRecord(p) \/ Abandon(p)
    BY <1>1, <1>4 DEF Restored, Restoring, Rollback, StartRollback,
       ReadReverse, SaveReverse, AddRecord, Load, Decode, BeginRestore,
       DeleteRows, InsertRows, CommitRestore, AbortRestore, RejectRecord
  <2> QED
    BY <2>1, GotoGoes DEF MarkRolledBack, CompleteRecord, Abandon, target, Goes
<1>5. ASSUME \/ CleanupRead \/ CleanupCommit \/ Rotate \/ UNCHANGED vars
             \/ \E k \in Keys, v \in Values \cup {NoRow} : Outside(k, v)
      PROVE  wrote'[p] = wrote[p] /\ req'[p].of = req[p].of
  BY <1>5, BackgroundSeen DEF Elsewhere
<1>6. ASSUME Crash
      PROVE  wrote'[p] = wrote[p] /\ req'[p].of = req[p].of
  BY <1>6 DEF Crash, TypeOK, RequestState
<1> QED
  BY <1>2, <1>3, <1>4, <1>5, <1>6, StepsAre

\* A record is completed or failed by the last step of its request only.
LEMMA RecordSteps ==
  ASSUME TypeOK, [Next]_vars, NEW q \in Requests, record'[q] # record[q],
         record'[q] \in {"completed", "failed"}
  PROVE  \/ CompleteRecord(q) /\ record'[q] = "completed"
         \/ RejectRecord(q) /\ record'[q] = "failed"
<1>1. ASSUME NEW p \in Requests, Write(p) PROVE record' = record
  BY <1>1 DEF Write, BeginWrite, ReadRows, SaveBackup, ExecuteWrite,
     CommitWrite, AbortWrite
<1>2. ASSUME NEW p \in Requests, Rollback(p), ~AddRecord(p),
             ~CompleteRecord(p), ~RejectRecord(p)
      PROVE  record' = record
  BY <1>2 DEF Rollback, StartRollback, ReadReverse, SaveReverse, Load, Decode,
     BeginRestore, DeleteRows, InsertRows, CommitRestore, AbortRestore,
     MarkRolledBack, Abandon
<1>3. ASSUME NEW p \in Requests,
             AddRecord(p) \/ CompleteRecord(p) \/ RejectRecord(p)
      PROVE  \/ CompleteRecord(q) /\ record'[q] = "completed"
             \/ RejectRecord(q) /\ record'[q] = "failed"
  BY <1>3 DEF AddRecord, CompleteRecord, RejectRecord, TypeOK
<1>4. ASSUME \/ CleanupRead \/ CleanupCommit \/ Rotate \/ UNCHANGED vars
             \/ Crash
             \/ \E k \in Keys, v \in Values \cup {NoRow} : Outside(k, v)
      PROVE  record' = record
  BY <1>4 DEF CleanupRead, CleanupCommit, Rotate, vars, Crash, Outside
<1> QED
  BY <1>1, <1>2, <1>3, <1>4, StepsAre

\* A backup is marked by a rollback of it that was committed.
LEMMA MarkSteps ==
  ASSUME TypeOK, LockInv, ProgressInv, \A p \in Requests : Local(p),
         [Next]_vars, NEW b \in Requests,
         backup[b].status # "rolled_back", backup'[b].status = "rolled_back"
  PROVE  \E p \in Requests : req[p].of = b /\ wrote[p].by = "rollback"
<1>1. ASSUME NEW p \in Requests, MarkRolledBack(p)
      PROVE  req[p].of = b /\ wrote[p].by = "rollback"
  <2>1. req[p].of \in Requests /\ wrote[p].by = "rollback"
    BY <1>1, OfType DEF MarkRolledBack, Local, Progress, Reversed, Restored
  <2> QED
    BY <1>1, <2>1 DEF MarkRolledBack, TypeOK
<1>2. ASSUME NEW p \in Requests, SaveBackup(p) \/ SaveReverse(p)
      PROVE  FALSE
  BY <1>2 DEF SaveBackup, SaveReverse, NewBackup, TypeOK
<1>3. ASSUME NEW p \in Requests, Write(p), ~SaveBackup(p)
      PROVE  UNCHANGED backup
  BY <1>3 DEF Write, BeginWrite, ReadRows, ExecuteWrite, CommitWrite,
     AbortWrite
<1>4. ASSUME NEW p \in Requests, Rollback(p), ~SaveReverse(p),
             ~MarkRolledBack(p)
      PROVE  UNCHANGED backup
  BY <1>4 DEF Rollback, StartRollback, ReadReverse, AddRecord, Load, Decode,
     BeginRestore, DeleteRows, InsertRows, CommitRestore, AbortRestore,
     CompleteRecord, RejectRecord, Abandon
<1>5. ASSUME CleanupCommit \/ Rotate PROVE FALSE
  <2>1. backup'[b] \in
          {backup[b],
           [backup[b] EXCEPT !.status = "expired", !.chunks = "deleted"],
           [backup[b] EXCEPT !.marker = "encrypted"]}
    BY <1>5 DEF CleanupCommit, Rotate
  <2> QED
    BY <2>1 DEF TypeOK, BackupRow
<1>6. ASSUME \/ CleanupRead \/ UNCHANGED vars \/ Crash
             \/ \E k \in Keys, v \in Values \cup {NoRow} : Outside(k, v)
      PROVE  UNCHANGED backup
  BY <1>6 DEF CleanupRead, vars, Crash, Outside
<1> QED
  BY <1>1, <1>2, <1>3, <1>4, <1>5, <1>6, StepsAre

\* The records keep telling what happened to the target.
LEMMA RecordInduction ==
  ASSUME TypeOK, LockInv, ProgressInv, RecordTellsTarget,
         \A p \in Requests : Local(p), [Next]_vars
  PROVE  RecordTellsTarget'
<1>1. SavedStays
  BY BackupsStay
<1>2. ASSUME NEW q \in Requests, record'[q] = "completed"
      PROVE  wrote'[q].by = "rollback" /\ backup'[req'[q].of].status # "active"
  <2>1. wrote[q].by = "rollback" /\ backup[req[q].of].status # "active"
    <3>1. CASE record[q] = "completed"
      BY <3>1 DEF RecordTellsTarget
    <3>2. CASE record[q] # "completed"
      <4>1. CompleteRecord(q)
        BY <1>2, <3>2, RecordSteps
      <4> QED
        BY <4>1 DEF CompleteRecord, Local, Progress, Restored
    <3> QED
      BY <3>1, <3>2
  <2>2. req[q].of \in Requests /\ backup[req[q].of].status # "none"
    BY <2>1, OfType DEF Local, Progress, Restores
  <2>3. wrote'[q] = wrote[q] /\ req'[q].of = req[q].of
    BY <2>1, HistoryStays
  <2> QED
    BY <1>1, <2>1, <2>2, <2>3 DEF SavedStays
<1>3. ASSUME NEW q \in Requests, record'[q] = "failed"
      PROVE  wrote'[q].by = "nobody"
  <2>1. CASE record[q] # "failed"
    <3>1. RejectRecord(q)
      BY <1>3, <2>1, RecordSteps
    <3> QED
      BY <3>1 DEF RejectRecord, target, Local, Progress, Restored
  <2>2. CASE record[q] = "failed"
    <3>1. req[q].pc = "done" /\ wrote[q].by = "nobody"
      BY <2>2 DEF Local, Progress, RecordTellsTarget
    <3>2. ASSUME NEW p \in Requests, Write(p) \/ Rollback(p), p # q
          PROVE  wrote'[q] = wrote[q]
      BY <3>2, OthersSee DEF Elsewhere
    <3>3. ASSUME Write(q) \/ Rollback(q) PROVE FALSE
      BY <3>1, <3>3 DEF InTransaction, Restoring, Write, BeginWrite, ReadRows,
         SaveBackup, ExecuteWrite, CommitWrite, AbortWrite, Rollback,
         StartRollback, ReadReverse, SaveReverse, AddRecord, Load, Decode,
         BeginRestore, DeleteRows, InsertRows, CommitRestore, AbortRestore,
         MarkRolledBack, CompleteRecord, RejectRecord, Abandon
    <3>4. ASSUME \/ CleanupRead \/ CleanupCommit \/ Rotate \/ UNCHANGED vars
                 \/ Crash
                 \/ \E k \in Keys, v \in Values \cup {NoRow} : Outside(k, v)
          PROVE  wrote' = wrote
      BY <3>4 DEF CleanupRead, CleanupCommit, Rotate, vars, target, Crash,
         Outside
    <3> QED
      BY <3>1, <3>2, <3>3, <3>4, StepsAre
  <2> QED
    BY <2>1, <2>2
<1>4. ASSUME NEW b \in Requests, backup'[b].status = "rolled_back"
      PROVE  \E p \in Requests : req'[p].of = b /\ wrote'[p].by = "rollback"
  <2>1. PICK p \in Requests : req[p].of = b /\ wrote[p].by = "rollback"
    BY <1>4, MarkSteps DEF RecordTellsTarget
  <2> QED
    BY <2>1, HistoryStays
<1> QED
  BY <1>2, <1>3, <1>4 DEF RecordTellsTarget

\* The initial state: nothing is held, saved, written or recorded.
LEMMA IInvInit ==
  ASSUME Init
  PROVE  IInv
<1>1. TypeOK
  BY TypeInit
<1>2. ASSUME NEW q \in Requests
      PROVE  /\ req[q].pc = "idle" /\ req[q].of = NoRequest
             /\ backup[q].status = "none" /\ record[q] = "none"
             /\ wrote[q].by = "nobody"
  BY DEF Init, IdleReq, NoBackup, NothingWritten
<1>3. ASSUME NEW q \in Requests PROVE Local(q)
  BY <1>2 DEF Local, Locked, Covered, Recoverable, Progress, Restores,
     InTransaction, Restoring, Unsaved, Reversed, Restored
<1>4. RecordTellsTarget
  BY <1>2 DEF RecordTellsTarget
<1> QED
  BY <1>1, <1>3, <1>4 DEF Init, IInv, Local, LockInv, SnapshotInv, ProgressInv,
     RestoreInv

-----------------------------------------------------------------------------
(* The theorems.                                                           *)

\* The invariant behind the safety properties holds in every reachable state,
\* whatever requests, cleanup, rotation, other programs and crashes
\* interleave.
THEOREM Invariance == Spec => []IInv
<1>1. Init => IInv
  BY IInvInit
<1>2. IInv /\ [Next]_vars => IInv'
  <2> SUFFICES ASSUME IInv, [Next]_vars PROVE IInv'
    OBVIOUS
  <2>1. /\ TypeOK /\ LockInv /\ ProgressInv /\ RecordTellsTarget
        /\ \A q \in Requests : Local(q)
    BY DEF IInv, Local, LockInv, SnapshotInv, ProgressInv, RestoreInv
  <2>2. TypeOK'
    BY <2>1, TypeInduction
  <2>3. \A q \in Requests : Local(q)'
    BY <2>1, LocalInduction
  <2>4. holder' = NoRequest => work' = table'
    BY <2>1, FreeInduction
  <2>5. \A b \in cleaning' : backup'[b].status # "none"
    BY <2>1, CleaningInduction
  <2>6. RecordTellsTarget'
    BY <2>1, RecordInduction
  <2> QED
    BY <2>2, <2>3, <2>4, <2>5, <2>6 DEF IInv, Local, LockInv, SnapshotInv,
       ProgressInv, RestoreInv
<1> QED
  BY <1>1, <1>2, PTL DEF Spec

\* Every variable keeps its shape.
THEOREM TypeCorrect == Spec => []TypeOK
<1>1. IInv => TypeOK
  BY DEF IInv
<1> QED
  BY <1>1, Invariance, PTL

\* What q knows of its backup, in the words of the invariant.
LEMMA StatementKnown ==
  ASSUME IInv, NEW q \in Requests, wrote[q].by = "statement"
  PROVE  /\ backup[q].op \in {"UPDATE", "DELETE"}
         /\ backup[q].cond \in Conditions
         /\ wrote[q].before \in Tables
         /\ backup[q].rows = Snapshot(backup[q].cond, wrote[q].before)
         /\ \E set \in Assignments :
              /\ wrote[q].after =
                   Effect(backup[q].op, backup[q].cond, set, wrote[q].before)
              /\ backup[q].op = "UPDATE" =>
                   Fits(backup[q].cond, set, wrote[q].before)
<1>1. backup[q] \in BackupRow /\ wrote[q] \in Written /\ Recoverable(q)
  BY DEF IInv, TypeOK, SnapshotInv
<1> QED
  BY <1>1 DEF Recoverable, BackupRow, Written, Operations

\* The rows of its snapshot turn the table after a statement into the one
\* before it, as far as JSON does, but for rows the statement has moved.
LEMMA UndoRecovers ==
  ASSUME IInv, NEW q \in Requests, wrote[q].by = "statement"
  PROVE  Undo(backup[q], wrote[q].after)
           = RowsBack(backup[q], wrote[q].before, wrote[q].after)
<1> DEFINE op == backup[q].op
           cond == backup[q].cond
           t == wrote[q].before
<1>1. PICK set \in Assignments :
        /\ wrote[q].after = Effect(op, cond, set, t)
        /\ op = "UPDATE" => Fits(cond, set, t)
  BY StatementKnown
<1>2. Undo(backup[q], wrote[q].after) = With(wrote[q].after, Snapshot(cond, t))
  BY StatementKnown DEF Undo, DeletesAgain
<1>3. op \in {"UPDATE", "DELETE"} /\ cond \in Conditions /\ t \in Tables
  BY StatementKnown
<1>4. RowsBack(backup[q], t, wrote[q].after)
        = [k \in Keys |-> IF t[k] = NoRow THEN wrote[q].after[k]
                          ELSE IF Meets(cond, t, k) THEN Stored[t[k]] ELSE t[k]]
  BY DEF RowsBack, Recovered
<1> HIDE DEF op, cond, t
<1>5. With(Effect(op, cond, set, t), Snapshot(cond, t))
        = [k \in Keys |-> IF t[k] = NoRow THEN Effect(op, cond, set, t)[k]
                          ELSE IF Meets(cond, t, k) THEN Stored[t[k]] ELSE t[k]]
  BY <1>1, <1>3, SnapshotUndoes
<1> QED
  BY <1>1, <1>2, <1>4, <1>5 DEF t

\* The snapshot of a committed statement brings back every row of the table
\* before it and changes nothing else, whatever the statement assigns; a row
\* that an UPDATE of the primary key put under a free key stays.
THEOREM WritesAreRecoverable == Spec => []WriteIsRecoverable
<1>1. IInv => WriteIsRecoverable
  BY UndoRecovers DEF WriteIsRecoverable
<1> QED
  BY <1>1, Invariance, PTL

\* A rollback that finds the target as the statement left it brings every row
\* back, beside a row that the statement put under a free key.
THEOREM RollbacksRestore == Spec => []RollbackRestores
<1>1. ASSUME IInv PROVE RollbackRestores
  <2> SUFFICES ASSUME NEW q \in Requests, NEW b \in Requests,
                      wrote[q].by = "rollback", req[q].of = b,
                      wrote[b].by = "statement",
                      wrote[q].before = wrote[b].after
               PROVE  wrote[q].after
                        = RowsBack(backup[b], wrote[b].before, wrote[b].after)
    BY DEF RollbackRestores
  <2>1. wrote[q].after = Undo(backup[b], wrote[q].before)
    BY <1>1 DEF IInv, RestoreInv, Restores
  <2> QED
    BY <1>1, <2>1, UndoRecovers
<1> QED
  BY <1>1, Invariance, PTL

\* The rollback of a DELETE can itself be rolled back.
THEOREM DeleteRollbacksAreRecoverable == Spec => []DeleteRollbackIsRecoverable
<1>1. ASSUME IInv PROVE DeleteRollbackIsRecoverable
  <2> SUFFICES ASSUME NEW q \in Requests, NEW b \in Requests,
                      wrote[q].by = "rollback", req[q].of = b,
                      wrote[b].by = "statement", backup[b].op = "DELETE",
                      wrote[q].before = wrote[b].after,
                      backup[q].rows
                        = Snapshot(backup[q].cond, wrote[q].before),
                      \A k \in Keys, v \in Values :
                        <<k, v>> \in backup[b].cond
                          => <<k, Stored[v]>> \in backup[b].cond
               PROVE  Undo(backup[q], wrote[q].after) = wrote[q].before
    BY DEF DeleteRollbackIsRecoverable
  <2> DEFINE cond == backup[b].cond
             t == wrote[b].before
  <2>1. /\ backup[q].op = "ROLLBACK" /\ backup[q].cond = cond
        /\ wrote[q].after = Undo(backup[b], wrote[q].before)
    BY <1>1 DEF IInv, RestoreInv, Restores
  <2>2. /\ cond \in Conditions /\ t \in Tables
        /\ backup[b].rows = Snapshot(cond, t)
    BY <1>1, StatementKnown
  <2>3. wrote[q].before = Deleted(cond, t)
    BY <1>1, StatementKnown DEF Effect
  <2>4. wrote[q].after = With(wrote[q].before, Snapshot(cond, t))
    BY <2>1, <2>2 DEF Undo, DeletesAgain
  <2> HIDE DEF cond, t
  <2>5. \A k \in Keys, v \in Values :
          <<k, v>> \in cond => <<k, Stored[v]>> \in cond
    BY DEF cond
  <2>6. /\ Snapshot(cond, wrote[q].before) = NoRows
        /\ Deleted(cond, wrote[q].after) = wrote[q].before
    BY <2>2, <2>3, <2>4, <2>5, DeletionRepeats
  <2> QED
    BY <2>1, <2>6 DEF Undo, DeletesAgain
<1> QED
  BY <1>1, Invariance, PTL

\* Rollback records and backup statuses tell the truth about the target.
THEOREM RecordsAreTrue == Spec => []RecordTellsTarget
<1>1. IInv => RecordTellsTarget
  BY DEF IInv
<1> QED
  BY <1>1, Invariance, PTL
=============================================================================
