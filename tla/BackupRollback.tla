--------------------------- MODULE BackupRollback ---------------------------
(***************************************************************************)
(* Snapshots and rollbacks: backend/db_connector/backup.py, its callers in *)
(* backend/api/db_operations.py, the cleanup loop of backend/main.py and   *)
(* the key rotation of backend/api/settings.py.                            *)
(*                                                                         *)
(* The target is one SQLite table with a primary key.  All coroutines use  *)
(* one connection: BEGIN IMMEDIATE keeps other writers out, and a second   *)
(* BEGIN on the connection fails, but a read outside the transaction sees  *)
(* its uncommitted rows.  Each request is one call, and the backup it      *)
(* creates and its rollback record are named after it.  Writes that take   *)
(* no backup (INSERT, no affected rows) count as changes from outside.     *)
(* A statement selects rows by what they hold and computes each new row    *)
(* from the old one, the primary key included.  Other tables, which        *)
(* foreign keys and triggers could change, are left out.                   *)
(***************************************************************************)
EXTENDS Naturals

CONSTANTS
  Keys,        \* primary keys of the target table
  Values,      \* values of its other column
  NoRow,       \* the key is not in the table, or not in the snapshot
  Stored,      \* Stored[v]: v after json.dumps(default=str) and back
  Initial,     \* rows of the target at the beginning
  Statements,  \* approved UPDATE and DELETE statements with a WHERE
  Requests,    \* calls of approve_review and rollback_operation
  NoRequest,
  MaxOutside   \* bound: changes of the target by other programs

ASSUME BackupAssumption ==
  /\ NoRow \notin Values
  /\ NoRequest \notin Requests
  /\ Stored \in [Values -> Values]
  /\ Initial \subseteq [Keys -> Values \cup {NoRow}]
  /\ Statements \subseteq
       [op : {"UPDATE", "DELETE"}, cond : SUBSET (Keys \X Values),
        set : [Keys \X Values -> Keys \X Values]]
  /\ MaxOutside \in Nat

VARIABLES
  table,      \* committed rows of the target
  work,       \* rows the shared connection sees
  holder,     \* the request whose transaction is open
  backup,     \* db_backups and their chunks
  record,     \* status of db_rollback_records
  req,        \* requests
  cleaning,   \* backups the cleanup loop has read as expired
  outside,    \* changes of the target by other programs so far
  wrote       \* history: table before and after the target commit of a request

vars == <<table, work, holder, backup, record, req, cleaning, outside, wrote>>
target == <<table, work, holder, outside, wrote>>

-----------------------------------------------------------------------------
(* Data *)

Tables == [Keys -> Values \cup {NoRow}]
NoRows == [k \in Keys |-> NoRow]
Operations == {"UPDATE", "DELETE", "ROLLBACK"}
Conditions == SUBSET (Keys \X Values)
Assignments == [Keys \X Values -> Keys \X Values]

BackupRow == [status : {"none", "active", "rolled_back", "expired"},
              op : Operations, cond : Conditions, rows : Tables,
              marker : {"chunked", "encrypted"}, chunks : {"stored", "deleted"}]
NoBackup == [status |-> "none", op |-> "ROLLBACK", cond |-> {}, rows |-> NoRows,
             marker |-> "chunked", chunks |-> "deleted"]

Points == {"idle", "done",
  "read", "save", "write", "commit",                        \* approve_review
  "read_reverse", "save_reverse", "record", "load", "decode",
  "begin", "delete", "insert", "commit_restore", "mark", "log", "reject"}
InTransaction == {"read", "save", "write", "commit"}
Restoring == {"delete", "insert", "commit_restore"}

RequestState == [pc : Points, of : Requests \cup {NoRequest}, op : Operations,
                 cond : Conditions, set : Assignments, rows : Tables]
IdleReq == [pc |-> "idle", of |-> NoRequest, op |-> "ROLLBACK", cond |-> {},
            set |-> [row \in Keys \X Values |-> row], rows |-> NoRows]
NothingWritten == [by |-> "nobody", before |-> NoRows, after |-> NoRows]
Written == [by : {"nobody", "statement", "rollback"}, before : Tables, after : Tables]

Meets(cond, t, k) == <<k, t[k]>> \in cond

\* SELECT * ... WHERE cond, as the snapshot keeps it.
Snapshot(cond, t) ==
  [k \in Keys |-> IF Meets(cond, t, k) THEN Stored[t[k]] ELSE NoRow]

Deleted(cond, t) == [k \in Keys |-> IF Meets(cond, t, k) THEN NoRow ELSE t[k]]

\* The rows an UPDATE makes of the rows it selects.
Updated(cond, set, t) ==
  LET new == {set[<<k, t[k]>>] : k \in {j \in Keys : Meets(cond, t, j)}} IN
  [k \in Keys |-> IF \E v \in Values : <<k, v>> \in new
                  THEN CHOOSE v \in Values : <<k, v>> \in new ELSE NoRow]

\* The primary key is unique after an UPDATE: it raises otherwise.
KeyAfter(cond, set, t, k) == IF Meets(cond, t, k) THEN set[<<k, t[k]>>][1] ELSE k
Fits(cond, set, t) ==
  \A i, j \in Keys :
    i # j /\ t[i] # NoRow /\ t[j] # NoRow
      => KeyAfter(cond, set, t, i) # KeyAfter(cond, set, t, j)

\* DELETE by the primary keys of the snapshot, and INSERT of its rows.
Without(t, rows) == [k \in Keys |-> IF rows[k] = NoRow THEN t[k] ELSE NoRow]
With(t, rows)    == [k \in Keys |-> IF rows[k] = NoRow THEN t[k] ELSE rows[k]]

\* The table after the statement.
Effect(op, cond, set, t) ==
  IF op = "DELETE" THEN Deleted(cond, t)
  ELSE With(Deleted(cond, t), Updated(cond, set, t))

\* A reverse backup without rows undoes a rollback that inserted what the
\* statement had deleted: it deletes by the statement's own condition.
DeletesAgain(op, rows) == op = "ROLLBACK" /\ rows = NoRows

\* What rolling back a backup makes of the table t.
Undo(b, t) ==
  IF DeletesAgain(b.op, b.rows) THEN Deleted(b.cond, t)
  ELSE With(t, b.rows)

Init ==
  /\ table \in Initial
  /\ work = table
  /\ holder = NoRequest
  /\ backup = [q \in Requests |-> NoBackup]
  /\ record = [q \in Requests |-> "none"]
  /\ req = [q \in Requests |-> IdleReq]
  /\ cleaning = {}
  /\ outside = 0
  /\ wrote = [q \in Requests |-> NothingWritten]

Goto(q, pc) == req' = [req EXCEPT ![q].pc = pc]

-----------------------------------------------------------------------------
(* The transaction of approve_review: snapshot, backup, statement, commit. *)

Statement(q, s) ==
  [IdleReq EXCEPT !.pc = "read", !.op = s.op, !.cond = s.cond, !.set = s.set]

\* Mutant of BeginWrite: a plain BEGIN reserves nothing before the write.
BeginWriteDeferred(q, s) ==
  /\ req[q].pc = "idle"
  /\ holder = NoRequest
  /\ req' = [req EXCEPT ![q] = Statement(q, s)]
  /\ UNCHANGED <<target, backup, record, cleaning>>

\* BEGIN IMMEDIATE obtains the write reservation before the snapshot read.
BeginWrite(q, s) ==
  /\ req[q].pc = "idle"
  /\ holder = NoRequest
  /\ holder' = q
  /\ req' = [req EXCEPT ![q] = Statement(q, s)]
  /\ UNCHANGED <<table, work, outside, wrote, backup, record, cleaning>>

ReadRows(q) ==
  /\ req[q].pc = "read"
  /\ req' = [req EXCEPT ![q].pc = "save", ![q].rows = Snapshot(req[q].cond, work)]
  /\ UNCHANGED <<target, backup, record, cleaning>>

\* create_backup commits backup and chunks in the application database.
NewBackup(q) ==
  [status |-> "active", op |-> req[q].op, cond |-> req[q].cond,
   rows |-> req[q].rows, marker |-> "chunked", chunks |-> "stored"]

SaveBackup(q) ==
  /\ req[q].pc = "save"
  /\ backup' = [backup EXCEPT ![q] = NewBackup(q)]
  /\ Goto(q, "write")
  /\ UNCHANGED <<target, record, cleaning>>

ExecuteWrite(q) ==
  /\ req[q].pc = "write"
  /\ holder \in {NoRequest, q}
  /\ req[q].op = "UPDATE" => Fits(req[q].cond, req[q].set, work)
  /\ holder' = q
  /\ work' = Effect(req[q].op, req[q].cond, req[q].set, work)
  /\ Goto(q, "commit")
  /\ UNCHANGED <<table, outside, wrote, backup, record, cleaning>>

CommitWrite(q) ==
  /\ req[q].pc = "commit"
  /\ table' = work
  /\ holder' = NoRequest
  /\ wrote' = [wrote EXCEPT ![q] =
       [by |-> "statement", before |-> table, after |-> work]]
  /\ Goto(q, "done")
  /\ UNCHANGED <<work, outside, backup, record, cleaning>>

\* Any exception rolls the target back; a backup already saved stays.
AbortWrite(q) ==
  /\ req[q].pc \in InTransaction
  /\ work' = table
  /\ holder' = NoRequest
  /\ Goto(q, "done")
  /\ UNCHANGED <<table, outside, wrote, backup, record, cleaning>>

-----------------------------------------------------------------------------
(* rollback_operation: reverse backup, record, restore, status, record.    *)

\* The row is read whatever its status is.
StartRollback(q, b) ==
  /\ req[q].pc = "idle"
  /\ backup[b].status # "none"
  /\ req' = [req EXCEPT ![q] =
       [IdleReq EXCEPT !.pc = "read_reverse", !.of = b, !.cond = backup[b].cond]]
  /\ UNCHANGED <<target, backup, record, cleaning>>

\* The reverse backup is read outside any transaction.
ReadReverse(q) ==
  /\ req[q].pc = "read_reverse"
  /\ req' = [req EXCEPT ![q].pc = "save_reverse",
                        ![q].rows = Snapshot(req[q].cond, work)]
  /\ UNCHANGED <<target, backup, record, cleaning>>

\* Mutant of SaveReverse: the condition of the statement is not kept.
SaveReverseUnfiltered(q) ==
  /\ req[q].pc = "save_reverse"
  /\ backup' = [backup EXCEPT ![q] = [NewBackup(q) EXCEPT !.cond = {}]]
  /\ Goto(q, "record")
  /\ UNCHANGED <<target, record, cleaning>>

SaveReverse(q) ==
  /\ req[q].pc = "save_reverse"
  /\ backup' = [backup EXCEPT ![q] = NewBackup(q)]
  /\ Goto(q, "record")
  /\ UNCHANGED <<target, record, cleaning>>

AddRecord(q) ==
  /\ req[q].pc = "record"
  /\ record' = [record EXCEPT ![q] = "executing"]
  /\ Goto(q, "load")
  /\ UNCHANGED <<target, backup, cleaning>>

\* BackupManager.rollback: the row must be active and have a snapshot that
\* can be decoded; otherwise ValueError.
Load(q) ==
  LET b == backup[req[q].of] IN
  /\ req[q].pc = "load"
  /\ \/ /\ b.status = "active"
        /\ b.rows # NoRows \/ b.op = "ROLLBACK"
        /\ b.marker = "chunked"
        /\ Goto(q, "decode")
     \/ /\ \/ b.status # "active"
           \/ b.rows = NoRows /\ b.op # "ROLLBACK"
           \/ b.marker # "chunked"
        /\ Goto(q, "reject")
  /\ UNCHANGED <<target, backup, record, cleaning>>

\* Mutant of Decode: the reverse backup's rows are taken for the backup's.
DecodeReverse(q) ==
  /\ req[q].pc = "decode"
  /\ req' = [req EXCEPT ![q].pc = "begin", ![q].rows = backup[q].rows]
  /\ UNCHANGED <<target, backup, record, cleaning>>

\* The chunks are read in a session of their own, and may be gone by then.
Decode(q) ==
  LET b == backup[req[q].of] IN
  /\ req[q].pc = "decode"
  /\ \/ /\ b.chunks = "stored"
        /\ req' = [req EXCEPT ![q].pc = "begin", ![q].rows = b.rows]
     \/ /\ b.chunks = "deleted"
        /\ Goto(q, "reject")
  /\ UNCHANGED <<target, backup, record, cleaning>>

BeginRestore(q) ==
  /\ req[q].pc = "begin"
  /\ holder = NoRequest
  /\ holder' = q
  /\ Goto(q, "delete")
  /\ UNCHANGED <<table, work, outside, wrote, backup, record, cleaning>>

DeleteRows(q) ==
  /\ req[q].pc = "delete"
  /\ work' = IF DeletesAgain(backup[req[q].of].op, req[q].rows)
             THEN Deleted(req[q].cond, work)
             ELSE Without(work, req[q].rows)
  /\ Goto(q, "insert")
  /\ UNCHANGED <<table, holder, outside, wrote, backup, record, cleaning>>

InsertRows(q) ==
  /\ req[q].pc = "insert"
  /\ work' = With(work, req[q].rows)
  /\ Goto(q, "commit_restore")
  /\ UNCHANGED <<table, holder, outside, wrote, backup, record, cleaning>>

CommitRestore(q) ==
  /\ req[q].pc = "commit_restore"
  /\ table' = work
  /\ holder' = NoRequest
  /\ wrote' = [wrote EXCEPT ![q] =
       [by |-> "rollback", before |-> table, after |-> work]]
  /\ Goto(q, "mark")
  /\ UNCHANGED <<work, outside, backup, record, cleaning>>

\* Mutant of AbortRestore: a failed restore is reported like a finished one.
AbortRestoreUnnoticed(q) ==
  /\ req[q].pc \in Restoring
  /\ work' = table
  /\ holder' = NoRequest
  /\ Goto(q, "mark")
  /\ UNCHANGED <<table, outside, wrote, backup, record, cleaning>>

\* A ValueError marks the record failed, any other exception leaves it.
AbortRestore(q) ==
  /\ req[q].pc \in Restoring
  /\ work' = table
  /\ holder' = NoRequest
  /\ \E pc \in {"reject", "done"} : Goto(q, pc)
  /\ UNCHANGED <<table, outside, wrote, backup, record, cleaning>>

\* The session flushes the status it decided on, whatever the row says now.
MarkRolledBack(q) ==
  /\ req[q].pc = "mark"
  /\ backup' = [backup EXCEPT ![req[q].of].status = "rolled_back"]
  /\ Goto(q, "log")
  /\ UNCHANGED <<target, record, cleaning>>

CompleteRecord(q) ==
  /\ req[q].pc = "log"
  /\ record' = [record EXCEPT ![q] = "completed"]
  /\ Goto(q, "done")
  /\ UNCHANGED <<target, backup, cleaning>>

\* Mutant of RejectRecord: a status the other readers do not know.
RejectRecordError(q) ==
  /\ req[q].pc = "reject"
  /\ record' = [record EXCEPT ![q] = "error"]
  /\ Goto(q, "done")
  /\ UNCHANGED <<target, backup, cleaning>>

RejectRecord(q) ==
  /\ req[q].pc = "reject"
  /\ record' = [record EXCEPT ![q] = "failed"]
  /\ Goto(q, "done")
  /\ UNCHANGED <<target, backup, cleaning>>

\* An exception outside the target transaction: also a BEGIN while another
\* transaction is open on the connection.
Abandon(q) ==
  /\ req[q].pc \in {"read_reverse", "save_reverse", "record", "load", "decode",
                    "begin", "mark", "log", "reject"}
  /\ Goto(q, "done")
  /\ UNCHANGED <<target, backup, record, cleaning>>

-----------------------------------------------------------------------------
(* The background and the environment.  Retention ends at any time.        *)

CleanupRead ==
  /\ cleaning = {}
  /\ cleaning' \in SUBSET {b \in Requests : backup[b].status = "active"}
  /\ UNCHANGED <<target, backup, record, req>>

CleanupCommit ==
  /\ backup' = [b \in Requests |->
       IF b \in cleaning
       THEN [backup[b] EXCEPT !.status = "expired", !.chunks = "deleted"]
       ELSE backup[b]]
  /\ cleaning' = {}
  /\ UNCHANGED <<target, record, req>>

\* rotate_encryption re-encrypts data_snapshot of every backup, and takes the
\* marker of a chunked snapshot for a legacy plaintext snapshot.
Rotate ==
  /\ backup' = [b \in Requests |->
       IF backup[b].status = "none" THEN backup[b]
       ELSE [backup[b] EXCEPT !.marker = "encrypted"]]
  /\ UNCHANGED <<target, record, req, cleaning>>

\* Another program, or a write without a backup, changes a row.
Outside(k, v) ==
  /\ outside < MaxOutside
  /\ holder = NoRequest
  /\ table' = [table EXCEPT ![k] = v]
  /\ work' = [work EXCEPT ![k] = v]
  /\ outside' = outside + 1
  /\ UNCHANGED <<holder, wrote, backup, record, req, cleaning>>

\* The process dies: the target rolls back, every coroutine is lost.
Crash ==
  /\ work' = table
  /\ holder' = NoRequest
  /\ req' = [q \in Requests |->
       IF req[q].pc = "idle" THEN req[q] ELSE [req[q] EXCEPT !.pc = "done"]]
  /\ cleaning' = {}
  /\ UNCHANGED <<table, outside, wrote, backup, record>>

-----------------------------------------------------------------------------
Write(q) ==
  \/ \E s \in Statements : BeginWrite(q, s)
  \/ ReadRows(q) \/ SaveBackup(q) \/ ExecuteWrite(q) \/ CommitWrite(q)
  \/ AbortWrite(q)

Rollback(q) ==
  \/ \E b \in Requests : StartRollback(q, b)
  \/ ReadReverse(q) \/ SaveReverse(q) \/ AddRecord(q) \/ Load(q) \/ Decode(q)
  \/ BeginRestore(q) \/ DeleteRows(q) \/ InsertRows(q) \/ CommitRestore(q)
  \/ AbortRestore(q) \/ MarkRolledBack(q) \/ CompleteRecord(q)
  \/ RejectRecord(q) \/ Abandon(q)

Next ==
  \/ \E q \in Requests : Write(q) \/ Rollback(q)
  \/ CleanupRead \/ CleanupCommit \/ Rotate \/ Crash
  \/ \E k \in Keys, v \in Values \cup {NoRow} : Outside(k, v)

Spec == Init /\ [][Next]_vars

-----------------------------------------------------------------------------
(* Properties *)

\* Every variable keeps the shape of the rows and the local state it models.
TypeOK ==
  /\ table \in Tables
  /\ work \in Tables
  /\ holder \in Requests \cup {NoRequest}
  /\ backup \in [Requests -> BackupRow]
  /\ record \in [Requests -> {"none", "executing", "completed", "failed"}]
  /\ req \in [Requests -> RequestState]
  /\ cleaning \subseteq Requests
  /\ outside \in Nat
  /\ wrote \in [Requests -> Written]

\* What is left of the table before a statement once it has been through a
\* snapshot and back.
Recovered(b, t) ==
  [k \in Keys |-> IF Meets(b.cond, t, k) THEN Stored[t[k]] ELSE t[k]]

\* The table after a statement with the rows before it put back: where there
\* was no row, one that an UPDATE has moved there stays.
RowsBack(b, before, after) ==
  [k \in Keys |-> IF before[k] = NoRow THEN after[k] ELSE Recovered(b, before)[k]]

\* The snapshot of a committed statement brings back every row the table had
\* before it, and nothing else, although the snapshot is read, stored and
\* used in separate steps while other programs and other requests write to
\* the target.  It does not remove a row that the statement, an UPDATE of the
\* primary key, put under a key that was free.
WriteIsRecoverable ==
  \A q \in Requests :
    wrote[q].by = "statement" =>
      Undo(backup[q], wrote[q].after)
        = RowsBack(backup[q], wrote[q].before, wrote[q].after)

\* A rollback that finds the target as the statement left it brings every row
\* back, whatever cleanup, rotation and other rollbacks do.  Only a row that
\* the statement put under a free key stays beside them.
RollbackRestores ==
  \A q, b \in Requests :
    /\ wrote[q].by = "rollback" /\ req[q].of = b
    /\ wrote[b].by = "statement" /\ wrote[q].before = wrote[b].after
    => wrote[q].after = RowsBack(backup[b], wrote[b].before, wrote[b].after)

\* A record says completed only over a restored target and a backup that can
\* no longer be used, failed only over an untouched one, and a backup says
\* rolled_back only if a rollback of it was committed.
RecordTellsTarget ==
  \A q \in Requests :
    /\ record[q] = "completed" =>
         wrote[q].by = "rollback" /\ backup[req[q].of].status # "active"
    /\ record[q] = "failed" => wrote[q].by = "nobody"
    /\ backup[q].status = "rolled_back" =>
         \E p \in Requests : req[p].of = q /\ wrote[p].by = "rollback"

\* The reverse backup of the rollback of a DELETE deletes the rows again, if
\* it still describes the target that the rollback found, and the condition
\* does not tell a value from its stored form.
DeleteRollbackIsRecoverable ==
  \A q, b \in Requests :
    /\ wrote[q].by = "rollback" /\ req[q].of = b
    /\ wrote[b].by = "statement" /\ backup[b].op = "DELETE"
    /\ wrote[q].before = wrote[b].after
    /\ backup[q].rows = Snapshot(backup[q].cond, wrote[q].before)
    /\ \A k \in Keys, v \in Values :
         <<k, v>> \in backup[b].cond => <<k, Stored[v]>> \in backup[b].cond
    => Undo(backup[q], wrote[q].after) = wrote[q].before

-----------------------------------------------------------------------------
(* The inductive invariant behind them.                                    *)

Unsaved == {"idle", "read", "save", "read_reverse", "save_reverse"}
Reversed == {"record", "load", "decode", "begin", "mark", "log", "reject"}
              \cup Restoring
Restored == {"mark", "log"}

\* Whoever is inside a transaction holds the connection, and nobody has
\* written to the target where the code believes so.
Locked(q) ==
  /\ req[q].pc \in InTransaction \cup Restoring => holder = q
  /\ req[q].pc \in {"read", "save", "write", "delete"} => work = table

LockInv ==
  /\ holder = NoRequest => work = table
  /\ \A q \in Requests : Locked(q)

\* A snapshot still describes the table it was taken from when it is stored,
\* and when the statement has been executed on that table.
Covered(q) ==
  /\ req[q].pc \in InTransaction => req[q].op # "ROLLBACK"
  /\ req[q].pc \in {"save", "write", "commit"}
       => req[q].rows = Snapshot(req[q].cond, table)
  /\ req[q].pc \in {"write", "commit"} =>
       /\ backup[q].status # "none"
       /\ backup[q].op = req[q].op
       /\ backup[q].cond = req[q].cond
       /\ backup[q].rows = req[q].rows
  /\ req[q].pc = "commit" =>
       /\ work = Effect(req[q].op, req[q].cond, req[q].set, table)
       /\ req[q].op = "UPDATE" => Fits(req[q].cond, req[q].set, table)

\* So a committed statement and its snapshot belong to one table.
Recoverable(q) ==
  wrote[q].by = "statement" =>
    /\ req[q].pc = "done"
    /\ backup[q].status # "none"
    /\ backup[q].op # "ROLLBACK"
    /\ backup[q].rows = Snapshot(backup[q].cond, wrote[q].before)
    /\ \E set \in Assignments :
         /\ wrote[q].after =
              Effect(backup[q].op, backup[q].cond, set, wrote[q].before)
         /\ backup[q].op = "UPDATE" => Fits(backup[q].cond, set, wrote[q].before)

SnapshotInv == \A q \in Requests : Covered(q) /\ Recoverable(q)

\* How far a request is, and what it has left behind.  A backup is made once,
\* before anybody can roll it back.
Progress(q) ==
  /\ req[q].pc \in Unsaved => backup[q].status = "none"
  /\ req[q].of # NoRequest => backup[req[q].of].status # "none"
  /\ req[q].pc \in {"read_reverse", "save_reverse"} \cup Reversed
       => req[q].of # NoRequest
  /\ req[q].pc # "done" => record[q] \notin {"completed", "failed"}
  /\ req[q].pc \notin Restored \cup {"done"} => wrote[q].by = "nobody"
  /\ req[q].pc \in Restored => wrote[q].by = "rollback"
  /\ req[q].pc = "log" => backup[req[q].of].status # "active"

ProgressInv ==
  /\ \A b \in cleaning : backup[b].status # "none"
  /\ \A q \in Requests : Progress(q)

\* A rollback works with the rows and the condition of its backup; its reverse
\* backup keeps the condition.  What it commits is the backup's Undo.
Restores(q) ==
  LET b == backup[req[q].of] IN
  /\ req[q].of # NoRequest => req[q].cond = b.cond
  /\ req[q].pc \in {"read_reverse", "save_reverse"} => req[q].op = "ROLLBACK"
  /\ req[q].pc \in Reversed \/ wrote[q].by = "rollback" =>
       /\ req[q].of # NoRequest
       /\ backup[q].status # "none"
       /\ backup[q].op = "ROLLBACK"
       /\ backup[q].cond = req[q].cond
  /\ req[q].pc \in {"begin"} \cup Restoring => req[q].rows = b.rows
  /\ req[q].pc = "insert" =>
       work = IF DeletesAgain(b.op, b.rows)
              THEN Deleted(b.cond, table)
              ELSE Without(table, b.rows)
  /\ req[q].pc = "commit_restore" => work = Undo(b, table)
  /\ wrote[q].by = "rollback" => wrote[q].after = Undo(b, wrote[q].before)

RestoreInv == \A q \in Requests : Restores(q)

IInv ==
  /\ TypeOK
  /\ LockInv
  /\ SnapshotInv
  /\ ProgressInv
  /\ RestoreInv
  /\ RecordTellsTarget

-----------------------------------------------------------------------------
(* What the repository says of the code, and the code does not keep.       *)

\* db_operations.py: a rollback without a recoverable pre-rollback snapshot
\* is forbidden.  The reverse snapshot is selected by the statement's WHERE,
\* which the rows it changed need not meet any more.
RollbackIsRecoverable ==
  \A q \in Requests :
    wrote[q].by = "rollback" =>
      Undo(backup[q], wrote[q].after) = Recovered(backup[q], wrote[q].before)

\* backup.py: rollback goes back to a previous backup point.  The rows of the
\* snapshot are found by their old keys, and the row that an UPDATE of the
\* primary key has moved is left beside the one it was.
RollbackReachesBackup ==
  \A q, b \in Requests :
    /\ wrote[q].by = "rollback" /\ req[q].of = b
    /\ wrote[b].by = "statement" /\ wrote[q].before = wrote[b].after
    => wrote[q].after = Recovered(backup[b], wrote[b].before)

\* settings.py: rotation migrates the snapshots to the active key.  It makes
\* every chunked snapshot undecodable: the property is in no run, see the README.
ActiveIsRestorable ==
  \A q \in Requests :
    backup[q].status = "active" =>
      backup[q].marker = "chunked" /\ backup[q].chunks = "stored"
=============================================================================
