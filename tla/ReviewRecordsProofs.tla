------------------------- MODULE ReviewRecordsProofs ------------------------
(***************************************************************************)
(* Proofs that the records ReviewWorkflow leaves behind a committed write  *)
(* are complete: the review names its backup, and a closed saga is logged. *)
(* First what a step can do to each kind of row and of local state, then   *)
(* the two parts of the invariant.                                         *)
(***************************************************************************)
EXTENDS ReviewPromiseProofs

Done == {"completed", "executed_record_pending"}
MarkedPoints == {"complete", "result", "log", "close"}

-----------------------------------------------------------------------------
(* What a step does to the rows and to the local states.                   *)

\* A committed review has been marked by nobody but its executor, and nobody
\* is about to execute it.
LEMMA MarkedIsCommitted ==
  ASSUME IInv, NEW r \in Reviews, saga[r].state \in Marked
  PROVE  commits[r] = 1 /\ task[r].status \in Reported
  BY CommittedIsReported DEF IInv, RecordsInv, Marked

\* A mark stays, and the backup of a marked saga is the snapshot's.
LEMMA SagaSteps ==
  ASSUME IInv, BackupInv, [Next]_vars, NEW r \in Reviews
  PROVE  /\ saga[r].state \in Marked =>
              /\ saga'[r].state \in Marked
              /\ saga'[r].backup \in {saga[r].backup, BackupOf(r)}
         /\ saga'[r].state \in Marked /\ saga[r].state \notin Marked
              => saga'[r].backup = BackupOf(r)
<1> USE DEF IInv, InFlightInv, TypeOK, RequestState
<1> DEFINE Kept ==
      /\ saga[r].state \in Marked =>
           /\ saga'[r].state \in Marked
           /\ saga'[r].backup \in {saga[r].backup, BackupOf(r)}
      /\ saga'[r].state \in Marked /\ saga[r].state \notin Marked
           => saga'[r].backup = BackupOf(r)
<1>1. CASE saga'[r] = saga[r]
  BY <1>1
<1>2. ASSUME NEW p \in Requests, CreateSaga(p) \/ TakeSnapshot(p) PROVE Kept
  <2>1. /\ req[p].review \in Reviews
        /\ saga[req[p].review].state \in {"none", "prepared", "backup_ready"}
    BY <1>2 DEF CreateSaga, TakeSnapshot, ExecutionInv, Trying
  <2>2. /\ \A x \in Reviews : x # req[p].review => saga'[x] = saga[x]
        /\ saga'[req[p].review].state \in {"prepared", "backup_ready"}
    BY <1>2, <2>1 DEF CreateSaga, TakeSnapshot, SagaRow
  <2> QED
    BY <2>1, <2>2 DEF Marked
<1>3. ASSUME NEW p \in Requests, UndoSaga(p) PROVE Kept
  <2>1. req[p].review \in Reviews /\ commits[req[p].review] = 0
    BY <1>3 DEF UndoSaga, ExecutionInv, Before, Undoing
  <2>2. /\ \A x \in Reviews : x # req[p].review => saga'[x] = saga[x]
        /\ saga'[req[p].review].state = "target_rolled_back"
    BY <1>3, <2>1 DEF UndoSaga, SagaRow
  <2>3. saga[req[p].review].state \notin Marked
    BY <2>1, MarkedIsCommitted
  <2> QED
    BY <2>2, <2>3 DEF Marked
<1>4. ASSUME NEW p \in Requests, MarkCommitted(p) \/ ReportSaga(p) PROVE Kept
  <2>1. req[p].review \in Reviews
    BY <1>4 DEF MarkCommitted, ReportSaga
  <2>2. /\ \A x \in Reviews : x # req[p].review => saga'[x] = saga[x]
        /\ saga'[req[p].review].state = "target_committed"
        /\ saga'[req[p].review].backup = BackupOf(req[p].review)
    BY <1>4, <2>1 DEF MarkCommitted, ReportSaga, SagaRow
  <2> QED
    BY <2>2 DEF Marked
<1>5. ASSUME NEW p \in Requests, CloseSaga(p) PROVE Kept
  <2>1. req[p].review \in Reviews /\ saga[req[p].review].state \in Marked
    BY <1>5 DEF CloseSaga, BackupInv
  <2>2. /\ \A x \in Reviews : x # req[p].review => saga'[x] = saga[x]
        /\ saga'[req[p].review].state = "records_repaired"
        /\ saga'[req[p].review].backup = saga[req[p].review].backup
    BY <1>5, <2>1 DEF CloseSaga, SagaRow
  <2> QED
    BY <2>1, <2>2 DEF Marked
<1>6. ASSUME NEW w \in Repairers, NEW x \in Reviews, RepairClose(w, x)
      PROVE  Kept
  <2>1. saga[x].state \in Marked
    BY <1>6 DEF RepairClose, BackupInv
  <2>2. /\ \A y \in Reviews : y # x => saga'[y] = saga[y]
        /\ saga'[x].state = "records_repaired"
        /\ saga'[x].backup = saga[x].backup
    BY <1>6 DEF RepairClose, SagaRow
  <2> QED
    BY <2>1, <2>2 DEF Marked
<1>7. ASSUME NEW x \in Reviews, Submit(x) \/ ExpireOverdue(x)
      PROVE  saga' = saga
  BY <1>7 DEF Submit, ExpireOverdue
<1>8. ASSUME NEW p \in Requests, Load(p) PROVE saga' = saga
  BY <1>8, LoadEffect DEF Loaded, Started
<1>9. ASSUME NEW p \in Requests, Advance(p), ~CreateSaga(p), ~TakeSnapshot(p),
             ~UndoSaga(p), ~MarkCommitted(p), ~ReportSaga(p), ~CloseSaga(p)
      PROVE  saga' = saga
  BY <1>9 DEF Advance, TransitionRefused, ClaimFirst, ClaimExecution, Reject,
     Route, RecordFirst, LogReject, RecordExecutor, CommitTarget, CompleteTask,
     StoreResult, LogExecution, UndoTask, ReportTask, records
<1>10. ASSUME NEW p \in Requests, Fail(p) PROVE saga' = saga
  BY <1>10 DEF Fail, Abandon, FailBeforeCommit, FailAfterCommit, GiveUp, records
<1>11. ASSUME NEW w \in Repairers,
              \/ RepairFail(w)
              \/ \E x \in Reviews :
                   RepairRead(w, x) \/ RepairTask(w, x) \/ RepairLog(w, x)
       PROVE  saga' = saga
  BY <1>11 DEF RepairFail, RepairRead, RepairTask, RepairLog, records
<1>12. ASSUME Crash \/ UNCHANGED vars PROVE saga' = saga
  BY <1>12 DEF Crash, vars, records
<1> HIDE DEF IInv, InFlightInv, TypeOK, RequestState
<1> QED
  BY <1>1, <1>2, <1>3, <1>4, <1>5, <1>6, <1>7, <1>8, <1>9, <1>10, <1>11, <1>12
  DEF Next, Advance, Repair

\* The steps with which a request ends.
LEMMA ReturnSteps ==
  ASSUME NEW p \in Requests,
         \/ TransitionRefused(p) \/ Route(p) \/ RecordFirst(p)
         \/ LogReject(p) \/ CloseSaga(p) \/ UndoTask(p) \/ ReportTask(p)
  PROVE  Return(p)
  BY DEF TransitionRefused, Route, RecordFirst, LogReject, CloseSaga, UndoTask,
     ReportTask

\* A request past the marker got there from the commit, and one that logs a
\* rejection has just rejected.
LEMMA RequestSteps ==
  ASSUME TypeOK, [Next]_vars, NEW p \in Requests,
         req'[p].pc \in MarkedPoints \cup {"log_reject"}
  PROVE  /\ req'[p].review = req[p].review
         /\ req'[p].pc \in MarkedPoints
              => req[p].pc \in MarkedPoints \/ MarkCommitted(p)
         /\ req'[p].pc = "close" => req[p].pc = "close" \/ LogExecution(p)
         /\ req'[p].pc = "log_reject" => req[p].pc = "log_reject" \/ Reject(p)
<1> USE DEF TypeOK, RequestState, Goto, Return, IdleReq, MarkedPoints
<1>1. CASE req'[p] = req[p]
  BY <1>1
<1>2. ASSUME NEW q \in Requests, q # p, Load(q) \/ Advance(q) \/ Fail(q)
      PROVE  req'[p] = req[p]
  <2>1. CASE Load(q)
    BY <1>2, <2>1, LoadEffect DEF Loaded, Started
  <2>2. CASE Advance(q)
    BY <1>2, <2>2 DEF Advance, TransitionRefused, ClaimFirst, ClaimExecution,
       Reject, Route, RecordFirst, LogReject, CreateSaga, RecordExecutor,
       TakeSnapshot, CommitTarget, MarkCommitted, CompleteTask, StoreResult,
       LogExecution, CloseSaga, UndoSaga, UndoTask, ReportSaga, ReportTask
  <2>3. CASE Fail(q)
    BY <1>2, <2>3 DEF Fail, Abandon, FailBeforeCommit, FailAfterCommit, GiveUp
  <2> QED
    BY <1>2, <2>1, <2>2, <2>3
<1>3. CASE Load(p)
  BY <1>3, LoadEffect DEF Loaded, Started, CasPoints, From
<1>4. CASE MarkCommitted(p) \/ CompleteTask(p) \/ StoreResult(p)
           \/ LogExecution(p) \/ Reject(p)
  BY <1>4 DEF MarkCommitted, CompleteTask, StoreResult, LogExecution, Reject
<1>5. ASSUME Advance(p), ~MarkCommitted(p), ~CompleteTask(p), ~StoreResult(p),
             ~LogExecution(p), ~Reject(p)
      PROVE  FALSE
  <2>1. ASSUME \/ TransitionRefused(p) \/ Route(p) \/ RecordFirst(p)
               \/ LogReject(p) \/ CloseSaga(p) \/ UndoTask(p) \/ ReportTask(p)
        PROVE  req'[p].pc = "idle"
    BY <2>1, ReturnSteps
  <2>2. ASSUME \/ ClaimFirst(p) \/ ClaimExecution(p)
               \/ CreateSaga(p) \/ TakeSnapshot(p) \/ CommitTarget(p)
               \/ UndoSaga(p) \/ ReportSaga(p)
        PROVE  req'[p].pc \in {"record_first", "claimed", "recording",
                 "write", "committed", "undo_task", "report_task"}
    BY <2>2 DEF ClaimFirst, ClaimExecution, CreateSaga, TakeSnapshot,
       CommitTarget, UndoSaga, ReportSaga
  <2>3. ASSUME RecordExecutor(p)
        PROVE  req'[p].pc \in {"snapshot", "write"}
    BY <2>3 DEF RecordExecutor
  <2> QED
    BY <1>5, <2>1, <2>2, <2>3 DEF Advance
<1>6. ASSUME Fail(p) PROVE FALSE
  BY <1>6 DEF Fail, Abandon, FailBeforeCommit, FailAfterCommit, GiveUp
<1>7. ASSUME Crash PROVE FALSE
  BY <1>7 DEF Crash
<1>8. ASSUME \/ \E r \in Reviews : Submit(r) \/ ExpireOverdue(r)
             \/ \E w \in Repairers :
                  RepairFail(w) \/ \E r \in Reviews : Repair(w, r)
             \/ UNCHANGED vars
      PROVE  req'[p] = req[p]
  BY <1>8 DEF Submit, ExpireOverdue, RepairFail, Repair, RepairRead, RepairTask,
     RepairLog, RepairClose, vars
<1> HIDE DEF TypeOK, RequestState, Goto, Return, IdleReq, MarkedPoints
<1> QED
  BY <1>1, <1>2, <1>3, <1>4, <1>5, <1>6, <1>7, <1>8 DEF Next, Advance

\* A repairer in flight has just read its review, or works on it still.
LEMMA RepairSteps ==
  ASSUME TypeOK, [Next]_vars, NEW w \in Repairers, repair'[w].pc # "idle"
  PROVE  \/ \E r \in Reviews : RepairRead(w, r)
         \/ /\ repair[w].pc # "idle"
            /\ repair'[w].review = repair[w].review
            /\ repair'[w].backup = repair[w].backup
            /\ repair'[w].after = repair[w].after
            /\ \/ repair'[w].pc = repair[w].pc
               \/ repair[w].pc = "task" /\ repair'[w].pc = repair[w].after
               \/ RepairLog(w, repair[w].review) /\ repair'[w].pc = "close"
<1> USE DEF TypeOK, RepairState, IdleRepair
<1>1. CASE repair'[w] = repair[w]
  BY <1>1
<1>2. ASSUME NEW v \in Repairers, v # w,
             RepairFail(v) \/ \E r \in Reviews : Repair(v, r)
      PROVE  repair'[w] = repair[w]
  BY <1>2 DEF RepairFail, Repair, RepairRead, RepairTask, RepairLog, RepairClose
<1>3. ASSUME NEW r \in Reviews, RepairTask(w, r) \/ RepairLog(w, r)
      PROVE  /\ repair[w].pc # "idle"
             /\ repair'[w].review = repair[w].review
             /\ repair'[w].backup = repair[w].backup
             /\ repair'[w].after = repair[w].after
             /\ \/ repair[w].pc = "task" /\ repair'[w].pc = repair[w].after
                \/ RepairLog(w, repair[w].review) /\ repair'[w].pc = "close"
  BY <1>3 DEF RepairTask, RepairLog
<1>4. ASSUME \/ RepairFail(w) \/ \E r \in Reviews : RepairClose(w, r)
             \/ Crash
      PROVE  FALSE
  BY <1>4 DEF RepairFail, RepairClose, Crash
<1>5. ASSUME \/ \E r \in Reviews : Submit(r) \/ ExpireOverdue(r)
             \/ UNCHANGED vars
      PROVE  repair' = repair
  BY <1>5 DEF Submit, ExpireOverdue, vars
<1>6. ASSUME NEW p \in Requests, Load(p) PROVE repair' = repair
  BY <1>6, LoadEffect DEF Loaded, Started
<1>7. ASSUME NEW p \in Requests, Advance(p) \/ Fail(p) PROVE repair' = repair
  BY <1>7 DEF Advance, TransitionRefused, ClaimFirst, ClaimExecution, Reject,
     Route, RecordFirst, LogReject, CreateSaga, RecordExecutor, TakeSnapshot,
     CommitTarget, MarkCommitted, CompleteTask, StoreResult, LogExecution,
     CloseSaga, UndoSaga, UndoTask, ReportSaga, ReportTask, Fail, Abandon,
     FailBeforeCommit, FailAfterCommit, GiveUp
<1> HIDE DEF TypeOK, RepairState, IdleRepair
<1> QED
  BY <1>1, <1>2, <1>3, <1>4, <1>5, <1>6, <1>7 DEF Next, Repair

-----------------------------------------------------------------------------
(* BackupInv.                                                              *)

\* A review becomes completed or pending with the backup of its executor or
\* of its repairer, and keeps it.
LEMMA DoneSteps ==
  ASSUME IInv, BackupInv, [Next]_vars, NEW r \in Reviews, Snapshots[r],
         task'[r].status \in Done
  PROVE  task'[r].backup = "saved"
<1> USE DEF IInv, InFlightInv, TypeOK, RequestState, Done
<1>1. CASE task'[r].status = task[r].status /\ task'[r].backup = task[r].backup
  BY <1>1 DEF BackupInv
<1>2. ASSUME NEW p \in Requests, CompleteTask(p) \/ ReportTask(p)
      PROVE  task'[r] = task[r] \/ task'[r].backup = "saved"
  <2>1. req[p].review \in Reviews
    BY <1>2 DEF CompleteTask, ReportTask
  <2>2. IfSet(BackupOf(r), "none", task[r].backup) = "saved"
    BY DEF IfSet, BackupOf
  <2>3. CASE CompleteTask(p)
    BY <2>1, <2>2, <2>3 DEF CompleteTask, TaskRow
  <2>4. CASE ReportTask(p)
    BY <2>1, <2>2, <2>4 DEF ReportTask, TaskRow
  <2> QED
    BY <1>2, <2>3, <2>4
<1>3. ASSUME NEW w \in Repairers, NEW x \in Reviews, RepairTask(w, x)
      PROVE  task'[r] = task[r] \/ task'[r].backup = "saved"
  <2>1. x = r => repair[w].backup = "saved"
    BY <1>3 DEF RepairTask, BackupInv
  <2>2. x = r => IfSet(repair[w].backup, "none", task[r].backup) = "saved"
    BY <2>1 DEF IfSet
  <2> QED
    BY <1>3, <2>2 DEF RepairTask, TaskRow
<1>4. ASSUME NEW x \in Reviews, Submit(x) \/ ExpireOverdue(x)
      PROVE  task'[r] = task[r] \/ task'[r].status \notin Done
  BY <1>4 DEF Submit, NewTask, ExpireOverdue, TaskRow
<1>5. ASSUME NEW p \in Requests,
             \/ ClaimFirst(p) \/ ClaimExecution(p) \/ Reject(p) \/ UndoTask(p)
      PROVE  task'[r] = task[r] \/ task'[r].status \notin Done
  <2>1. req[p].review \in Reviews
    BY <1>5 DEF ClaimFirst, ClaimExecution, Reject, UndoTask
  <2> QED
    BY <1>5, <2>1 DEF ClaimFirst, ClaimExecution, Reject, UndoTask, TaskRow
<1>6. ASSUME NEW p \in Requests, Route(p)
      PROVE  task'[r] = task[r] \/ task'[r].status \notin Done
  <2>1. PICK x \in Reviews, s \in Active \cup Closed : Routed(p, x, s)
    BY <1>6, RouteEffect
  <2> QED
    BY <2>1 DEF Routed, Active, Closed
<1>7. ASSUME NEW p \in Requests,
             RecordFirst(p) \/ RecordExecutor(p) \/ StoreResult(p)
      PROVE  task'[r].status = task[r].status /\ task'[r].backup = task[r].backup
  <2>1. CASE RecordFirst(p)
    BY <2>1 DEF RecordFirst, RecordApproval, TaskRow
  <2>2. CASE RecordExecutor(p)
    BY <2>2 DEF RecordExecutor, RecordApproval, TaskRow
  <2>3. CASE StoreResult(p)
    BY <2>3 DEF StoreResult, TaskRow
  <2> QED
    BY <1>7, <2>1, <2>2, <2>3
<1> HIDE DEF IInv, InFlightInv, TypeOK, RequestState
<1>8. ASSUME NEW p \in Requests, Load(p) PROVE task' = task
  BY <1>8, LoadEffect DEF Loaded, Started, IInv
<1>9. ASSUME NEW p \in Requests,
             \/ TransitionRefused(p) \/ LogReject(p) \/ CreateSaga(p)
             \/ TakeSnapshot(p) \/ CommitTarget(p) \/ MarkCommitted(p)
             \/ LogExecution(p) \/ CloseSaga(p) \/ UndoSaga(p)
             \/ ReportSaga(p) \/ Fail(p)
      PROVE  task' = task
  BY <1>9 DEF TransitionRefused, LogReject, CreateSaga, TakeSnapshot,
     CommitTarget, MarkCommitted, LogExecution, CloseSaga, UndoSaga, ReportSaga,
     Fail, Abandon, FailBeforeCommit, FailAfterCommit, GiveUp, records
<1>10. ASSUME NEW w \in Repairers,
              \/ RepairFail(w)
              \/ \E x \in Reviews :
                   RepairRead(w, x) \/ RepairLog(w, x) \/ RepairClose(w, x)
       PROVE  task' = task
  BY <1>10 DEF RepairFail, RepairRead, RepairLog, RepairClose, records
<1>11. ASSUME Crash \/ UNCHANGED vars PROVE task' = task
  BY <1>11 DEF Crash, vars, records
<1>12. CASE task'[r] = task[r]
  BY <1>1, <1>12
<1> QED
  BY <1>1, <1>2, <1>3, <1>4, <1>5, <1>6, <1>7, <1>8, <1>9, <1>10, <1>11,
     <1>12 DEF Next, Advance, Repair

\* The backup of a committed write is never lost on the way to its review.
LEMMA BackupInduction ==
  ASSUME IInv, BackupInv, [Next]_vars
  PROVE  BackupInv'
<1>1. TypeOK /\ InFlightInv
  BY DEF IInv
<1>2. ASSUME NEW r \in Reviews, Snapshots[r], saga'[r].state \in Marked
      PROVE  saga'[r].backup = "saved"
  BY <1>2, SagaSteps DEF BackupInv, BackupOf
<1>3. ASSUME NEW r \in Reviews, Snapshots[r], task'[r].status \in Done
      PROVE  task'[r].backup = "saved"
  BY <1>3, DoneSteps
<1>4. ASSUME NEW p \in Requests, req'[p].pc \in MarkedPoints
      PROVE  saga'[req'[p].review].state \in Marked
  <2>1. req'[p].review = req[p].review /\ req[p].pc # "idle"
    BY <1>1, <1>4, RequestSteps DEF MarkedPoints, MarkCommitted
  <2>2. req[p].review \in Reviews
    BY <1>1, <2>1, ReviewOf
  <2>3. CASE req[p].pc \in MarkedPoints
    BY <2>1, <2>2, <2>3, SagaSteps DEF BackupInv, MarkedPoints
  <2>4. CASE MarkCommitted(p)
    BY <1>1, <2>1, <2>2, <2>4 DEF MarkCommitted, TypeOK, SagaRow, Marked
  <2> QED
    BY <1>1, <1>4, <2>3, <2>4, RequestSteps
<1>5. ASSUME NEW w \in Repairers, repair'[w].pc # "idle"
      PROVE  /\ saga'[repair'[w].review].state \in Marked
             /\ Snapshots[repair'[w].review] => repair'[w].backup = "saved"
  <2>1. ASSUME NEW r \in Reviews, RepairRead(w, r)
        PROVE  /\ repair'[w].review = r /\ repair'[w].backup = saga[r].backup
               /\ saga'[r].state \in Marked
               /\ Snapshots[r] => saga[r].backup = "saved"
    BY <1>1, <2>1 DEF RepairRead, TypeOK, records, Marked, BackupInv
  <2>2. CASE \E r \in Reviews : RepairRead(w, r)
    BY <2>1, <2>2
  <2>3. ASSUME repair[w].pc # "idle", repair'[w].review = repair[w].review,
               repair'[w].backup = repair[w].backup
        PROVE  /\ saga'[repair'[w].review].state \in Marked
               /\ Snapshots[repair'[w].review] => repair'[w].backup = "saved"
    <3>1. repair[w].review \in Reviews
      BY <1>1, <2>3, RepairOf
    <3> QED
      BY <2>3, <3>1, SagaSteps DEF BackupInv
  <2> QED
    BY <1>1, <1>5, <2>2, <2>3, RepairSteps
<1> QED
  BY <1>2, <1>3, <1>4, <1>5 DEF BackupInv, Done, MarkedPoints

\* No review is submitted with a backup to name.
LEMMA BackupInvInit ==
  ASSUME Init
  PROVE  BackupInv
  BY DEF Init, BackupInv, NoTask, NewTask, NoSaga, IdleReq, IdleRepair, Marked

\* Wherever the failure after the commit struck, and whoever completed the
\* records, a committed review of snapshotted rows names its backup.
THEOREM BackupIsNamed == Spec => []CompletedNamesBackup
<1>1. BackupInv => CompletedNamesBackup
  BY DEF BackupInv, CompletedNamesBackup
<1> QED
  BY <1>1, BackupInvInit, BackupInduction, Invariance, PTL DEF Spec

-----------------------------------------------------------------------------
(* LogInv.                                                                 *)

\* What an appended row changes of what is logged.
LEMMA AppendLogs ==
  ASSUME NEW r \in Reviews, oplog[r] \in Seq(LogRow), NEW row \in LogRow,
         oplog'[r] = Append(oplog[r], row)
  PROVE  \A s \in {"completed", "rejected"} :
           Logged(r, s)' <=> Logged(r, s) \/ row.status = s
<1>1. /\ DOMAIN oplog'[r] = (DOMAIN oplog[r]) \cup {Len(oplog[r]) + 1}
      /\ \A i \in DOMAIN oplog[r] : oplog'[r][i] = oplog[r][i]
      /\ oplog'[r][Len(oplog[r]) + 1] = row
  OBVIOUS
<1> QED
  BY <1>1 DEF Logged

\* A step logs nothing, or a rejection of a rejected review, or a completion.
LEMMA LogSteps ==
  ASSUME IInv, LogInv, [Next]_vars, NEW r \in Reviews
  PROVE  \/ oplog'[r] = oplog[r]
         \/ \E row \in LogRow :
              /\ oplog'[r] = Append(oplog[r], row)
              /\ row.status = "rejected" => task[r].status = "rejected"
<1> USE DEF IInv, InFlightInv, TypeOK, RequestState
<1> DEFINE Entry(row) ==
      /\ oplog'[r] = Append(oplog[r], row)
      /\ row.status = "rejected" => task[r].status = "rejected"
<1>1. ASSUME NEW p \in Requests, LogReject(p) \/ LogExecution(p)
      PROVE  oplog'[r] = oplog[r] \/ \E row \in LogRow : Entry(row)
  <2>1. req[p].user \in MaybeUser /\ req[p].review \in Reviews
    BY <1>1 DEF LogReject, LogExecution
  <2>2. CASE req[p].review # r
    BY <1>1, <2>2 DEF LogReject, LogExecution
  <2>3. ASSUME LogReject(p), req[p].review = r
        PROVE  Entry([status |-> "rejected", approvedBy |-> req[p].user])
    BY <2>3 DEF LogReject, LogInv
  <2>4. ASSUME LogExecution(p), req[p].review = r
        PROVE  Entry([status |-> "completed", approvedBy |-> req[p].user])
    BY <2>4 DEF LogExecution
  <2>5. \A s \in {"completed", "rejected"} :
          [status |-> s, approvedBy |-> req[p].user] \in LogRow
    BY <2>1 DEF LogRow
  <2> HIDE DEF Entry
  <2> QED
    BY <1>1, <2>2, <2>3, <2>4, <2>5
<1>2. ASSUME NEW w \in Repairers, NEW x \in Reviews, RepairLog(w, x)
      PROVE  oplog'[r] = oplog[r] \/ \E row \in LogRow : Entry(row)
  <2>1. [status |-> "completed", approvedBy |-> repair[w].approvedBy] \in LogRow
    BY DEF LogRow, RepairState
  <2>2. CASE x # r
    BY <1>2, <2>2 DEF RepairLog
  <2>3. CASE x = r
    BY <1>2, <2>1, <2>3 DEF RepairLog
  <2> QED
    BY <2>2, <2>3
<1>3. ASSUME NEW x \in Reviews, Submit(x) \/ ExpireOverdue(x)
      PROVE  oplog' = oplog
  BY <1>3 DEF Submit, ExpireOverdue
<1>4. ASSUME NEW p \in Requests, Load(p) \/ Route(p) PROVE oplog' = oplog
  BY <1>4, LoadEffect DEF Loaded, Started, Route
<1>5. ASSUME NEW p \in Requests, Advance(p), ~LogReject(p), ~LogExecution(p)
      PROVE  oplog' = oplog
  BY <1>5, <1>4 DEF Advance, TransitionRefused, ClaimFirst, ClaimExecution,
     Reject, RecordFirst, CreateSaga, TakeSnapshot, UndoSaga, MarkCommitted,
     ReportSaga, CloseSaga, RecordExecutor, CommitTarget, CompleteTask,
     StoreResult, UndoTask, ReportTask, records
<1>6. ASSUME NEW p \in Requests, Fail(p) PROVE oplog' = oplog
  BY <1>6 DEF Fail, Abandon, FailBeforeCommit, FailAfterCommit, GiveUp, records
<1>7. ASSUME NEW w \in Repairers,
             \/ RepairFail(w)
             \/ \E x \in Reviews :
                  RepairRead(w, x) \/ RepairTask(w, x) \/ RepairClose(w, x)
      PROVE  oplog' = oplog
  BY <1>7 DEF RepairFail, RepairRead, RepairTask, RepairClose, records
<1>8. ASSUME Crash \/ UNCHANGED vars PROVE oplog' = oplog
  BY <1>8 DEF Crash, vars, records
<1> HIDE DEF IInv, InFlightInv, TypeOK, RequestState
<1> QED
  BY <1>1, <1>2, <1>3, <1>4, <1>5, <1>6, <1>7, <1>8 DEF Next, Repair

\* So entries are never lost, and no rejection appears out of nowhere.
LEMMA LoggedSteps ==
  ASSUME IInv, LogInv, [Next]_vars, NEW r \in Reviews
  PROVE  /\ Logged(r, "completed") => Logged(r, "completed")'
         /\ Logged(r, "rejected")'
              => Logged(r, "rejected") \/ task[r].status = "rejected"
<1>1. oplog[r] \in Seq(LogRow)
  BY DEF IInv, TypeOK
<1>2. CASE oplog'[r] = oplog[r]
  BY <1>2 DEF Logged
<1>3. ASSUME NEW row \in LogRow, oplog'[r] = Append(oplog[r], row),
             row.status = "rejected" => task[r].status = "rejected"
      PROVE  /\ Logged(r, "completed") => Logged(r, "completed")'
             /\ Logged(r, "rejected")'
                  => Logged(r, "rejected") \/ task[r].status = "rejected"
  BY <1>1, <1>3, AppendLogs
<1> QED
  BY <1>2, <1>3, LogSteps

\* A rejected review stays rejected.
LEMMA RejectedStays ==
  ASSUME IInv, [Next]_vars, NEW r \in Reviews, task[r].status = "rejected"
  PROVE  task'[r].status = "rejected"
<1>1. "rejected" \notin Active \cup Reported \cup {"none", "executing"}
  BY DEF Active, Reported
<1> QED
  BY <1>1, StepsAreSorted DEF Sorted, Silent, Opens, Routes, Closes, Fails,
     Applies, Reports, Votes, Runs, StatusMoves

\* A saga is closed by its executor or by a repairer, at their last step.
LEMMA ClosingSteps ==
  ASSUME IInv, [Next]_vars, NEW r \in Reviews,
         saga'[r].state = "records_repaired"
  PROVE  \/ saga[r].state = "records_repaired"
         \/ \E p \in Requests : req[p].pc = "close" /\ req[p].review = r
         \/ \E w \in Repairers : repair[w].pc = "close" /\ repair[w].review = r
<1> USE DEF IInv, InFlightInv, TypeOK, RequestState, SagaRow
<1>1. CASE saga'[r] = saga[r]
  BY <1>1
<1>2. ASSUME NEW p \in Requests,
             \/ CreateSaga(p) \/ TakeSnapshot(p) \/ UndoSaga(p)
             \/ MarkCommitted(p) \/ ReportSaga(p)
      PROVE  saga'[r] = saga[r] \/ saga'[r].state # "records_repaired"
  BY <1>2 DEF CreateSaga, TakeSnapshot, UndoSaga, MarkCommitted, ReportSaga
<1>3. ASSUME NEW p \in Requests, CloseSaga(p)
      PROVE  \/ saga'[r] = saga[r]
             \/ req[p].pc = "close" /\ req[p].review = r
  BY <1>3 DEF CloseSaga
<1>4. ASSUME NEW w \in Repairers, NEW x \in Reviews, RepairClose(w, x)
      PROVE  \/ saga'[r] = saga[r]
             \/ repair[w].pc = "close" /\ repair[w].review = r
  BY <1>4 DEF RepairClose
<1>5. ASSUME NEW x \in Reviews, Submit(x) \/ ExpireOverdue(x)
      PROVE  saga' = saga
  BY <1>5 DEF Submit, ExpireOverdue
<1>6. ASSUME NEW p \in Requests, Load(p) PROVE saga' = saga
  BY <1>6, LoadEffect DEF Loaded, Started
<1>7. ASSUME NEW p \in Requests, Advance(p), ~CreateSaga(p), ~TakeSnapshot(p),
             ~UndoSaga(p), ~MarkCommitted(p), ~ReportSaga(p), ~CloseSaga(p)
      PROVE  saga' = saga
  BY <1>7 DEF Advance, TransitionRefused, ClaimFirst, ClaimExecution, Reject,
     Route, RecordFirst, LogReject, RecordExecutor, CommitTarget, CompleteTask,
     StoreResult, LogExecution, UndoTask, ReportTask, records
<1>8. ASSUME NEW p \in Requests, Fail(p) PROVE saga' = saga
  BY <1>8 DEF Fail, Abandon, FailBeforeCommit, FailAfterCommit, GiveUp, records
<1>9. ASSUME NEW w \in Repairers,
             \/ RepairFail(w)
             \/ \E x \in Reviews :
                  RepairRead(w, x) \/ RepairTask(w, x) \/ RepairLog(w, x)
      PROVE  saga' = saga
  BY <1>9 DEF RepairFail, RepairRead, RepairTask, RepairLog, records
<1>10. ASSUME Crash \/ UNCHANGED vars PROVE saga' = saga
  BY <1>10 DEF Crash, vars, records
<1> HIDE DEF IInv, InFlightInv, TypeOK, RequestState, SagaRow
<1> QED
  BY <1>1, <1>2, <1>3, <1>4, <1>5, <1>6, <1>7, <1>8, <1>9, <1>10
  DEF Next, Advance, Repair

\* A repairer that finds a log finds the completed entry.
LEMMA ReadFindsCompleted ==
  ASSUME IInv, LogInv, NEW r \in Reviews, saga[r].state \in Marked,
         oplog[r] # <<>>
  PROVE  Logged(r, "completed")
<1>1. 1 \in DOMAIN oplog[r] /\ oplog[r][1] \in LogRow
  BY DEF IInv, TypeOK
<1>2. task[r].status # "rejected"
  BY MarkedIsCommitted DEF Reported
<1>3. ~Logged(r, "rejected")
  BY <1>2 DEF LogInv
<1> QED
  BY <1>1, <1>3 DEF LogRow, Logged

\* No log is there before a review is.
LEMMA LogInvInit ==
  ASSUME Init
  PROVE  LogInv
<1>1. /\ \A r \in Reviews : task[r].status = "none" /\ oplog[r] = <<>>
      /\ \A r \in Reviews : saga[r].state = "none"
      /\ \A p \in Requests : req[p].pc = "idle"
      /\ \A w \in Repairers : repair[w].pc = "idle"
  BY DEF Init, NoTask, NewTask, NoSaga, IdleReq, IdleRepair
<1>2. \A r \in Reviews, s \in {"rejected", "completed"} : ~Logged(r, s)
  BY <1>1 DEF Logged
<1> QED
  BY <1>1, <1>2 DEF LogInv

\* Executor and repairers close a saga after its completed entry is there.
LEMMA LogInduction ==
  ASSUME IInv, BackupInv, LogInv, [Next]_vars
  PROVE  LogInv'
<1> DEFINE NowLogged(r) ==
      \E i \in DOMAIN oplog'[r] : oplog'[r][i].status = "completed"
<1>0. ASSUME NEW r \in Reviews, Logged(r, "completed")
      PROVE  NowLogged(r)
  BY <1>0, LoggedSteps DEF Logged
<1>1. TypeOK /\ InFlightInv
  BY DEF IInv
<1>2. ASSUME NEW r \in Reviews, Logged(r, "rejected")'
      PROVE  task'[r].status = "rejected"
  BY <1>2, LoggedSteps, RejectedStays DEF LogInv
<1>3. ASSUME NEW r \in Reviews, saga'[r].state = "records_repaired"
      PROVE  NowLogged(r)
  <2>1. Logged(r, "completed")
    BY <1>3, ClosingSteps DEF LogInv
  <2> QED
    BY <2>1, <1>0
<1>4. ASSUME NEW p \in Requests, req'[p].pc = "log_reject"
      PROVE  task'[req'[p].review].status = "rejected"
  <2>1. /\ req'[p].review = req[p].review
        /\ req[p].pc = "log_reject" \/ Reject(p)
    BY <1>1, <1>4, RequestSteps
  <2>2. req[p].pc # "idle"
    BY <2>1 DEF Reject
  <2>3. req[p].review \in Reviews
    BY <1>1, <2>2, ReviewOf
  <2>4. CASE req[p].pc = "log_reject"
    BY <2>1, <2>3, <2>4, RejectedStays DEF LogInv
  <2>5. CASE Reject(p)
    BY <1>1, <2>1, <2>3, <2>5 DEF Reject, TypeOK, TaskRow
  <2> QED
    BY <2>1, <2>4, <2>5
<1>5. ASSUME NEW p \in Requests, req'[p].pc = "close"
      PROVE  NowLogged(req'[p].review)
  <2>1. /\ req'[p].review = req[p].review
        /\ req[p].pc = "close" \/ LogExecution(p)
    BY <1>1, <1>5, RequestSteps DEF MarkedPoints
  <2>2. req[p].review \in Reviews /\ req[p].user \in MaybeUser
    BY <1>1, <2>1, ReviewOf DEF LogExecution
  <2>3. CASE req[p].pc = "close"
    <3>1. Logged(req[p].review, "completed")
      BY <2>3 DEF LogInv
    <3> QED
      BY <2>1, <2>2, <3>1, <1>0
  <2>4. CASE LogExecution(p)
    <3> DEFINE r == req[p].review
    <3> DEFINE row == [status |-> "completed", approvedBy |-> req[p].user]
    <3>1. oplog[r] \in Seq(LogRow) /\ oplog'[r] = Append(oplog[r], row)
      BY <1>1, <2>2, <2>4 DEF LogExecution, TypeOK
    <3>2. row \in LogRow /\ row.status = "completed"
      BY <2>2 DEF LogRow
    <3>3. /\ Len(oplog[r]) + 1 \in DOMAIN oplog'[r]
          /\ oplog'[r][Len(oplog[r]) + 1] = row
      BY <3>1, <3>2
    <3> QED
      BY <2>1, <3>2, <3>3
  <2> QED
    BY <2>1, <2>3, <2>4
<1>6. ASSUME NEW w \in Repairers,
             \/ repair'[w].pc = "close"
             \/ repair'[w].pc = "task" /\ repair'[w].after = "close"
      PROVE  NowLogged(repair'[w].review)
  <2>1. ASSUME NEW r \in Reviews, RepairRead(w, r)
        PROVE  NowLogged(repair'[w].review)
    <3>1. /\ repair'[w].review = r
          /\ repair'[w].pc = "task"
          /\ repair'[w].after = IF oplog[r] = <<>> THEN "log" ELSE "close"
          /\ saga[r].state \in Marked
          /\ oplog' = oplog
      BY <1>1, <2>1 DEF RepairRead, TypeOK, records, Marked
    <3>2. Logged(r, "completed")
      BY <1>6, <3>1, ReadFindsCompleted
    <3> QED
      BY <3>1, <3>2, <1>0
  <2>2. ASSUME repair[w].pc # "idle", repair'[w].review = repair[w].review,
               Logged(repair[w].review, "completed")
        PROVE  NowLogged(repair'[w].review)
    <3>1. repair[w].review \in Reviews
      BY <1>1, <2>2, RepairOf
    <3> QED
      BY <2>2, <3>1, <1>0
  <2>3. ASSUME RepairLog(w, repair[w].review),
               repair'[w].review = repair[w].review, repair[w].pc # "idle"
        PROVE  NowLogged(repair'[w].review)
    <3> DEFINE r == repair[w].review
    <3> DEFINE row == [status |-> "completed", approvedBy |-> repair[w].approvedBy]
    <3>1. r \in Reviews /\ repair[w].approvedBy \in MaybeUser
      BY <1>1, <2>3, RepairOf
    <3>2. oplog[r] \in Seq(LogRow) /\ oplog'[r] = Append(oplog[r], row)
      BY <1>1, <2>3, <3>1 DEF RepairLog, TypeOK
    <3>3. row \in LogRow /\ row.status = "completed"
      BY <3>1 DEF LogRow
    <3>4. /\ Len(oplog[r]) + 1 \in DOMAIN oplog'[r]
          /\ oplog'[r][Len(oplog[r]) + 1] = row
      BY <3>2, <3>3
    <3> QED
      BY <2>3, <3>3, <3>4
  <2>4. ASSUME repair[w].pc # "idle", repair'[w].review = repair[w].review,
               repair'[w].after = repair[w].after,
               \/ repair'[w].pc = repair[w].pc
               \/ repair[w].pc = "task" /\ repair'[w].pc = repair[w].after
        PROVE  NowLogged(repair'[w].review)
    <3>1. Logged(repair[w].review, "completed")
      BY <1>6, <2>4 DEF LogInv
    <3> QED
      BY <2>2, <2>4, <3>1
  <2>5. repair'[w].pc # "idle"
    BY <1>6
  <2> QED
    BY <1>1, <2>1, <2>3, <2>4, <2>5, RepairSteps
<1> QED
  BY <1>2, <1>3, <1>4, <1>5, <1>6 DEF LogInv, Logged

\* A saga is closed only over a complete operation log, whoever closes it.
THEOREM ClosedSagasAreLogged == Spec => []ClosedSagaIsLogged
<1>1. LogInv => ClosedSagaIsLogged
  BY DEF LogInv, Logged, ClosedSagaIsLogged
<1> QED
  BY <1>1, BackupInvInit, BackupInduction, LogInvInit, LogInduction, Invariance,
     PTL DEF Spec

=============================================================================
