------------------------ MODULE ReviewWorkflowProofs ------------------------
(***************************************************************************)
(* Proofs about ReviewWorkflow, for any number of reviews, users, requests *)
(* in flight and repairers.  The inductive invariant IInv is proved part   *)
(* by part: typing first, then each part under the assumption that the     *)
(* whole of IInv holds before the step.                                    *)
(***************************************************************************)
EXTENDS ReviewWorkflow, TLAPS

-----------------------------------------------------------------------------
(* What the helpers do to the variables they change.                       *)

\* The points of a request, one by one.
LEMMA PointsAre ==
  {"idle", "record_first", "log_reject", "first", "execute", "reject",
   "expire", "revoke", "escalate", "transfer", "claimed", "recording",
   "snapshot", "write", "committed", "complete", "result", "log", "close",
   "undo_saga", "undo_task", "report_saga", "report_task"} = Points
  BY DEF Points, CasPoints, From, Executing, Trying, Finishing, Undoing, Reporting

\* The statuses of a task, one by one.
LEMMA StatusesAre ==
  {"awaiting_review", "pending_second_approval", "escalated", "rejected",
   "revoked", "expired", "none", "executing", "completed", "failed",
   "executed_record_pending"} = Statuses
  BY DEF Statuses, Active, Closed

\* Moving a request to another point keeps its shape.
LEMMA GotoType ==
  ASSUME req \in [Requests -> RequestState], NEW p \in Requests,
         NEW pc \in Points, Goto(p, pc)
  PROVE  req' \in [Requests -> RequestState]
  BY DEF Goto, RequestState

\* So does ending it.
LEMMA ReturnType ==
  ASSUME req \in [Requests -> RequestState], NEW p \in Requests, Return(p)
  PROVE  req' \in [Requests -> RequestState]
  BY PointsAre, StatusesAre DEF Return, RequestState, IdleReq, MaybeUser

\* So does starting one, and nothing else changes.
LEMMA StartType ==
  ASSUME TypeOK, NEW p \in Requests, NEW pc \in Points, NEW r \in Reviews,
         NEW u \in MaybeUser, NEW to \in MaybeUser, Start(p, pc, r, u, to)
  PROVE  TypeOK'
<1>1. task[r].status \in Statuses /\ "none" \in Statuses
  BY StatusesAre DEF TypeOK, TaskRow
<1>2. req' \in [Requests -> RequestState]
  BY <1>1 DEF Start, TypeOK, RequestState
<1> QED
  BY <1>2 DEF Start, TypeOK, records

\* A new status keeps the shape of a task.
LEMMA StatusType ==
  ASSUME task \in [Reviews -> TaskRow], NEW r \in Reviews, NEW s \in Statuses,
         task' = [task EXCEPT ![r].status = s]
  PROVE  task' \in [Reviews -> TaskRow]
  BY DEF TaskRow

\* So does a decision in somebody's name,
LEMMA DecisionType ==
  ASSUME task \in [Reviews -> TaskRow], NEW r \in Reviews, NEW s \in Statuses,
         NEW u \in MaybeUser,
         task' = [task EXCEPT ![r].status = s, ![r].approvedBy = u]
  PROVE  task' \in [Reviews -> TaskRow]
  BY DEF TaskRow

\* a routing,
LEMMA RoutingType ==
  ASSUME task \in [Reviews -> TaskRow], NEW r \in Reviews, NEW s \in Statuses,
         NEW u \in MaybeUser,
         task' = [task EXCEPT ![r].status = s, ![r].assigned = u]
  PROVE  task' \in [Reviews -> TaskRow]
  BY DEF TaskRow

\* a recorded approval,
LEMMA ApprovalType ==
  ASSUME task \in [Reviews -> TaskRow], NEW r \in Reviews, NEW u \in Users,
         NEW isFirst \in BOOLEAN, RecordApproval(r, u, isFirst)
  PROVE  task' \in [Reviews -> TaskRow]
<1>1. \/ task' = task
      \/ task' = [task EXCEPT ![r].first = u]
      \/ task' = [task EXCEPT ![r].second = u]
  BY DEF RecordApproval
<1> QED
  BY <1>1 DEF TaskRow, MaybeUser

\* a report with the backup,
LEMMA ReportType ==
  ASSUME task \in [Reviews -> TaskRow], NEW r \in Reviews, NEW s \in Statuses,
         NEW b \in {"none", "saved"},
         task' = [task EXCEPT ![r].status = s, ![r].backup = b]
  PROVE  task' \in [Reviews -> TaskRow]
  BY DEF TaskRow

\* a completion, whose row is put together first,
LEMMA CompletionType ==
  ASSUME task \in [Reviews -> TaskRow], NEW r \in Reviews, NEW s \in Statuses,
         NEW u \in MaybeUser, NEW b \in {"none", "saved"},
         task' = [task EXCEPT ![r].status = s, ![r].approvedBy = u,
                              ![r].backup = b]
  PROVE  task' \in [Reviews -> TaskRow]
<1> DEFINE row == [task[r] EXCEPT !.status = s, !.approvedBy = u, !.backup = b]
<1>1. row \in TaskRow
  BY DEF TaskRow
<1>2. task' = [task EXCEPT ![r] = row]
  OBVIOUS
<1> HIDE DEF row
<1> QED
  BY <1>1, <1>2

\* and a column that is only overwritten by a value.
LEMMA IfSetType ==
  ASSUME TypeOK, NEW r \in Reviews
  PROVE  /\ \A new \in {"none", "saved"} :
              IfSet(new, "none", task[r].backup) \in {"none", "saved"}
         /\ \A new \in MaybeUser :
              IfSet(new, NoUser, task[r].approvedBy) \in MaybeUser
  BY DEF TypeOK, TaskRow, IfSet

\* A new state of a saga, with or without a backup, keeps its shape.
LEMMA SagaType ==
  ASSUME saga \in [Reviews -> SagaRow], NEW r \in Reviews,
         NEW s \in SagaStates, NEW b \in {"none", "saved"},
         \/ saga' = [saga EXCEPT ![r].state = s]
         \/ saga' = [saga EXCEPT ![r].state = s, ![r].backup = b]
  PROVE  saga' \in [Reviews -> SagaRow]
  BY DEF SagaRow

\* One more row keeps the shape of the operation log.
LEMMA LogType ==
  ASSUME oplog \in [Reviews -> Seq(LogRow)], NEW r \in Reviews,
         NEW row \in LogRow, oplog' = [oplog EXCEPT ![r] = Append(@, row)]
  PROVE  oplog' \in [Reviews -> Seq(LogRow)]
  OBVIOUS

\* A snapshot leaves a backup or none.
LEMMA BackupOfType ==
  ASSUME NEW r \in Reviews
  PROVE  BackupOf(r) \in {"none", "saved"}
  BY DEF BackupOf

-----------------------------------------------------------------------------
(* Typing.                                                                 *)

\* The initial rows and requests have their shapes.
LEMMA TypeInit ==
  ASSUME Init
  PROVE  TypeOK
<1>1. NoTask \in TaskRow
  BY StatusesAre DEF NoTask, NewTask, TaskRow, MaybeUser
<1>2. NoSaga \in SagaRow
  BY DEF NoSaga, SagaRow, SagaStates
<1>3. IdleReq \in RequestState
  BY PointsAre, StatusesAre DEF IdleReq, RequestState, MaybeUser
<1>4. IdleRepair \in RepairState
  BY DEF IdleRepair, RepairState, MaybeUser
<1>5. <<>> \in Seq(LogRow) /\ 0 \in Nat /\ {} \in SUBSET Users
  OBVIOUS
<1> QED
  BY <1>1, <1>2, <1>3, <1>4, <1>5 DEF Init, TypeOK

\* A request in flight works on a review.
LEMMA ReviewOf ==
  ASSUME TypeOK, InFlightInv, NEW p \in Requests, req[p].pc # "idle"
  PROVE  req[p].review \in Reviews /\ req[p].user \in MaybeUser
                                   /\ req[p].to \in MaybeUser
                                   /\ req[p].seen \in Statuses
  BY DEF TypeOK, InFlightInv, RequestState

\* A repairer in flight works on a review.
LEMMA RepairOf ==
  ASSUME TypeOK, InFlightInv, NEW w \in Repairers, repair[w].pc # "idle"
  PROVE  /\ repair[w].review \in Reviews
         /\ repair[w].approvedBy \in MaybeUser
         /\ repair[w].backup \in {"none", "saved"}
         /\ repair[w].after \in {"log", "close"}
  BY DEF TypeOK, InFlightInv, RepairState

\* Every step keeps the shapes.
LEMMA TypeInduction ==
  ASSUME TypeOK, InFlightInv, [Next]_vars
  PROVE  TypeOK'
<1>1. ASSUME NEW r \in Reviews, Submit(r) PROVE TypeOK'
  <2>1. NewTask \in TaskRow
    BY StatusesAre DEF NewTask, TaskRow, MaybeUser
  <2> QED
    BY <2>1, <1>1 DEF Submit, TypeOK
<1>2. ASSUME NEW r \in Reviews, ExpireOverdue(r) PROVE TypeOK'
  <2>1. task' \in [Reviews -> TaskRow]
    BY <1>2, StatusType, StatusesAre DEF ExpireOverdue, TypeOK
  <2> QED
    BY <2>1, <1>2 DEF ExpireOverdue, TypeOK
<1>3. ASSUME NEW p \in Requests, Load(p) PROVE TypeOK'
  <2>1. PICK u \in Users, r \in Reviews :
          LoadApprove(p, u, r) \/ LoadReject(p, u, r) \/ LoadAction(p, u, r)
    BY <1>3 DEF Load
  <2>2. NoUser \in MaybeUser /\ u \in MaybeUser
    BY DEF MaybeUser
  <2>3. CASE LoadApprove(p, u, r)
    BY <2>2, <2>3, StartType, PointsAre DEF LoadApprove
  <2>4. CASE LoadReject(p, u, r)
    BY <2>2, <2>4, StartType, PointsAre DEF LoadReject
  <2>5. CASE LoadAction(p, u, r)
    <3>1. PICK pc \in {"expire", "revoke", "escalate", "transfer"},
               to \in Assignees \cup {NoUser} : Start(p, pc, r, NoUser, to)
      BY <2>5 DEF LoadAction
    <3>2. pc \in Points /\ to \in MaybeUser
      BY PointsAre, ConstantsAssumption DEF MaybeUser
    <3> QED
      BY <2>2, <3>1, <3>2, StartType
  <2> QED
    BY <2>1, <2>3, <2>4, <2>5
<1>4. ASSUME NEW p \in Requests,
             TransitionRefused(p) \/ Abandon(p) \/ GiveUp(p)
      PROVE  TypeOK'
  <2>1. req' \in [Requests -> RequestState]
    BY <1>4, ReturnType DEF TransitionRefused, Abandon, GiveUp, TypeOK
  <2> QED
    BY <2>1, <1>4 DEF TransitionRefused, Abandon, GiveUp, TypeOK, records
<1>5. ASSUME NEW p \in Requests, FailBeforeCommit(p) \/ FailAfterCommit(p)
      PROVE  TypeOK'
  <2>1. req' \in [Requests -> RequestState]
    BY <1>5, GotoType, PointsAre DEF FailBeforeCommit, FailAfterCommit, TypeOK
  <2> QED
    BY <2>1, <1>5 DEF FailBeforeCommit, FailAfterCommit, TypeOK, records
<1>6. ASSUME NEW p \in Requests, ClaimFirst(p) \/ ClaimExecution(p)
      PROVE  TypeOK'
  <2>1. req[p].review \in Reviews /\ req[p].user \in Users
    BY <1>6 DEF ClaimFirst, ClaimExecution, InFlightInv, Executing
  <2>2. req' \in [Requests -> RequestState]
    BY <1>6, GotoType, PointsAre DEF ClaimFirst, ClaimExecution, TypeOK
  <2>3. task' \in [Reviews -> TaskRow]
    BY <1>6, <2>1, DecisionType, StatusType, StatusesAre
       DEF ClaimFirst, ClaimExecution, TypeOK, MaybeUser
  <2>4. consents' \in [Reviews -> SUBSET Users]
    <3>1. PICK r \in Reviews, u \in Users :
            consents' = [consents EXCEPT ![r] = consents[r] \cup {u}]
      BY <1>6, <2>1 DEF ClaimFirst, ClaimExecution
    <3> QED
      BY <3>1 DEF TypeOK
  <2> QED
    BY <2>2, <2>3, <2>4, <1>6 DEF ClaimFirst, ClaimExecution, TypeOK
<1>7. ASSUME NEW p \in Requests, Reject(p) PROVE TypeOK'
  <2>1. req[p].review \in Reviews /\ req[p].user \in MaybeUser
    BY <1>7, ReviewOf DEF Reject
  <2>2. req' \in [Requests -> RequestState]
    BY <1>7, GotoType, PointsAre DEF Reject, TypeOK
  <2>3. task' \in [Reviews -> TaskRow]
    BY <1>7, <2>1, DecisionType, StatusesAre DEF Reject, TypeOK
  <2> QED
    BY <2>2, <2>3, <1>7 DEF Reject, TypeOK
<1>8. ASSUME NEW p \in Requests, Route(p) PROVE TypeOK'
  <2>1. /\ req[p].review \in Reviews
        /\ req[p].to \in MaybeUser
        /\ req[p].seen \in Statuses
    BY <1>8, ReviewOf DEF Route
  <2>2. req' \in [Requests -> RequestState]
    BY <1>8, ReturnType DEF Route, TypeOK
  <2>3. task' \in [Reviews -> TaskRow]
    BY <1>8, <2>1, StatusType, RoutingType, StatusesAre DEF Route, TypeOK
  <2> QED
    BY <2>2, <2>3, <1>8 DEF Route, TypeOK
<1>9. ASSUME NEW p \in Requests, RecordFirst(p) PROVE TypeOK'
  <2>1. req[p].review \in Reviews /\ req[p].user \in Users
    BY <1>9 DEF RecordFirst, InFlightInv
  <2>2. req' \in [Requests -> RequestState]
    BY <1>9, ReturnType DEF RecordFirst, TypeOK
  <2>3. task' \in [Reviews -> TaskRow]
    BY <1>9, <2>1, ApprovalType DEF RecordFirst, TypeOK
  <2> QED
    BY <2>2, <2>3, <1>9 DEF RecordFirst, TypeOK
<1>10. ASSUME NEW p \in Requests, RecordExecutor(p) PROVE TypeOK'
  <2>1. req[p].review \in Reviews /\ req[p].user \in Users
    BY <1>10 DEF RecordExecutor, InFlightInv, Executing, Trying
  <2>2. req' \in [Requests -> RequestState]
    BY <1>10, GotoType, PointsAre DEF RecordExecutor, TypeOK
  <2>3. task' \in [Reviews -> TaskRow]
    BY <1>10, <2>1, ApprovalType DEF RecordExecutor, TypeOK
  <2> QED
    BY <2>2, <2>3, <1>10 DEF RecordExecutor, TypeOK
<1>11. ASSUME NEW p \in Requests, LogReject(p) \/ LogExecution(p)
       PROVE  TypeOK'
  <2>1. req[p].review \in Reviews /\ req[p].user \in MaybeUser
    BY <1>11, ReviewOf DEF LogReject, LogExecution
  <2>2. req' \in [Requests -> RequestState]
    BY <1>11, ReturnType, GotoType, PointsAre DEF LogReject, LogExecution, TypeOK
  <2>3. PICK row \in LogRow :
          oplog' = [oplog EXCEPT ![req[p].review] = Append(@, row)]
    BY <1>11, <2>1 DEF LogReject, LogExecution, LogRow
  <2>4. oplog' \in [Reviews -> Seq(LogRow)]
    BY <2>1, <2>3, LogType DEF TypeOK
  <2> QED
    BY <2>2, <2>4, <1>11 DEF LogReject, LogExecution, TypeOK
<1>12. ASSUME NEW p \in Requests, CreateSaga(p) PROVE TypeOK'
  <2>1. req[p].review \in Reviews
    BY <1>12, ReviewOf DEF CreateSaga
  <2>2. req' \in [Requests -> RequestState]
    BY <1>12, GotoType, PointsAre DEF CreateSaga, TypeOK
  <2>3. saga' \in [Reviews -> SagaRow]
    BY <1>12, <2>1 DEF CreateSaga, TypeOK, SagaRow, SagaStates, OrgOf
  <2> QED
    BY <2>2, <2>3, <1>12 DEF CreateSaga, TypeOK
<1>13. ASSUME NEW p \in Requests, TakeSnapshot(p) \/ MarkCommitted(p)
       PROVE  TypeOK'
  <2>1. req[p].review \in Reviews
    BY <1>13, ReviewOf DEF TakeSnapshot, MarkCommitted
  <2>2. req' \in [Requests -> RequestState]
    BY <1>13, GotoType, PointsAre DEF TakeSnapshot, MarkCommitted, TypeOK
  <2>3. saga' \in [Reviews -> SagaRow]
    BY <1>13, <2>1, SagaType, BackupOfType
       DEF TakeSnapshot, MarkCommitted, TypeOK, SagaStates
  <2> QED
    BY <2>2, <2>3, <1>13 DEF TakeSnapshot, MarkCommitted, TypeOK
<1>14. ASSUME NEW p \in Requests, CommitTarget(p) PROVE TypeOK'
  <2>1. req[p].review \in Reviews
    BY <1>14, ReviewOf DEF CommitTarget
  <2>2. req' \in [Requests -> RequestState]
    BY <1>14, GotoType, PointsAre DEF CommitTarget, TypeOK
  <2>3. commits' \in [Reviews -> Nat]
    BY <1>14, <2>1 DEF CommitTarget, TypeOK
  <2> QED
    BY <2>2, <2>3, <1>14 DEF CommitTarget, TypeOK, records
<1>15. ASSUME NEW p \in Requests, CompleteTask(p) PROVE TypeOK'
  <2>1. req[p].review \in Reviews /\ req[p].user \in MaybeUser
    BY <1>15, ReviewOf DEF CompleteTask
  <2>2. req' \in [Requests -> RequestState]
    BY <1>15, GotoType, PointsAre DEF CompleteTask, TypeOK
  <2>3. task' \in [Reviews -> TaskRow]
    <3> DEFINE b == IfSet(BackupOf(req[p].review), "none",
                          task[req[p].review].backup)
    <3>1. b \in {"none", "saved"}
      BY <2>1, IfSetType, BackupOfType
    <3>2. task' = [task EXCEPT ![req[p].review].status = "completed",
                               ![req[p].review].approvedBy = req[p].user,
                               ![req[p].review].backup = b]
      BY <1>15 DEF CompleteTask
    <3> HIDE DEF b
    <3> QED
      BY <2>1, <3>1, <3>2, CompletionType, StatusesAre DEF TypeOK
  <2> QED
    BY <2>2, <2>3, <1>15 DEF CompleteTask, TypeOK
<1>16. ASSUME NEW p \in Requests, StoreResult(p) PROVE TypeOK'
  <2>1. req[p].review \in Reviews
    BY <1>16, ReviewOf DEF StoreResult
  <2>2. req' \in [Requests -> RequestState]
    BY <1>16, GotoType, PointsAre DEF StoreResult, TypeOK
  <2>3. task' \in [Reviews -> TaskRow]
    BY <1>16, <2>1 DEF StoreResult, TypeOK, TaskRow
  <2> QED
    BY <2>2, <2>3, <1>16 DEF StoreResult, TypeOK
<1>17. ASSUME NEW p \in Requests, CloseSaga(p) PROVE TypeOK'
  <2>1. req[p].review \in Reviews
    BY <1>17, ReviewOf DEF CloseSaga
  <2>2. req' \in [Requests -> RequestState]
    BY <1>17, ReturnType DEF CloseSaga, TypeOK
  <2>3. saga' \in [Reviews -> SagaRow]
    BY <1>17, <2>1, SagaType DEF CloseSaga, TypeOK, SagaStates
  <2> QED
    BY <2>2, <2>3, <1>17 DEF CloseSaga, TypeOK
<1>18. ASSUME NEW p \in Requests, UndoSaga(p) \/ ReportSaga(p) PROVE TypeOK'
  <2>1. req[p].review \in Reviews
    BY <1>18, ReviewOf DEF UndoSaga, ReportSaga
  <2>2. req' \in [Requests -> RequestState]
    BY <1>18, GotoType, PointsAre DEF UndoSaga, ReportSaga, TypeOK
  <2>3. saga' \in [Reviews -> SagaRow]
    BY <1>18, <2>1, SagaType, BackupOfType
       DEF UndoSaga, ReportSaga, TypeOK, SagaStates
  <2> QED
    BY <2>2, <2>3, <1>18 DEF UndoSaga, ReportSaga, TypeOK
<1>19. ASSUME NEW p \in Requests, UndoTask(p) \/ ReportTask(p) PROVE TypeOK'
  <2>1. req[p].review \in Reviews
    BY <1>19, ReviewOf DEF UndoTask, ReportTask
  <2>2. req' \in [Requests -> RequestState]
    BY <1>19, ReturnType DEF UndoTask, ReportTask, TypeOK
  <2>3. task' \in [Reviews -> TaskRow]
    BY <1>19, <2>1, StatusType, ReportType, StatusesAre, IfSetType, BackupOfType
       DEF UndoTask, ReportTask, TypeOK
  <2> QED
    BY <2>2, <2>3, <1>19 DEF UndoTask, ReportTask, TypeOK
<1>20. ASSUME NEW w \in Repairers, NEW r \in Reviews, RepairRead(w, r)
       PROVE  TypeOK'
  <2>1. task[r].approvedBy \in MaybeUser /\ saga[r].backup \in {"none", "saved"}
    BY DEF TypeOK, TaskRow, SagaRow
  <2>2. repair' \in [Repairers -> RepairState]
    BY <1>20, <2>1 DEF RepairRead, TypeOK, RepairState
  <2> QED
    BY <2>2, <1>20 DEF RepairRead, TypeOK, records
<1>21. ASSUME NEW w \in Repairers, NEW r \in Reviews, RepairTask(w, r)
       PROVE  TypeOK'
  <2>1. /\ repair[w].approvedBy \in MaybeUser
        /\ repair[w].backup \in {"none", "saved"}
        /\ repair[w].after \in {"log", "close"}
    BY <1>21, RepairOf DEF RepairTask
  <2>2. repair' \in [Repairers -> RepairState]
    BY <1>21, <2>1 DEF RepairTask, TypeOK, RepairState
  <2>3. task' \in [Reviews -> TaskRow]
    <3> DEFINE u == IfSet(repair[w].approvedBy, NoUser, task[r].approvedBy)
               b == IfSet(repair[w].backup, "none", task[r].backup)
    <3>1. u \in MaybeUser /\ b \in {"none", "saved"}
      BY <2>1, IfSetType
    <3>2. task' = [task EXCEPT ![r].status = "completed", ![r].approvedBy = u,
                               ![r].backup = b]
      BY <1>21 DEF RepairTask
    <3> HIDE DEF u, b
    <3> QED
      BY <3>1, <3>2, CompletionType, StatusesAre DEF TypeOK
  <2> QED
    BY <2>2, <2>3, <1>21 DEF RepairTask, TypeOK
<1>22. ASSUME NEW w \in Repairers, NEW r \in Reviews, RepairLog(w, r)
       PROVE  TypeOK'
  <2>1. PICK row \in LogRow : oplog' = [oplog EXCEPT ![r] = Append(@, row)]
    BY <1>22, RepairOf DEF RepairLog, LogRow
  <2>2. oplog' \in [Reviews -> Seq(LogRow)]
    BY <2>1, LogType DEF TypeOK
  <2>3. repair' \in [Repairers -> RepairState]
    BY <1>22 DEF RepairLog, TypeOK, RepairState
  <2> QED
    BY <2>2, <2>3, <1>22 DEF RepairLog, TypeOK
<1>23. ASSUME NEW w \in Repairers,
              RepairFail(w) \/ \E r \in Reviews : RepairClose(w, r)
       PROVE  TypeOK'
  <2>1. repair' \in [Repairers -> RepairState]
    BY <1>23 DEF RepairFail, RepairClose, TypeOK, RepairState, IdleRepair, MaybeUser
  <2>2. saga' \in [Reviews -> SagaRow]
    BY <1>23, SagaType DEF RepairFail, RepairClose, TypeOK, SagaStates, records
  <2> QED
    BY <2>1, <2>2, <1>23 DEF RepairFail, RepairClose, TypeOK, records
<1>24. ASSUME Crash PROVE TypeOK'
  <2>1. IdleReq \in RequestState /\ IdleRepair \in RepairState
    BY PointsAre, StatusesAre
       DEF IdleReq, RequestState, IdleRepair, RepairState, MaybeUser
  <2> QED
    BY <2>1, <1>24 DEF Crash, TypeOK, records
<1>25. ASSUME UNCHANGED vars PROVE TypeOK'
  BY <1>25 DEF vars, TypeOK
<1> QED
  BY <1>1, <1>2, <1>3, <1>4, <1>5, <1>6, <1>7, <1>8, <1>9, <1>10, <1>11,
     <1>12, <1>13, <1>14, <1>15, <1>16, <1>17, <1>18, <1>19, <1>20, <1>21,
     <1>22, <1>23, <1>24, <1>25
  DEF Next, Advance, Fail, Repair

-----------------------------------------------------------------------------
(* What the two groups of actions with many alternatives do, stated once.  *)

\* What the start of a request p at point pc, for review r in the name of u,
\* changes, and what its checks on the row it read have established.
Started(p, r, pc, u) ==
  /\ req[p].pc = "idle"
  /\ req'[p].pc = pc /\ req'[p].review = r /\ req'[p].user = u
  /\ pc = "transfer" => req'[p].seen = task[r].status
  /\ \A q \in Requests : q # p => req'[q] = req[q]
  /\ UNCHANGED <<task, saga, oplog, commits, repair, consents>>

Loaded(p, r, pc, u) ==
  /\ Started(p, r, pc, u)
  /\ task[r].status # "none"
  /\ pc \in {"first", "execute", "reject"} => u \in Users
  /\ pc \in {"first", "execute"} =>
       task[r].status \in Active /\ (AuthEnabled => u # Submitter[r])
  /\ pc = "execute" /\ NeedsSecond(u, r) =>
       ~IsFirstApproval(r) /\ task[r].approvedBy # u

\* A request that begins has passed its checks on the row it read; nothing
\* else changes.
LEMMA LoadEffect ==
  ASSUME TypeOK, NEW p \in Requests, Load(p)
  PROVE  \E r \in Reviews, pc \in CasPoints, u \in MaybeUser :
           Loaded(p, r, pc, u)
<1>1. ASSUME NEW r \in Reviews, NEW pc, NEW u, NEW to, Start(p, pc, r, u, to)
      PROVE  Started(p, r, pc, u)
  BY <1>1 DEF Start, Started, TypeOK, records
<1>2. PICK u \in Users, r \in Reviews :
        LoadApprove(p, u, r) \/ LoadReject(p, u, r) \/ LoadAction(p, u, r)
  BY DEF Load
<1>3. /\ {"first", "execute", "reject", "expire", "revoke", "escalate",
          "transfer"} = CasPoints
      /\ u \in MaybeUser /\ NoUser \in MaybeUser
  BY DEF CasPoints, From, MaybeUser
<1>4. CASE LoadApprove(p, u, r)
  <2>1. PICK pc \in {"first", "execute"} :
          /\ Start(p, pc, r, u, NoUser)
          /\ pc = "execute" /\ NeedsSecond(u, r) =>
               ~IsFirstApproval(r) /\ task[r].approvedBy # u
    BY <1>4 DEF LoadApprove
  <2>2. Started(p, r, pc, u)
    BY <2>1, <1>1
  <2>3. task[r].status \in Active /\ (AuthEnabled => u # Submitter[r])
    BY <1>4 DEF LoadApprove
  <2> QED
    BY <2>1, <2>2, <2>3, <1>3 DEF Loaded, Active
<1>5. CASE LoadReject(p, u, r)
  <2>1. Started(p, r, "reject", u) /\ task[r].status # "none"
    BY <1>5, <1>1 DEF LoadReject, From, Active
  <2> QED
    BY <2>1, <1>3 DEF Loaded
<1>6. CASE LoadAction(p, u, r)
  <2>1. PICK pc \in {"expire", "revoke", "escalate", "transfer"},
             to \in Assignees \cup {NoUser} : Start(p, pc, r, NoUser, to)
    BY <1>6 DEF LoadAction
  <2>2. Started(p, r, pc, NoUser) /\ task[r].status # "none"
    BY <2>1, <1>1, <1>6 DEF LoadAction
  <2> QED
    BY <2>1, <2>2, <1>3 DEF Loaded
<1> QED
  BY <1>2, <1>4, <1>5, <1>6

\* What a routing action of p changes on its review r, which gets status s.
Routed(p, r, s) ==
  /\ req[p].pc # "idle"
  /\ task[r].status \in Active
  /\ task'[r].status = s
  /\ task'[r].approvedBy = task[r].approvedBy
  /\ s = "pending_second_approval" => task[r].approvedBy # NoUser
  /\ \A x \in Reviews : x # r => task'[x] = task[x]
  /\ req'[p] = IdleReq
  /\ \A q \in Requests : q # p => req'[q] = req[q]
  /\ UNCHANGED <<saga, oplog, commits, repair, consents>>

\* A routing action moves an active review to an active or closed status; to
\* pending_second_approval only if there was a first approval.
LEMMA RouteEffect ==
  ASSUME TypeOK, InFlightInv, ConsentInv, NEW p \in Requests, Route(p)
  PROVE  \E r \in Reviews, s \in Active \cup Closed :
           Routed(p, r, s)
<1> DEFINE r == req[p].review
<1>1. r \in Reviews /\ req[p].pc # "idle"
  BY ReviewOf DEF Route, Wins, CasPoints, From
<1>2. task[r].status \in Active
  BY DEF Route, Wins, From, Active
<1>3. PICK s \in Active \cup Closed, a \in MaybeUser :
        /\ \/ task' = [task EXCEPT ![r].status = s]
           \/ task' = [task EXCEPT ![r].status = s, ![r].assigned = a]
        /\ s = "pending_second_approval" => task[r].approvedBy # NoUser
  <2>1. CASE req[p].pc = "expire"
    <3>1. task' = [task EXCEPT ![r].status = "expired"]
      BY <2>1 DEF Route
    <3>2. "expired" \in Active \cup Closed /\ req[p].to \in MaybeUser
      BY <1>1, ReviewOf DEF Closed
    <3> QED
      BY <3>1, <3>2
  <2>2. CASE req[p].pc = "revoke"
    <3>1. task' = [task EXCEPT ![r].status = "revoked"]
      BY <2>2 DEF Route
    <3>2. "revoked" \in Active \cup Closed /\ req[p].to \in MaybeUser
      BY <1>1, ReviewOf DEF Closed
    <3> QED
      BY <3>1, <3>2
  <2>3. CASE req[p].pc = "escalate"
    BY <2>3, <1>1, ReviewOf DEF Route, Active
  <2>4. CASE req[p].pc = "transfer"
    <3>1. req[p].seen \in Active
      BY <1>2, <2>4 DEF ConsentInv, RequestConsent
    <3>2. req[p].seen = "pending_second_approval" => task[r].approvedBy # NoUser
      BY <2>4 DEF ConsentInv, RequestConsent
    <3> QED
      BY <3>1, <3>2, <2>4, <1>1, ReviewOf DEF Route
  <2> QED
    BY <2>1, <2>2, <2>3, <2>4 DEF Route
<1>4. /\ task'[r].status = s
      /\ task'[r].approvedBy = task[r].approvedBy
      /\ \A x \in Reviews : x # r => task'[x] = task[x]
  BY <1>1, <1>3 DEF TypeOK, TaskRow
<1>5. /\ req'[p] = IdleReq
      /\ \A q \in Requests : q # p => req'[q] = req[q]
      /\ UNCHANGED <<saga, oplog, commits, repair, consents>>
  BY DEF Route, Return, TypeOK
<1> QED
  BY <1>1, <1>2, <1>3, <1>4, <1>5 DEF Routed

-----------------------------------------------------------------------------
(* InFlightInv.                                                            *)

\* Nobody works on a review that was never submitted, and a repairer only on
\* one whose commit was counted.
LEMMA InFlightInduction ==
  ASSUME IInv, [Next]_vars
  PROVE  InFlightInv'
<1> USE DEF IInv, InFlightInv, TypeOK, TaskRow, RequestState, RepairState
<1>1. ASSUME NEW r \in Reviews, Submit(r) PROVE InFlightInv'
  BY <1>1 DEF Submit, NewTask
<1>2. ASSUME NEW r \in Reviews, ExpireOverdue(r) PROVE InFlightInv'
  BY <1>2 DEF ExpireOverdue
<1>3. ASSUME NEW p \in Requests, Load(p) PROVE InFlightInv'
  <2>1. PICK r \in Reviews, pc \in CasPoints, u \in MaybeUser :
          Loaded(p, r, pc, u)
    BY <1>3, LoadEffect
  <2>2. CasPoints \cap ({"record_first", "log_reject"} \cup Executing) = {}
    BY DEF CasPoints, From, Executing, Trying, Finishing, Undoing, Reporting
  <2> QED
    BY <2>1, <2>2 DEF Loaded, Started
<1>4. ASSUME NEW p \in Requests,
             TransitionRefused(p) \/ Abandon(p) \/ GiveUp(p)
      PROVE  InFlightInv'
  BY <1>4 DEF TransitionRefused, Abandon, GiveUp, Return, IdleReq, records,
     Executing, Trying, Finishing, Undoing, Reporting
<1>5. ASSUME NEW p \in Requests, FailBeforeCommit(p) PROVE InFlightInv'
  BY <1>5 DEF FailBeforeCommit, Goto, records, Executing, Trying
<1>6. ASSUME NEW p \in Requests, FailAfterCommit(p) PROVE InFlightInv'
  BY <1>6 DEF FailAfterCommit, Goto, records, Executing, Finishing
<1>7. ASSUME NEW p \in Requests, ClaimFirst(p) PROVE InFlightInv'
  BY <1>7 DEF ClaimFirst, Goto
<1>8. ASSUME NEW p \in Requests, ClaimExecution(p) PROVE InFlightInv'
  BY <1>8 DEF ClaimExecution, Goto
<1>9. ASSUME NEW p \in Requests, Reject(p) PROVE InFlightInv'
  BY <1>9 DEF Reject, Goto
<1>10. ASSUME NEW p \in Requests, Route(p) PROVE InFlightInv'
  <2>1. PICK r \in Reviews, s \in Active \cup Closed : Routed(p, r, s)
    BY <1>10, RouteEffect
  <2>2. s # "none"
    BY DEF Active, Closed
  <2>3. "idle" \notin Executing
    BY DEF Executing, Trying, Finishing, Undoing, Reporting
  <2>4. \A x \in Reviews : task[x].status # "none" => task'[x].status # "none"
    BY <2>1, <2>2 DEF Routed
  <2>5. \A q \in Requests : req'[q] = req[q] \/ req'[q].pc = "idle"
    BY <2>1 DEF Routed, IdleReq
  <2>6. UNCHANGED <<commits, repair>>
    BY <2>1 DEF Routed
  <2> QED
    BY <2>3, <2>4, <2>5, <2>6
<1>11. ASSUME NEW p \in Requests, RecordFirst(p) PROVE InFlightInv'
  BY <1>11 DEF RecordFirst, RecordApproval, Return, IdleReq, Executing,
     Trying, Finishing, Undoing, Reporting
<1>12. ASSUME NEW p \in Requests, LogReject(p) PROVE InFlightInv'
  BY <1>12 DEF LogReject, Return, IdleReq, Executing, Trying, Finishing,
     Undoing, Reporting
<1>13. ASSUME NEW p \in Requests, CreateSaga(p) PROVE InFlightInv'
  BY <1>13 DEF CreateSaga, Goto, Executing
<1>14. ASSUME NEW p \in Requests, RecordExecutor(p) PROVE InFlightInv'
  BY <1>14 DEF RecordExecutor, RecordApproval, Goto, Executing, Trying
<1>15. ASSUME NEW p \in Requests, TakeSnapshot(p) PROVE InFlightInv'
  BY <1>15 DEF TakeSnapshot, Goto, Executing, Trying
<1>16. ASSUME NEW p \in Requests, CommitTarget(p) PROVE InFlightInv'
  BY <1>16 DEF CommitTarget, Goto, Executing, Trying, records, ExecutionInv,
     Before
<1>17. ASSUME NEW p \in Requests, MarkCommitted(p) PROVE InFlightInv'
  BY <1>17 DEF MarkCommitted, Goto, Executing, Finishing
<1>18. ASSUME NEW p \in Requests, CompleteTask(p) PROVE InFlightInv'
  BY <1>18 DEF CompleteTask, Goto, Executing, Finishing
<1>19. ASSUME NEW p \in Requests, StoreResult(p) PROVE InFlightInv'
  BY <1>19 DEF StoreResult, Goto, Executing, Finishing
<1>20. ASSUME NEW p \in Requests, LogExecution(p) PROVE InFlightInv'
  BY <1>20 DEF LogExecution, Goto, Executing, Finishing
<1>21. ASSUME NEW p \in Requests, CloseSaga(p) PROVE InFlightInv'
  BY <1>21 DEF CloseSaga, Return, IdleReq, Executing, Trying, Finishing,
     Undoing, Reporting
<1>22. ASSUME NEW p \in Requests, UndoSaga(p) PROVE InFlightInv'
  BY <1>22 DEF UndoSaga, Goto, Executing, Undoing
<1>23. ASSUME NEW p \in Requests, ReportSaga(p) PROVE InFlightInv'
  BY <1>23 DEF ReportSaga, Goto, Executing, Reporting
<1>24. ASSUME NEW p \in Requests, UndoTask(p) PROVE InFlightInv'
  BY <1>24 DEF UndoTask, Return, IdleReq, Executing, Trying, Finishing,
     Undoing, Reporting
<1>25. ASSUME NEW p \in Requests, ReportTask(p) PROVE InFlightInv'
  BY <1>25 DEF ReportTask, Return, IdleReq, Executing, Trying, Finishing,
     Undoing, Reporting
<1>26. ASSUME NEW w \in Repairers, NEW r \in Reviews, RepairRead(w, r)
       PROVE  InFlightInv'
  BY <1>26 DEF RepairRead, records, RecordsInv
<1>27. ASSUME NEW w \in Repairers, NEW r \in Reviews, RepairTask(w, r)
       PROVE  InFlightInv'
  BY <1>27 DEF RepairTask
<1>28. ASSUME NEW w \in Repairers, NEW r \in Reviews, RepairLog(w, r)
       PROVE  InFlightInv'
  BY <1>28 DEF RepairLog
<1>29. ASSUME NEW w \in Repairers, NEW r \in Reviews, RepairClose(w, r)
       PROVE  InFlightInv'
  BY <1>29 DEF RepairClose, IdleRepair
<1>30. ASSUME NEW w \in Repairers, RepairFail(w) PROVE InFlightInv'
  BY <1>30 DEF RepairFail, IdleRepair, records
<1>31. ASSUME Crash PROVE InFlightInv'
  BY <1>31 DEF Crash, IdleReq, IdleRepair, records, Executing, Trying,
     Finishing, Undoing, Reporting
<1>32. ASSUME UNCHANGED vars PROVE InFlightInv'
  BY <1>32 DEF vars
<1> QED
  BY <1>1, <1>2, <1>3, <1>4, <1>5, <1>6, <1>7, <1>8, <1>9, <1>10, <1>11,
     <1>12, <1>13, <1>14, <1>15, <1>16, <1>17, <1>18, <1>19, <1>20, <1>21,
     <1>22, <1>23, <1>24, <1>25, <1>26, <1>27, <1>28, <1>29, <1>30, <1>31,
     <1>32 DEF Next, Advance, Fail, Repair


-----------------------------------------------------------------------------
(* ExecutionInv.                                                           *)

\* A step that moves no request into its execution, and touches no review in
\* execution, disturbs nothing an executing request relies on.
LEMMA ExecutionFrame ==
  ASSUME ExecutionInv,
         \A q \in Requests : req'[q] = req[q] \/ req'[q].pc \notin Executing,
         \A q \in Requests : req[q].pc \in Executing =>
           LET r == req[q].review IN
             /\ task'[r].status = task[r].status
             /\ saga'[r].state = saga[r].state
             /\ commits'[r] = commits[r]
  PROVE  ExecutionInv'
<1>1. /\ Before \subseteq Executing /\ After \subseteq Executing
      /\ {"claimed"} \cup Trying \subseteq Executing
  BY DEF Before, After, Executing
<1> QED
  BY <1>1 DEF ExecutionInv, SingleExecutor

\* The claim admits one request to the execution of a review, and only that
\* request or, after the commit, a repairer writes what it relies on.
LEMMA ExecutionInduction ==
  ASSUME IInv, [Next]_vars
  PROVE  ExecutionInv'
<1> USE DEF IInv, InFlightInv, TypeOK, TaskRow, RequestState
<1>1. ASSUME NEW r \in Reviews, Submit(r) PROVE ExecutionInv'
  BY <1>1 DEF Submit, NewTask, ExecutionInv, Executing, SingleExecutor
<1>2. ASSUME NEW r \in Reviews, ExpireOverdue(r) PROVE ExecutionInv'
  BY <1>2 DEF ExpireOverdue, ExecutionInv, SingleExecutor, RecordsInv, Before,
     After, Active, Unclaimed
<1>3. ASSUME NEW p \in Requests, Load(p) PROVE ExecutionInv'
  <2>1. PICK r \in Reviews, pc \in CasPoints, u \in MaybeUser :
          Loaded(p, r, pc, u)
    BY <1>3, LoadEffect
  <2>2. CasPoints \cap Executing = {}
    BY DEF CasPoints, From, Executing, Trying, Finishing, Undoing, Reporting
  <2> QED
    BY <2>1, <2>2, ExecutionFrame DEF Loaded, Started
<1>4. ASSUME NEW p \in Requests,
             TransitionRefused(p) \/ Abandon(p) \/ GiveUp(p)
      PROVE  ExecutionInv'
  <2>1. "idle" \notin Executing
    BY DEF Executing, Trying, Finishing, Undoing, Reporting
  <2> QED
    BY <1>4, <2>1, ExecutionFrame DEF TransitionRefused, Abandon, GiveUp, Return, IdleReq, records
<1>5. ASSUME NEW p \in Requests, FailBeforeCommit(p) PROVE ExecutionInv'
  BY <1>5 DEF FailBeforeCommit, Goto, records, ExecutionInv, SingleExecutor,
     Executing, Before, After, Trying, Undoing, Finishing, Reporting
<1>6. ASSUME NEW p \in Requests, FailAfterCommit(p) PROVE ExecutionInv'
  BY <1>6 DEF FailAfterCommit, Goto, records, ExecutionInv, SingleExecutor,
     Executing, Before, After, Trying, Undoing, Finishing, Reporting
<1>7. ASSUME NEW p \in Requests, ClaimFirst(p) PROVE ExecutionInv'
  BY <1>7 DEF ClaimFirst, Goto, Wins, From, ExecutionInv, SingleExecutor,
     RecordsInv, Executing, Before, After, Trying, Undoing, Finishing,
     Reporting, Active, Unclaimed
<1>8. ASSUME NEW p \in Requests, ClaimExecution(p) PROVE ExecutionInv'
  BY <1>8 DEF ClaimExecution, Goto, Wins, From, ExecutionInv, SingleExecutor,
     RecordsInv, Executing, Before, After, Trying, Undoing, Finishing,
     Reporting, Active, Unclaimed
<1>9. ASSUME NEW p \in Requests, Reject(p) PROVE ExecutionInv'
  BY <1>9 DEF Reject, Goto, Wins, From, ExecutionInv, SingleExecutor,
     RecordsInv, Executing, Before, After, Trying, Undoing, Finishing,
     Reporting, Active, Unclaimed
<1>10. ASSUME NEW p \in Requests, Route(p) PROVE ExecutionInv'
  <2>1. PICK r \in Reviews, s \in Active \cup Closed : Routed(p, r, s)
    BY <1>10, RouteEffect
  <2>2. "idle" \notin Executing
    BY DEF Executing, Trying, Finishing, Undoing, Reporting
  <2>3. \A q \in Requests : req[q].pc \in Executing => req[q].review # r
    BY <2>1 DEF Routed, ExecutionInv, RecordsInv, Executing, Before, After, Active, Unclaimed
  <2>4. \A q \in Requests : req'[q] = req[q] \/ req'[q].pc \notin Executing
    BY <2>1, <2>2 DEF Routed, IdleReq
  <2>5. \A q \in Requests : req[q].pc \in Executing => req[q].review \in Reviews
    BY <2>2
  <2> QED
    BY <2>1, <2>3, <2>4, <2>5, ExecutionFrame DEF Routed
<1>11. ASSUME NEW p \in Requests, RecordFirst(p) PROVE ExecutionInv'
  BY <1>11 DEF RecordFirst, RecordApproval, Return, IdleReq, ExecutionInv,
     SingleExecutor, Executing, Before, After, Trying, Undoing, Finishing,
     Reporting
<1>12. ASSUME NEW p \in Requests, LogReject(p) PROVE ExecutionInv'
  BY <1>12 DEF LogReject, Return, IdleReq, ExecutionInv, SingleExecutor,
     Executing, Before, After, Trying, Undoing, Finishing, Reporting
<1>13. ASSUME NEW p \in Requests, CreateSaga(p) PROVE ExecutionInv'
  BY <1>13 DEF CreateSaga, Goto, SagaRow, ExecutionInv, SingleExecutor,
     Executing, Before, After, Trying, Undoing, Finishing, Reporting
<1>14. ASSUME NEW p \in Requests, RecordExecutor(p) PROVE ExecutionInv'
  BY <1>14 DEF RecordExecutor, RecordApproval, Goto, ExecutionInv,
     SingleExecutor, Executing, Before, After, Trying, Undoing, Finishing,
     Reporting
<1>15. ASSUME NEW p \in Requests, TakeSnapshot(p) PROVE ExecutionInv'
  BY <1>15 DEF TakeSnapshot, Goto, SagaRow, ExecutionInv, SingleExecutor,
     Executing, Before, After, Trying, Undoing, Finishing, Reporting
<1>16. ASSUME NEW p \in Requests, CommitTarget(p) PROVE ExecutionInv'
  BY <1>16 DEF CommitTarget, Goto, records, ExecutionInv, SingleExecutor,
     Executing, Before, After, Trying, Undoing, Finishing, Reporting
<1>17. ASSUME NEW p \in Requests, MarkCommitted(p) PROVE ExecutionInv'
  BY <1>17 DEF MarkCommitted, Goto, SagaRow, ExecutionInv, SingleExecutor,
     Executing, Before, After, Trying, Undoing, Finishing, Reporting
<1>18. ASSUME NEW p \in Requests, CompleteTask(p) PROVE ExecutionInv'
  BY <1>18 DEF CompleteTask, Goto, ExecutionInv, SingleExecutor, Executing,
     Before, After, Trying, Undoing, Finishing, Reporting
<1>19. ASSUME NEW p \in Requests, StoreResult(p) PROVE ExecutionInv'
  BY <1>19 DEF StoreResult, Goto, ExecutionInv, SingleExecutor, Executing,
     Before, After, Trying, Undoing, Finishing, Reporting
<1>20. ASSUME NEW p \in Requests, LogExecution(p) PROVE ExecutionInv'
  BY <1>20 DEF LogExecution, Goto, ExecutionInv, SingleExecutor, Executing,
     Before, After, Trying, Undoing, Finishing, Reporting
<1>21. ASSUME NEW p \in Requests, CloseSaga(p) PROVE ExecutionInv'
  BY <1>21 DEF CloseSaga, Return, IdleReq, SagaRow, ExecutionInv,
     SingleExecutor, Executing, Before, After, Trying, Undoing, Finishing,
     Reporting
<1>22. ASSUME NEW p \in Requests, UndoSaga(p) PROVE ExecutionInv'
  BY <1>22 DEF UndoSaga, Goto, SagaRow, ExecutionInv, SingleExecutor,
     Executing, Before, After, Trying, Undoing, Finishing, Reporting
<1>23. ASSUME NEW p \in Requests, ReportSaga(p) PROVE ExecutionInv'
  BY <1>23 DEF ReportSaga, Goto, SagaRow, ExecutionInv, SingleExecutor,
     Executing, Before, After, Trying, Undoing, Finishing, Reporting
<1>24. ASSUME NEW p \in Requests, UndoTask(p) PROVE ExecutionInv'
  BY <1>24 DEF UndoTask, Return, IdleReq, ExecutionInv, SingleExecutor,
     Executing, Before, After, Trying, Undoing, Finishing, Reporting
<1>25. ASSUME NEW p \in Requests, ReportTask(p) PROVE ExecutionInv'
  BY <1>25 DEF ReportTask, Return, IdleReq, ExecutionInv, SingleExecutor,
     Executing, Before, After, Trying, Undoing, Finishing, Reporting
<1>26. ASSUME NEW w \in Repairers, NEW r \in Reviews, RepairRead(w, r)
       PROVE  ExecutionInv'
  BY <1>26 DEF RepairRead, records, ExecutionInv, SingleExecutor
<1>27. ASSUME NEW w \in Repairers, NEW r \in Reviews, RepairTask(w, r)
       PROVE  ExecutionInv'
  <2>1. commits[r] = 1
    BY <1>27 DEF RepairTask
  <2>2. \A x \in Reviews : x # r => task'[x].status = task[x].status
    BY <1>27 DEF RepairTask
  <2>3. UNCHANGED <<saga, commits, req>>
    BY <1>27 DEF RepairTask
  <2>4. "idle" \notin Before
    BY DEF Before, Trying, Undoing
  <2>5. \A q \in Requests : req[q].pc \in Before =>
          req[q].review \in Reviews /\ req[q].review # r
    BY <2>1, <2>4 DEF ExecutionInv
  <2>6. \A q \in Requests : req'[q].pc \in Before =>
          task'[req'[q].review].status = "executing" /\ commits'[req'[q].review] = 0
    BY <2>2, <2>3, <2>5 DEF ExecutionInv
  <2> QED
    BY <2>3, <2>6 DEF ExecutionInv, SingleExecutor
<1>28. ASSUME NEW w \in Repairers, NEW r \in Reviews, RepairLog(w, r)
       PROVE  ExecutionInv'
  BY <1>28 DEF RepairLog, ExecutionInv, SingleExecutor
<1>29. ASSUME NEW w \in Repairers, NEW r \in Reviews, RepairClose(w, r)
       PROVE  ExecutionInv'
  <2>1. commits[r] = 1
    BY <1>29 DEF RepairClose
  <2>2. \A x \in Reviews : x # r => saga'[x].state = saga[x].state
    BY <1>29 DEF RepairClose, SagaRow
  <2>3. UNCHANGED <<task, commits, req>>
    BY <1>29 DEF RepairClose
  <2>4. "idle" \notin Before /\ {"claimed"} \cup Trying \subseteq Before
    BY DEF Before, Trying, Undoing
  <2>5. \A q \in Requests : req[q].pc \in Before =>
          req[q].review \in Reviews /\ req[q].review # r
    BY <2>1, <2>4 DEF ExecutionInv
  <2>6. \A q \in Requests : req'[q].pc \in {"claimed"} \cup Trying =>
          saga'[req'[q].review].state \in {"none", "prepared", "backup_ready"}
    BY <2>2, <2>3, <2>4, <2>5 DEF ExecutionInv
  <2> QED
    BY <2>3, <2>6 DEF ExecutionInv, SingleExecutor
<1>30. ASSUME NEW w \in Repairers, RepairFail(w) PROVE ExecutionInv'
  BY <1>30 DEF RepairFail, records, ExecutionInv, SingleExecutor
<1>31. ASSUME Crash PROVE ExecutionInv'
  BY <1>31 DEF Crash, IdleReq, ExecutionInv, SingleExecutor, Executing,
     Before, After, Trying, Undoing, Finishing, Reporting
<1>32. ASSUME UNCHANGED vars PROVE ExecutionInv'
  BY <1>32 DEF vars, ExecutionInv, SingleExecutor
<1> QED
  BY <1>1, <1>2, <1>3, <1>4, <1>5, <1>6, <1>7, <1>8, <1>9, <1>10, <1>11,
     <1>12, <1>13, <1>14, <1>15, <1>16, <1>17, <1>18, <1>19, <1>20, <1>21,
     <1>22, <1>23, <1>24, <1>25, <1>26, <1>27, <1>28, <1>29, <1>30, <1>31,
     <1>32 DEF Next, Advance, Fail, Repair


-----------------------------------------------------------------------------
(* RecordsInv.                                                             *)

\* Status, saga and commits of a review stay in step: the executing request
\* is alone with them until the commit, and what comes later reports it.
LEMMA RecordsInduction ==
  ASSUME IInv, [Next]_vars
  PROVE  RecordsInv'
<1> USE DEF IInv, InFlightInv, TypeOK, RequestState
<1>1. ASSUME NEW r \in Reviews, Submit(r) PROVE RecordsInv'
  BY <1>1 DEF Submit, NewTask, RecordsInv, Unclaimed, Active, Closed, Reported
<1>2. ASSUME NEW r \in Reviews, ExpireOverdue(r) PROVE RecordsInv'
  BY <1>2 DEF ExpireOverdue, TaskRow, RecordsInv, Unclaimed, Active, Closed,
     Reported
<1>3. ASSUME NEW p \in Requests, Load(p) PROVE RecordsInv'
  <2>1. PICK r \in Reviews, pc \in CasPoints, u \in MaybeUser :
          Loaded(p, r, pc, u)
    BY <1>3, LoadEffect
  <2> QED
    BY <2>1 DEF Loaded, Started, RecordsInv
<1>4. ASSUME NEW p \in Requests,
             TransitionRefused(p) \/ Abandon(p) \/ GiveUp(p)
      PROVE  RecordsInv'
  BY <1>4 DEF TransitionRefused, Abandon, GiveUp, records, RecordsInv
<1>5. ASSUME NEW p \in Requests, FailBeforeCommit(p) \/ FailAfterCommit(p)
      PROVE  RecordsInv'
  BY <1>5 DEF FailBeforeCommit, FailAfterCommit, records, RecordsInv
<1>6. ASSUME NEW p \in Requests, ClaimFirst(p) PROVE RecordsInv'
  BY <1>6 DEF ClaimFirst, Wins, From, TaskRow, RecordsInv, Unclaimed, Active,
     Closed, Reported
<1>7. ASSUME NEW p \in Requests, ClaimExecution(p) PROVE RecordsInv'
  BY <1>7 DEF ClaimExecution, Wins, From, TaskRow, RecordsInv, Unclaimed,
     Active, Closed, Reported
<1>8. ASSUME NEW p \in Requests, Reject(p) PROVE RecordsInv'
  <2>1. req[p].review \in Reviews /\ task[req[p].review].status \in Active
    <3>1. req[p].review \in Reviews /\ task[req[p].review].status \in Statuses
      BY <1>8 DEF Reject, TaskRow
    <3>2. task[req[p].review].status \in Active \cup {"pending"}
      BY <1>8 DEF Reject, Wins, From
    <3>3. "pending" \notin Statuses
      BY StatusesAre
    <3> QED
      BY <3>1, <3>2, <3>3
  <2>2. \A x \in Reviews : task'[x].status =
          IF x = req[p].review THEN "rejected" ELSE task[x].status
    BY <1>8, <2>1 DEF Reject, TaskRow
  <2>3. UNCHANGED <<saga, commits>>
    BY <1>8 DEF Reject
  <2> QED
    BY <2>1, <2>2, <2>3 DEF RecordsInv, Unclaimed, Active, Closed, Reported
<1>9. ASSUME NEW p \in Requests, Route(p) PROVE RecordsInv'
  <2>1. PICK r \in Reviews, s \in Active \cup Closed : Routed(p, r, s)
    BY <1>9, RouteEffect
  <2> QED
    BY <2>1 DEF Routed, RecordsInv, Unclaimed, Active, Closed, Reported
<1>10. ASSUME NEW p \in Requests, RecordFirst(p) PROVE RecordsInv'
  BY <1>10 DEF RecordFirst, RecordApproval, TaskRow, RecordsInv
<1>11. ASSUME NEW p \in Requests, LogReject(p) \/ LogExecution(p)
       PROVE  RecordsInv'
  BY <1>11 DEF LogReject, LogExecution, RecordsInv
<1>12. ASSUME NEW p \in Requests, CreateSaga(p) PROVE RecordsInv'
  BY <1>12 DEF CreateSaga, Executing, ExecutionInv, Before, SagaRow,
     RecordsInv, Unclaimed, Active, Closed, Reported
<1>13. ASSUME NEW p \in Requests, RecordExecutor(p) PROVE RecordsInv'
  BY <1>13 DEF RecordExecutor, RecordApproval, TaskRow, RecordsInv
<1>14. ASSUME NEW p \in Requests, TakeSnapshot(p) PROVE RecordsInv'
  BY <1>14 DEF TakeSnapshot, Executing, Trying, ExecutionInv, Before, SagaRow,
     RecordsInv, Unclaimed, Active, Closed, Reported
<1>15. ASSUME NEW p \in Requests, CommitTarget(p) PROVE RecordsInv'
  <2>1. /\ req[p].review \in Reviews /\ task[req[p].review].status = "executing"
        /\ commits[req[p].review] = 0
        /\ saga[req[p].review].state \in {"none", "prepared", "backup_ready"}
    BY <1>15 DEF CommitTarget, Executing, Trying, ExecutionInv, Before
  <2>2. commits' = [commits EXCEPT ![req[p].review] = 1]
    BY <1>15, <2>1 DEF CommitTarget
  <2>3. UNCHANGED records
    BY <1>15 DEF CommitTarget
  <2> QED
    BY <2>1, <2>2, <2>3 DEF records, RecordsInv, Unclaimed, Active, Closed, Reported
<1>16. ASSUME NEW p \in Requests, MarkCommitted(p) PROVE RecordsInv'
  BY <1>16 DEF MarkCommitted, Executing, Finishing, ExecutionInv, After,
     SagaRow, RecordsInv, Unclaimed, Active, Closed, Reported
<1>17. ASSUME NEW p \in Requests, CompleteTask(p) PROVE RecordsInv'
  BY <1>17 DEF CompleteTask, Executing, Finishing, ExecutionInv, After,
     TaskRow, RecordsInv, Unclaimed, Active, Closed, Reported
<1>18. ASSUME NEW p \in Requests, StoreResult(p) PROVE RecordsInv'
  BY <1>18 DEF StoreResult, TaskRow, RecordsInv
<1>19. ASSUME NEW p \in Requests, CloseSaga(p) PROVE RecordsInv'
  BY <1>19 DEF CloseSaga, Executing, Finishing, ExecutionInv, After, SagaRow,
     RecordsInv, Unclaimed, Active, Closed, Reported
<1>20. ASSUME NEW p \in Requests, UndoSaga(p) PROVE RecordsInv'
  BY <1>20 DEF UndoSaga, Executing, Undoing, ExecutionInv, Before, SagaRow,
     RecordsInv, Unclaimed, Active, Closed, Reported
<1>21. ASSUME NEW p \in Requests, ReportSaga(p) PROVE RecordsInv'
  BY <1>21 DEF ReportSaga, Executing, Reporting, ExecutionInv, After, SagaRow,
     RecordsInv, Unclaimed, Active, Closed, Reported
<1>22. ASSUME NEW p \in Requests, UndoTask(p) PROVE RecordsInv'
  BY <1>22 DEF UndoTask, Executing, Undoing, ExecutionInv, Before, TaskRow,
     RecordsInv, Unclaimed, Active, Closed, Reported
<1>23. ASSUME NEW p \in Requests, ReportTask(p) PROVE RecordsInv'
  BY <1>23 DEF ReportTask, Executing, Reporting, ExecutionInv, After, TaskRow,
     RecordsInv, Unclaimed, Active, Closed, Reported
<1>24. ASSUME NEW w \in Repairers, NEW r \in Reviews, RepairRead(w, r)
       PROVE  RecordsInv'
  BY <1>24 DEF RepairRead, records, RecordsInv
<1>25. ASSUME NEW w \in Repairers, NEW r \in Reviews, RepairTask(w, r)
       PROVE  RecordsInv'
  <2>1. commits[r] = 1
    BY <1>25 DEF RepairTask
  <2>2. \A x \in Reviews : task'[x].status =
          IF x = r THEN "completed" ELSE task[x].status
    BY <1>25 DEF RepairTask, TaskRow
  <2>3. UNCHANGED <<saga, commits>>
    BY <1>25 DEF RepairTask
  <2> QED
    BY <2>1, <2>2, <2>3 DEF RecordsInv, Unclaimed, Active, Closed, Reported
<1>26. ASSUME NEW w \in Repairers, NEW r \in Reviews, RepairLog(w, r)
       PROVE  RecordsInv'
  BY <1>26 DEF RepairLog, RecordsInv
<1>27. ASSUME NEW w \in Repairers, NEW r \in Reviews, RepairClose(w, r)
       PROVE  RecordsInv'
  <2>1. commits[r] = 1
    BY <1>27 DEF RepairClose
  <2>2. \A x \in Reviews : saga'[x].state =
          IF x = r THEN "records_repaired" ELSE saga[x].state
    BY <1>27 DEF RepairClose, SagaRow
  <2>3. UNCHANGED <<task, commits>>
    BY <1>27 DEF RepairClose
  <2> QED
    BY <2>1, <2>2, <2>3 DEF RecordsInv, Unclaimed, Active, Closed, Reported
<1>28. ASSUME NEW w \in Repairers, RepairFail(w) PROVE RecordsInv'
  BY <1>28 DEF RepairFail, records, RecordsInv
<1>29. ASSUME Crash PROVE RecordsInv'
  BY <1>29 DEF Crash, records, RecordsInv
<1>30. ASSUME UNCHANGED vars PROVE RecordsInv'
  BY <1>30 DEF vars, RecordsInv
<1> QED
  BY <1>1, <1>2, <1>3, <1>4, <1>5, <1>6, <1>7, <1>8, <1>9, <1>10, <1>11,
     <1>12, <1>13, <1>14, <1>15, <1>16, <1>17, <1>18, <1>19, <1>20, <1>21,
     <1>22, <1>23, <1>24, <1>25, <1>26, <1>27, <1>28, <1>29, <1>30 DEF Next,
     Advance, Fail, Repair


-----------------------------------------------------------------------------
(* ConsentInv.                                                             *)

\* Consents are never withdrawn: what a request relied on still holds when no
\* review returns to an active status and none loses its approver.
LEMMA RequestFrame ==
  ASSUME InFlightInv, \A q \in Requests : RequestConsent(q),
         \A q \in Requests :
           req'[q] = req[q] \/ req'[q].pc \notin {"first", "execute", "transfer"},
         \A r \in Reviews : task[r].status # "none" =>
           /\ consents[r] \subseteq consents'[r]
           /\ task[r].status \notin Active => task'[r].status \notin Active
           /\ task'[r].approvedBy = NoUser => task[r].approvedBy = NoUser
  PROVE  \A q \in Requests : RequestConsent(q)'
<1> SUFFICES ASSUME NEW q \in Requests PROVE RequestConsent(q)'
  OBVIOUS
<1>1. CASE req'[q].pc \notin {"first", "execute", "transfer"}
  BY <1>1 DEF RequestConsent
<1>2. CASE req'[q] = req[q] /\ req[q].pc \in {"first", "execute", "transfer"}
  <2>1. req[q].review \in Reviews /\ task[req[q].review].status # "none"
    BY <1>2 DEF InFlightInv
  <2> QED
    BY <1>2, <2>1 DEF RequestConsent
<1> QED
  BY <1>1, <1>2

\* A step that starts no request, accepts no approval, and moves reviews only
\* out of the active statuses, disturbs no consent.
LEMMA ConsentFrame ==
  ASSUME ConsentInv, InFlightInv, UNCHANGED consents,
         \A q \in Requests :
           req'[q] = req[q] \/ req'[q].pc \notin {"first", "execute", "transfer"},
         \A r \in Reviews :
           \/ /\ task'[r].status = task[r].status
              /\ task'[r].approvedBy = task[r].approvedBy
           \/ /\ task'[r].status \notin Active
              /\ task'[r].status \in Unclaimed \/ task[r].status \notin Unclaimed
              /\ task'[r].approvedBy = NoUser => task[r].approvedBy = NoUser
  PROVE  ConsentInv'
<1>1. \A q \in Requests : RequestConsent(q)'
  BY RequestFrame DEF ConsentInv
<1>2. ASSUME NEW r \in Reviews PROVE ReviewConsent(r)'
  BY DEF ConsentInv, ReviewConsent, Quorum, Active
<1> QED
  BY <1>1, <1>2 DEF ConsentInv

\* Consents are collected from other people than the submitter, and two of
\* them before a two-person review is executed.
LEMMA ConsentInduction ==
  ASSUME IInv, [Next]_vars
  PROVE  ConsentInv'
<1> USE DEF IInv
<1>1. ASSUME NEW r \in Reviews, Submit(r) PROVE ConsentInv'
  <2>1. /\ \A x \in Reviews : x # r => task'[x] = task[x]
        /\ task'[r].status = "awaiting_review" /\ task'[r].approvedBy = NoUser
        /\ UNCHANGED <<req, consents>>
        /\ task[r].status = "none"
    BY <1>1 DEF Submit, NewTask, TypeOK
  <2>2. \A q \in Requests : req[q].pc # "idle" => req[q].review # r
    BY <2>1 DEF InFlightInv
  <2>3. \A q \in Requests : RequestConsent(q)'
    BY <2>1, <2>2 DEF ConsentInv, RequestConsent, InFlightInv
  <2>4. \A x \in Reviews : ReviewConsent(x)'
    BY <2>1 DEF ConsentInv, ReviewConsent, Quorum, Unclaimed, Active
  <2> QED
    BY <2>3, <2>4 DEF ConsentInv
<1>2. ASSUME NEW r \in Reviews, ExpireOverdue(r) PROVE ConsentInv'
  <2>1. /\ \A x \in Reviews : x # r => task'[x] = task[x]
        /\ task'[r].status = "expired"
        /\ task'[r].approvedBy = task[r].approvedBy
        /\ UNCHANGED <<req, consents>>
    BY <1>2 DEF ExpireOverdue, TypeOK, TaskRow
  <2>2. "expired" \in Unclaimed /\ "expired" \notin Active
    BY DEF Unclaimed, Active, Closed
  <2> QED
    BY <2>1, <2>2, ConsentFrame
<1>3. ASSUME NEW p \in Requests, Load(p) PROVE ConsentInv'
  <2>1. PICK r \in Reviews, pc \in CasPoints, u \in MaybeUser :
          Loaded(p, r, pc, u)
    BY <1>3, LoadEffect
  <2>2. UNCHANGED <<task, consents>> /\ \A q \in Requests : q # p => req'[q] = req[q]
    BY <2>1 DEF Loaded, Started
  <2>3. \A x \in Reviews : ReviewConsent(x)'
    BY <2>2 DEF ConsentInv, ReviewConsent, Quorum
  <2>4. pc = "execute" /\ AuthEnabled /\ TwoPerson[r] => \E v \in consents[r] : v # u
    <3> SUFFICES ASSUME pc = "execute", AuthEnabled, TwoPerson[r]
                 PROVE  task[r].approvedBy \in consents[r] /\ task[r].approvedBy # u
      OBVIOUS
    <3>1. /\ ~IsFirstApproval(r) /\ task[r].approvedBy # u
          /\ task[r].status \in Active
      BY <2>1 DEF Loaded, NeedsSecond
    <3>2. ReviewConsent(r)
      BY DEF ConsentInv
    <3>3. task[r].approvedBy # NoUser
      BY <3>1, <3>2 DEF IsFirstApproval, ReviewConsent, Active
    <3> QED
      BY <3>1, <3>2, <3>3 DEF ReviewConsent
  <2>5. pc = "transfer" /\ task[r].status = "pending_second_approval"
          => task[r].approvedBy # NoUser
    BY DEF ConsentInv, ReviewConsent
  <2>6. RequestConsent(p)'
    BY <2>1, <2>2, <2>4, <2>5 DEF Loaded, Started, RequestConsent
  <2>7. ASSUME NEW q \in Requests, q # p PROVE RequestConsent(q)'
    BY <2>2, <2>7 DEF ConsentInv, RequestConsent
  <2> QED
    BY <2>3, <2>6, <2>7 DEF ConsentInv
<1>4. ASSUME NEW p \in Requests,
             TransitionRefused(p) \/ Abandon(p) \/ GiveUp(p)
      PROVE  ConsentInv'
  <2>1. /\ UNCHANGED <<task, consents>>
        /\ \A q \in Requests : req'[q] = req[q] \/ req'[q].pc = "idle"
    BY <1>4 DEF TransitionRefused, Abandon, GiveUp, Return, IdleReq, records, TypeOK
  <2> QED
    BY <2>1, ConsentFrame
<1>5. ASSUME NEW p \in Requests, FailBeforeCommit(p) \/ FailAfterCommit(p)
      PROVE  ConsentInv'
  <2>1. /\ UNCHANGED <<task, consents>>
        /\ \A q \in Requests : \/ req'[q] = req[q]
                               \/ req'[q].pc \in {"undo_saga", "report_saga"}
    BY <1>5 DEF FailBeforeCommit, FailAfterCommit, Goto, records, TypeOK, RequestState
  <2> QED
    BY <2>1, ConsentFrame
<1>6. ASSUME NEW p \in Requests, ClaimFirst(p) PROVE ConsentInv'
  <2> DEFINE r == req[p].review
             u == req[p].user
  <2>1. r \in Reviews /\ u \in Users /\ u # NoUser
    BY <1>6, ConstantsAssumption DEF ClaimFirst, InFlightInv
  <2>2. \A x \in Reviews :
          IF x = r THEN /\ task[x].status \in {"awaiting_review", "escalated"}
                        /\ task'[x].status = "pending_second_approval"
                        /\ task'[x].approvedBy = u
                        /\ consents'[x] = consents[x] \cup {u}
          ELSE task'[x] = task[x] /\ consents'[x] = consents[x]
    BY <1>6, <2>1 DEF ClaimFirst, Wins, From, TypeOK, TaskRow
  <2>3. \A q \in Requests : req'[q] = req[q] \/ req'[q].pc = "record_first"
    BY <1>6 DEF ClaimFirst, Goto, TypeOK, RequestState
  <2>4. AuthEnabled => u # Submitter[r]
    BY <1>6 DEF ClaimFirst, ConsentInv, RequestConsent
  <2> HIDE DEF r, u
  <2>5. \A q \in Requests : RequestConsent(q)'
    BY <2>1, <2>2, <2>3, RequestFrame DEF ConsentInv, Active
  <2>6. ASSUME NEW x \in Reviews PROVE ReviewConsent(x)'
    BY <2>1, <2>2, <2>4 DEF ConsentInv, ReviewConsent, Quorum, Unclaimed, Active
  <2> QED
    BY <2>5, <2>6 DEF ConsentInv
<1>7. ASSUME NEW p \in Requests, ClaimExecution(p) PROVE ConsentInv'
  <2> DEFINE r == req[p].review
             u == req[p].user
  <2>1. r \in Reviews /\ u \in Users
    BY <1>7 DEF ClaimExecution, InFlightInv
  <2>2. \A x \in Reviews :
          IF x = r THEN /\ task'[x].status = "executing"
                        /\ task'[x].approvedBy = task[x].approvedBy
                        /\ consents'[x] = consents[x] \cup {u}
          ELSE task'[x] = task[x] /\ consents'[x] = consents[x]
    BY <1>7, <2>1 DEF ClaimExecution, TypeOK, TaskRow
  <2>3. \A q \in Requests : req'[q] = req[q] \/ req'[q].pc = "claimed"
    BY <1>7 DEF ClaimExecution, Goto, TypeOK, RequestState
  <2>4. /\ AuthEnabled => u # Submitter[r]
        /\ AuthEnabled /\ TwoPerson[r] => \E v \in consents[r] : v # u
    BY <1>7 DEF ClaimExecution, ConsentInv, RequestConsent
  <2> HIDE DEF r, u
  <2>5. \A q \in Requests : RequestConsent(q)'
    BY <2>1, <2>2, <2>3, RequestFrame DEF ConsentInv, Active
  <2>6. AuthEnabled /\ TwoPerson[r] => \E x, y \in consents'[r] : x # y
    BY <2>1, <2>2, <2>4
  <2>7. ASSUME NEW x \in Reviews PROVE ReviewConsent(x)'
    BY <2>1, <2>2, <2>4, <2>6 DEF ConsentInv, ReviewConsent, Quorum, Active
  <2> QED
    BY <2>5, <2>7 DEF ConsentInv
<1>8. ASSUME NEW p \in Requests, Reject(p) PROVE ConsentInv'
  <2>1. req[p].review \in Reviews /\ req[p].user # NoUser
    BY <1>8, ConstantsAssumption DEF Reject, InFlightInv
  <2>2. /\ \A x \in Reviews : x # req[p].review => task'[x] = task[x]
        /\ task'[req[p].review].status = "rejected"
        /\ task'[req[p].review].approvedBy = req[p].user
        /\ UNCHANGED consents
    BY <1>8, <2>1 DEF Reject, TypeOK, TaskRow
  <2>3. \A q \in Requests : req'[q] = req[q] \/ req'[q].pc = "log_reject"
    BY <1>8 DEF Reject, Goto, TypeOK, RequestState
  <2>4. "rejected" \in Unclaimed /\ "rejected" \notin Active
    BY DEF Unclaimed, Active, Closed
  <2> QED
    BY <2>1, <2>2, <2>3, <2>4, ConsentFrame
<1>9. ASSUME NEW p \in Requests, Route(p) PROVE ConsentInv'
  <2>1. PICK r \in Reviews, s \in Active \cup Closed : Routed(p, r, s)
    BY <1>9, RouteEffect
  <2>2. UNCHANGED consents /\ \A x \in Reviews : x # r => task'[x] = task[x]
    BY <2>1 DEF Routed
  <2>3. /\ task[r].status \in Active /\ task'[r].status = s
        /\ task'[r].approvedBy = task[r].approvedBy
        /\ s = "pending_second_approval" => task[r].approvedBy # NoUser
    BY <2>1 DEF Routed
  <2>4. \A q \in Requests : req'[q] = req[q] \/ req'[q].pc = "idle"
    BY <2>1 DEF Routed, IdleReq
  <2>5. \A q \in Requests : RequestConsent(q)'
    BY <2>2, <2>3, <2>4, RequestFrame DEF ConsentInv
  <2>6. s \in Unclaimed
    BY DEF Unclaimed
  <2>7. ASSUME NEW x \in Reviews PROVE ReviewConsent(x)'
    BY <2>2, <2>3, <2>6 DEF ConsentInv, ReviewConsent, Quorum
  <2> QED
    BY <2>5, <2>7 DEF ConsentInv
<1>10. ASSUME NEW p \in Requests, RecordFirst(p) PROVE ConsentInv'
  <2>1. \A x \in Reviews : /\ task'[x].status = task[x].status
                           /\ task'[x].approvedBy = task[x].approvedBy
    BY <1>10 DEF RecordFirst, RecordApproval, TypeOK, TaskRow
  <2>2. \A q \in Requests : req'[q] = req[q] \/ req'[q].pc = "idle"
    BY <1>10 DEF RecordFirst, Return, IdleReq, TypeOK
  <2>3. UNCHANGED consents
    BY <1>10 DEF RecordFirst
  <2> QED
    BY <2>1, <2>2, <2>3, ConsentFrame
<1>11. ASSUME NEW p \in Requests, RecordExecutor(p) PROVE ConsentInv'
  <2>1. \A x \in Reviews : /\ task'[x].status = task[x].status
                           /\ task'[x].approvedBy = task[x].approvedBy
    BY <1>11 DEF RecordExecutor, RecordApproval, TypeOK, TaskRow
  <2>2. \A q \in Requests : req'[q] = req[q] \/ req'[q].pc \in {"snapshot", "write"}
    BY <1>11 DEF RecordExecutor, Goto, TypeOK, RequestState
  <2>3. UNCHANGED consents
    BY <1>11 DEF RecordExecutor
  <2> QED
    BY <2>1, <2>2, <2>3, ConsentFrame
<1>12. ASSUME NEW p \in Requests,
              LogReject(p) \/ LogExecution(p) \/ CloseSaga(p)
       PROVE  ConsentInv'
  <2>1. /\ UNCHANGED <<task, consents>>
        /\ \A q \in Requests : req'[q] = req[q] \/ req'[q].pc \in {"idle", "close"}
    BY <1>12 DEF LogReject, LogExecution, CloseSaga, Return, IdleReq, Goto, TypeOK, RequestState
  <2> QED
    BY <2>1, ConsentFrame
<1>13. ASSUME NEW p \in Requests,
              CreateSaga(p) \/ TakeSnapshot(p) \/ CommitTarget(p) \/ MarkCommitted(p)
       PROVE  ConsentInv'
  <2>1. /\ UNCHANGED <<task, consents>>
        /\ \A q \in Requests :
             \/ req'[q] = req[q]
             \/ req'[q].pc \in {"recording", "write", "committed", "complete"}
    BY <1>13 DEF CreateSaga, TakeSnapshot, CommitTarget, MarkCommitted, Goto, records, TypeOK, RequestState
  <2> QED
    BY <2>1, ConsentFrame
<1>14. ASSUME NEW p \in Requests, CompleteTask(p) \/ StoreResult(p)
       PROVE  ConsentInv'
  <2>1. req[p].review \in Reviews /\ req[p].user # NoUser
    BY <1>14, ConstantsAssumption DEF CompleteTask, StoreResult, InFlightInv, Executing, Finishing
  <2>2. /\ \A x \in Reviews : x # req[p].review => task'[x] = task[x]
        /\ \/ /\ task'[req[p].review].status = task[req[p].review].status
              /\ task'[req[p].review].approvedBy = task[req[p].review].approvedBy
           \/ /\ task'[req[p].review].status = "completed"
              /\ task'[req[p].review].approvedBy = req[p].user
        /\ UNCHANGED consents
    <3>1. CASE CompleteTask(p)
      BY <2>1, <3>1 DEF CompleteTask, TypeOK, TaskRow
    <3>2. CASE StoreResult(p)
      BY <2>1, <3>2 DEF StoreResult, TypeOK, TaskRow
    <3> QED
      BY <1>14, <3>1, <3>2
  <2>3. \A q \in Requests : req'[q] = req[q] \/ req'[q].pc \in {"result", "log"}
    BY <1>14 DEF CompleteTask, StoreResult, Goto, TypeOK, RequestState
  <2>4. commits[req[p].review] = 1
    BY <1>14 DEF CompleteTask, StoreResult, ExecutionInv, After, Finishing
  <2>5. task[req[p].review].status \notin Unclaimed /\ "completed" \notin Active
    BY <2>1, <2>4 DEF RecordsInv, Active
  <2> QED
    BY <2>1, <2>2, <2>3, <2>5, ConsentFrame
<1>15. ASSUME NEW p \in Requests, UndoSaga(p) \/ ReportSaga(p)
       PROVE  ConsentInv'
  <2>1. /\ UNCHANGED <<task, consents>>
        /\ \A q \in Requests : \/ req'[q] = req[q]
                               \/ req'[q].pc \in {"undo_task", "report_task"}
    BY <1>15 DEF UndoSaga, ReportSaga, Goto, TypeOK, RequestState
  <2> QED
    BY <2>1, ConsentFrame
<1>16. ASSUME NEW p \in Requests, UndoTask(p) \/ ReportTask(p)
       PROVE  ConsentInv'
  <2>1. req[p].review \in Reviews
    BY <1>16, ReviewOf DEF UndoTask, ReportTask
  <2>2. /\ \A x \in Reviews : x # req[p].review => task'[x] = task[x]
        /\ task'[req[p].review].status \in {"failed", "executed_record_pending"}
        /\ task'[req[p].review].approvedBy = task[req[p].review].approvedBy
        /\ UNCHANGED consents
    <3>1. CASE UndoTask(p)
      BY <3>1, <2>1 DEF UndoTask, TypeOK, TaskRow
    <3>2. CASE ReportTask(p)
      BY <3>2, <2>1 DEF ReportTask, TypeOK, TaskRow
    <3> QED
      BY <1>16, <3>1, <3>2
  <2>3. \A q \in Requests : req'[q] = req[q] \/ req'[q].pc = "idle"
    BY <1>16 DEF UndoTask, ReportTask, Return, IdleReq, TypeOK
  <2>4. \/ task[req[p].review].status = "executing"
        \/ commits[req[p].review] = 1
    BY <1>16 DEF UndoTask, ReportTask, ExecutionInv, Before, After, Undoing, Reporting
  <2>5. task[req[p].review].status \notin Unclaimed
    BY <2>1, <2>4 DEF RecordsInv, Unclaimed, Active, Closed
  <2>6. {"failed", "executed_record_pending"} \cap Active = {}
    BY DEF Active
  <2> QED
    BY <2>1, <2>2, <2>3, <2>5, <2>6, ConsentFrame
<1>17. ASSUME NEW w \in Repairers, NEW r \in Reviews,
              RepairRead(w, r) \/ RepairLog(w, r) \/ RepairClose(w, r)
       PROVE  ConsentInv'
  <2>1. UNCHANGED <<task, req, consents>>
    BY <1>17 DEF RepairRead, RepairLog, RepairClose, records
  <2> QED
    BY <2>1, ConsentFrame
<1>18. ASSUME NEW w \in Repairers, NEW r \in Reviews, RepairTask(w, r)
       PROVE  ConsentInv'
  <2>1. commits[r] = 1
    BY <1>18 DEF RepairTask, InFlightInv
  <2>2. task[r].status \notin Unclaimed /\ "completed" \notin Active
    BY <2>1 DEF RecordsInv, Active
  <2>3. /\ \A x \in Reviews : x # r => task'[x] = task[x]
        /\ task'[r].status = "completed"
        /\ task'[r].approvedBy = IfSet(repair[w].approvedBy, NoUser, task[r].approvedBy)
        /\ UNCHANGED <<req, consents>>
    BY <1>18 DEF RepairTask, TypeOK, TaskRow
  <2>4. task'[r].approvedBy = NoUser => task[r].approvedBy = NoUser
    BY <2>3 DEF IfSet
  <2> QED
    BY <2>2, <2>3, <2>4, ConsentFrame
<1>19. ASSUME NEW w \in Repairers, RepairFail(w) PROVE ConsentInv'
  <2>1. UNCHANGED <<task, req, consents>>
    BY <1>19 DEF RepairFail, records
  <2> QED
    BY <2>1, ConsentFrame
<1>20. ASSUME Crash PROVE ConsentInv'
  <2>1. UNCHANGED <<task, consents>> /\ \A q \in Requests : req'[q].pc = "idle"
    BY <1>20 DEF Crash, IdleReq, records
  <2> QED
    BY <2>1, ConsentFrame
<1>21. ASSUME UNCHANGED vars PROVE ConsentInv'
  <2>1. UNCHANGED <<task, req, consents>>
    BY <1>21 DEF vars
  <2> QED
    BY <2>1, ConsentFrame
<1> QED
  BY <1>1, <1>2, <1>3, <1>4, <1>5, <1>6, <1>7, <1>8, <1>9, <1>10, <1>11,
     <1>12, <1>13, <1>14, <1>15, <1>16, <1>17, <1>18, <1>19, <1>20, <1>21 DEF
     Next, Advance, Fail, Repair


-----------------------------------------------------------------------------
(* The theorems.                                                           *)

\* No review has been submitted and nothing is in flight at first.
LEMMA IInvInit ==
  ASSUME Init
  PROVE  IInv
<1>1. TypeOK
  BY TypeInit
<1>2. "idle" \notin Executing
  BY DEF Executing, Trying, Finishing, Undoing, Reporting
<1>3. InFlightInv
  BY <1>2 DEF Init, InFlightInv, IdleReq, IdleRepair
<1>4. ExecutionInv
  BY <1>2 DEF Init, ExecutionInv, SingleExecutor, IdleReq, Before, After,
     Executing
<1>5. RecordsInv
  <2> SUFFICES ASSUME NEW r \in Reviews
               PROVE  /\ commits[r] \in {0, 1}
                      /\ task[r].status \in Unclaimed =>
                           commits[r] = 0 /\ saga[r].state = "none"
                      /\ commits[r] = 1 => task[r].status \in Reported
                      /\ task[r].status \in {"completed", "executed_record_pending"}
                           => commits[r] = 1
                      /\ saga[r].state \in {"target_committed", "records_repaired"}
                           => commits[r] = 1
                      /\ saga[r].state = "target_rolled_back" => commits[r] = 0
    BY DEF RecordsInv
  <2>1. commits[r] = 0 /\ task[r].status = "none" /\ saga[r].state = "none"
    BY DEF Init, NoTask, NewTask, NoSaga
  <2> QED
    BY <2>1
<1>6. ConsentInv
  BY DEF Init, ConsentInv, ReviewConsent, RequestConsent, NoTask, NewTask,
     IdleReq, Unclaimed, Active
<1> QED
  BY <1>1, <1>3, <1>4, <1>5, <1>6 DEF IInv

\* The invariant behind the safety properties holds in every reachable state
\* of the review workflow, whatever requests, repairers, failures and crashes
\* interleave.
THEOREM Invariance == Spec => []IInv
<1>1. Init => IInv
  BY IInvInit
<1>2. IInv /\ [Next]_vars => IInv'
  BY TypeInduction, InFlightInduction, ExecutionInduction, RecordsInduction,
     ConsentInduction DEF IInv
<1> QED
  BY <1>1, <1>2, PTL DEF Spec

\* The rows of the review, saga and log tables and the local state of every
\* request and repairer keep their shapes.
THEOREM TypeCorrect == Spec => []TypeOK
<1>1. IInv => TypeOK
  BY DEF IInv
<1> QED
  BY <1>1, Invariance, PTL

\* The business SQL of a review is committed at most once.
THEOREM AtMostOnce == Spec => []CommittedAtMostOnce
<1>1. ASSUME IInv PROVE CommittedAtMostOnce
  <2> SUFFICES ASSUME NEW r \in Reviews PROVE commits[r] <= 1
    BY DEF CommittedAtMostOnce
  <2>1. commits[r] \in {0, 1}
    BY <1>1 DEF IInv, RecordsInv
  <2> QED
    BY <2>1
<1> QED
  BY <1>1, Invariance, PTL

\* At most one request is past the execution claim of a review.
THEOREM OneExecutor == Spec => []SingleExecutor
<1>1. IInv => SingleExecutor
  BY DEF IInv, ExecutionInv
<1> QED
  BY <1>1, Invariance, PTL

\* Nothing is committed without the consent of somebody else than its
\* submitter, nor a high-risk write without that of two people.
THEOREM FourEyesKept == Spec => []FourEyes
<1>1. ASSUME IInv PROVE FourEyes
  <2> SUFFICES ASSUME NEW r \in Reviews, AuthEnabled, commits[r] > 0
               PROVE  /\ Submitter[r] \notin consents[r]
                      /\ TwoPerson[r] => \E u, v \in consents[r] : u # v
    BY DEF FourEyes
  <2>1. task[r].status \notin Unclaimed
    BY <1>1 DEF IInv, RecordsInv
  <2>2. ReviewConsent(r)
    BY <1>1 DEF IInv, ConsentInv
  <2> QED
    BY <2>1, <2>2 DEF ReviewConsent, Quorum
<1> QED
  BY <1>1, Invariance, PTL

\* The status of a review tells the truth about the target database.
THEOREM StatusIsTrue == Spec => []StatusTellsTarget
<1>1. ASSUME IInv PROVE StatusTellsTarget
  <2> SUFFICES ASSUME NEW r \in Reviews
               PROVE  /\ task[r].status \in {"completed", "executed_record_pending"}
                           => commits[r] > 0
                      /\ task[r].status \in Active \cup Closed \cup {"none", "failed"}
                           => commits[r] = 0
    BY DEF StatusTellsTarget
  <2> QED
    BY <1>1 DEF IInv, RecordsInv, Unclaimed, Reported
<1> QED
  BY <1>1, Invariance, PTL

\* The state of a saga tells the truth about the target database, so that
\* only a committed write is offered to the repairer.
THEOREM SagaIsTrue == Spec => []SagaTellsTarget
<1>1. ASSUME IInv PROVE SagaTellsTarget
  <2> SUFFICES ASSUME NEW r \in Reviews
               PROVE  /\ saga[r].state \in {"target_committed", "records_repaired"}
                           => commits[r] > 0
                      /\ saga[r].state = "target_rolled_back" => commits[r] = 0
    BY DEF SagaTellsTarget
  <2> QED
    BY <1>1 DEF IInv, RecordsInv
<1> QED
  BY <1>1, Invariance, PTL

=============================================================================
