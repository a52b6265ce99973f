--------------------------- MODULE ReviewWorkflow ---------------------------
(***************************************************************************)
(* The review workflow of backend/api/db_operations.py: a write submitted  *)
(* by an operator is approved by one or two other people, executed on the  *)
(* target database under an execution saga, and, when the process fails    *)
(* after the target commit, repaired by a background worker.               *)
(*                                                                         *)
(* Every request is a coroutine: it reads the task, decides, and then      *)
(* writes in several transactions with awaits between them.  One action    *)
(* below is one committed transaction of the application database (or of   *)
(* the target database), so every interleaving of requests, repairers,     *)
(* failures and crashes between two transactions is a behaviour.           *)
(*                                                                         *)
(* _transition_review_task is followed by _emit_domain_event, which        *)
(* appends an event and a notification nothing here reads back: only its   *)
(* failure matters, and Abandon covers it.                                 *)
(***************************************************************************)
EXTENDS Naturals, Sequences

CONSTANTS
  Reviews,        \* review task ids
  Users,          \* user ids
  Requests,       \* slots for requests in flight
  Repairers,      \* tasks that repair records: the loop and admin requests
  Loop,           \* the repairer that is main._saga_recovery_loop
  NoUser,         \* NULL in a user column
  Submitter,      \* Submitter[r]: submitted_by
  TwoPerson,      \* TwoPerson[r]: _requires_second_approval
  Snapshots,      \* Snapshots[r]: affected_rows > 0 and the SQL has a WHERE
  Approvers,      \* users whose role is approver
  Admins,         \* users whose role is admin
  Assignees,      \* users a review is assigned to
  AncestorUsers,  \* users acting from an ancestor of the task's organization
  AuthEnabled,    \* auth_enabled(request)
  MultiTenant     \* settings.multi_tenant_enabled

ASSUME ConstantsAssumption ==
  /\ NoUser \notin Users
  /\ Loop \in Repairers
  /\ Submitter \in [Reviews -> Users]
  /\ TwoPerson \in [Reviews -> BOOLEAN]
  /\ Snapshots \in [Reviews -> BOOLEAN]
  /\ Approvers \subseteq Users
  /\ Admins \subseteq Users
  /\ Assignees \subseteq Users
  /\ AncestorUsers \subseteq Users
  /\ AuthEnabled \in BOOLEAN
  /\ MultiTenant \in BOOLEAN

VARIABLES
  task,      \* db_review_tasks
  saga,      \* db_execution_sagas
  oplog,     \* db_operation_logs rows that carry the review id
  commits,   \* how often the SQL was committed on the target database
  req,       \* requests in flight
  repair,    \* repairers in flight
  consents   \* history: users whose approval the code accepted

vars == <<task, saga, oplog, commits, req, repair, consents>>
records == <<task, saga, oplog>>

-----------------------------------------------------------------------------
(* Data *)

Active == {"awaiting_review", "pending_second_approval", "escalated"}
Closed == {"rejected", "revoked", "expired"}
Statuses == Active \cup Closed \cup
  {"none", "executing", "completed", "failed", "executed_record_pending"}
SagaStates == {"none", "prepared", "backup_ready", "target_committed",
               "target_rolled_back", "records_repaired"}
MaybeUser == Users \cup {NoUser}

NewTask == [status |-> "awaiting_review", approvedBy |-> NoUser,
            first |-> NoUser, second |-> NoUser, assigned |-> NoUser,
            backup |-> "none", result |-> "none"]
NoTask == [NewTask EXCEPT !.status = "none"]
NoSaga == [state |-> "none", backup |-> "none", org |-> "home"]

\* Mutant of From: a review in execution can still be rejected.
FromWhileExecuting ==
  [first    |-> {"awaiting_review", "escalated"},
   execute  |-> Active,
   reject   |-> Active \cup {"pending", "executing"},
   expire   |-> Active,
   revoke   |-> Active,
   escalate |-> {"awaiting_review", "pending_second_approval"},
   transfer |-> Active]

\* The statuses a request's compare-and-set accepts, by the point it is at.
From == [first    |-> {"awaiting_review", "escalated"},
         execute  |-> Active,
         reject   |-> Active \cup {"pending"},
         expire   |-> Active,
         revoke   |-> Active,
         escalate |-> {"awaiting_review", "pending_second_approval"},
         transfer |-> Active]
CasPoints == DOMAIN From

\* Mutant of Trying: target_committed is set only after the marker is stored.
TryingUntilMarked == {"recording", "snapshot", "write", "committed"}

\* Points before the target commit inside the try block, after it, and the
\* points of the two exception paths.
Trying    == {"recording", "snapshot", "write"}
Finishing == {"committed", "complete", "result", "log", "close"}
Undoing   == {"undo_saga", "undo_task"}
Reporting == {"report_saga", "report_task"}
Executing == {"claimed"} \cup Trying \cup Finishing \cup Undoing \cup Reporting
Points == {"idle", "record_first", "log_reject"} \cup CasPoints \cup Executing

TaskRow == [status : Statuses, approvedBy : MaybeUser, first : MaybeUser,
            second : MaybeUser, assigned : MaybeUser,
            backup : {"none", "saved"}, result : {"none", "stored"}]
SagaRow == [state : SagaStates, backup : {"none", "saved"},
            org : {"home", "ancestor"}]
LogRow == [status : {"completed", "rejected"}, approvedBy : MaybeUser]
RequestState == [pc : Points, review : Reviews \cup {"none"},
                 user : MaybeUser, seen : Statuses, to : MaybeUser]
RepairState == [pc : {"idle", "task", "log", "close"},
                review : Reviews \cup {"none"}, approvedBy : MaybeUser,
                after : {"log", "close"}, backup : {"none", "saved"}]

IdleReq == [pc |-> "idle", review |-> "none", user |-> NoUser,
            seen |-> "none", to |-> NoUser]
IdleRepair == [pc |-> "idle", review |-> "none", approvedBy |-> NoUser,
               after |-> "close", backup |-> "none"]

CanReview(u) == AuthEnabled => u \in Approvers \cup Admins
CanRoute(u) == u \in Approvers \cup Admins

\* The task is free, or assigned to u, or u is an admin.
AssignedOk(u, r) == task[r].assigned \in {NoUser, u} \/ u \in Admins

\* The backup_id a snapshot leaves, and a column that is only overwritten by
\* a value (if backup_id: task.backup_id = backup_id).
BackupOf(r) == IF Snapshots[r] THEN "saved" ELSE "none"
IfSet(new, null, old) == IF new = null THEN old ELSE new

OrgOf(u) == IF u \in AncestorUsers THEN "ancestor" ELSE "home"

Goto(p, pc) == req' = [req EXCEPT ![p].pc = pc]
Return(p) == req' = [req EXCEPT ![p] = IdleReq]
\* A request keeps of its user and of the row it read only what it uses.
Start(p, pc, r, u, to) ==
  /\ req[p].pc = "idle"
  /\ req' = [req EXCEPT ![p] =
       [pc |-> pc, review |-> r, user |-> u, to |-> to,
        seen |-> IF pc \in {"execute", "transfer"} THEN task[r].status ELSE "none"]]
  /\ UNCHANGED <<records, commits, repair, consents>>

Init ==
  /\ task = [r \in Reviews |-> NoTask]
  /\ saga = [r \in Reviews |-> NoSaga]
  /\ oplog = [r \in Reviews |-> <<>>]
  /\ commits = [r \in Reviews |-> 0]
  /\ req = [p \in Requests |-> IdleReq]
  /\ repair = [w \in Repairers |-> IdleRepair]
  /\ consents = [r \in Reviews |-> {}]

-----------------------------------------------------------------------------
(* Submission, and the reads with which every request begins.  A read that *)
(* fails a check answers 4xx and changes nothing: it is a stuttering step. *)

Submit(r) ==
  /\ task[r].status = "none"
  /\ task' = [task EXCEPT ![r] = NewTask]
  /\ UNCHANGED <<saga, oplog, commits, req, repair, consents>>

NeedsSecond(u, r) == AuthEnabled /\ TwoPerson[r]

\* A two-person review nobody has approved yet: this approval is the first.
IsFirstApproval(r) ==
  /\ task[r].status \in {"awaiting_review", "escalated"}
  /\ task[r].approvedBy = NoUser

\* Mutant of LoadApprove: the second approver may be the first one.
LoadApproveTwice(p, u, r) ==
  /\ CanReview(u)
  /\ task[r].status \in Active
  /\ AssignedOk(u, r)
  /\ AuthEnabled => u # Submitter[r]
  /\ Start(p, IF NeedsSecond(u, r) /\ IsFirstApproval(r)
              THEN "first" ELSE "execute", r, u, NoUser)

LoadApprove(p, u, r) ==
  /\ CanReview(u)
  /\ task[r].status \in Active
  /\ AssignedOk(u, r)
  /\ AuthEnabled => u # Submitter[r]
  /\ \/ /\ NeedsSecond(u, r)
        /\ IsFirstApproval(r)
        /\ Start(p, "first", r, u, NoUser)
     \/ /\ NeedsSecond(u, r) => ~IsFirstApproval(r) /\ task[r].approvedBy # u
        /\ Start(p, "execute", r, u, NoUser)

LoadReject(p, u, r) ==
  /\ CanReview(u)
  /\ task[r].status \in From.reject
  /\ AssignedOk(u, r)
  /\ Start(p, "reject", r, u, NoUser)

LoadAction(p, u, r) ==
  /\ task[r].status # "none"
  /\ \/ CanRoute(u) /\ Start(p, "expire", r, NoUser, NoUser)
     \/ u \in Admins \cup {Submitter[r]} /\ Start(p, "revoke", r, NoUser, NoUser)
     \/ CanRoute(u) /\ \E to \in Assignees \cup {NoUser} : Start(p, "escalate", r, NoUser, to)
     \/ CanRoute(u) /\ \E to \in Assignees : Start(p, "transfer", r, NoUser, to)

-----------------------------------------------------------------------------
(* The compare-and-set of _transition_review_task.                         *)

Wins(p) == /\ req[p].pc \in CasPoints
           /\ task[req[p].review].status \in From[req[p].pc]

\* The row is no longer in an accepted status: 409.
TransitionRefused(p) ==
  /\ req[p].pc \in CasPoints
  /\ ~Wins(p)
  /\ Return(p)
  /\ UNCHANGED <<records, commits, repair, consents>>

ClaimFirst(p) ==
  LET r == req[p].review IN
  /\ req[p].pc = "first" /\ Wins(p)
  /\ task' = [task EXCEPT ![r].status = "pending_second_approval",
                          ![r].approvedBy = req[p].user]
  /\ consents' = [consents EXCEPT ![r] = @ \cup {req[p].user}]
  /\ Goto(p, "record_first")
  /\ UNCHANGED <<saga, oplog, commits, repair>>

\* Mutant of ClaimExecution: an unconditional update instead of the
\* compare-and-set.
ClaimExecutionBlindly(p) ==
  LET r == req[p].review IN
  /\ req[p].pc = "execute"
  /\ task' = [task EXCEPT ![r].status = "executing"]
  /\ consents' = [consents EXCEPT ![r] = @ \cup {req[p].user}]
  /\ Goto(p, "claimed")
  /\ UNCHANGED <<saga, oplog, commits, repair>>

ClaimExecution(p) ==
  LET r == req[p].review IN
  /\ req[p].pc = "execute" /\ Wins(p)
  /\ task' = [task EXCEPT ![r].status = "executing"]
  /\ consents' = [consents EXCEPT ![r] = @ \cup {req[p].user}]
  /\ Goto(p, "claimed")
  /\ UNCHANGED <<saga, oplog, commits, repair>>

Reject(p) ==
  LET r == req[p].review IN
  /\ req[p].pc = "reject" /\ Wins(p)
  /\ task' = [task EXCEPT ![r].status = "rejected",
                          ![r].approvedBy = req[p].user]
  /\ Goto(p, "log_reject")
  /\ UNCHANGED <<saga, oplog, commits, repair, consents>>

\* Routing actions.  A transfer writes back the status it read.
Route(p) ==
  LET r == req[p].review IN
  /\ Wins(p)
  /\ \/ /\ req[p].pc = "expire"
        /\ task' = [task EXCEPT ![r].status = "expired"]
     \/ /\ req[p].pc = "revoke"
        /\ task' = [task EXCEPT ![r].status = "revoked"]
     \/ /\ req[p].pc = "escalate"
        /\ task' = [task EXCEPT ![r].status = "escalated",
                                ![r].assigned = req[p].to]
     \/ /\ req[p].pc = "transfer"
        /\ task' = [task EXCEPT ![r].status = req[p].seen,
                                ![r].assigned = req[p].to]
  /\ Return(p)
  /\ UNCHANGED <<saga, oplog, commits, repair, consents>>

\* Mutant of ExpireOverdue: a review in execution expires too.
ExpireOverdueExecuting(r) ==
  /\ task[r].status \in Active \cup {"executing"}
  /\ task' = [task EXCEPT ![r].status = "expired"]
  /\ UNCHANGED <<saga, oplog, commits, req, repair, consents>>

\* The recovery loop expires a task whose expires_at has passed.
ExpireOverdue(r) ==
  /\ task[r].status \in Active
  /\ task' = [task EXCEPT ![r].status = "expired"]
  /\ UNCHANGED <<saga, oplog, commits, req, repair, consents>>

\* _record_approval finds the task only in the caller's own organization.
RecordApproval(r, u, isFirst) ==
  task' = CASE OrgOf(u) # "home" -> task
            [] OrgOf(u) = "home" /\ isFirst -> [task EXCEPT ![r].first = u]
            [] OTHER -> [task EXCEPT ![r].second = u]

RecordFirst(p) ==
  /\ req[p].pc = "record_first"
  /\ RecordApproval(req[p].review, req[p].user, TRUE)
  /\ Return(p)
  /\ UNCHANGED <<saga, oplog, commits, repair, consents>>

\* The rejection is logged on a best-effort basis.
LogReject(p) ==
  /\ req[p].pc = "log_reject"
  /\ oplog' = [oplog EXCEPT ![req[p].review] =
       Append(@, [status |-> "rejected", approvedBy |-> req[p].user])]
  /\ Return(p)
  /\ UNCHANGED <<task, saga, commits, repair, consents>>

\* A request outside the try block dies on an exception (also a saga that
\* exists already, a connector that is down, an event that cannot be stored).
Abandon(p) ==
  /\ req[p].pc \in CasPoints \cup {"record_first", "log_reject", "claimed"}
  /\ Return(p)
  /\ UNCHANGED <<records, commits, repair, consents>>

-----------------------------------------------------------------------------
(* The execution: approve_review after its claim.                          *)

CreateSaga(p) ==
  LET r == req[p].review IN
  /\ req[p].pc = "claimed"
  /\ saga[r].state = "none"
  /\ saga' = [saga EXCEPT ![r] =
       [state |-> "prepared", backup |-> "none", org |-> OrgOf(req[p].user)]]
  /\ Goto(p, "recording")
  /\ UNCHANGED <<task, oplog, commits, repair, consents>>

RecordExecutor(p) ==
  LET r == req[p].review IN
  /\ req[p].pc = "recording"
  /\ RecordApproval(r, req[p].user, req[p].seen # "pending_second_approval")
  /\ Goto(p, IF Snapshots[r] THEN "snapshot" ELSE "write")
  /\ UNCHANGED <<saga, oplog, commits, repair, consents>>

\* Mutant of TakeSnapshot: the outbox marker is written before the commit.
TakeSnapshotMarksEarly(p) ==
  LET r == req[p].review IN
  /\ req[p].pc = "snapshot"
  /\ saga' = [saga EXCEPT ![r].state = "target_committed", ![r].backup = "saved"]
  /\ Goto(p, "write")
  /\ UNCHANGED <<task, oplog, commits, repair, consents>>

TakeSnapshot(p) ==
  LET r == req[p].review IN
  /\ req[p].pc = "snapshot"
  /\ saga' = [saga EXCEPT ![r].state = "backup_ready", ![r].backup = "saved"]
  /\ Goto(p, "write")
  /\ UNCHANGED <<task, oplog, commits, repair, consents>>

CommitTarget(p) ==
  /\ req[p].pc = "write"
  /\ commits' = [commits EXCEPT ![req[p].review] = @ + 1]
  /\ Goto(p, "committed")
  /\ UNCHANGED <<records, repair, consents>>

MarkCommitted(p) ==
  LET r == req[p].review IN
  /\ req[p].pc = "committed"
  /\ saga' = [saga EXCEPT ![r].state = "target_committed",
                          ![r].backup = BackupOf(r)]
  /\ Goto(p, "complete")
  /\ UNCHANGED <<task, oplog, commits, repair, consents>>

CompleteTask(p) ==
  LET r == req[p].review IN
  /\ req[p].pc = "complete"
  /\ task' = [task EXCEPT ![r].status = "completed",
                          ![r].approvedBy = req[p].user,
                          ![r].backup = IfSet(BackupOf(r), "none", @)]
  /\ Goto(p, "result")
  /\ UNCHANGED <<saga, oplog, commits, repair, consents>>

StoreResult(p) ==
  /\ req[p].pc = "result"
  /\ task' = [task EXCEPT ![req[p].review].result = "stored"]
  /\ Goto(p, "log")
  /\ UNCHANGED <<saga, oplog, commits, repair, consents>>

LogExecution(p) ==
  /\ req[p].pc = "log"
  /\ oplog' = [oplog EXCEPT ![req[p].review] =
       Append(@, [status |-> "completed", approvedBy |-> req[p].user])]
  /\ Goto(p, "close")
  /\ UNCHANGED <<task, saga, commits, repair, consents>>

CloseSaga(p) ==
  /\ req[p].pc = "close"
  /\ saga' = [saga EXCEPT ![req[p].review].state = "records_repaired"]
  /\ Return(p)
  /\ UNCHANGED <<task, oplog, commits, repair, consents>>

-----------------------------------------------------------------------------
(* Its exception paths.                                                    *)

FailBeforeCommit(p) ==
  /\ req[p].pc \in Trying
  /\ Goto(p, "undo_saga")
  /\ UNCHANGED <<records, commits, repair, consents>>

FailAfterCommit(p) ==
  /\ req[p].pc \in Finishing
  /\ Goto(p, "report_saga")
  /\ UNCHANGED <<records, commits, repair, consents>>

UndoSaga(p) ==
  /\ req[p].pc = "undo_saga"
  /\ saga' = [saga EXCEPT ![req[p].review].state = "target_rolled_back"]
  /\ Goto(p, "undo_task")
  /\ UNCHANGED <<task, oplog, commits, repair, consents>>

UndoTask(p) ==
  /\ req[p].pc = "undo_task"
  /\ task' = [task EXCEPT ![req[p].review].status = "failed"]
  /\ Return(p)
  /\ UNCHANGED <<saga, oplog, commits, repair, consents>>

ReportSaga(p) ==
  LET r == req[p].review IN
  /\ req[p].pc = "report_saga"
  /\ saga' = [saga EXCEPT ![r].state = "target_committed",
                          ![r].backup = BackupOf(r)]
  /\ Goto(p, "report_task")
  /\ UNCHANGED <<task, oplog, commits, repair, consents>>

\* Mutant of ReportTask: a status the rest of the program does not know.
ReportTaskUnknown(p) ==
  /\ req[p].pc = "report_task"
  /\ task' = [task EXCEPT ![req[p].review].status = "record_pending"]
  /\ Return(p)
  /\ UNCHANGED <<saga, oplog, commits, repair, consents>>

ReportTask(p) ==
  LET r == req[p].review IN
  /\ req[p].pc = "report_task"
  /\ task' = [task EXCEPT ![r].status = "executed_record_pending",
                          ![r].backup = IfSet(BackupOf(r), "none", @)]
  /\ Return(p)
  /\ UNCHANGED <<saga, oplog, commits, repair, consents>>

\* A failure inside an exception path is only logged.
GiveUp(p) ==
  /\ req[p].pc \in Undoing \cup Reporting
  /\ Return(p)
  /\ UNCHANGED <<records, commits, repair, consents>>

-----------------------------------------------------------------------------
(* _repair_committed_execution.  The loop acts in the saga's organization  *)
(* and finds the task only if that is also the task's; an admin acts in    *)
(* the task's.                                                             *)

\* Mutants of RepairRead: a completed task is taken to be logged; only tasks
\* the executor reported itself are repaired.
RepairReadTrustsStatus(w, r) ==
  /\ repair[w].pc = "idle"
  /\ saga[r].state = "target_committed"
  /\ w = Loop => saga[r].org = "home"
  /\ repair' = [repair EXCEPT ![w] =
       [pc |-> "task", review |-> r, approvedBy |-> task[r].approvedBy,
        after |-> IF task[r].status = "completed" THEN "close" ELSE "log",
        backup |-> saga[r].backup]]
  /\ UNCHANGED <<records, commits, req, consents>>

RepairReadReported(w, r) ==
  /\ repair[w].pc = "idle"
  /\ saga[r].state = "target_committed"
  /\ task[r].status = "executed_record_pending"
  /\ w = Loop => saga[r].org = "home"
  /\ repair' = [repair EXCEPT ![w] =
       [pc |-> "task", review |-> r, approvedBy |-> task[r].approvedBy,
        after |-> IF oplog[r] = <<>> THEN "log" ELSE "close", backup |-> saga[r].backup]]
  /\ UNCHANGED <<records, commits, req, consents>>

RepairRead(w, r) ==
  /\ repair[w].pc = "idle"
  /\ saga[r].state = "target_committed"
  /\ w = Loop => saga[r].org = "home"
  /\ repair' = [repair EXCEPT ![w] =
       [pc |-> "task", review |-> r, approvedBy |-> task[r].approvedBy,
        after |-> IF oplog[r] = <<>> THEN "log" ELSE "close", backup |-> saga[r].backup]]
  /\ UNCHANGED <<records, commits, req, consents>>

\* Mutants of RepairTask: recovery replays the SQL; it forgets the backup.
RepairTaskReplays(w, r) ==
  /\ repair[w].pc = "task" /\ repair[w].review = r
  /\ task' = [task EXCEPT ![r].status = "completed"]
  /\ commits' = [commits EXCEPT ![r] = @ + 1]
  /\ repair' = [repair EXCEPT ![w].pc = repair[w].after]
  /\ UNCHANGED <<saga, oplog, req, consents>>

RepairTaskForgetsBackup(w, r) ==
  /\ repair[w].pc = "task" /\ repair[w].review = r
  /\ task' = [task EXCEPT ![r].status = "completed"]
  /\ repair' = [repair EXCEPT ![w].pc = repair[w].after]
  /\ UNCHANGED <<saga, oplog, commits, req, consents>>

RepairTask(w, r) ==
  /\ repair[w].pc = "task" /\ repair[w].review = r
  /\ task' = [task EXCEPT ![r].status = "completed",
                          ![r].approvedBy = IfSet(repair[w].approvedBy, NoUser, @),
                          ![r].backup = IfSet(repair[w].backup, "none", @)]
  /\ repair' = [repair EXCEPT ![w].pc = repair[w].after]
  /\ UNCHANGED <<saga, oplog, commits, req, consents>>

\* _get_backup_mgr asks create_connector for a connector, although the entry
\* goes to the application database.  In multi-tenant mode the loop, which has
\* no organization context, finds one only if somebody cached it under the
\* bare tenant and version 1, and fails (RepairFail) on every pass otherwise.
RepairLog(w, r) ==
  /\ repair[w].pc = "log" /\ repair[w].review = r
  /\ oplog' = [oplog EXCEPT ![r] =
       Append(@, [status |-> "completed", approvedBy |-> repair[w].approvedBy])]
  /\ repair' = [repair EXCEPT ![w].pc = "close"]
  /\ UNCHANGED <<task, saga, commits, req, consents>>

RepairClose(w, r) ==
  /\ repair[w].pc = "close" /\ repair[w].review = r
  /\ saga' = [saga EXCEPT ![r].state = "records_repaired"]
  /\ repair' = [repair EXCEPT ![w] = IdleRepair]
  /\ UNCHANGED <<task, oplog, commits, req, consents>>

RepairFail(w) ==
  /\ repair[w].pc # "idle"
  /\ repair' = [repair EXCEPT ![w] = IdleRepair]
  /\ UNCHANGED <<records, commits, req, consents>>

\* The process dies and restarts: every coroutine is lost, every row stays.
Crash ==
  /\ req' = [p \in Requests |-> IdleReq]
  /\ repair' = [w \in Repairers |-> IdleRepair]
  /\ UNCHANGED <<records, commits, consents>>

-----------------------------------------------------------------------------
Load(p) == \E u \in Users, r \in Reviews :
  LoadApprove(p, u, r) \/ LoadReject(p, u, r) \/ LoadAction(p, u, r)

\* The steps that take a request in flight forward when nothing fails.
Advance(p) ==
  \/ TransitionRefused(p) \/ ClaimFirst(p) \/ ClaimExecution(p)
  \/ Reject(p) \/ Route(p) \/ RecordFirst(p) \/ LogReject(p)
  \/ CreateSaga(p) \/ RecordExecutor(p) \/ TakeSnapshot(p)
  \/ CommitTarget(p) \/ MarkCommitted(p) \/ CompleteTask(p)
  \/ StoreResult(p) \/ LogExecution(p) \/ CloseSaga(p)
  \/ UndoSaga(p) \/ UndoTask(p) \/ ReportSaga(p) \/ ReportTask(p)

Fail(p) == Abandon(p) \/ FailBeforeCommit(p) \/ FailAfterCommit(p) \/ GiveUp(p)

Repair(w, r) ==
  RepairRead(w, r) \/ RepairTask(w, r) \/ RepairLog(w, r) \/ RepairClose(w, r)

Next ==
  \/ \E r \in Reviews : Submit(r) \/ ExpireOverdue(r)
  \/ \E p \in Requests : Load(p) \/ Advance(p) \/ Fail(p)
  \/ \E w \in Repairers : RepairFail(w) \/ \E r \in Reviews : Repair(w, r)
  \/ Crash

Spec == Init /\ [][Next]_vars

(* Requests in flight are scheduled; users are never obliged to act.  The  *)
(* loop runs at start-up and every minute, and a step of it does not hang. *)
(* A fault of the application database is transient: a step of the repair  *)
(* that is reached again and again succeeds in the end.  Of RepairLog this *)
(* holds in single-tenant mode only, in which create_connector builds what *)
(* it does not find.                                                       *)
Fairness ==
  /\ \A p \in Requests : WF_vars(Advance(p))
  /\ WF_vars(RepairFail(Loop) \/ \E r \in Reviews : Repair(Loop, r))
  /\ \A r \in Reviews :
       /\ SF_vars(RepairRead(Loop, r))
       /\ SF_vars(RepairTask(Loop, r))
       /\ SF_vars(RepairClose(Loop, r))
  /\ MultiTenant \/ \A r \in Reviews : SF_vars(RepairLog(Loop, r))

FairSpec == Spec /\ Fairness

-----------------------------------------------------------------------------
(* Properties *)

\* Every variable keeps the shape of the rows and the local state it models.
TypeOK ==
  /\ task \in [Reviews -> TaskRow]
  /\ saga \in [Reviews -> SagaRow]
  /\ oplog \in [Reviews -> Seq(LogRow)]
  /\ commits \in [Reviews -> Nat]
  /\ req \in [Requests -> RequestState]
  /\ repair \in [Repairers -> RepairState]
  /\ consents \in [Reviews -> SUBSET Users]

\* The business SQL is committed at most once, whatever approvals race,
\* whatever fails after the commit and however often recovery runs.
CommittedAtMostOnce == \A r \in Reviews : commits[r] <= 1

\* At most one request is past the execution claim of a review.
SingleExecutor ==
  \A p, q \in Requests :
    /\ req[p].pc \in Executing
    /\ req[q].pc \in Executing
    /\ req[p].review = req[q].review
    => p = q

\* What was committed was never consented to by its submitter, and a
\* high-risk write by two different people, although each approval decides
\* on a row it read before other approvals, escalations and transfers.
FourEyes ==
  \A r \in Reviews :
    AuthEnabled /\ commits[r] > 0 =>
      /\ Submitter[r] \notin consents[r]
      /\ TwoPerson[r] => \E u, v \in consents[r] : u # v

\* The status tells the truth about the target: a completed or pending
\* review was committed, a failed, closed or still open one was not.
StatusTellsTarget ==
  \A r \in Reviews :
    /\ task[r].status \in {"completed", "executed_record_pending"}
         => commits[r] > 0
    /\ task[r].status \in Active \cup Closed \cup {"none", "failed"}
         => commits[r] = 0

\* Only a committed write is offered to the repairer.
SagaTellsTarget ==
  \A r \in Reviews :
    /\ saga[r].state \in {"target_committed", "records_repaired"}
         => commits[r] > 0
    /\ saga[r].state = "target_rolled_back" => commits[r] = 0

\* A completed review whose rows were snapshotted names its backup, through
\* the executor's records or through the repairer's: it can be rolled back.
CompletedNamesBackup ==
  \A r \in Reviews :
    task[r].status \in {"completed", "executed_record_pending"} /\ Snapshots[r]
      => task[r].backup = "saved"

\* A saga is closed only over a complete operation log.
ClosedSagaIsLogged ==
  \A r \in Reviews :
    saga[r].state = "records_repaired" =>
      \E i \in DOMAIN oplog[r] : oplog[r][i].status = "completed"

\* The decision of a review is final: nothing reopens a closed or failed
\* review, and a committed one only moves between its two reported states.
DecisionsAreFinal ==
  [][\A r \in Reviews :
       /\ task[r].status \in Closed \cup {"failed"}
            => task'[r].status = task[r].status
       /\ commits[r] > 0 => task'[r].status \in
            {"executing", "completed", "executed_record_pending"}]_vars

\* A refinement of ReviewPromise.
phase == [r \in Reviews |->
  CASE commits[r] > 0               -> "applied"
    [] commits[r] = 0 /\ task[r].status = "none"      -> "none"
    [] commits[r] = 0 /\ task[r].status \in Active    -> "open"
    [] commits[r] = 0 /\ task[r].status \in Closed    -> "closed"
    [] commits[r] = 0 /\ task[r].status = "failed"    -> "failed"
    [] OTHER                                          -> "running"]

Promise == INSTANCE ReviewPromise WITH votes <- consents, effect <- commits

\* The workflow keeps the promise step by step.
KeepsPromise == Promise!Spec

\* Once the saga says so, the records of a committed execution that was
\* approved in the task's own organization are repaired in the end.  In
\* multi-tenant mode this does not hold: RepairLog may fail for ever.
CommittedIsRepaired ==
  \A r \in Reviews :
    saga[r].state = "target_committed" /\ saga[r].org = "home"
      ~> saga[r].state = "records_repaired"

-----------------------------------------------------------------------------
(* The inductive invariant behind the safety properties.                   *)

Before == {"claimed"} \cup Trying \cup Undoing
After  == Finishing \cup Reporting
Unclaimed == Active \cup Closed \cup {"none"}
Reported == {"executing", "completed", "executed_record_pending"}

Quorum(r) == AuthEnabled /\ TwoPerson[r] => \E u, v \in consents[r] : u # v

\* A request or repairer in flight works on a submitted review, a request in somebody's
\* name wherever it records one, a repairer only on a committed review.
InFlightInv ==
  /\ \A p \in Requests :
       /\ req[p].pc # "idle" => /\ req[p].review \in Reviews
                                /\ task[req[p].review].status # "none"
       /\ req[p].pc \in {"first", "execute", "record_first", "reject",
                         "log_reject"} \cup Executing => req[p].user \in Users
  /\ \A w \in Repairers :
       repair[w].pc # "idle" =>
         repair[w].review \in Reviews /\ commits[repair[w].review] = 1

\* What an executing request knows of its review: until the commit nobody
\* else has touched status, saga and target, and afterwards it is committed.
ExecutionInv ==
  /\ SingleExecutor
  /\ \A p \in Requests : LET r == req[p].review IN
       /\ req[p].pc \in Before =>
            task[r].status = "executing" /\ commits[r] = 0
       /\ req[p].pc \in {"claimed"} \cup Trying =>
            saga[r].state \in {"none", "prepared", "backup_ready"}
       /\ req[p].pc \in After => commits[r] = 1

\* Status, saga and target of one review.
RecordsInv ==
  \A r \in Reviews :
    /\ commits[r] \in {0, 1}
    /\ task[r].status \in Unclaimed => commits[r] = 0 /\ saga[r].state = "none"
    /\ commits[r] = 1 => task[r].status \in Reported
    /\ task[r].status \in {"completed", "executed_record_pending"}
         => commits[r] = 1
    /\ saga[r].state \in {"target_committed", "records_repaired"}
         => commits[r] = 1
    /\ saga[r].state = "target_rolled_back" => commits[r] = 0

\* Who has consented to a review.
ReviewConsent(r) ==
  /\ AuthEnabled => Submitter[r] \notin consents[r]
  /\ task[r].status \in Active /\ task[r].approvedBy # NoUser
       => task[r].approvedBy \in consents[r]
  /\ task[r].status = "pending_second_approval" => task[r].approvedBy # NoUser
  /\ task[r].status \notin Unclaimed => Quorum(r)

\* What a request that read the task relies on, when it decides later.
RequestConsent(p) ==
  LET r == req[p].review IN
  /\ req[p].pc \in {"first", "execute"} /\ AuthEnabled
       => req[p].user # Submitter[r]
  /\ req[p].pc = "execute" /\ AuthEnabled /\ TwoPerson[r]
       => \E v \in consents[r] : v # req[p].user
  /\ req[p].pc = "transfer" =>
       /\ req[p].seen \in Active \/ task[r].status \notin Active
       /\ req[p].seen = "pending_second_approval" => task[r].approvedBy # NoUser

ConsentInv ==
  /\ \A r \in Reviews : ReviewConsent(r)
  /\ \A p \in Requests : RequestConsent(p)

IInv == TypeOK /\ InFlightInv /\ ExecutionInv /\ RecordsInv /\ ConsentInv

\* Beyond IInv: where the backup of a committed review is kept, and that a
\* saga marked as committed is never unmarked.
Marked == {"target_committed", "records_repaired"}

BackupInv ==
  /\ \A r \in Reviews : Snapshots[r] =>
       /\ saga[r].state \in Marked => saga[r].backup = "saved"
       /\ task[r].status \in {"completed", "executed_record_pending"}
            => task[r].backup = "saved"
  /\ \A p \in Requests :
       req[p].pc \in {"complete", "result", "log", "close"}
         => saga[req[p].review].state \in Marked
  /\ \A w \in Repairers : repair[w].pc # "idle" =>
       /\ saga[repair[w].review].state \in Marked
       /\ Snapshots[repair[w].review] => repair[w].backup = "saved"

\* Who is about to close a saga has found or written its completed entry; a
\* rejection is only logged for a rejected review.
Logged(r, status) == \E i \in DOMAIN oplog[r] : oplog[r][i].status = status

LogInv ==
  /\ \A r \in Reviews :
       /\ Logged(r, "rejected") => task[r].status = "rejected"
       /\ saga[r].state = "records_repaired" => Logged(r, "completed")
  /\ \A p \in Requests :
       /\ req[p].pc = "log_reject" => task[req[p].review].status = "rejected"
       /\ req[p].pc = "close" => Logged(req[p].review, "completed")
  /\ \A w \in Repairers :
       \/ repair[w].pc = "close"
       \/ repair[w].pc = "task" /\ repair[w].after = "close"
       => Logged(repair[w].review, "completed")

-----------------------------------------------------------------------------
(* What the repository says of the code, and the code does not keep.       *)

\* docs/organization-resource-scope-inventory.md: saga repair works in the
\* organization of the resource.  It works in that of the approver, and so
\* never finds the task of a review approved from an ancestor organization.
CommittedIsRepairedAnywhere ==
  \A r \in Reviews :
    saga[r].state = "target_committed" ~> saga[r].state = "records_repaired"

\* README.md: the background task repairs the review record of a committed
\* execution.  A repairer that closes the saga between the two writes of the
\* executor's exception path leaves executed_record_pending for good: the
\* property is in no run, see the README.
PendingIsRepaired ==
  \A r \in Reviews :
    task[r].status = "executed_record_pending" /\ saga[r].org = "home"
      ~> task[r].status = "completed"

\* _record_approval: first and second approver are persisted separately.
\* After an escalation the second approver overwrites the first: the property
\* is in no run, see the README.
FirstApproverKept ==
  [][\A r \in Reviews :
       task[r].first # NoUser => task'[r].first = task[r].first]_vars
=============================================================================
