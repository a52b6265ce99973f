------------------------ MODULE ReviewPromiseProofs -------------------------
(***************************************************************************)
(* Proof that ReviewWorkflow implements ReviewPromise and that decisions   *)
(* are final.  Every step of the workflow is first sorted by what it does  *)
(* to the status, the commits and the consents of one review; both         *)
(* theorems then follow from the sort of the step alone.                   *)
(***************************************************************************)
EXTENDS ReviewWorkflowProofs

-----------------------------------------------------------------------------
(* The sorts of steps.                                                     *)

\* The status of r goes from one of a set to one of another, no other does.
StatusMoves(r, from, to) ==
  /\ task[r].status \in from
  /\ task'[r].status \in to
  /\ \A x \in Reviews : x # r => task'[x].status = task[x].status

Consents(r, u) == consents' = [consents EXCEPT ![r] = @ \cup {u}]

Silent == /\ \A x \in Reviews : task'[x].status = task[x].status
          /\ UNCHANGED <<commits, consents>>
Opens(r) == /\ StatusMoves(r, {"none"}, {"awaiting_review"})
            /\ UNCHANGED <<commits, consents>>
Routes(r) == StatusMoves(r, Active, Active) /\ UNCHANGED <<commits, consents>>
Closes(r) == StatusMoves(r, Active, Closed) /\ UNCHANGED <<commits, consents>>
Votes(r, u) == /\ StatusMoves(r, Active, Active)
               /\ Consents(r, u)
               /\ UNCHANGED commits
Runs(r, u) == /\ StatusMoves(r, Active, {"executing"})
              /\ Consents(r, u)
              /\ UNCHANGED commits
Fails(r) == /\ StatusMoves(r, {"executing"}, {"failed"})
            /\ commits[r] = 0
            /\ UNCHANGED <<commits, consents>>
Applies(r) == /\ StatusMoves(r, {"executing"}, {"executing"})
              /\ commits[r] = 0
              /\ commits' = [commits EXCEPT ![r] = @ + 1]
              /\ UNCHANGED consents
Reports(r) == /\ StatusMoves(r, Reported, Reported)
              /\ commits[r] = 1
              /\ UNCHANGED <<commits, consents>>

Sorted ==
  \/ Silent
  \/ \E r \in Reviews :
       \/ Opens(r) \/ Routes(r) \/ Closes(r) \/ Fails(r) \/ Applies(r)
       \/ Reports(r)
       \/ \E u \in Users : Votes(r, u) \/ Runs(r, u)

\* A review with a commit has a reported status.
LEMMA CommittedIsReported ==
  ASSUME IInv, NEW r \in Reviews, commits[r] = 1
  PROVE  task[r].status \in Reported
  BY DEF IInv, RecordsInv

\* Every step of the workflow is of one of these sorts.
LEMMA StepsAreSorted ==
  ASSUME IInv, [Next]_vars
  PROVE  Sorted
<1> USE DEF IInv, InFlightInv, TypeOK, RequestState
<1>1. ASSUME NEW r \in Reviews, Submit(r) PROVE Opens(r)
  BY <1>1 DEF Submit, NewTask, Opens, StatusMoves
<1>2. ASSUME NEW r \in Reviews, ExpireOverdue(r) PROVE Closes(r)
  BY <1>2 DEF ExpireOverdue, TaskRow, Closes, StatusMoves, Closed
<1>3. ASSUME NEW p \in Requests, Load(p) PROVE Silent
  <2>1. PICK r \in Reviews, pc \in CasPoints, u \in MaybeUser :
          Loaded(p, r, pc, u)
    BY <1>3, LoadEffect
  <2> QED
    BY <2>1 DEF Loaded, Started, Silent
<1>4. ASSUME NEW p \in Requests,
             \/ TransitionRefused(p) \/ Abandon(p) \/ GiveUp(p)
             \/ FailBeforeCommit(p) \/ FailAfterCommit(p)
             \/ LogReject(p) \/ CreateSaga(p) \/ TakeSnapshot(p)
             \/ MarkCommitted(p) \/ LogExecution(p) \/ CloseSaga(p)
             \/ UndoSaga(p) \/ ReportSaga(p)
      PROVE  Silent
  BY <1>4 DEF TransitionRefused, Abandon, GiveUp, FailBeforeCommit,
     FailAfterCommit, LogReject, CreateSaga, TakeSnapshot, MarkCommitted,
     LogExecution, CloseSaga, UndoSaga, ReportSaga, records, Silent
<1>5. ASSUME NEW p \in Requests,
             RecordFirst(p) \/ RecordExecutor(p) \/ StoreResult(p)
      PROVE  Silent
  <2>1. CASE RecordFirst(p)
    BY <2>1 DEF RecordFirst, RecordApproval, TaskRow, Silent
  <2>2. CASE RecordExecutor(p)
    BY <2>2 DEF RecordExecutor, RecordApproval, TaskRow, Silent
  <2>3. CASE StoreResult(p)
    BY <2>3 DEF StoreResult, TaskRow, Silent
  <2> QED
    BY <1>5, <2>1, <2>2, <2>3
<1>6. ASSUME NEW p \in Requests, ClaimFirst(p)
      PROVE  \E r \in Reviews, u \in Users : Votes(r, u)
  <2>1. req[p].review \in Reviews /\ req[p].user \in Users
    BY <1>6 DEF ClaimFirst
  <2>2. Votes(req[p].review, req[p].user)
    BY <1>6, <2>1 DEF ClaimFirst, Wins, From, TaskRow, Votes, StatusMoves,
       Consents, Active
  <2> QED
    BY <2>1, <2>2
<1>7. ASSUME NEW p \in Requests, ClaimExecution(p)
      PROVE  \E r \in Reviews, u \in Users : Runs(r, u)
  <2>1. req[p].review \in Reviews /\ req[p].user \in Users
    BY <1>7 DEF ClaimExecution
  <2>2. Runs(req[p].review, req[p].user)
    BY <1>7, <2>1 DEF ClaimExecution, Wins, From, TaskRow, Runs, StatusMoves,
       Consents
  <2> QED
    BY <2>1, <2>2
<1>8. ASSUME NEW p \in Requests, Reject(p)
      PROVE  \E r \in Reviews : Closes(r)
  <2>1. req[p].review \in Reviews /\ task[req[p].review].status \in Statuses
    BY <1>8 DEF Reject, TaskRow
  <2>2. task[req[p].review].status \in Active
    <3>1. task[req[p].review].status \in Active \cup {"pending"}
      BY <1>8 DEF Reject, Wins, From
    <3>2. "pending" \notin Statuses
      BY StatusesAre
    <3> QED
      BY <2>1, <3>1, <3>2
  <2>3. Closes(req[p].review)
    BY <1>8, <2>1, <2>2 DEF Reject, TaskRow, Closes, StatusMoves, Closed
  <2> QED
    BY <2>1, <2>3
<1>9. ASSUME NEW p \in Requests, Route(p)
      PROVE  \E r \in Reviews : Routes(r) \/ Closes(r)
  <2>1. PICK r \in Reviews, s \in Active \cup Closed : Routed(p, r, s)
    BY <1>9, RouteEffect
  <2> QED
    BY <2>1 DEF Routed, Routes, Closes, StatusMoves
<1>10. ASSUME NEW p \in Requests, CommitTarget(p)
       PROVE  \E r \in Reviews : Applies(r)
  <2>1. /\ req[p].review \in Reviews
        /\ task[req[p].review].status = "executing"
        /\ commits[req[p].review] = 0
    BY <1>10 DEF CommitTarget, Executing, Trying, ExecutionInv, Before
  <2>2. Applies(req[p].review)
    BY <1>10, <2>1 DEF CommitTarget, records, Applies, StatusMoves
  <2> QED
    BY <2>1, <2>2
<1>11. ASSUME NEW p \in Requests, CompleteTask(p) \/ ReportTask(p)
       PROVE  \E r \in Reviews : Reports(r)
  <2>1. req[p].review \in Reviews /\ commits[req[p].review] = 1
    BY <1>11 DEF CompleteTask, ReportTask, Executing, Finishing, Reporting,
       ExecutionInv, After
  <2>2. task[req[p].review].status \in Reported
    BY <2>1, CommittedIsReported
  <2>3. Reports(req[p].review)
    BY <1>11, <2>1, <2>2 DEF CompleteTask, ReportTask, TaskRow, Reports,
       StatusMoves, Reported
  <2> QED
    BY <2>1, <2>3
<1>12. ASSUME NEW p \in Requests, UndoTask(p)
       PROVE  \E r \in Reviews : Fails(r)
  <2>1. /\ req[p].review \in Reviews
        /\ task[req[p].review].status = "executing"
        /\ commits[req[p].review] = 0
    BY <1>12 DEF UndoTask, Executing, Undoing, ExecutionInv, Before
  <2>2. Fails(req[p].review)
    BY <1>12, <2>1 DEF UndoTask, TaskRow, Fails, StatusMoves
  <2> QED
    BY <2>1, <2>2
<1>13. ASSUME NEW w \in Repairers, NEW r \in Reviews, RepairTask(w, r)
       PROVE  Reports(r)
  <2>1. commits[r] = 1
    BY <1>13 DEF RepairTask
  <2>2. task[r].status \in Reported
    BY <2>1, CommittedIsReported
  <2>3. \A x \in Reviews : task'[x].status =
          IF x = r THEN "completed" ELSE task[x].status
    BY <1>13 DEF RepairTask, TaskRow
  <2> QED
    BY <1>13, <2>1, <2>2, <2>3 DEF RepairTask, Reports, StatusMoves, Reported
<1>14. ASSUME NEW w \in Repairers,
              \/ RepairFail(w)
              \/ \E r \in Reviews :
                   RepairRead(w, r) \/ RepairLog(w, r) \/ RepairClose(w, r)
       PROVE  Silent
  BY <1>14 DEF RepairFail, RepairRead, RepairLog, RepairClose, records, Silent
<1>15. ASSUME Crash \/ UNCHANGED vars PROVE Silent
  BY <1>15 DEF Crash, vars, records, Silent
<1> QED
  BY <1>1, <1>2, <1>3, <1>4, <1>5, <1>6, <1>7, <1>8, <1>9, <1>10, <1>11,
     <1>12, <1>13, <1>14, <1>15 DEF Next, Advance, Fail, Repair, Sorted

-----------------------------------------------------------------------------
(* The refinement mapping.                                                 *)

\* The phase of a review with status s and n commits.
PhaseOf(s, n) ==
  CASE n > 0                   -> "applied"
    [] n = 0 /\ s = "none"     -> "none"
    [] n = 0 /\ s \in Active   -> "open"
    [] n = 0 /\ s \in Closed   -> "closed"
    [] n = 0 /\ s = "failed"   -> "failed"
    [] OTHER                   -> "running"

\* The phase, review by review.
LEMMA PhaseIs ==
  /\ phase = [r \in Reviews |-> PhaseOf(task[r].status, commits[r])]
  /\ phase' = [r \in Reviews |-> PhaseOf(task'[r].status, commits'[r])]
  BY DEF phase, PhaseOf

\* The values of PhaseOf, one by one.
LEMMA PhasesAre ==
  /\ PhaseOf("none", 0) = "none"
  /\ \A s \in Active : PhaseOf(s, 0) = "open"
  /\ \A s \in Closed : PhaseOf(s, 0) = "closed"
  /\ PhaseOf("failed", 0) = "failed"
  /\ PhaseOf("executing", 0) = "running"
  /\ \A s \in Statuses : PhaseOf(s, 1) = "applied"
  BY DEF PhaseOf, Active, Closed

\* When only one review moves, only its phase does.
LEMMA PhaseMoves ==
  ASSUME NEW r \in Reviews, NEW to,
         PhaseOf(task'[r].status, commits'[r]) = to,
         \A x \in Reviews : x # r =>
           /\ task'[x].status = task[x].status
           /\ commits'[x] = commits[x]
  PROVE  phase' = [phase EXCEPT ![r] = to]
  BY PhaseIs

\* And if its phase stays, nothing does.
LEMMA PhaseStays ==
  ASSUME NEW r \in Reviews,
         PhaseOf(task'[r].status, commits'[r])
           = PhaseOf(task[r].status, commits[r]),
         \A x \in Reviews : x # r =>
           /\ task'[x].status = task[x].status
           /\ commits'[x] = commits[x]
  PROVE  phase' = phase
  BY PhaseIs

\* An unclaimed or failed review has no commits, one in execution has one or
\* none.
LEMMA CommitsAre ==
  ASSUME IInv, NEW r \in Reviews
  PROVE  /\ task[r].status \in Active \cup {"none"} => commits[r] = 0
         /\ commits[r] \in {0, 1}
  BY DEF IInv, RecordsInv, Unclaimed

\* Whoever claims the execution of a review completes its quorum.
LEMMA ClaimHasQuorum ==
  ASSUME IInv, IInv', NEW r \in Reviews, NEW u \in Users, Runs(r, u)
  PROVE  Promise!Enough(r, consents'[r])
<1>1. ReviewConsent(r)' /\ consents'[r] = consents[r] \cup {u}
  BY DEF IInv, ConsentInv, TypeOK, Runs, Consents
<1>2. task'[r].status \notin Unclaimed
  BY DEF Runs, StatusMoves, Unclaimed, Active, Closed
<1>3. /\ AuthEnabled => Submitter[r] \notin consents'[r]
      /\ AuthEnabled /\ TwoPerson[r] => \E v, w \in consents'[r] : v # w
  BY <1>1, <1>2 DEF ReviewConsent, Quorum
<1> QED
  BY <1>1, <1>3 DEF Promise!Enough

\* The initial state of the workflow is one of the promise.
LEMMA PromiseInit ==
  ASSUME Init
  PROVE  Promise!Init
<1>1. \A r \in Reviews : task[r].status = "none" /\ commits[r] = 0
  BY DEF Init, NoTask, NewTask
<1>2. phase = [r \in Reviews |-> "none"]
  BY <1>1, PhaseIs, PhasesAre
<1> QED
  BY <1>2 DEF Init, Promise!Init

\* Every step of the workflow is one of the promise or leaves it alone.
LEMMA PromiseStep ==
  ASSUME IInv, IInv', [Next]_vars
  PROVE  [Promise!Next]_<<phase, consents, commits>>
<1>1. Sorted
  BY StepsAreSorted
<1>2. CASE Silent
  <2>1. phase' = phase
    BY <1>2, PhaseIs DEF Silent
  <2> QED
    BY <1>2, <2>1 DEF Silent
<1>3. ASSUME NEW r \in Reviews, Opens(r) PROVE Promise!Open(r)
  <2>1. commits[r] = 0 /\ commits' = commits
    BY <1>3, CommitsAre DEF Opens, StatusMoves
  <2>2. PhaseOf(task[r].status, commits[r]) = "none"
    BY <1>3, <2>1, PhasesAre DEF Opens, StatusMoves
  <2>3. PhaseOf(task'[r].status, commits'[r]) = "open"
    BY <1>3, <2>1, PhasesAre DEF Opens, StatusMoves, Active
  <2>4. phase[r] = "none" /\ phase' = [phase EXCEPT ![r] = "open"]
    BY <1>3, <2>2, <2>3, PhaseIs, PhaseMoves DEF Opens, StatusMoves
  <2> QED
    BY <1>3, <2>4 DEF Opens, Promise!Open, Promise!Move
<1>4. ASSUME NEW r \in Reviews, Routes(r) PROVE UNCHANGED <<phase, consents, commits>>
  <2>1. commits[r] = 0 /\ commits' = commits
    BY <1>4, CommitsAre DEF Routes, StatusMoves
  <2>2. phase' = phase
    BY <1>4, <2>1, PhasesAre, PhaseStays DEF Routes, StatusMoves
  <2> QED
    BY <1>4, <2>2 DEF Routes
<1>5. ASSUME NEW r \in Reviews, Closes(r) PROVE Promise!Close(r)
  <2>1. commits[r] = 0 /\ commits' = commits
    BY <1>5, CommitsAre DEF Closes, StatusMoves
  <2>2. PhaseOf(task[r].status, commits[r]) = "open"
    BY <1>5, <2>1, PhasesAre DEF Closes, StatusMoves
  <2>3. PhaseOf(task'[r].status, commits'[r]) = "closed"
    BY <1>5, <2>1, PhasesAre DEF Closes, StatusMoves
  <2>4. phase[r] = "open" /\ phase' = [phase EXCEPT ![r] = "closed"]
    BY <1>5, <2>2, <2>3, PhaseIs, PhaseMoves DEF Closes, StatusMoves
  <2> QED
    BY <1>5, <2>4 DEF Closes, Promise!Close, Promise!Move
<1>6. ASSUME NEW r \in Reviews, Fails(r) PROVE Promise!Fail(r)
  <2>1. PhaseOf(task[r].status, commits[r]) = "running"
    BY <1>6, PhasesAre DEF Fails, StatusMoves
  <2>2. PhaseOf(task'[r].status, commits'[r]) = "failed"
    BY <1>6, PhasesAre DEF Fails, StatusMoves
  <2>3. phase[r] = "running" /\ phase' = [phase EXCEPT ![r] = "failed"]
    BY <1>6, <2>1, <2>2, PhaseIs, PhaseMoves DEF Fails, StatusMoves
  <2> QED
    BY <1>6, <2>3 DEF Fails, Promise!Fail, Promise!Move
<1>7. ASSUME NEW r \in Reviews, Applies(r) PROVE Promise!Apply(r)
  <2>1. /\ commits'[r] = 1
        /\ \A x \in Reviews : x # r => commits'[x] = commits[x]
    BY <1>7 DEF Applies, IInv, TypeOK
  <2>2. PhaseOf(task[r].status, commits[r]) = "running"
    BY <1>7, PhasesAre DEF Applies, StatusMoves
  <2>3. PhaseOf(task'[r].status, commits'[r]) = "applied"
    BY <1>7, <2>1, PhasesAre, StatusesAre DEF Applies, StatusMoves
  <2>4. phase[r] = "running" /\ phase' = [phase EXCEPT ![r] = "applied"]
    BY <1>7, <2>1, <2>2, <2>3, PhaseIs, PhaseMoves DEF Applies, StatusMoves
  <2> QED
    BY <1>7, <2>4 DEF Applies, Promise!Apply, Promise!Move
<1>8. ASSUME NEW r \in Reviews, Reports(r) PROVE UNCHANGED <<phase, consents, commits>>
  <2>1. task[r].status \in Statuses /\ task'[r].status \in Statuses
    BY DEF IInv, TypeOK, TaskRow
  <2>2. phase' = phase
    BY <1>8, <2>1, PhasesAre, PhaseStays DEF Reports, StatusMoves
  <2> QED
    BY <1>8, <2>2 DEF Reports
<1>9. ASSUME NEW r \in Reviews, NEW u \in Users, Votes(r, u)
      PROVE  Promise!Vote(r, u)
  <2>1. commits[r] = 0 /\ commits' = commits
    BY <1>9, CommitsAre DEF Votes, StatusMoves
  <2>2. phase' = phase
    BY <1>9, <2>1, PhasesAre, PhaseStays DEF Votes, StatusMoves
  <2>3. phase[r] = "open"
    BY <1>9, <2>1, PhaseIs, PhasesAre DEF Votes, StatusMoves
  <2> QED
    BY <1>9, <2>2, <2>3 DEF Votes, Consents, Promise!Vote
<1>10. ASSUME NEW r \in Reviews, NEW u \in Users, Runs(r, u)
       PROVE  Promise!Run(r, u)
  <2>1. commits[r] = 0 /\ commits' = commits
    BY <1>10, CommitsAre DEF Runs, StatusMoves
  <2>2. PhaseOf(task[r].status, commits[r]) = "open"
    BY <1>10, <2>1, PhasesAre DEF Runs, StatusMoves
  <2>3. PhaseOf(task'[r].status, commits'[r]) = "running"
    BY <1>10, <2>1, PhasesAre DEF Runs, StatusMoves
  <2>4. phase[r] = "open" /\ phase' = [phase EXCEPT ![r] = "running"]
    BY <1>10, <2>1, <2>2, <2>3, PhaseIs, PhaseMoves DEF Runs, StatusMoves
  <2>5. Promise!Enough(r, consents'[r])
    BY <1>10, ClaimHasQuorum
  <2> QED
    BY <1>10, <2>4, <2>5 DEF Runs, Consents, Promise!Run, Promise!Move
<1> QED
  BY <1>1, <1>2, <1>3, <1>4, <1>5, <1>6, <1>7, <1>8, <1>9, <1>10
  DEF Sorted, Promise!Next

-----------------------------------------------------------------------------
(* The theorems.                                                           *)

\* The workflow, with its requests, sagas, repairs, failures and crashes,
\* implements the promise: every write takes effect at most once, after
\* enough other people have consented, and never after it was closed.
THEOREM Refinement == Spec => KeepsPromise
<1>1. Init => Promise!Init
  BY PromiseInit
<1>2. IInv /\ IInv' /\ [Next]_vars => [Promise!Next]_<<phase, consents, commits>>
  BY PromiseStep
<1> QED
  BY <1>1, <1>2, Invariance, PTL DEF Spec, KeepsPromise, Promise!Spec

\* Nothing reopens a closed or failed review, and a committed review only
\* moves between its reported statuses.
THEOREM DecisionsStay == Spec => DecisionsAreFinal
<1> DEFINE Final(r) ==
      /\ task[r].status \in Closed \cup {"failed"}
           => task'[r].status = task[r].status
      /\ commits[r] > 0 => task'[r].status \in
           {"executing", "completed", "executed_record_pending"}
<1>1. ASSUME IInv, [Next]_vars, NEW r \in Reviews PROVE Final(r)
  <2>1. commits[r] \in {0, 1} /\ (commits[r] = 1 => task[r].status \in Reported)
    BY <1>1, CommitsAre, CommittedIsReported
  <2>2. task[r].status \in Active => commits[r] = 0
    BY <1>1, CommitsAre
  <2>3. Sorted
    BY <1>1, StepsAreSorted
  <2>4. \/ task'[r].status = task[r].status
        \/ task[r].status \in Active \cup {"none"} /\ commits[r] = 0
        \/ task[r].status = "executing" /\ commits[r] = 0
        \/ task[r].status \in Reported /\ task'[r].status \in Reported
    BY <1>1, <2>3, CommitsAre DEF Sorted, Silent, Opens, Routes, Closes, Fails,
       Applies, Reports, Votes, Runs, StatusMoves
  <2> QED
    BY <2>1, <2>4 DEF Active, Closed, Reported
<1>2. IInv /\ [Next]_vars => [\A r \in Reviews : Final(r)]_vars
  BY <1>1
<1> QED
  BY <1>2, Invariance, PTL DEF Spec, DecisionsAreFinal
=============================================================================
