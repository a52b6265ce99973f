# A formal model of SQL-RPA

SQL-RPA lets an agent and its users query a company's database and *propose*
writes to it; other people approve them, the server executes them on the target
database, and snapshots, an operation log and a recovery worker keep the
server's own records in step with what happened there. This directory holds TLA+
modules of that server (`src/backend`), the TLC runs that check them on small
instances, and TLAPS proofs of the most important facts for every instance.

## Inventory

The server is one asyncio process (FastAPI), or several when it is started with
more workers; a module says when it models more than one. Every request is a coroutine: it
can be overtaken by any other one at every `await`, and most requests write in
several transactions. There are two databases: the *application database* (all
records; SQLAlchemy, one short transaction per helper) and the *target database*
(business data; a connector per organization), and no transaction spans both.

| Component | State | Operations | Interacts with | What is hard, and what must hold |
|---|---|---|---|---|
| Review workflow (`api/db_operations.py`) | `db_review_tasks`, `db_execution_sagas` | submit, approve (first, second, execute), reject, expire, revoke, escalate, transfer, batch | connector, backup manager, operation log, notifications, recovery loop | Decisions on rows read before several awaits; target and records can disagree after a failure. A write is executed at most once, only with the consent of enough other people, and the records tell the truth |
| Recovery (`main.py`, `_repair_committed_execution`) | the same rows | loop at start-up and every minute, an administrator's request | review workflow | Runs against executors that are still alive and against other repairs. Committed writes are repaired in the end and never replayed |
| Backups and rollback (`db_connector/backup.py`) | `db_backups`, chunks, `db_rollback_records`, target rows | snapshot under the target's lock, rollback behind a reverse backup, cleanup, key rotation | review workflow, connector, settings | Two databases, crash points, concurrent rollbacks and cleanup. A snapshot undoes its write |
| Audit chain (`audit.py`, `log_operation`) | `db_operation_logs` with sequence and hash | append, full and incremental verification | every component that logs | Read-then-append across coroutines and processes. No gap, no fork |
| Connectors (`db_connector/factory.py`, `api/tenants.py`) | a cache per process, by organization and configuration version; the stored settings | get, create, close, reconnect, configure | every user of a target | Configuration changes while connectors are in use, in several processes. No request runs on a target configured before it began |
| Submission and approval policies (`submit_review`, `approval_policy.py`, `api/policies.py`, `safety.py`) | reviews by key, policies | submit; create, version, toggle, evaluate | review workflow | Retries that race, policies replaced while they are read. One key has one review, and the strictest policy is applied without a gap |
| Chat request (`api/chat.py`, `api/usage.py`) | quota reservations, usage log | reserve, stream, record usage, settle | agent | Expiry during a stream, failures between steps. The budget is not exceeded by reservations that are alive |
| Ingestion (`api/documents.py`, `rag/pipeline.py`, `rag/progress.py`) | documents, files, vector and text indexes, subscriber queues | upload, parse, chunk, embed, index, delete, reprocess, subscribe | stores, retrieval | Tasks that outlive the row they work for, and die with the process. A ready document is found, a deleted one is not |
| Notifications (`notifications.py`, `api/notifications.py`) | notifications, deliveries, endpoints, preferences | publish, claim, send, retry, reclaim | review workflow, webhooks | A loop in every process, leases that end during a post. At least once, with bounded attempts |
| Billing (`api/billing.py`) | invoices, payments | invoice, pay, webhook | payment provider | Late, repeated, reordered webhooks, racing requests. A paid invoice stays paid, a billed total stays |
| Organizations (`organization_service.py`, `api/departments.py`) | units with paths, memberships, context tokens | create, update, move, disable; add, change, make primary, end; switch | every scope check | Handlers that read, decide and write while others do. Paths form a tree, and a token stands for the path it was issued for |
| Accounts (`api/auth.py`, `auth.py`) | users, token versions, creation keys | bootstrap, create, login, update, change password | every request | Mutual deactivation, lost updates, two processes that start. An active administrator remains, a revoked token stays revoked |
| Memories and profile (`memory/`, `agent/session_extract.py`, `agent/intercept.py`) | memories, their search index, profile versions | add, deprecate, restore, delete, clear | chat, conversations | Tasks nobody waits for, a limit checked before the insert. The cap and the index hold |
| Agent (`agent/react_loop.py`, `context.py`, `tools/`, `llm/resilience.py`, `llm/openai_impl.py`) | the messages of a turn, a circuit breaker shared by all turns | classify, ask, retry, fall back, run tools, trim | LLM, target database | A breaker fed by calls that began before it opened, retries of tools with effects. A turn ends, and a call has one effect |
| Retrieval ranking, OCR, embedding | none of their own | text in, text out | LLM and stores | External services and text processing: not modelled, but for what the indexes hold |
| Settings, middleware, migrations, scripts | files, counters | | | Configuration and one-shot code: not modelled, except key rotation |
| Web client (`src/frontend`) | stores | | API | A client, with a state of its own in each browser: not modelled |

`PROJECT.json` lists the same components with their status, and under
`hazards` every place found so far where this code is hard to test.

## Plan

| Step | Module | State |
|---|---|---|
| 1 | `ReviewWorkflow`, the core, with its abstract specification `ReviewPromise` | modelled, checked; every safety property and the refinement proved |
| 2 | `BackupRollback`: snapshot, statement, rollback, reverse backup, cleanup, rotation | modelled, checked; every property that holds proved |
| 3 | `AuditChain`: append and verification, several processes; the unique sequence as the only arbiter | modelled, checked; every property proved |
| 4 | `ChatQuota`: reservation, stream, usage records, settlement, expiry | modelled, checked; every safety property proved |
| 5 | `Organization`, `Accounts`: check-then-act across requests, on the tables every scope check reads | modelled, checked; every safety property that holds proved |
| 6 | `Submission`: idempotent submission while policies change | modelled, checked; proved |
| 7 | `Ingestion`, `Notifications`: background work that outlives the row it is for; crash, claim, retry, reclaim, and liveness | modelled, checked; every safety property proved |
| 8 | `Connectors`, `Billing`, `Memories`, `Agent` | modelled, checked; every safety property proved |
| 8a | `AgentContext`: what is sent of a turn's messages | modelled, checked; `ContextFits` proved by induction |
| 9 | `TenantProofs`, `AccountsProofs`, `ServicesProofs`: the proofs of steps 4 to 8 | done |
| 10 | `BillingPromise` and `OutboxPromise`, abstract specifications of `Billing` and `Notifications`, and that the modules implement them | checked and proved |
| 10a | That the composition of the six services implements each of them | proved |
| 11 | The lock-out after failed logins, the choice of a model by the router | to do, if a property is worth it |

Each component has one module. Components that share no state share an MC
module and a run, in which a behaviour picks one of them and stays with it:
`MCAccounts` for `Accounts` and `Submission`, `MCServices` for the six of steps 7
and 8. They share a module of proofs in the same way: `AccountsProofs` for the
first two, `ServicesProofs` for the six, `TenantProofs` for `ChatQuota` and
`Organization`; there each component has a section, with an invariant of its own
that speaks of its own variables only. Instances stay at two or three actors per race.

## Runs at a glance

| Run | Module | Expected | What it asks |
|---|---|---|---|
| `review_safety`, `review_liveness`, `review_repair_org` | `MCReviewWorkflow` | holds, holds, violated | the review workflow and its recovery |
| `backup`, `backup_reverse` | `MCBackupRollback` | holds, violated | snapshots and rollbacks |
| `audit_chain` | `MCAuditChain` | holds | the chain of audit entries |
| `chat_quota` | `MCChatQuota` | holds | the token budget |
| `organization` | `MCOrganization` | holds | units, memberships, contexts |
| `accounts` | `MCAccounts` | holds | users and tokens; submission and policies |
| `services` | `MCServices` | holds | ingestion, notifications, billing, connectors, memories, agent; the promises of notifications and billing |
| `connectors_default`, `agent_context` | `Connectors`, `AgentContext` | violated | a sentence of the code that does not hold |

Every passing property has a mutant in `PROJECT.json`: a change of one definition,
of the kind a plausible bug would be, under which TLC finds the property violated.
The modules hold these variants next to the definition they change; a few more of
them break parts of `ServicesAreSound`, which has one of them in `PROJECT.json`.

## The review workflow

### Modules

* `ReviewWorkflow.tla`: the component. `task`, `saga` and `oplog` are the rows of
  `db_review_tasks`, `db_execution_sagas` and `db_operation_logs` of a review
  (only the columns a decision depends on); `commits` counts target commits of
  its SQL; `req` and `repair` are the coroutines in flight: where they are, what
  they have read and still rely on; `consents` is a history of the approvals the
  code accepted.
* `ReviewPromise.tla`: what the workflow promises: a write is open, closed,
  running, failed or applied, takes effect at most once, and starts to run only
  when enough other people have consented.
* `MCReviewWorkflow.tla` and `Review*.cfg`: the instances for TLC.
* `ReviewWorkflowProofs.tla`, `ReviewPromiseProofs.tla`,
  `ReviewRecordsProofs.tla`: the theorems, each module on top of the one before.

### From the code to the actions

One action is one committed transaction, or one read of the row on which a
request decides. Reading and writing are separate actions, so everything other
coroutines do in between is a behaviour.

| Code | Actions |
|---|---|
| `submit_review`, `_create_review_task` | `Submit` |
| head of `approve_review`: read, checks, choice between first and final approval | `LoadApprove` |
| `_transition_review_task` (compare-and-set on the status) | `ClaimFirst`, `ClaimExecution`, `Reject`, `Route`; the lost race is `TransitionRefused` |
| `_record_approval` | `RecordFirst`, `RecordExecutor` |
| execution in `approve_review` | `CreateSaga`, `RecordExecutor`, `TakeSnapshot`, `CommitTarget`, `MarkCommitted`, `CompleteTask`, `StoreResult`, `LogExecution`, `CloseSaga` |
| its exception paths | `FailBeforeCommit`, `UndoSaga`, `UndoTask`; `FailAfterCommit`, `ReportSaga`, `ReportTask`; `GiveUp` |
| `reject_review` | `LoadReject`, `Reject`, `LogReject` |
| `review_state_action` | `LoadAction`, `Route` |
| `expire_overdue_reviews` | `ExpireOverdue` |
| `_repair_committed_execution` by the loop or an administrator | `RepairRead`, `RepairTask`, `RepairLog`, `RepairClose`, `RepairFail` |
| exceptions outside the `try` block, death of the process | `Abandon`, `Crash` |

Batch approval and rejection call these handlers one review after the other and
need no action of their own.

Abstractions, all of them on data: SQL, notes, timestamps and previews are left
out; expiry may happen at any time; domain events and notifications are written
and never read by the workflow, so only their failure appears (`Abandon`); a
target commit that raises has not committed; a review with `affected_rows = 0`
or without a `WHERE` takes no snapshot (`Snapshots[r]`). The policy that decides
whether two people are needed is the constant `TwoPerson`. An approver acting
from an ancestor organization (`AncestorUsers`) sees the review, but its saga and
the second half of its approval are looked up in the approver's organization, as
in the code.

### Runs

All instances have one review: no action reads or writes two, so a second one
would only multiply states. Two requests are enough for every race between two
coroutines, and requests are reused, so sequences of any number of them occur.
A submitter, an approver and an administrator are the smallest cast in which
self-approval, a missing second approver and an assignment can go wrong. No
counter needs a bound: `commits` is at most one, and the log grows only in
repairs that are not closed.

| Run | Question | Answer |
|---|---|---|
| `review_safety` | Two concurrent requests, the recovery loop, every failure, crashes; two people needed; snapshot taken | `CommittedAtMostOnce`, `SingleExecutor`, `FourEyes`, `StatusTellsTarget`, `SagaTellsTarget`, `CompletedNamesBackup`, `ClosedSagaIsLogged`, `DecisionsAreFinal` hold, and the workflow implements `ReviewPromise` (`KeepsPromise`) |
| `review_liveness` | Is a committed execution repaired in the end? | Yes (`CommittedIsRepaired`) in single-tenant mode, if it was approved in the task's own organization |
| `review_repair_org` | And otherwise? | No. The saga is stored under the approver's organization, and the loop looks for the task there |

`review_repair_org` is a counterexample to a sentence of the documentation;
`PROJECT.json` quotes it under `findings`. Three more are listed under
"Divergences that no run checks".

### Fairness

Users are under no obligation, so no request has to start. A request in flight
goes on (`WF` on `Advance`): the event loop schedules every ready coroutine.
`_saga_recovery_loop` runs `repair_pending_executions` at start-up and then every
minute, for ever, and swallows every exception: its steps are weakly fair, whether
they succeed or fail. Faults of the application database are transient: each of
`RepairRead`, `RepairTask` and `RepairClose` is strongly fair, so that attempted
again and again it succeeds in the end. `RepairLog` needs more than the
application database: `_get_backup_mgr()` calls `create_connector()`, which builds
what it does not find in single-tenant mode, and raises in multi-tenant mode, where
the key of a loop without an organization context, `(tenant, None, 1)`, is one
under which no membership's connector is filed. The constant `MultiTenant` says
which mode it is, and `RepairLog` is strongly fair in the first only. In the second one
`CommittedIsRepaired` does not hold (see the divergences). (Reviews from an ancestor
organization exist in both modes: `get_current_user` sets the organization
whatever `multi_tenant_enabled` says.) Crashes and failures are never excluded; they
are only not allowed to hit every single attempt. `limit(100)` of the loop, ordered by age, is not
modelled: with more than a hundred sagas that can never be repaired (see
`review_repair_org`) younger ones could starve.

### Proofs

Everything below is proved for every set of reviews, users, requests and
repairers, from `ConstantsAssumption` alone.

| Theorem | Property |
|---|---|
| `ReviewWorkflowProofs!TypeCorrect` | `TypeOK` |
| `ReviewWorkflowProofs!AtMostOnce` | `CommittedAtMostOnce` |
| `ReviewWorkflowProofs!OneExecutor` | `SingleExecutor` |
| `ReviewWorkflowProofs!FourEyesKept` | `FourEyes` |
| `ReviewWorkflowProofs!StatusIsTrue` | `StatusTellsTarget` |
| `ReviewWorkflowProofs!SagaIsTrue` | `SagaTellsTarget` |
| `ReviewPromiseProofs!Refinement` | `KeepsPromise` |
| `ReviewPromiseProofs!DecisionsStay` | `DecisionsAreFinal` |
| `ReviewRecordsProofs!BackupIsNamed` | `CompletedNamesBackup` |
| `ReviewRecordsProofs!ClosedSagasAreLogged` | `ClosedSagaIsLogged` |

None of these is inductive. The invariant behind the first eight is
`IInv == TypeOK /\ InFlightInv /\ ExecutionInv /\ RecordsInv /\ ConsentInv`:

* `InFlightInv`: a request in flight works on a submitted review, and a repairer
  on a committed one. Without it a repair could complete a review nobody executed.
* `ExecutionInv`: at most one request is past the claim of a review; before its
  commit the status is `executing` and the target untouched, after it the target
  is committed. This is what the compare-and-set on the status buys: at most one
  request can leave the open statuses, and nobody returns to them.
* `RecordsInv`: status, saga and commits of one review agree.
* `ConsentInv`: what a request has *read* is still true enough when it *acts*. A
  request on its way to execute a two-person review knows of somebody else's
  consent, whatever was escalated or transferred meanwhile, because consents are
  never withdrawn; a transfer that restores a stale status restores an open one
  over an open one.

`ReviewWorkflowProofs` follows that order: one lemma per part
(`TypeInduction`, `InFlightInduction`, `ExecutionInduction`, `RecordsInduction`,
`ConsentInduction`), in each one step per action, then `Invariance` by temporal
logic, then the theorems.

`ReviewPromiseProofs` first sorts the steps by what they do to status, commits
and consents (`StepsAreSorted`: open, vote, run, close, route, apply, fail,
report, or nothing), and then needs one argument per sort instead of one per
action: each maps to a step of `ReviewPromise` or to a stutter, and none reopens
a decision.

`ReviewRecordsProofs` adds two invariants on top of `IInv`. `BackupInv`: a saga
once marked as committed stays marked and names the backup, and whoever is past
the marker, executor or repairer, carries that backup to the review. `LogInv`:
whoever is about to close a saga has written a completed entry or has found one.
The second half is not obvious, because a repairer only looks whether the log is
empty: the entry it finds might be a rejection. It cannot be, since a rejection
is logged only for a rejected review, and that one is never committed.

TLC has checked `IInv`, `BackupInv` and `LogInv` on the instance of
`review_safety` too. Only model-checked: the liveness property
`CommittedIsRepaired`.

## Backups and rollback

### Modules

* `BackupRollback.tla`: the component. `table` is the committed target table and
  `work` what the shared connection sees; `holder` is the request whose target
  transaction is open; `backup` and `record` are `db_backups` with their chunks
  and `db_rollback_records`; `req` are the calls of `approve_review` (from its
  target transaction on) and `rollback_operation`; `cleaning` is what the cleanup
  loop has read; `wrote` is a history of what each call committed on the target.
* `MCBackupRollback.tla` and `Backup*.cfg`: the instances for TLC.
* `BackupRollbackProofs.tla`: the theorems.

### From the code to the actions

| Code | Actions |
|---|---|
| target transaction of `approve_review` (`SqliteConnector.transaction`: `BEGIN IMMEDIATE`, commit or rollback) | `BeginWrite`, `ExecuteWrite`, `CommitWrite`, `AbortWrite` |
| `BackupManager.create_backup` inside it | `ReadRows`, `SaveBackup` |
| `rollback_operation`: read, reverse backup, record | `StartRollback`, `ReadReverse`, `SaveReverse`, `AddRecord` |
| `BackupManager.rollback`: checks, `_decode_snapshot` in its own session, target transaction, status | `Load`, `Decode`, `BeginRestore`, `DeleteRows`, `InsertRows`, `CommitRestore`, `AbortRestore`, `MarkRolledBack` |
| rest of `rollback_operation` | `CompleteRecord`, `RejectRecord` (a `ValueError`), `Abandon` (any other exception) |
| `cleanup_expired_backups` | `CleanupRead`, `CleanupCommit` |
| `rotate_encryption` | `Rotate` |
| other programs on the target, death of the process | `Outside`, `Crash` |

Rows are a function from keys to one other column; a condition is the set of
(key, value) pairs it accepts, so that it may filter by the key, by the changed
column or by both, and `set` is the row an UPDATE makes of a row, the primary key
included: `safety.py` looks at the first word and the `WHERE` of a statement, not at
the columns it assigns. `Fits` is the unique primary key, without which an UPDATE
raises. `UPDATE OR REPLACE` is refused, since `_extract_table_name` takes `OR` for the
table. There is one table: what foreign keys and triggers would do to others is
left out. `Stored[v]` is what remains of a value after
`json.dumps(default=str)` and back. Time is left out: a backup may expire at any
moment. A backup is named after the call that makes it; every call makes at most
one. Compression, encryption and chunking are the two facts that decide whether
a snapshot can be decoded: `marker` and `chunks`.

The model is that of a SQLite target, the default: one connection for all
coroutines, a database lock for writers, and reads outside a transaction that see
uncommitted rows of the coroutine that is inside one. MySQL and PostgreSQL lock
the selected rows instead; their phantoms and isolation levels are not modelled.
Tables without a primary key are left out: rolling them back is refused. A write
that takes no backup (an `INSERT`, or no affected rows) is a change from outside.

### Runs

| Run | Question | Answer |
|---|---|---|
| `backup` | Three calls in any order and overlap, two of them beside another program: rollbacks of one backup at once, the rollback of a rollback, writes and rollbacks, also of an UPDATE of the primary key | `WriteIsRecoverable`, `RollbackRestores`, `DeleteRollbackIsRecoverable`, `RecordTellsTarget` hold |
| `backup_reverse` | Can every rollback be rolled back, as a comment says? | No. The reverse snapshot is selected by the condition of the statement, which the rows it changed need not meet any more; rolling it back then deletes the restored rows |

A snapshot does not quite undo every statement. Its rows are found by the keys they
had, and a row that an UPDATE of the primary key moved to a free key stays beside the
restored one (`RollbackReachesBackup`, under the divergences). What holds for every
statement is stated with `RowsBack`: every row the
table had before the statement is back under its key, and nothing else has changed,
but a row that the statement put under a free key is still there. An UPDATE that
leaves the keys alone, and a DELETE, put no row under a free key, and are undone
entirely, up to what JSON keeps.

Two keys tell the row a condition selects from one it does not; three values are
one that the condition selects, one it does not, and one that JSON changes. The
statements are an UPDATE of the column it filters by (`Close`), a DELETE (`Purge`) and
an UPDATE of the primary key to one that may be taken (`Rekey`). Two
calls are enough for a snapshot against a writer and a rollback against a write,
three for two rollbacks of one backup and for the rollback of a rollback. Requests
are symmetric: no action distinguishes them. `MaxOutside` bounds changes from
outside; one is enough to fall between any two steps. Calls that have ended stay
`done`, so a run ends: deadlock is not reported, because cleanup and rotation are
always possible. `ThreeCallsAlone` keeps a third call out of the behaviours in
which another program changes the table: the three-call races are between calls
of the server, and the outside change needs one call on each side at most.

### Proofs

`BackupRollbackProofs` proves, for every table, every set of statements and every
number of calls, from `BackupAssumption` alone: `TypeCorrect` (`TypeOK`),
`WritesAreRecoverable` (`WriteIsRecoverable`), `RollbacksRestore`
(`RollbackRestores`), `DeleteRollbacksAreRecoverable`
(`DeleteRollbackIsRecoverable`) and `RecordsAreTrue` (`RecordTellsTarget`).

The inductive invariant is
`IInv == TypeOK /\ LockInv /\ SnapshotInv /\ ProgressInv /\ RestoreInv /\ RecordTellsTarget`:

* `LockInv`: who is inside a transaction holds the connection, and until its
  first write the connection sees the committed table.
* `SnapshotInv`: inside the transaction of a write the snapshot describes the
  table as it is, because of the lock; after the commit, the saved snapshot and
  the committed change belong to one table.
* `ProgressInv`: a backup is made once, before anybody can roll it back, and
  reports are made only after what they report.
* `RestoreInv`: a rollback works with the rows and the condition of its backup.

The proof separates what a step does to the request that takes it (`WriteKeeps`,
`RollbackKeeps`) from what it does to the others (`LocalStays`): those only need
that saved snapshots keep their rows and condition, and, while they hold the
connection, that the target stays. What a snapshot brings back is a lemma about
tables alone (`SnapshotUndoes`): a statement spares the rows it does not select
(`UpdateSpares`, from `Fits`: no moved row takes the key of one that stays). So is the
deletion that undoes an insertion (`DeletionRepeats`). TLC has checked `IInv` on small instances too.

## The audit chain

### Module

`AuditChain.tla`, with `MCAuditChain.tla`, `AuditChain.cfg` and
`AuditChainProofs.tla`. `log` is the table `db_operation_log`, `writer` the calls
of `log_operation`, `check` the calls of `verify_audit_chain`, `rebuilt` what
`init_db` has numbered in a transaction that is still open, `sqlite` the dialect
of the application database. `written` is history: the contents as they were
appended, which nobody can edit.

| Code | Actions |
|---|---|
| `init_db`: the "one-time normalization" of rows without a usable sequence | `RebuildRow` for each row, `CommitBoot`, `CrashBoot` (rolls all of it back) |
| `log_operation`: `_audit_lock`, which is one per process | `Enter` |
| `BEGIN IMMEDIATE`, or `SELECT ... FOR UPDATE` elsewhere; the last row | `Read` |
| `session.commit()` | `Insert` |
| `IntegrityError`: roll back, try again, raise after the last attempt | `Conflict` |
| any other exception, a cancelled task, death of the process | `Abort` |
| `verify_audit_chain`: the query for the rows | `List` (from 0 in a full check) |
| the query for the hash to start from, and the loop | `Report` |
| an edit behind the back of the server, with the triggers off | `Edit` |

A hash is the tuple of what goes into it, so equal hashes mean equal contents,
and `content` stands for all hashed columns but `sequence` and `prev_hash`.
`Highest` is the row the descending query and the loop's "row before" find.
Outside SQLite, `FOR UPDATE` locks a row that nobody updates: a transaction that
waited for it goes on with the row it waited for, and an empty table locks
nothing. The model therefore lets it read at any time. Edits change contents
only; deleted rows and rewritten hashes are out of the model. `init_db` runs
before the server answers; a later start finds nothing to number, because
`ChainIsIntact` contradicts `NeedsRebuild`.

### Run

`audit_chain` checks on a log of up to three rows, after up to two old ones:

* `ChainIsIntact`: whoever appends at once, there is no gap and no fork, and each
  row carries the hash of its predecessor and of its own content as written.
* `OnlyRacesFail`: an entry is given up only after as many other entries as there
  are attempts have been appended since the call began, and never on SQLite. A
  caller that loses an audit entry has thus lost that many races in a row.
* `ReportIsTrue`: a check, full or incremental, alarms if and only if the content
  of a row it has listed is not what was written. Rows appended between its two
  queries cause no false alarm, and the hash it starts from makes an intact suffix
  pass.

Three writers, two of them in one process, are what it takes to have a coroutine
that waits for the lock, one that holds it and one that the lock does not stop.
With two attempts (five in the code) a log of three rows has room for a writer
that loses both. One check is enough: checks write nothing.

### Proofs

`AuditChainProofs.tla` proves the four properties for any number of processes,
writers, checks, rows and attempts. None of them is inductive alone. The
invariant `IInv` adds

* `ChainInv`: each row is a link to the row before it over the written contents;
  before the first start that holds of `rebuilt`, while the rows of the log have
  no number;
* `WriterOk`: a writer that has read holds a number and the hash of the row before
  that number, and the number is greater than where the log was when it began by
  more than its failed attempts;
* `LockInv`: on SQLite, a writer that has read holds the next number, alone;
* `CheckOk`: what a check has listed are all rows of a range that begins after
  the given sequence, with the numbers and hashes they still have.

`RowsOfChain` turns "the number is free" into "it is the next one", which makes
`InsertKeeps` append a link and `ConflictKeeps` count a lost race.
`AcceptsExactly` is the core of `ReportsAreTrue`: on links, the loop's three
comparisons fail exactly where a content has changed.

## The token budget of a chat request

### Module

`ChatQuota.tla`, with `MCChatQuota.tla` and `ChatQuota*.cfg`. `quota` is the limit
in the user's `usage_quotas` row, `reservation` the rows of
`usage_quota_reservations` by request id, `used` the sum over `llm_usage_logs`, and
`req` the calls of `chat` in flight: whether they hold a reservation of their
own, what the model has reported and how much of it is logged. `granted` and
`loose` are history: the greatest limit under which a request was admitted, and
the logged tokens that no reservation had to cover.

| Code | Actions |
|---|---|
| `reserve_user_quota`, one transaction (`BEGIN IMMEDIATE` on SQLite, a lock on the quota row elsewhere) | `ReserveWithoutQuota`, `Reserve`; `ReserveAgain` when the request id is taken; 429 changes nothing |
| `chat` from the reservation to the stream | `OpenStream` (which may fail) |
| `agent_event_stream` | `ModelCall` for each `usage` event, `EndStream` |
| `finally` of `event_stream`: `save_usage` once for each report, then `settle_quota_reservation` | `SaveUsage` (a failed record is only logged), `Settle` |
| exceptions elsewhere, a cancelled stream, death of the process | `Stop` |
| `set_quota` | `SetQuota` |
| `expires_at` passes | `LeaseEnds`; the next reservation marks the row `expired` |

Costs are limited like tokens and are left out; so are other users and
organizations, which share no row with this one, and the end of the month. Model
calls that emit no `usage` event, such as fact extraction in the background, are
counted by nobody in the code and do not appear.

### Runs

| Run | Question | Answer |
|---|---|---|
| `chat_quota` | Is the limit a hard one when requests run at once? | `BudgetIsKept`: what is logged stays within the greatest limit under which a request was admitted, up to the tokens no reservation had to cover: of requests without a limit, of retries that share a reservation, of streams that outlive their lease, and what goes beyond `quota_reservation_tokens` |

What makes `BudgetIsKept` true is an order: usage is logged before the
reservation is settled, so a token is counted twice for a while but never not at
all. Swapping the two breaks it.

Three requests with three ids are needed: the limit of 5 admits two shares of 2
at once but not three, so that a third reservation fits only when an earlier one
was settled for less. Two tokens a call: one call is within a share and a second
one is not. `MaxCalls` bounds the calls of a request to 2. Requests and ids are
symmetric. Requests that are refused stay `idle` and may try again; limits may
change for ever, so there is no deadlock to look for.

### Proofs

`TenantProofs` proves `QuotaTypeCorrect` (`TypeOK`) and `BudgetIsHard`
(`BudgetIsKept`) for any number of requests, ids and model calls and any limits.
The budget is a sum over reservations, and sums over a set are out of the prover's
reach. The proof counts instead. `Room` has one pair of a request id and a number
for each token a live reservation still holds for its request, so what is held is
`Cardinality(Room)`, and a step that logs tokens removes as many pairs. The
inductive invariant is
`QuotaInv == TypeOK /\ IdleInv /\ OwnInv /\ IsFiniteSet(AliveIds) /\ used + Cardinality(Room) <= granted + loose`:

* the last part is what the check of `reserve_user_quota` leaves true:
  `RoomIsBounded` shows that `Room` has at most `Share` pairs for each live
  reservation, which is how the code counts them, and `RoomIsTaken` that a
  request frees a pair for each token it logs within its share;
* `OwnInv`: a reservation that a request relies on is alive, overdue, or shared
  with a retry, and belongs to one request. Two requests that both owned it would
  log twice what is held once.

Every other step makes `Room` no larger (`RoomWanes`), unless it counts the
difference as `loose`.

## Organizations

`Organization.tla`, `MCOrganization.tla`, `Organization.cfg`. `units` and `members`
are the two tables, `seen` what each handler in flight has read of them, `tokens`
a context token and the path it was issued for.

| Code | Actions |
|---|---|
| the reads at the head of every handler | `Load` |
| `create_unit`, `update_unit`, `move_unit`, `disable_unit` with `organization_service.py` | `CreateUnit`, `UpdateUnit`, `MoveUnit`, `DisableUnit` |
| `add_membership`, `update_membership`, `set_primary`, `disable_member` (with a replacement) | `AddMembership`, `UpdateMembership`, `SetPrimary`, `DisableMember`, `ReplacePrimary` |
| an error, or a constraint that fails at the commit | `GiveUp` |
| `valid_from` and `valid_to` pass | `Elapse` |
| `switch_context` | `SwitchContext`; `get_current_user` is `Accepts` |

On SQLite, the default, a `SELECT` opens no transaction and `FOR UPDATE` locks
nothing, so a handler decides on tables that another one may have changed since.
Its write carries the columns it changed and no others. The triggers and unique
indexes of the tables are `ParentFits` and `Indexed`; they are why
`PathsFollowLevels` holds under every overlap. What the code does not prevent is
the lost update, and `raced` says when one has happened: until then `TreeIsSound`
and `ContextIsFresh` hold, that is, the handlers preserve the tree together, and
no version of a unit or membership is forgotten to be raised. The instance has all
four levels, a group that can move between two departments with a unit below it,
two handlers at a time and three commits: a move and a creation below it, a
disabling and a membership, each with a token issued before.

### Proofs

`TenantProofs` proves, for any companies, levels, units, memberships and any
number of handlers, `PathsNameEveryLevel` (`OrgIsWellFormed`), `TheTreeHolds`
(`TreeIsSound`) and `AcceptedContextIsFresh` (`ContextIsFresh`). The inductive
invariant `OrganizationInv` has three layers:

* what holds under every overlap: the shape of the rows (`RowsFit`, with the path
  of a unit naming one unit of each level), of the memberships (`MembersFit`), and
  of what the handlers have read (`SeenInv`); a unit that a handler has seen is
  still there, in the same company. This is all that the triggers and indexes
  protect, and enough for `PathsNameEveryLevel`;
* until `raced`: `TreeInv`. The core is `MoveKeepsPaths`: the handler replaces the
  beginning of the path of every unit it finds below the moved one, and it finds
  them by path. `RebasedChild` and `ChildOfOther` show that a unit other than the
  moved one is found if and only if its parent is, so that its path follows the
  parent's afterwards;
* `TokenInv`: a token's unit has not had an older version than the token's, and as
  long as it has that one it has that path. Together with `TreeInv` this makes every
  unit of the path of an accepted token active.

## Accounts and tokens

`Accounts.tla` in `MCAccounts.tla`, `Accounts.cfg`. `users` holds what a decision
depends on; `worker` are starting processes, `call` the calls in flight, `issued`
one access token that is followed from its issue on.

| Code | Actions |
|---|---|
| `ensure_default_admin` of a starting process | `CountAdmins`, `InsertAdmin`, `InsertConflict` |
| `login` | `LoginRead`, `LoginIssue` |
| `create_user`, under its `Idempotency-Key` | `CreateRead`, `CreateCommit`, `CreateConflict` |
| `update_user` with `is_active`, inside `_lock_platform_admin_mutation` | `SetActive` |
| `change_password` | `PasswordRead`, `PasswordCommit` |
| a refusal or an error at any point | `GiveUpCall` |

`AdminRemains` depends on the lock: two administrators who deactivate each other
both count two without it. `RevokedStaysRevoked` excludes what `overwrote` marks,
a change of password that writes a token version it computed from an older row
(see the divergences below). Two calls, two processes and three revocations: a
deactivation, an activation and a change of password beside a login that has read
the row before them all.

`AccountsProofs` proves `OneUserPerKey` (`AccountsAreWellFormed`), `AnAdminRemains`
(`AdminRemains`) and `RevokedForGood` (`RevokedStaysRevoked`) for any number of
users, calls, keys and processes. The invariant `AccountsInv` adds what calls hold
(`CallInv`: the row they read exists and, unless it was revoked since, still has the
version they read), what the records of the keys say (`MadeInv`), and two facts the
properties need one step earlier: whenever there is an administrator there is an
active one, also before a process is up (`AdminInv`); and a call that read a row
before its revocation has read a smaller version than the row has now (`TokenInv`),
so the token it still issues is dead from the start.

## Submission under policies that change

`Submission.tla`, checked in the same run. `review` are rows of `db_review_tasks`
as far as key, content and required approvals go, `policy` the rows of
`approval_policies`, `submit` and `edit` the requests of users and of
administrators. What happens to a review afterwards is `ReviewWorkflow`, whose
constant `TwoPerson` is this module's `required`.

| Code | Actions |
|---|---|
| `submit_review`: lookup of the key | `BeginSubmit` |
| connector, safety check, count of the rows | `Count` (which may refuse; a failed count leaves 0) |
| `evaluate_policy` | `Evaluate` |
| `_create_review_task`; its `IntegrityError` | `Insert`; `Winner` |
| `log_operation` | `LogSubmission` |
| `create_policy`, `version_policy`, `toggle_policy` | `CreatePolicy`; `ReadPolicy`, then `VersionPolicy` or `TogglePolicy` |

`OneReviewPerKey`: all answers under one key name one review, with the content
that was asked for. `DemandIsMet`: the approvals a review requires are at least
what the policies demanded at some time between the count and the evaluation,
where `floor` follows the policies as complete edits leave them; a version that
disabled the old row in a transaction of its own would open a gap. Two requests,
one key, two statements, two policies, two edits at once.

`AccountsProofs` proves `SubmissionsStaySound` (`SubmissionsAreSound`) for any number
of requests, keys, reviews, policies and edits. The invariant `SubmissionInv` adds
`ReplyInv`, the unique index on keys as a fact about the answers that name its
rows, and `SubmitInv`: a request that has counted its rows and not yet read the
policies is demanded at least `floor` by the policies as they are *now*, because
`floor` has followed every commit of an edit.

## Six services

`MCServices.tla` and `Services.cfg` check six components in one run. They share
no state: a behaviour picks one of them in its initial state. `ServicesAreSound`
collects their type invariants and smaller invariants, which are named there.

**Ingestion** (`Ingestion.tla`). One document; every `await` of a job is a step of
its own, the two indexes and the row are written separately, and a crash loses
jobs and streams. `Upload`, `SaveFile`; `Stage`, `Upsert`, `Insert`, `Finish`,
`Fail`, `ReportFailure` for `IngestionPipeline.ingest`, whose `try` begins before the first status is written; `Reprocess`; `Delete`,
`PurgeVectors`, `PurgeTexts`, `Unlink`, `Erase` for `delete_document`; `Abort` for
exceptions nobody catches, in a purge, a save, or the exception handler of the pipeline, which writes
the row before it publishes; `Subscribe`, `Consume`; `Crash` with
`_cleanup_stuck_documents` at the next start. `Hits` is what retrieval can return,
for any of the units a caller may act for. `ReadyIsSearchable` and
`DeletedIsForgotten` hold after any failure and crash as long as jobs do not
overlap (`overlap`), and `foreign` sets aside that a unit above the owner may
delete or reprocess the document while the indexes are written under the caller's
unit. `StreamsEnd`: a stream that is open during an ingestion ends, unless
the handler could not even mark the document as failed (`silenced`): then nothing is published
and the stream waits for ever. The streams are those that keep up: `publish` drops a queue that
has 64 events in it, and its reader waits for ever too.

**Notifications** (`Notifications.tla`). One notification, one endpoint per channel,
a loop in each of two processes: `Claim`, `LoadClaimed`, `Post`, `CommitBatch`,
with `LeaseEnds` for the five minutes after which a claim is taken back, and
`LoseBatch` for the death of a process. A batch of fifty posts of ten seconds can
outlast its lease, so a lease may end whenever it is held. `FreshClaimIsAlone`: two
workers hold one delivery only after that. `GivenUpAfterFailures`: overwriting each
other's attempts never makes a delivery fail early. `DeliveriesEnd`: sent or given
up in the end, unless the endpoint is deleted. `OutboxPromise.tla` is what all this
amounts to for who is notified, without workers, claims and batches: an endpoint is
posted to until it accepts or has failed often enough, and after it has accepted it
is posted to or given up only if a worker was late or a batch died before its results were
stored; "sent" and "failed" are final without a late worker. `OutboxKeepsPromise`: the
module implements it, with the status of the rows as boxes, `overrun` as lateness, and
`accepted`, a history of the posts that succeeded (up to the second one).

**Billing** (`Billing.tla`). `Bill` and `StoreInvoice`; `AnswerExisting`,
`OpenPayment`, `StorePayment`, `PaymentConflict`, `AnswerWinner`;
`ReportOutcome`, the provider, which is outside, and `PaymentWebhook`, in any order
and any number of times. `AnswersAgree`: one key, one payment, for the invoice that
was asked for. `PaidOnSuccess`: paid if and only if a success was reported.
`TotalsAreFinal`: no later usage and no racing request changes what was billed;
the run checks it as a part of `BillingKeepsPromise`. `BillingPromise.tla` has neither requests, races nor a provider: a period is billed once;
a key that stands for nothing is bound to a payment nothing else has, for ever; answers
name what is bound; what is paid stays paid. `BillingKeepsPromise`: the module implements
it, with the rows of invoices as bills and the rows of payments as bindings.

**Connectors** (`Connectors.tla`). The cache of each of two processes, filed under
the version of the settings; `GetConnector`, `LoadConfig`, `Look`, `Acquire`,
`Reuse`, `Obtain`, `Connect`; `Configure`, `ReadSettings`, `WriteSettings`, `Evict`
for an administrator; `Reconnect`; `Drop` for a lost connection. No process tells
another that the settings changed; what keeps `ConnectorIsCurrent` true is that the
version is part of the key. It does not hold after two administrators have stored
settings under one version (`raced`). `NoConnectionIsLost`: an open connection stays
in the cache, where it can be closed.

**Memories** (`Memories.tla`). Each turn starts a task that nobody waits for and an
extraction at its end; `CountActive`, `ReadOldest`, `InsertMemory` are the steps of
`add_memory` between which the other tasks run. `CapIsKept` is the bound that
holds: tasks that add at once exceed the cap by less than one each, however long they go on.
`IndexAgrees` relates the table and its search index.

**Agent** (`Agent.tla`). Turns share a circuit breaker: `Ask`, the outcome of an
attempt, `RecordSuccess`, `CountFailure`, `RecordOpening`, the fallback, `RecoveryTimePasses`. A
turn classifies, asks, runs tools, and sums up after the last round; `Trimmed` is
`trim_messages` on sizes, in `AgentContext.tla`. `OneReviewPerCall`: the
registry's retries submit no write twice, because `execute_sql` asks for none.
`OpeningsAreAccountedFor`: the breaker opens in one step and the opening is recorded in a
later one, which swallows every exception, and a client may go away between them; of every
opening there is one record, unless its insert failed or its turn was cancelled, whatever
calls that began earlier fail meanwhile. `unrecorded` counts the exceptions.
`ContextFits`: what is sent of the messages is within the budget but for one cut tool result,
and has a question. The system prompt is sent in addition and counted by neither the code nor
the property; a question over the budget is cut by characters in the code, and no run reaches that branch.
`TurnsEnd`: from some time on every turn that began has ended, or waits for a tool that never
comes back. That a turn ends within `MAX_TOTAL_TIME`, as the manual says, does not hold
(`TurnsEndInTime`, under the divergences): the time is compared at the top of a round, and a tool that hangs keeps the turn from
getting there. The two loops of `trim_messages` are one function (`Scan`)
from the number of messages looked at to what the loop has kept by then.

### Proofs

`ServicesProofs` proves every safety property of the six modules and both refinements,
for every value of the constants that meets the assumption of its module. These
give the constants their types, make limits positive, and make the sets of tasks of
`Memories` and of turns of `Agent` finite (`MemoriesAssumption`, `AgentAssumption`), without which
their counts are no numbers. Each module has one inductive invariant.

| Module | Theorems | Property |
|---|---|---|
| `Billing` | `BillingTypeCorrect`, `OnePaymentPerKey`, `InvoicesArePaidOnSuccess`, `TotalsStay`, `BillingIsKept` | `BillingTypeOK`, `AnswersAgree`, `PaidOnSuccess`, `TotalsAreFinal`, `BillingKeepsPromise` |
| `Notifications` | `NotificationsTypeCorrect`, `OneSenderPerFreshClaim`, `GivenUpOnlyAfterFailures`, `DeliveryIsKept` | `NotificationsTypeOK`, `FreshClaimIsAlone`, `GivenUpAfterFailures`, `OutboxKeepsPromise` |
| `Ingestion` | `ReadyMeansSearchable`, `DeletedMeansForgotten` | `ReadyIsSearchable`, `DeletedIsForgotten` |
| `Connectors` | `ConnectorsTypeCorrect`, `ConnectorsAreCurrent`, `OpenConnectionsAreFound` | `ConnectorsTypeOK`, `ConnectorIsCurrent`, `NoConnectionIsLost` |
| `Memories` | `MemoriesTypeCorrect`, `ExcessIsBounded`, `IndexIsComplete` | `MemoriesTypeOK`, `CapIsKept`, `IndexAgrees` |
| `Agent` | `AgentTypeCorrect`, `ACallSubmitsOnce`, `OpeningsAreRecordedOnce` | `AgentTypeOK`, `OneReviewPerCall`, `OpeningsAreAccountedFor` |
| `AgentContext` | `WhatIsSentFits` | `ContextFits` |
| `MCServices` | `EachBehavesAsAlone`, `AllAreSound` | (the six specifications), `ServicesAreSound` |

* `BillingInv`: a request that has found no payment under its key may be overtaken
  before it inserts. `PaymentInv` says that a key has one payment all the same
  (the unique index), and `ClientInv` what the loser may conclude from the row it
  then reads. `TotalsStay` is an action property and needs no invariant beyond
  the types. `BillingIsKept` maps `StoreInvoice` to `Issue`, `StorePayment` to `Bind`,
  the two answers to `Answer`, a report of success to `Pay` and everything else to a
  stutter. That a period is still billed when a payment for it is stored, steps after
  the request has read its invoice, is `ClientInv`; that a key gets no second payment is
  the unique index, and that a repeated or late report reopens nothing is in `PaidFor`.
* `NotificationsInv`: `ClaimInv` says that, until a lease has ended while it was held,
  whoever holds a delivery has its claim in the row, fresh, and is alone.
  `AttemptInv` bounds the attempts in the row *and* those each worker is about to
  write by the failures so far: a late batch overwrites attempts, but never with more
  failures than there have been.
* `AcceptInv`, for `DeliveryIsKept`: a row says "sent", and a worker is about to
  write it, only of an endpoint that has accepted; and one that has accepted has such a row or
  such a worker, which is alone with it (`ClaimInv`), as long as no worker was late and no
  batch died. A step of `CommitBatch` writes many rows at once and is one
  step `Settle`: each row that changes was live, and was accepted or refused often enough
  by the worker that writes it.
* `IngestionInv`: a job's later steps rely on what its earlier ones did to the two
  indexes (`StageOf`), and until jobs overlap or a unit above the owner acts,
  nobody else undoes it (`StageInv`); a document that says ready or deleted has no
  job at work, so its indexes stay as they are. After an overlap nothing of this
  holds, and the properties claim nothing.
* `ConnectorsInv`: until writers of the settings race, a version is the number of the
  write it names (`VersionsAreTargets`), so a connector filed under a version is to
  that database, in every cache. `CallerIsSound` says the same of what the callers
  have read and hold, with the lower bound each took at its beginning.
* `MemoriesInv`: a bound on the active memories is not inductive, because tasks that
  have counted will insert whatever was inserted meanwhile. `RoomInv` speaks of every
  *set* of tasks that are about to add: the memories that survive the deprecations
  of these tasks, and the tasks themselves, are fewer than the cap and the number of
  all tasks together. A task that inserts leaves the set, and what it deprecated left
  the memories; one that counts enters it with as many oldest memories as the
  count is over. `FewAreYounger` is the combinatorial half: a set without its `n`
  oldest has at most its size less `n` members.
* `AgentInv`: a turn is a row of its own, and one lemma (`NewRowKeeps`) reduces every
  step to the row it writes. A running tool has submitted nothing before it answers
  or raises, since the only tool that submits is not tried again. A failure opens
  the circuit if and only if its turn goes on to record it (`OpeningKeeps`); the set of turns
  that are about to record gains or loses one member at a time (`AccountKept`), and each one that
  leaves is counted as recorded or unrecorded.
* `WhatIsSentFits` has two halves. `ChatInv`: a turn that runs has a question first,
  because steps only append to its messages. `TrimmedFits`: of any messages that have
  a question `Trimmed` makes a context that fits. Its loops are functions on numbers, defined by their values at
  smaller numbers, and so is the sum of sizes the property speaks of. The provers cannot
  apply an induction theorem to a predicate, but to a set: `SetInduction`, a set that has
  0 and with each number the next one has them all, follows from the well-foundedness of
  the numbers. With it `IterationExists` shows that such functions exist (`SizesAre`,
  `ScanIs`), `SizesAddUp` that sizes add up over concatenation, and `KeepBackCounts` that a loop
  never keeps more than it counts (`CountsEnough`), nor counts more than the budget
  and one cut result.
* `EachBehavesAsAlone`: a behaviour of `MCServices` is a behaviour of the specification
  of each component, its fairness included, since a step of one leaves the others'
  variables alone. All theorems about components thus hold of the composition;
  `AllAreSound` collects those that make up `ServicesAreSound`.

TLC checked these invariants on the instance of `services` before they were
proved, `AcceptInv` and `OutboxKeepsPromise` with two endpoints as well.

### Bounds

Two of everything that competes: jobs, workers, clients, callers, tasks and turns;
two chunks (one can be missing), two units (the owner and one above it), two
processes and three versions of the settings (one stale, one current, one to
come), a cap of one memory with two tasks of two facts, a threshold of two failures
with one retry. Against a budget of five tokens and a cut at two, tool results of one
fit, of four fit and are cut, of seven do not fit. One crash, one lost batch, one lost connection: each can fall
between any two steps. Attempts are limited to two instead of five, and the limit
counts, so that two failures reach it. `MaxRequests`, `MaxCalls`, `MaxEdits`,
`MaxChanges` and `MaxRows` end a behaviour and bound nothing in the code;
deadlock is therefore not checked in this run.

### Fairness

The event loop goes on with every ready coroutine: weak fairness of each job and
stream (`IngestionFairness`), and of each turn that does not wait for a tool
(`AgentFairness`). Calls of the model have a timeout for each read, and what a provider answers is
assumed to be finite; of tools nothing is assumed, because `ToolRegistry.execute` awaits them
without a timeout and the connectors set none for a statement. The delivery loop runs for ever in
`_saga_recovery_loop`, swallowing exceptions, and time passes: weak fairness of
each worker's steps, of the end of a lease and of the next retry
(`NotificationsFairness`). That a loop which runs gets to a delivery that is due holds while
no more than fifty are due: `deliver_pending` takes `limit(50)` in no stated order, which is
left out, and hundreds of deliveries whose endpoints were deleted, which are
reclaimed for ever, could starve a live one. Neither an upload nor a turn has to begin, failures and
a crash are allowed at every step, and nothing else is assumed of clients, models or providers.

## Findings

Four runs are expected to fail; `PROJECT.json` quotes the sentence each refutes.

* `review_repair_org`: a committed write that was approved from an ancestor
  organization is never repaired.
* `backup_reverse`: a rollback cannot always be rolled back.
* `connectors_default`: from the second change of an organization's target
  database on, `create_connector()` finds nothing, or an older connector, after
  `get_connector()` returned one.
* `agent_context`: trimming can drop an assistant message and keep the result of
  its call, or keep only some of the results of an answer.

### Divergences that no run checks

These were met while modelling. Those in the table are properties of the modules,
with a comment that says so: putting the name under `INVARIANT` (or
`PROPERTY`) of the configuration shows the counterexample.

| Property | Configuration | What the code does |
|---|---|---|
| `ReviewWorkflow!PendingIsRepaired` (`README.md:34-35`) | `ReviewLiveness.cfg` | The loop may repair a review between the two writes of the executor's exception path, and the second write then reports a closed saga as pending |
| `ReviewWorkflow!FirstApproverKept` (docstring at `db_operations.py:349`) | `ReviewSafety.cfg` | After an escalation the second approver is recorded over the first |
| `ReviewWorkflow!CommittedIsRepaired` (`README.md:34-35`) | `ReviewLiveness.cfg` with `MultiTenant = TRUE` | A repair that finds no log entry calls `create_connector()`, which raises for a loop without an organization: it can fail on every pass |
| `BackupRollback!RollbackReachesBackup` (docstring at `backup.py:125`, `README.md:33`) | `Backup.cfg` | `safety.py:81-97` accepts an UPDATE that assigns the primary key; its rollback deletes and inserts by the old keys, and the row that was moved stays beside the restored one |
| `Agent!TurnsEndInTime` (`user-manual.md:157`) | `Services.cfg` | `MAX_TOTAL_TIME` is compared at the top of a round (`react_loop.py:137`); a tool is awaited without a timeout, so one that does not come back keeps its turn for ever |
| `BackupRollback!ActiveIsRestorable` (`settings.py:227`) | `Backup.cfg` | Key rotation takes the marker of a chunked snapshot for a legacy snapshot and encrypts it; the backup cannot be decoded afterwards |
| `ChatQuota!StreamsAreReserved` (`reviews/review-bugbot-20260822230957.md:45`) | `ChatQuota.cfg` | A retry with a known request id streams on a settled reservation |
| `Organization!OnePrimary` (`organization_migration_check.py:75-81`) | `Organization.cfg` | `disable_membership` lets a primary membership end without a replacement if the user's others of the level have not begun, and nothing makes one of these primary when it begins |
| `Accounts!PasswordRevokes` (`reviews/user-remediation-20260825/README.md:16`) | `Accounts.cfg` | Two changes of password that overlap raise the token version once, so a token issued between them survives the second |
| `Ingestion!DeleteCleansUp` (comment at `documents.py:148`) | `Services.cfg` | Called from a unit above the owner, `delete_document` purges the caller's unit in the indexes and leaves the owner's chunks |
| `Billing!PaidOnce` | `Services.cfg` with a second key in `PayKeys` | Two payments with different keys can be open for one invoice, and both succeed |

Not stated as properties: `search_memories` fails on every call (the FTS table has
no column `fts`), and `should_extract` has no caller; deleting a memory of another
user removes its index entry; `PUT` of a memory's content leaves the index as it
was; the profile keeps deleted memories after `clear_all`; a reply is saved
into a conversation that was deleted meanwhile; a delivery whose endpoint is
deleted while it is claimed is reclaimed for ever; a slow worker writes "retry" over
"sent"; a usage chunk without choices is skipped by the stream; the question stands
twice in the context when it is stored before the history is read; an unknown tool
name raises out of `run_agent`; the agent's `execute_sql` files its review
without `evaluate_policy`, under tenant `default`.

## What is proved, and what is only checked

Proved for every instance: every safety property of every component, and the three
refinements, of the review workflow, billing and the delivery of notifications. The sections
above name the theorems; the only assumptions are the named ones on the constants
(`ConstantsAssumption`, `BackupAssumption`, `AgentAssumption` and so on, each in the
module that declares the constants), which TLC evaluates in the runs.

Only model-checked, on the instances of the runs:

* liveness under fairness (`CommittedIsRepaired`, `StreamsEnd`, `DeliveriesEnd`,
  `TurnsEnd`): the prover has no rules for `ENABLED`. The promises
  state no fairness, so the refinements are about safety;
* that the four runs that are expected to fail do so: a counterexample is an instance.

The run `services` has several components in one specification. Most of its theorems are
about the specification of each of them (`BillingSpec`, `AgentSpec`, ...), and
`EachBehavesAsAlone` carries them over to `MCServices!Spec`.

## What is not modelled, and why

* Embedding, ranking, reranking, OCR, prompts, and how a file becomes text:
  numbers and text from external services. Which chunks the indexes hold, and who may
  find them, is part of `Ingestion`.
* The checks on SQL text (`safety.py`, `sql_utils.py`): regular expressions; a
  statement is refused or not.
* Settings (except key rotation), migrations, scripts, logging, telemetry:
  configuration, one-shot code, counters. The rate limiter counts in one process
  without an `await` between its test and its count, or in Redis.
* The web client: its state is its own.
* In the modelled components: the lock-out after failed logins, the choice of a
  model by load and price, read marks and test messages of notifications, renaming
  conversations, the total capacity of the snapshot store, a target commit
  whose answer is lost (it is taken not to have happened), domain events, and for
  the review workflow and the backups a second server process. One process is what
  the deployment files start; the compare-and-set of the review would hold for
  several, since it is a statement of the database.
