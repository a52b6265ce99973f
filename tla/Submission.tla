----------------------------- MODULE Submission -----------------------------
(***************************************************************************)
(* Submitting a write for review while the approval policies change:       *)
(* submit_review in backend/api/db_operations.py, backend/api/policies.py  *)
(* and backend/approval_policy.py.                                         *)
(*                                                                         *)
(* A request looks its Idempotency-Key up, counts the rows its statement   *)
(* would touch, reads the enabled policies, and inserts the review: four   *)
(* transactions, with the requests of other users and the edits of         *)
(* administrators between them.  One organization is followed, and reviews *)
(* are never deleted.  A policy is what it demands and from how many rows  *)
(* on; the version number, the priority and the other filters only choose  *)
(* which rows it matches or is shown for.                                  *)
(***************************************************************************)
EXTENDS Naturals, FiniteSets, FiniteSetsExt

CONSTANTS
  Reviews,       \* rows of db_review_tasks
  ReviewKeys,    \* Idempotency-Key headers
  Statements,    \* the content of a request: its statement and reason
  Submitters,    \* requests in flight
  Policies,      \* rows of approval_policies
  Admins,        \* edits in flight
  RowCounts,     \* numbers of rows a statement may touch
  Bodies,        \* bodies of the requests for a policy
  NoReview,
  NoStatement,
  NoReviewKey,
  NoPolicy,
  MaxSubmits,        \* bound: submissions of a behaviour
  MaxPolicyChanges   \* bound: edits of policies of a behaviour

ASSUME SubmissionAssumption ==
  /\ NoReview \notin Reviews /\ NoReviewKey \notin ReviewKeys /\ NoPolicy \notin Policies
  /\ NoStatement \notin Statements
  /\ Bodies \subseteq [used : {TRUE}, enabled : BOOLEAN, minRows : RowCounts, approvals : 1..2]
  /\ RowCounts \subseteq Nat /\ 0 \in RowCounts /\ Statements # {}
  /\ MaxSubmits \in Nat /\ MaxPolicyChanges \in Nat

VARIABLES
  review,     \* the reviews: the content, the key and the approvals required
  logged,     \* reviews with a record "awaiting_review" in the audit log
  policy,     \* the rows of approval_policies
  submit,     \* the requests
  edit,       \* the edits: the row read and whether it was enabled then
  replies,    \* history: a key, what was asked under it, and the review answered
  floor,      \* history: the least the edits left demanded since a request counted
  submits,
  policyChanges

submissionVars ==
  <<review, logged, policy, submit, edit, replies, floor, submits, policyChanges>>

-----------------------------------------------------------------------------
(* Data *)

Approvals == 1..2
Review == [used : BOOLEAN, statement : Statements \cup {NoStatement},
           key : ReviewKeys \cup {NoReviewKey}, required : Approvals]
UnusedReview ==
  [used |-> FALSE, statement |-> NoStatement, key |-> NoReviewKey, required |-> 1]
Policy == [used : BOOLEAN, enabled : BOOLEAN, minRows : RowCounts, approvals : Approvals]
UnusedPolicy == [used |-> FALSE, enabled |-> FALSE, minRows |-> 0, approvals |-> 1]

SubmitPoints == {"idle", "count", "evaluate", "insert", "winner", "log"}
Submit == [pc : SubmitPoints, statement : Statements \cup {NoStatement},
           key : ReviewKeys \cup {NoReviewKey}, rows : RowCounts, required : Approvals,
           review : Reviews \cup {NoReview}]
IdleSubmit == [pc |-> "idle", statement |-> NoStatement, key |-> NoReviewKey, rows |-> 0,
               required |-> 1, review |-> NoReview]
NoEdit == [policy |-> NoPolicy, enabled |-> FALSE]

\* The reviews stored under a key; a missing key is NULL and equals nothing.
Under(k) == {r \in Reviews : review[r].used /\ review[r].key = k /\ k # NoReviewKey}

\* evaluate_policy: the enabled policies that match, and the most they require.
Matching(rows, ps) == {p \in Policies : ps[p].used /\ ps[p].enabled /\ rows >= ps[p].minRows}
Required(rows, ps) == Max({1} \cup {ps[p].approvals : p \in Matching(rows, ps)})

\* History: the least number of approvals that no policy that matches exceeds.
Demand(rows, ps) ==
  CHOOSE a \in Approvals :
    /\ \A p \in Matching(rows, ps) : ps[p].approvals <= a
    /\ a = 1 \/ \E p \in Matching(rows, ps) : ps[p].approvals = a

SubmissionInit ==
  /\ review = [r \in Reviews |-> UnusedReview]
  /\ logged = {}
  /\ policy = [p \in Policies |-> UnusedPolicy]
  /\ submit = [q \in Submitters |-> IdleSubmit]
  /\ edit = [a \in Admins |-> NoEdit]
  /\ replies = {}
  /\ floor = [q \in Submitters |-> 1]
  /\ submits = 0
  /\ policyChanges = 0

-----------------------------------------------------------------------------
(* submit_review *)

UnchangedPolicies == UNCHANGED <<policy, edit, policyChanges>>

\* A review is found under the key: it is the answer, or the key was used for
\* another request and the answer is 409.
Found(k, s, r) ==
  replies' = IF review[r].statement = s
             THEN replies \cup {[key |-> k, statement |-> s, review |-> r]} ELSE replies

\* The lookup, and the end of a request whose review was already there.
BeginSubmit(q, k, s) ==
  /\ submit[q].pc = "idle"
  /\ submits < MaxSubmits
  /\ submits' = submits + 1
  /\ \/ /\ Under(k) # {}
        /\ \E r \in Under(k) : Found(k, s, r)
        /\ UNCHANGED submit
     \/ /\ Under(k) = {}
        /\ submit' = [submit EXCEPT ![q] = [IdleSubmit EXCEPT !.pc = "count",
                                                              !.key = k, !.statement = s]]
        /\ UNCHANGED replies
  /\ UnchangedPolicies
  /\ UNCHANGED <<review, logged, floor>>

\* The request is refused (no connector, a blocked or other statement), or the
\* rows are counted; a count that fails is passed over and leaves 0.
Count(q, rows) ==
  /\ submit[q].pc = "count"
  /\ \/ /\ submit' = [submit EXCEPT ![q] = IdleSubmit]
        /\ UNCHANGED floor
     \/ /\ submit' = [submit EXCEPT ![q].pc = "evaluate", ![q].rows = rows]
        /\ floor' = [floor EXCEPT ![q] = Demand(rows, policy)]
  /\ UnchangedPolicies
  /\ UNCHANGED <<review, logged, replies, submits>>

\* One statement reads the enabled policies.
Evaluate(q) ==
  /\ submit[q].pc = "evaluate"
  /\ submit' = [submit EXCEPT ![q].pc = "insert",
                              ![q].required = Required(submit[q].rows, policy)]
  /\ UnchangedPolicies
  /\ UNCHANGED <<review, logged, replies, floor, submits>>

\* The review is inserted, unless the unique key is taken by now.
Insert(q, r) ==
  /\ submit[q].pc = "insert"
  /\ \/ /\ Under(submit[q].key) = {}
        /\ ~review[r].used
        /\ review' = [review EXCEPT ![r] =
                        [used |-> TRUE, statement |-> submit[q].statement,
                         key |-> submit[q].key, required |-> submit[q].required]]
        /\ submit' = [submit EXCEPT ![q].pc = "log", ![q].review = r]
     \/ /\ Under(submit[q].key) # {}
        /\ submit' = [submit EXCEPT ![q].pc = "winner"]
        /\ UNCHANGED review
  /\ UnchangedPolicies
  /\ UNCHANGED <<logged, replies, floor, submits>>

\* The loser of the race answers the committed winner, or 409; it logs nothing.
Winner(q) ==
  /\ submit[q].pc = "winner"
  /\ \E r \in Under(submit[q].key) : Found(submit[q].key, submit[q].statement, r)
  /\ submit' = [submit EXCEPT ![q] = IdleSubmit]
  /\ UnchangedPolicies
  /\ UNCHANGED <<review, logged, floor, submits>>

\* The record "awaiting_review" is written, or fails and is passed over; the
\* review is the answer either way.
LogSubmission(q) ==
  /\ submit[q].pc = "log"
  /\ \/ logged' = logged \cup {submit[q].review}
     \/ UNCHANGED logged
  /\ replies' = replies \cup {[key |-> submit[q].key, statement |-> submit[q].statement,
                               review |-> submit[q].review]}
  /\ submit' = [submit EXCEPT ![q] = IdleSubmit]
  /\ UnchangedPolicies
  /\ UNCHANGED <<review, floor, submits>>

-----------------------------------------------------------------------------
(* The policies *)

\* The end of an edit.  A request that has counted and not read the policies yet
\* may from now on be demanded less than before.
SetPolicies(ps) ==
  /\ policy' = ps
  /\ floor' = [q \in Submitters |->
                 IF submit[q].pc = "evaluate"
                 THEN Min({floor[q], Demand(submit[q].rows, ps)}) ELSE floor[q]]
  /\ UNCHANGED <<review, logged, submit, replies, submits>>

CreatePolicy(p, body) ==
  /\ policyChanges < MaxPolicyChanges
  /\ policyChanges' = policyChanges + 1
  /\ ~policy[p].used
  /\ SetPolicies([policy EXCEPT ![p] = body])
  /\ UNCHANGED edit

\* mutant: the old version is disabled when it is read, in a transaction of its own
ReadPolicyDisabling(a, p) ==
  /\ policyChanges < MaxPolicyChanges
  /\ policyChanges' = policyChanges + 1
  /\ edit[a] = NoEdit
  /\ policy[p].used
  /\ edit' = [edit EXCEPT ![a] = [policy |-> p, enabled |-> policy[p].enabled]]
  /\ policy' = [policy EXCEPT ![p].enabled = FALSE]
  /\ UNCHANGED <<review, logged, submit, replies, floor, submits>>

\* version_policy and toggle_policy read the row first.
ReadPolicy(a, p) ==
  /\ policyChanges < MaxPolicyChanges
  /\ policyChanges' = policyChanges + 1
  /\ edit[a] = NoEdit
  /\ policy[p].used
  /\ edit' = [edit EXCEPT ![a] = [policy |-> p, enabled |-> policy[p].enabled]]
  /\ UNCHANGED <<review, logged, policy, submit, replies, floor, submits>>

\* The new version and the end of the old one are one transaction; a row read as
\* disabled has not changed and is not written.
VersionPolicy(a, new, body) ==
  LET old == edit[a].policy IN
  /\ old # NoPolicy
  /\ ~policy[new].used
  /\ SetPolicies([policy EXCEPT ![new] = body,
                                ![old].enabled = IF edit[a].enabled THEN FALSE ELSE @])
  /\ edit' = [edit EXCEPT ![a] = NoEdit]
  /\ UNCHANGED policyChanges

TogglePolicy(a) ==
  /\ edit[a].policy # NoPolicy
  /\ SetPolicies([policy EXCEPT ![edit[a].policy].enabled = ~edit[a].enabled])
  /\ edit' = [edit EXCEPT ![a] = NoEdit]
  /\ UNCHANGED policyChanges

SubmissionNext ==
  \/ \E q \in Submitters :
       \/ \E k \in ReviewKeys \cup {NoReviewKey}, s \in Statements : BeginSubmit(q, k, s)
       \/ \E rows \in RowCounts : Count(q, rows)
       \/ Evaluate(q) \/ Winner(q) \/ LogSubmission(q)
       \/ \E r \in Reviews : Insert(q, r)
  \/ \E p \in Policies, body \in Bodies : CreatePolicy(p, body)
  \/ \E a \in Admins :
       \/ \E p \in Policies : ReadPolicy(a, p)
       \/ \E new \in Policies, body \in Bodies : VersionPolicy(a, new, body)
       \/ TogglePolicy(a)

SubmissionSpec == SubmissionInit /\ [][SubmissionNext]_submissionVars

-----------------------------------------------------------------------------
(* Properties *)

\* Every variable has a value of its kind (submit_review and the policies).
SubmissionTypeOK ==
  /\ review \in [Reviews -> Review]
  /\ logged \in SUBSET {r \in Reviews : review[r].used}
  /\ policy \in [Policies -> Policy]
  /\ submit \in [Submitters -> Submit]
  /\ edit \in [Admins -> [policy : Policies \cup {NoPolicy}, enabled : BOOLEAN]]
  /\ floor \in [Submitters -> Approvals]
  /\ submits \in 0..MaxSubmits /\ policyChanges \in 0..MaxPolicyChanges

\* Requests under one Idempotency-Key are answered one review, and one that holds
\* what they asked for, however the lookups and insertions of submit_review race.
OneReviewPerKey ==
  \A a, b \in replies :
    /\ review[a.review].statement = a.statement
    /\ (a.key = b.key /\ a.key # NoReviewKey) => a.review = b.review

\* The approvals a review requires are at least what the policies, as the edits
\* left them one after the other, demanded for the counted rows at some time
\* between the count and evaluate_policy: a policy replaced by a new version opens
\* no gap through which the request sees neither of the two.
DemandIsMet ==
  \A q \in Submitters :
    /\ submit[q].pc = "insert" => submit[q].required >= floor[q]
    /\ submit[q].pc = "log" => review[submit[q].review].required >= floor[q]

\* Every variable has a value of its kind, one key has one review however its
\* requests race in submit_review, and a review requires what the policies demanded
\* meanwhile.
SubmissionsAreSound == SubmissionTypeOK /\ OneReviewPerKey /\ DemandIsMet
=============================================================================
