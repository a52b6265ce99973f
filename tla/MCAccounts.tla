----------------------------- MODULE MCAccounts -----------------------------
(***************************************************************************)
(* Small instances of Accounts and Submission, which share no state.       *)
(* Accounts: three ids, of which the identity migration may have left two, *)
(* two payloads that ask for different names, two calls at a time and two  *)
(* processes that start.  Submission: two requests under at most one key,  *)
(* and two edits of two policies.  A behaviour picks one of the two.       *)
(***************************************************************************)
EXTENDS Accounts, Submission, TLC

CONSTANTS p1, p2, p3, k1, d1, d2, admin, bob, carl, c1, c2, w1, w2,
          r1, r2, k2, u1, u2, q1, q2, o1, o2, g1, g2

MCNameOf == d1 :> bob @@ d2 :> carl

Symmetric == Permutations(Calls) \cup Permutations(Workers) \cup Permutations(Migrated)

\* A policy of one approval and two of two: for every statement, and for one that
\* touches a row.  A policy that is not enabled comes from a toggle.
MCBodies ==
  {[used |-> TRUE, enabled |-> TRUE, minRows |-> b[1], approvals |-> b[2]] :
     b \in {<<0, 1>>, <<0, 2>>, <<1, 2>>}}

VARIABLE running

vars == <<accountVars, submissionVars, running>>

\* The accounts of a behaviour of Submission do not matter: one choice is enough.
\* A migrated carl without a bob differs from a bob without a carl by names only.
Init ==
  /\ AccountsInit /\ SubmissionInit
  /\ Taken(carl) => Taken(bob)
  /\ \/ running = "accounts"
     \/ running = "submission" /\ \A u \in People : ~Exists(u)

Next ==
  /\ UNCHANGED running
  /\ \/ running = "accounts" /\ AccountsNext /\ UNCHANGED submissionVars
     \/ running = "submission" /\ SubmissionNext /\ UNCHANGED accountVars

Spec == Init /\ [][Next]_vars
=============================================================================
