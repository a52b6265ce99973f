-------------------------- MODULE MCReviewWorkflow --------------------------
(***************************************************************************)
(* Small instances of ReviewWorkflow: one review (reviews share no state), *)
(* its submitter, an approver and an administrator of its organization and *)
(* an approver of an ancestor organization.                                *)
(***************************************************************************)
EXTENDS ReviewWorkflow

CONSTANTS r1, p1, p2, author, alice, root, ancestor, loop, console

MCSubmitter == [r \in Reviews |-> author]
Always == [r \in Reviews |-> TRUE]
Never == [r \in Reviews |-> FALSE]
=============================================================================
