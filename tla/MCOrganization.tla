--------------------------- MODULE MCOrganization ---------------------------
(***************************************************************************)
(* A small instance of Organization: a company with two departments, a     *)
(* group that can move between them, and an individual node that may be    *)
(* created in the group.                                                   *)
(***************************************************************************)
EXTENDS Organization, TLC

CONSTANTS corp, sales, ops, team, desk, m1, m2, h1, h2, ann

MCLevel == corp :> 1 @@ sales :> 2 @@ ops :> 2 @@ team :> 3 @@ desk :> 4
MCHome == corp :> NoUnit @@ sales :> corp @@ ops :> corp @@ team :> sales

Symmetric == Permutations(Sessions) \cup Permutations(Members)
=============================================================================
