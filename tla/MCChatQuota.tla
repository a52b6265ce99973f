----------------------------- MODULE MCChatQuota -----------------------------
(***************************************************************************)
(* A small instance of ChatQuota: a share of two tokens, a limit that two  *)
(* shares fit in and three do not, and calls of two tokens: one is within  *)
(* a share, two are not.                                                   *)
(***************************************************************************)
EXTENDS ChatQuota, TLC

CONSTANTS q1, q2, q3, i1, i2, i3

Symmetric == Permutations(Requests) \cup Permutations(Ids)
=============================================================================
