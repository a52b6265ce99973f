----------------------------- MODULE MCAuditChain -----------------------------
(***************************************************************************)
(* A small instance of AuditChain: two processes, one of them with two     *)
(* writers, two attempts, and a log that has room for two conflicts of one *)
(* writer.                                                                 *)
(***************************************************************************)
EXTENDS AuditChain, TLC

CONSTANTS w1, w2, w3, p1, p2, v1, c1, c2

MCProcess == (w1 :> p1) @@ (w2 :> p1) @@ (w3 :> p2)

Symmetric == Permutations({w1, w2}) \cup Permutations(Contents)
===============================================================================
