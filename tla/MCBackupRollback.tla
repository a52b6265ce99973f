-------------------------- MODULE MCBackupRollback --------------------------
(***************************************************************************)
(* Small instances of BackupRollback: a table with two keys, a value that  *)
(* JSON keeps, one that it turns into text, and statements that filter by  *)
(* value and change the filtered value, or filter by key and change the    *)
(* key, to one that is free or not.                                        *)
(***************************************************************************)
EXTENDS BackupRollback, FiniteSets, TLC

CONSTANTS k1, k2, q1, q2, q3, open, shut, blob

MCStored == [v \in Values |-> IF v = blob THEN shut ELSE v]

WhereOpen == {<<k, open>> : k \in Keys}
WhereSecond == {<<k2, v>> : v \in Values}

SetShut == [row \in Keys \X Values |-> <<row[1], shut>>]
SetFirst == [row \in Keys \X Values |-> <<k1, row[2]>>]

Close == [op |-> "UPDATE", cond |-> WhereOpen, set |-> SetShut]
Purge == [op |-> "DELETE", cond |-> WhereOpen, set |-> SetShut]
Rekey == [op |-> "UPDATE", cond |-> WhereSecond, set |-> SetFirst]

CloseOnly == {Close}
AllStatements == {Close, Purge, Rekey}

Full == [k \in Keys |-> IF k = k1 THEN open ELSE blob]
OneTable == {Full}

Symmetric == Permutations(Requests)

\* Bound: two calls when another program changes the table, three when none does.
ThreeCallsAlone ==
  outside > 0 => Cardinality({q \in Requests : req[q].pc # "idle"}) <= 2
=============================================================================
