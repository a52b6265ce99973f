------------------------------ MODULE AuditChain ------------------------------
(***************************************************************************)
(* The hash chain of the operation log: log_operation appends to it        *)
(* (backend/db_connector/backup.py), verify_audit_chain checks it          *)
(* (backend/audit.py), init_db numbers the rows of an old database         *)
(* (backend/models/database.py).                                           *)
(*                                                                         *)
(* Several processes may append.  SQLite serializes them with BEGIN        *)
(* IMMEDIATE; elsewhere the lock on the last row does not keep a waiting   *)
(* transaction from going on with the row it waited for, and only the      *)
(* unique sequence decides.  A hash is the tuple of what is hashed: two    *)
(* different contents never have the same one.                             *)
(***************************************************************************)
EXTENDS Naturals, Sequences

CONSTANTS
  Writers,    \* calls of log_operation
  Processes,
  Process,    \* of each writer
  Verifiers,  \* calls of verify_audit_chain
  Contents,   \* what is logged of an operation
  None,       \* NULL
  Attempts,   \* of an append: 5 in the code
  MaxLegacy,  \* bound: rows of an old database
  MaxLog      \* bound: rows

ASSUME AuditAssumption ==
  /\ Process \in [Writers -> Processes]
  /\ None \notin Contents
  /\ Attempts \in Nat \ {0}
  /\ MaxLegacy \in Nat
  /\ MaxLog \in Nat

VARIABLES
  sqlite,   \* the dialect of the application database
  log,      \* db_operation_log, in the order of created_at
  up,       \* init_db has run
  rebuilt,  \* rows that init_db has numbered and not committed yet
  writer,   \* calls of log_operation
  check,    \* calls of verify_audit_chain
  written   \* history: the contents as they were appended

vars == <<sqlite, log, up, rebuilt, writer, check, written>>

-----------------------------------------------------------------------------
(* Data *)

Hash(s, c, p) == <<s, c, p>>
Row(s, c, p) == [sequence |-> s, content |-> c, prev |-> p, hash |-> Hash(s, c, p)]
LegacyRow(c) == [sequence |-> 0, content |-> c, prev |-> None, hash |-> None]
HashOf(r) == Hash(r.sequence, r.content, r.prev)

Rows == {log[n] : n \in DOMAIN log}
Highest(rows) == CHOOSE r \in rows : \A o \in rows : o.sequence <= r.sequence

IdleWriter == [pc |-> "idle", content |-> None, sequence |-> 0, prev |-> None,
               tries |-> 0, since |-> 0]
IdleCheck == [pc |-> "idle", after |-> 0, rows |-> {}]

Init ==
  /\ sqlite \in BOOLEAN
  /\ \E n \in 0 .. MaxLegacy : \E c \in [1 .. n -> Contents] :
       /\ ~sqlite => n = 0  \* older versions knew SQLite only
       /\ log = [k \in 1 .. n |-> LegacyRow(c[k])]
       /\ written = c
  /\ up = FALSE
  /\ rebuilt = <<>>
  /\ writer = [w \in Writers |-> IdleWriter]
  /\ check = [v \in Verifiers |-> IdleCheck]

-----------------------------------------------------------------------------
(* init_db: one transaction, which a crash rolls back *)

NeedsRebuild == {log[n].sequence : n \in DOMAIN log} # DOMAIN log

RebuildRow ==
  /\ ~up /\ NeedsRebuild
  /\ Len(rebuilt) < Len(log)
  /\ LET n == Len(rebuilt) + 1
         p == IF n = 1 THEN None ELSE rebuilt[n - 1].hash IN
     rebuilt' = Append(rebuilt, Row(n, log[n].content, p))
  /\ UNCHANGED <<sqlite, log, up, writer, check, written>>

CommitBoot ==
  /\ ~up
  /\ NeedsRebuild => Len(rebuilt) = Len(log)
  /\ log' = IF NeedsRebuild THEN rebuilt ELSE log
  /\ up' = TRUE
  /\ rebuilt' = <<>>
  /\ UNCHANGED <<sqlite, writer, check, written>>

CrashBoot ==
  /\ ~up
  /\ rebuilt' = <<>>
  /\ UNCHANGED <<sqlite, log, up, writer, check, written>>

-----------------------------------------------------------------------------
(* log_operation *)

InFlight(w) == writer[w].pc \in {"locked", "read"}

\* async with _audit_lock
Enter(w, c) ==
  /\ up /\ writer[w].pc = "idle"
  /\ \A o \in Writers : Process[o] = Process[w] => ~InFlight(o)
  /\ writer' = [writer EXCEPT ![w] = [IdleWriter EXCEPT
       !.pc = "locked", !.content = c, !.since = Len(log)]]
  /\ UNCHANGED <<sqlite, log, up, rebuilt, check, written>>

ReadLatest(w) ==
  writer' = [writer EXCEPT
    ![w].pc = "read",
    ![w].sequence = IF Rows = {} THEN 1 ELSE Highest(Rows).sequence + 1,
    ![w].prev = IF Rows = {} THEN None ELSE Highest(Rows).hash]

\* Mutant of Read: without BEGIN IMMEDIATE.
ReadUnlocked(w) ==
  /\ writer[w].pc = "locked"
  /\ ReadLatest(w)
  /\ UNCHANGED <<sqlite, log, up, rebuilt, check, written>>

Read(w) ==
  /\ writer[w].pc = "locked"
  /\ sqlite => \A o \in Writers : writer[o].pc # "read"
  /\ ReadLatest(w)
  /\ UNCHANGED <<sqlite, log, up, rebuilt, check, written>>

Taken(s) == \E r \in Rows : r.sequence = s

Insert(w) ==
  /\ writer[w].pc = "read" /\ ~Taken(writer[w].sequence)
  /\ Len(log) < MaxLog
  /\ log' = Append(log, Row(writer[w].sequence, writer[w].content, writer[w].prev))
  /\ written' = Append(written, writer[w].content)
  /\ writer' = [writer EXCEPT ![w] = IdleWriter]
  /\ UNCHANGED <<sqlite, up, rebuilt, check>>

\* Mutant of Conflict: the next number, over the hash that was read before.
ConflictRenumbers(w) ==
  /\ writer[w].pc = "read" /\ Taken(writer[w].sequence)
  /\ writer' = [writer EXCEPT ![w].sequence = @ + 1]
  /\ UNCHANGED <<sqlite, log, up, rebuilt, check, written>>

\* Mutant of Conflict: the last attempt is never noticed.
ConflictForever(w) ==
  /\ writer[w].pc = "read" /\ Taken(writer[w].sequence)
  /\ writer' = [writer EXCEPT ![w].tries = @ + 1, ![w].pc = "locked"]
  /\ UNCHANGED <<sqlite, log, up, rebuilt, check, written>>

\* The unique sequence is violated: roll back and try again, or raise.
Conflict(w) ==
  /\ writer[w].pc = "read" /\ Taken(writer[w].sequence)
  /\ writer' = [writer EXCEPT
       ![w].tries = @ + 1,
       ![w].pc = IF writer[w].tries + 1 = Attempts THEN "failed" ELSE "locked"]
  /\ UNCHANGED <<sqlite, log, up, rebuilt, check, written>>

\* Any other exception, or the process dies.
Abort(w) ==
  /\ InFlight(w)
  /\ writer' = [writer EXCEPT ![w] = IdleWriter]
  /\ UNCHANGED <<sqlite, log, up, rebuilt, check, written>>

-----------------------------------------------------------------------------
(* verify_audit_chain: the rows after a sequence are listed in one         *)
(* transaction, and the hash to start from is read in the next one.        *)

List(v, after) ==
  /\ up /\ check[v].pc # "listed"
  /\ check' = [check EXCEPT ![v] =
       [pc |-> "listed", after |-> after,
        rows |-> {r \in Rows : r.sequence > after}]]
  /\ UNCHANGED <<sqlite, log, up, rebuilt, writer, written>>

Earlier(rows, r) == {o \in rows : o.sequence < r.sequence}

\* No row is reported, when the first one should come after the given
\* sequence and the given hash.
Accepts(rows, after, hash) ==
  \A r \in rows :
    LET before == Earlier(rows, r) IN
    /\ r.sequence = 1 + IF before = {} THEN after ELSE Highest(before).sequence
    /\ r.prev = IF before = {} THEN hash ELSE Highest(before).hash
    /\ r.hash = HashOf(r)

Anchor(after) ==
  IF Taken(after) THEN (CHOOSE r \in Rows : r.sequence = after).hash ELSE None

Answer(v, valid) ==
  check' = [check EXCEPT ![v].pc = IF valid THEN "valid" ELSE "alarm"]

\* Mutant of Report: an incremental check starts without the previous hash.
ReportUnanchored(v) ==
  /\ check[v].pc = "listed"
  /\ Answer(v, Accepts(check[v].rows, check[v].after, None))
  /\ UNCHANGED <<sqlite, log, up, rebuilt, writer, written>>

Report(v) ==
  /\ check[v].pc = "listed"
  /\ Answer(v, Accepts(check[v].rows, check[v].after, Anchor(check[v].after)))
  /\ UNCHANGED <<sqlite, log, up, rebuilt, writer, written>>

\* Somebody takes the triggers off the table and edits a row.
Edit(n, c) ==
  /\ up /\ c # log[n].content
  /\ log' = [log EXCEPT ![n].content = c]
  /\ UNCHANGED <<sqlite, up, rebuilt, writer, check, written>>

-----------------------------------------------------------------------------
Next ==
  \/ RebuildRow \/ CommitBoot \/ CrashBoot
  \/ \E w \in Writers :
       \/ \E c \in Contents : Enter(w, c)
       \/ Read(w) \/ Insert(w) \/ Conflict(w) \/ Abort(w)
  \/ \E v \in Verifiers :
       \/ \E after \in 0 .. MaxLog : List(v, after)
       \/ Report(v)
  \/ \E n \in DOMAIN log, c \in Contents : Edit(n, c)

Spec == Init /\ [][Next]_vars

-----------------------------------------------------------------------------
(* Properties *)

WriterState == [pc : {"idle", "locked", "read", "failed"}, content : Contents \cup {None},
                sequence : Nat, prev : {None} \cup {r.hash : r \in Rows},
                tries : 0 .. Attempts, since : Nat]

\* Every variable keeps the shape of the rows and the local state it models:
\* whoever appends carries the hash of a row that exists, and has not tried
\* more often than it may.
TypeOK ==
  /\ sqlite \in BOOLEAN /\ up \in BOOLEAN
  /\ written \in Seq(Contents) /\ Len(written) = Len(log)
  /\ writer \in [Writers -> WriterState]
  /\ \A v \in Verifiers :
       check[v].pc \in {"idle", "listed", "valid", "alarm"} /\ check[v].after \in Nat

\* The log is one chain, whoever appends to it at the same time: no gap, no
\* fork, and every row carries the hash of the row before it and of its own
\* content as it was written.
ChainIsIntact ==
  up => \A n \in DOMAIN log :
    LET p == IF n = 1 THEN None ELSE log[n - 1].hash IN
    /\ log[n].sequence = n
    /\ log[n].prev = p
    /\ log[n].hash = Hash(n, written[n], p)

\* An entry is given up only after as many others as there are attempts have
\* been appended in the meantime, and never on SQLite.
OnlyRacesFail ==
  \A w \in Writers : writer[w].pc = "failed" =>
    ~sqlite /\ Len(log) >= writer[w].since + Attempts

\* A check, full or incremental, alarms if and only if the content of a row it
\* has listed is not what was written, whatever is appended while it runs.
ReportIsTrue ==
  \A v \in Verifiers :
    LET same == \A r \in check[v].rows : r.content = written[r.sequence] IN
    /\ check[v].pc = "valid" => same
    /\ check[v].pc = "alarm" => ~same
=============================================================================
