--------------------------- MODULE AuditChainProofs ---------------------------
(***************************************************************************)
(* Theorems about AuditChain, for every number of rows, writers and checks.*)
(***************************************************************************)
EXTENDS AuditChain, TLAPS

IsSeq(s) == \E S : s \in Seq(S)
Shaped(r) == r = [sequence |-> r.sequence, content |-> r.content,
                  prev |-> r.prev, hash |-> r.hash]

PrevIn(rows, n) == IF n = 1 THEN None ELSE rows[n - 1].hash

\* Row n of rows is the n-th link of the chain over the given contents.
Link(rows, n, c) ==
  /\ Shaped(rows[n])
  /\ rows[n].sequence = n
  /\ rows[n].prev = PrevIn(rows, n)
  /\ rows[n].hash = Hash(n, c[n], PrevIn(rows, n))

-----------------------------------------------------------------------------
(* The invariant *)

ShapeInv ==
  /\ sqlite \in BOOLEAN /\ up \in BOOLEAN
  /\ IsSeq(log) /\ IsSeq(rebuilt)
  /\ written \in Seq(Contents) /\ Len(written) = Len(log)

ChainInv ==
  /\ up => \A n \in DOMAIN log : Link(log, n, written)
  /\ ~up =>
       /\ \A n \in DOMAIN log : log[n].sequence = 0 /\ log[n].content = written[n]
       /\ Len(rebuilt) <= Len(log)
       /\ \A n \in DOMAIN rebuilt : Link(rebuilt, n, written)

WriterOk(w) ==
  /\ writer[w].pc \in {"idle", "locked", "read", "failed"}
  /\ writer[w].content \in Contents \cup {None}
  /\ writer[w].sequence \in Nat
  /\ writer[w].since \in Nat
  /\ writer[w].tries \in 0 .. Attempts
  /\ writer[w].prev = None \/ \E n \in DOMAIN log : writer[w].prev = log[n].hash
  /\ IF writer[w].pc = "idle" THEN writer[w].prev = None ELSE up
  /\ InFlight(w) => writer[w].content \in Contents /\ writer[w].tries < Attempts
  /\ writer[w].pc = "locked" => writer[w].since + writer[w].tries <= Len(log)
  /\ writer[w].pc = "read" =>
       /\ writer[w].sequence \in 1 .. Len(log) + 1
       /\ writer[w].since + writer[w].tries < writer[w].sequence
       /\ writer[w].prev = PrevIn(log, writer[w].sequence)
  /\ writer[w].pc = "failed" => ~sqlite /\ writer[w].since + Attempts <= Len(log)

WriterShape(P) == [pc : P, content : P, sequence : P, prev : P, tries : P, since : P]
WriterInv ==
  /\ \E P : writer \in [Writers -> WriterShape(P)]
  /\ \A w \in Writers : WriterOk(w)

\* BEGIN IMMEDIATE: whoever has read the last row on SQLite is alone.
LockInv ==
  sqlite => \A w \in Writers : writer[w].pc = "read" =>
    /\ writer[w].sequence = Len(log) + 1
    /\ \A o \in Writers : writer[o].pc = "read" => o = w

\* What a check has listed are the rows after the given sequence, up to the
\* last one of that moment; of these only the contents may change later.
CheckOk(v) ==
  LET rows == check[v].rows IN
  /\ check[v].pc \in {"idle", "listed", "valid", "alarm"}
  /\ check[v].after \in Nat
  /\ check[v].pc # "idle" => up
  /\ check[v].pc = "idle" => rows = {}
  /\ \A r \in rows :
       /\ r.sequence \in DOMAIN log /\ r.sequence > check[v].after
       /\ r.prev = log[r.sequence].prev
       /\ r.hash = log[r.sequence].hash
       /\ \A k \in check[v].after + 1 .. r.sequence : \E o \in rows : o.sequence = k

CheckShape(P) == [pc : P, after : P, rows : P]
CheckInv ==
  /\ \E P : check \in [Verifiers -> CheckShape(P)]
  /\ \A v \in Verifiers : CheckOk(v)

IInv == ShapeInv /\ ChainInv /\ WriterInv /\ LockInv /\ CheckInv /\ ReportIsTrue

-----------------------------------------------------------------------------
(* The initial states *)

LEMMA InitInv == Init => IInv
<1> SUFFICES ASSUME Init PROVE IInv
  OBVIOUS
<1>1. PICK n \in 0 .. MaxLegacy : \E c \in [1 .. n -> Contents] :
        log = [k \in 1 .. n |-> LegacyRow(c[k])] /\ written = c
  BY DEF Init
<1>2. PICK c \in [1 .. n -> Contents] :
        log = [k \in 1 .. n |-> LegacyRow(c[k])] /\ written = c
  BY <1>1
<1>3. n \in Nat
  BY AuditAssumption
<1>4. log \in Seq({LegacyRow(x) : x \in Contents}) /\ Len(log) = n /\ DOMAIN log = 1 .. n
  BY <1>2, <1>3
<1>5. written \in Seq(Contents) /\ Len(written) = n
  BY <1>2, <1>3
<1>6. rebuilt \in Seq({}) /\ rebuilt = <<>> /\ Len(rebuilt) = 0 /\ DOMAIN rebuilt = {}
  BY DEF Init
<1>7. ShapeInv
  BY <1>4, <1>5, <1>6 DEF Init, ShapeInv, IsSeq
<1>8. ChainInv
  BY <1>2, <1>3, <1>4, <1>6 DEF Init, ChainInv, LegacyRow
<1>9. WriterInv /\ LockInv
  <2>1. writer \in [Writers -> WriterShape({"idle", None, 0})]
    BY DEF Init, IdleWriter, WriterShape
  <2>2. ASSUME NEW w \in Writers PROVE WriterOk(w) /\ writer[w].pc = "idle"
    <3>1. writer[w] = IdleWriter
      BY DEF Init
    <3> QED
      BY <3>1, AuditAssumption DEF WriterOk, IdleWriter, InFlight
  <2> QED
    BY <2>1, <2>2 DEF WriterInv, LockInv
<1>10. CheckInv /\ ReportIsTrue
  <2> DEFINE P == {"idle", 0, {}}
  <2>1. IdleCheck \in CheckShape(P)
    <3>1. {} \in P /\ 0 \in P /\ "idle" \in P
      OBVIOUS
    <3> HIDE DEF P
    <3> QED
      BY <3>1 DEF IdleCheck, CheckShape
  <2> HIDE DEF P
  <2>2. check \in [Verifiers -> CheckShape(P)]
    BY <2>1 DEF Init
  <2>3. \A v \in Verifiers : CheckOk(v) /\ check[v].pc = "idle"
    BY DEF Init, CheckOk, IdleCheck
  <2> QED
    BY <2>2, <2>3 DEF CheckInv, ReportIsTrue
<1> QED
  BY <1>7, <1>8, <1>9, <1>10 DEF IInv

-----------------------------------------------------------------------------
(* Facts about the rows *)

\* A sequence has the domain 1..Len, and appending keeps the rows there are.
LEMMA SequenceFacts ==
  ASSUME NEW s, IsSeq(s)
  PROVE /\ Len(s) \in Nat /\ DOMAIN s = 1 .. Len(s)
        /\ \A e : /\ IsSeq(Append(s, e)) /\ Len(Append(s, e)) = Len(s) + 1
                  /\ DOMAIN Append(s, e) = 1 .. Len(s) + 1
                  /\ \A n \in DOMAIN s : Append(s, e)[n] = s[n]
                  /\ Append(s, e)[Len(s) + 1] = e
<1>1. PICK S : s \in Seq(S)
  BY DEF IsSeq
<1>2. Len(s) \in Nat /\ DOMAIN s = 1 .. Len(s)
  BY <1>1
<1>3. ASSUME NEW e
      PROVE /\ IsSeq(Append(s, e)) /\ Len(Append(s, e)) = Len(s) + 1
            /\ DOMAIN Append(s, e) = 1 .. Len(s) + 1
            /\ \A n \in DOMAIN s : Append(s, e)[n] = s[n]
            /\ Append(s, e)[Len(s) + 1] = e
  <2> DEFINE T == S \cup {e}
  <2>1. s \in Seq(T) /\ e \in T
    BY <1>1
  <2>2. Append(s, e) \in Seq(T) /\ Len(Append(s, e)) = Len(s) + 1
    BY <2>1
  <2> QED
    BY <2>1, <2>2, <1>2 DEF IsSeq
<1> QED
  BY <1>2, <1>3

\* In a chain a sequence number is taken exactly when the log is that long,
\* and the highest row is the last one.
LEMMA RowsOfChain ==
  ASSUME ShapeInv, ChainInv, up
  PROVE /\ \A s : Taken(s) <=> s \in 1 .. Len(log)
        /\ Rows = {} <=> Len(log) = 0
        /\ Rows # {} => Highest(Rows) = log[Len(log)]
        /\ \A n \in DOMAIN log, r \in Rows : r.sequence = n => r = log[n]
<1>1. Len(log) \in Nat /\ DOMAIN log = 1 .. Len(log)
  BY SequenceFacts DEF ShapeInv
<1>2. \A n \in DOMAIN log : log[n].sequence = n
  BY DEF ChainInv, Link
<1>3. \A s : Taken(s) <=> s \in 1 .. Len(log)
  BY <1>1, <1>2 DEF Taken, Rows
<1>4. Rows = {} <=> Len(log) = 0
  <2>1. Len(log) # 0 => 1 \in DOMAIN log
    BY <1>1
  <2>2. Len(log) # 0 => log[1] \in Rows
    BY <2>1 DEF Rows
  <2>3. Len(log) = 0 => DOMAIN log = {}
    BY <1>1
  <2> QED
    BY <2>2, <2>3 DEF Rows
<1>5. ASSUME Rows # {} PROVE Highest(Rows) = log[Len(log)]
  <2>1. Len(log) \in DOMAIN log
    BY <1>1, <1>4, <1>5
  <2>2. log[Len(log)] \in Rows /\ \A o \in Rows : o.sequence <= log[Len(log)].sequence
    BY <1>1, <1>2, <2>1 DEF Rows
  <2>3. \A r \in Rows : (\A o \in Rows : o.sequence <= r.sequence) => r = log[Len(log)]
    <3> SUFFICES ASSUME NEW n \in DOMAIN log, log[Len(log)].sequence <= log[n].sequence
                 PROVE log[n] = log[Len(log)]
      BY <2>2 DEF Rows
    <3> QED
      BY <1>1, <1>2, <2>1
  <2> QED
    BY <2>2, <2>3 DEF Highest
<1>6. \A n \in DOMAIN log, r \in Rows : r.sequence = n => r = log[n]
  BY <1>2 DEF Rows
<1> QED
  BY <1>3, <1>4, <1>5, <1>6

\* What every step leaves of a log that is up: numbers, hashes and history of
\* the rows there are.
Grows ==
  /\ up' = up /\ sqlite' = sqlite
  /\ Len(log) \in Nat /\ Len(log') \in Nat
  /\ DOMAIN log = 1 .. Len(log) /\ DOMAIN log' = 1 .. Len(log')
  /\ Len(log) <= Len(log')
  /\ \A n \in DOMAIN log : /\ log'[n].sequence = log[n].sequence
                           /\ log'[n].prev = log[n].prev
                           /\ log'[n].hash = log[n].hash
                           /\ written'[n] = written[n]

\* Writers and checks that do nothing keep what they rely on.
LEMMA WriterStays ==
  ASSUME AuditAssumption, Grows, NEW w \in Writers, WriterOk(w), writer'[w] = writer[w]
  PROVE WriterOk(w)'
<1>1. writer[w].prev = None \/ \E n \in DOMAIN log' : writer[w].prev = log'[n].hash
  BY DEF WriterOk, Grows
<1>2. ASSUME writer[w].pc = "read"
      PROVE writer[w].prev = PrevIn(log', writer[w].sequence)
  <2>1. writer[w].sequence \in 1 .. Len(log) + 1 /\ writer[w].prev = PrevIn(log, writer[w].sequence)
    BY <1>2 DEF WriterOk
  <2>2. writer[w].sequence # 1 => writer[w].sequence - 1 \in DOMAIN log
    BY <2>1 DEF Grows
  <2> QED
    BY <2>1, <2>2 DEF PrevIn, Grows
<1>3. (writer[w].pc = "read" => writer[w].sequence \in 1 .. Len(log') + 1)
      /\ (writer[w].pc = "locked" => writer[w].since + writer[w].tries <= Len(log'))
      /\ (writer[w].pc = "failed" => ~sqlite' /\ writer[w].since + Attempts <= Len(log'))
  BY DEF WriterOk, Grows, AuditAssumption
<1> QED
  BY <1>1, <1>2, <1>3 DEF WriterOk, InFlight, Grows

LEMMA CheckStays ==
  ASSUME Grows, NEW v \in Verifiers, CheckOk(v), check'[v] = check[v]
  PROVE CheckOk(v)'
<1>1. \A r \in check[v].rows : r.sequence \in DOMAIN log' /\ r.prev = log'[r.sequence].prev
                                /\ r.hash = log'[r.sequence].hash
  BY DEF CheckOk, Grows
<1> QED
  BY <1>1 DEF CheckOk, Grows

-----------------------------------------------------------------------------
(* Steps of init_db *)

LEMMA IdleBeforeBoot ==
  ASSUME WriterInv, CheckInv, ~up
  PROVE /\ \A w \in Writers : writer[w].pc = "idle" /\ writer[w].prev = None
        /\ \A v \in Verifiers : check[v].pc = "idle" /\ check[v].rows = {}
BY DEF WriterInv, WriterOk, CheckInv, CheckOk

LEMMA RebuildRowKeeps ==
  ASSUME AuditAssumption, IInv, RebuildRow
  PROVE IInv'
<1> DEFINE n == Len(rebuilt) + 1
           p == IF n = 1 THEN None ELSE rebuilt[n - 1].hash
<1> USE DEF IInv
<1>1. /\ ~up /\ up' = up /\ log' = log /\ written' = written /\ sqlite' = sqlite
      /\ writer' = writer /\ check' = check /\ Len(rebuilt) < Len(log)
      /\ rebuilt' = Append(rebuilt, Row(n, log[n].content, p))
  BY DEF RebuildRow
<1>2. /\ Len(rebuilt) \in Nat /\ DOMAIN rebuilt = 1 .. Len(rebuilt)
      /\ Len(log) \in Nat /\ DOMAIN log = 1 .. Len(log)
  BY SequenceFacts DEF ShapeInv
<1>3. /\ IsSeq(rebuilt') /\ Len(rebuilt') = n /\ DOMAIN rebuilt' = 1 .. n
      /\ \A k \in DOMAIN rebuilt : rebuilt'[k] = rebuilt[k]
      /\ rebuilt'[n] = Row(n, log[n].content, p)
  BY <1>1, SequenceFacts DEF ShapeInv
<1>4. ShapeInv'
  BY <1>1, <1>3 DEF ShapeInv
<1>5. n \in DOMAIN log /\ log[n].content = written[n]
  BY <1>1, <1>2 DEF ChainInv
<1>6. p = PrevIn(rebuilt', n)
  BY <1>2, <1>3 DEF PrevIn
<1>7. Link(rebuilt', n, written)
  BY <1>3, <1>5, <1>6 DEF Link, Row, Shaped
<1>8. ASSUME NEW k \in DOMAIN rebuilt PROVE Link(rebuilt', k, written)
  <2>1. PrevIn(rebuilt', k) = PrevIn(rebuilt, k)
    BY <1>2, <1>3 DEF PrevIn
  <2> QED
    BY <2>1, <1>1, <1>3 DEF Link, ChainInv
<1>9. ChainInv'
  BY <1>1, <1>2, <1>3, <1>7, <1>8 DEF ChainInv
<1>10. WriterInv' /\ LockInv' /\ CheckInv' /\ ReportIsTrue'
  BY <1>1 DEF WriterInv, WriterOk, InFlight, LockInv, CheckInv, CheckOk, ReportIsTrue
<1> QED
  BY <1>4, <1>9, <1>10

\* The rows of an old database have no number: they are all rebuilt.
LEMMA CommitBootKeeps ==
  ASSUME AuditAssumption, IInv, CommitBoot
  PROVE IInv'
<1> USE DEF IInv
<1>1. /\ ~up /\ up' = TRUE /\ written' = written /\ sqlite' = sqlite
      /\ writer' = writer /\ check' = check /\ rebuilt' = <<>>
      /\ log' = IF NeedsRebuild THEN rebuilt ELSE log
      /\ NeedsRebuild => Len(rebuilt) = Len(log)
  BY DEF CommitBoot
<1>2. /\ Len(rebuilt) \in Nat /\ DOMAIN rebuilt = 1 .. Len(rebuilt)
      /\ Len(log) \in Nat /\ DOMAIN log = 1 .. Len(log)
  BY SequenceFacts DEF ShapeInv
<1>3. ~NeedsRebuild => Len(log) = 0
  <2> SUFFICES ASSUME Len(log) # 0, {log[n].sequence : n \in DOMAIN log} = DOMAIN log
               PROVE FALSE
    BY DEF NeedsRebuild
  <2>1. 1 \in DOMAIN log
    BY <1>2
  <2>2. PICK n \in DOMAIN log : log[n].sequence = 1
    BY <2>1
  <2> QED
    BY <2>2, <1>1 DEF ChainInv
<1>4. \A n \in DOMAIN log' : Link(log', n, written)
  <2>1. CASE NeedsRebuild
    <3>1. log' = rebuilt /\ \A n \in DOMAIN rebuilt : Link(rebuilt, n, written)
      BY <1>1, <2>1 DEF ChainInv
    <3> QED
      BY <3>1
  <2>2. CASE ~NeedsRebuild
    <3>1. log' = log /\ Len(log) = 0
      BY <1>1, <1>3, <2>2
    <3>2. DOMAIN log' = {}
      BY <1>2, <3>1
    <3> QED
      BY <3>2
  <2> QED
    BY <2>1, <2>2
<1>5. rebuilt' \in Seq({})
  BY <1>1
<1>6. ShapeInv' /\ ChainInv'
  BY <1>1, <1>2, <1>4, <1>5 DEF ShapeInv, ChainInv, IsSeq
<1>7. \A w \in Writers : writer[w].pc = "idle" /\ writer[w].prev = None
  BY <1>1, IdleBeforeBoot
<1>8. \A v \in Verifiers : check[v].pc = "idle" /\ check[v].rows = {}
  BY <1>1, IdleBeforeBoot
<1>10. WriterInv' /\ LockInv'
  BY <1>1, <1>7 DEF WriterInv, WriterOk, InFlight, LockInv
<1>11. CheckInv' /\ ReportIsTrue'
  BY <1>1, <1>8 DEF CheckInv, CheckOk, ReportIsTrue
<1> QED
  BY <1>6, <1>10, <1>11

LEMMA CrashBootKeeps ==
  ASSUME IInv, CrashBoot
  PROVE IInv'
<1> USE DEF IInv
<1>1. /\ ~up /\ up' = up /\ log' = log /\ written' = written /\ sqlite' = sqlite
      /\ writer' = writer /\ check' = check /\ rebuilt' = <<>>
  BY DEF CrashBoot
<1>2. rebuilt' \in Seq({}) /\ Len(rebuilt') = 0 /\ DOMAIN rebuilt' = {} /\ Len(log) \in Nat
  BY <1>1, SequenceFacts DEF ShapeInv
<1>3. ShapeInv' /\ ChainInv'
  BY <1>1, <1>2 DEF ShapeInv, ChainInv, IsSeq
<1>4. WriterInv' /\ LockInv' /\ CheckInv' /\ ReportIsTrue'
  BY <1>1 DEF WriterInv, WriterOk, InFlight, LockInv, CheckInv, CheckOk, ReportIsTrue
<1> QED
  BY <1>3, <1>4

-----------------------------------------------------------------------------
(* Steps of log_operation *)

\* A step of one writer that leaves the log alone.
LEMMA WriterStep ==
  ASSUME AuditAssumption, IInv, up, UNCHANGED <<sqlite, log, up, rebuilt, check, written>>,
         NEW w \in Writers, NEW P, writer' \in [Writers -> WriterShape(P)],
         \A o \in Writers \ {w} : writer'[o] = writer[o],
         WriterOk(w)',
         sqlite /\ writer'[w].pc = "read" =>
           /\ writer'[w].sequence = Len(log) + 1
           /\ \A o \in Writers : writer[o].pc = "read" => o = w
  PROVE IInv'
<1> USE DEF IInv
<1>1. /\ Len(log) \in Nat /\ DOMAIN log = 1 .. Len(log)
  BY SequenceFacts DEF ShapeInv
<1>2. Grows
  BY <1>1 DEF Grows
<1>3. \A o \in Writers : WriterOk(o)'
  BY <1>2, WriterStays DEF WriterInv
<1>4. WriterInv'
  BY <1>3 DEF WriterInv
<1>5. LockInv'
  BY DEF LockInv
<1>6. ShapeInv' /\ ChainInv' /\ CheckInv' /\ ReportIsTrue'
  BY DEF ShapeInv, ChainInv, CheckInv, CheckOk, ReportIsTrue
<1> QED
  BY <1>4, <1>5, <1>6

LEMMA EnterKeeps ==
  ASSUME AuditAssumption, IInv, NEW w \in Writers, NEW c \in Contents, Enter(w, c)
  PROVE IInv'
<1> DEFINE e == [IdleWriter EXCEPT !.pc = "locked", !.content = c, !.since = Len(log)]
<1>1. /\ up /\ UNCHANGED <<sqlite, log, up, rebuilt, check, written>>
      /\ writer' = [writer EXCEPT ![w] = e]
  BY DEF Enter
<1>2. PICK P : writer \in [Writers -> WriterShape(P)]
  BY DEF IInv, WriterInv
<1> DEFINE Q == P \cup {"locked", "idle", c, None, 0, Len(log)}
<1>3. /\ e.pc = "locked" /\ e.content = c /\ e.sequence = 0 /\ e.prev = None
      /\ e.tries = 0 /\ e.since = Len(log) /\ e \in WriterShape(Q)
  <2>1. IdleWriter \in WriterShape(Q)
    BY DEF IdleWriter, WriterShape
  <2>2. IdleWriter.sequence = 0 /\ IdleWriter.prev = None /\ IdleWriter.tries = 0
    BY DEF IdleWriter
  <2> QED
    BY <2>1, <2>2 DEF WriterShape
<1> HIDE DEF e
<1>4. writer \in [Writers -> WriterShape(Q)]
  BY <1>2 DEF WriterShape
<1>5. /\ writer' \in [Writers -> WriterShape(Q)] /\ writer'[w] = e
      /\ \A o \in Writers \ {w} : writer'[o] = writer[o]
  BY <1>1, <1>3, <1>4
<1>6. Len(log) \in Nat
  BY SequenceFacts DEF IInv, ShapeInv
<1>7. WriterOk(w)'
  BY <1>1, <1>3, <1>5, <1>6, AuditAssumption DEF WriterOk, InFlight
<1> QED
  BY <1>1, <1>3, <1>5, <1>7, WriterStep

LEMMA ReadKeeps ==
  ASSUME AuditAssumption, IInv, NEW w \in Writers, Read(w)
  PROVE IInv'
<1> DEFINE s == IF Rows = {} THEN 1 ELSE Highest(Rows).sequence + 1
           p == IF Rows = {} THEN None ELSE Highest(Rows).hash
<1>1. /\ writer[w].pc = "locked" /\ UNCHANGED <<sqlite, log, up, rebuilt, check, written>>
      /\ writer' = [writer EXCEPT ![w].pc = "read", ![w].sequence = s, ![w].prev = p]
      /\ sqlite => \A o \in Writers : writer[o].pc # "read"
  BY DEF Read, ReadLatest
<1>2. up /\ WriterOk(w)
  BY <1>1 DEF IInv, WriterInv, WriterOk
<1>3. /\ Len(log) \in Nat /\ DOMAIN log = 1 .. Len(log)
  BY SequenceFacts DEF IInv, ShapeInv
<1>4. s = Len(log) + 1 /\ p = PrevIn(log, s)
  <2>1. CASE Rows = {}
    BY <2>1, <1>2, <1>3, RowsOfChain DEF IInv, PrevIn
  <2>2. CASE Rows # {}
    <3>1. Highest(Rows) = log[Len(log)] /\ Len(log) # 0
      BY <2>2, <1>2, RowsOfChain DEF IInv
    <3>2. log[Len(log)].sequence = Len(log)
      BY <3>1, <1>2, <1>3 DEF IInv, ChainInv, Link
    <3> QED
      BY <2>2, <3>1, <3>2, <1>3 DEF PrevIn
  <2> QED
    BY <2>1, <2>2
<1>5. p = None \/ \E n \in DOMAIN log : p = log[n].hash
  <2>1. s = 1 \/ s - 1 \in DOMAIN log
    BY <1>3, <1>4
  <2> QED
    BY <2>1, <1>4 DEF PrevIn
<1>6. PICK P : writer \in [Writers -> WriterShape(P)]
  BY DEF IInv, WriterInv
<1> DEFINE Q == P \cup {"read", s, p}
<1> HIDE DEF s, p
<1>7. writer \in [Writers -> WriterShape(Q)]
  BY <1>6 DEF WriterShape
<1>8. /\ writer' \in [Writers -> WriterShape(Q)]
      /\ writer'[w].pc = "read" /\ writer'[w].sequence = s /\ writer'[w].prev = p
      /\ writer'[w].content = writer[w].content /\ writer'[w].tries = writer[w].tries
      /\ writer'[w].since = writer[w].since
      /\ \A o \in Writers \ {w} : writer'[o] = writer[o]
  BY <1>1, <1>7 DEF WriterShape
<1>9. WriterOk(w)'
  BY <1>1, <1>2, <1>3, <1>4, <1>5, <1>8, AuditAssumption DEF WriterOk, InFlight
<1> QED
  BY <1>1, <1>2, <1>4, <1>8, <1>9, WriterStep

\* A conflict means that rows were appended since the writer read the last one.
LEMMA ConflictKeeps ==
  ASSUME AuditAssumption, IInv, NEW w \in Writers, Conflict(w)
  PROVE IInv'
<1> DEFINE pc == IF writer[w].tries + 1 = Attempts THEN "failed" ELSE "locked"
<1>1. /\ writer[w].pc = "read" /\ UNCHANGED <<sqlite, log, up, rebuilt, check, written>>
      /\ Taken(writer[w].sequence)
      /\ writer' = [writer EXCEPT ![w].tries = @ + 1, ![w].pc = pc]
  BY DEF Conflict
<1>2. up /\ WriterOk(w)
  BY <1>1 DEF IInv, WriterInv, WriterOk
<1>3. /\ Len(log) \in Nat /\ DOMAIN log = 1 .. Len(log)
  BY SequenceFacts DEF IInv, ShapeInv
<1>4. writer[w].sequence \in 1 .. Len(log)
  BY <1>1, <1>2, RowsOfChain DEF IInv
<1>5. ~sqlite
  BY <1>1, <1>3, <1>4 DEF IInv, LockInv
<1>6. /\ writer[w].tries \in Nat /\ writer[w].tries < Attempts /\ writer[w].since \in Nat
      /\ writer[w].since + writer[w].tries + 1 <= Len(log)
  BY <1>1, <1>2, <1>3, <1>4, AuditAssumption DEF WriterOk, InFlight
<1>7. PICK P : writer \in [Writers -> WriterShape(P)]
  BY DEF IInv, WriterInv
<1> DEFINE Q == P \cup {"failed", "locked", writer[w].tries + 1}
<1>8. writer \in [Writers -> WriterShape(Q)]
  BY <1>7 DEF WriterShape
<1>9. /\ writer' \in [Writers -> WriterShape(Q)]
      /\ writer'[w].pc = pc /\ writer'[w].tries = writer[w].tries + 1
      /\ writer'[w].content = writer[w].content /\ writer'[w].sequence = writer[w].sequence
      /\ writer'[w].since = writer[w].since /\ writer'[w].prev = writer[w].prev
      /\ \A o \in Writers \ {w} : writer'[o] = writer[o]
  BY <1>1, <1>8 DEF WriterShape
<1>10. /\ pc = "failed" => writer[w].tries + 1 = Attempts
       /\ pc = "locked" => writer[w].tries + 1 < Attempts
       /\ pc \in {"failed", "locked"}
  BY <1>6, AuditAssumption
<1> HIDE DEF pc
<1>11. WriterOk(w)'
  BY <1>1, <1>2, <1>3, <1>5, <1>6, <1>9, <1>10, AuditAssumption DEF WriterOk, InFlight
<1> QED
  BY <1>1, <1>2, <1>5, <1>9, <1>11, WriterStep

LEMMA AbortKeeps ==
  ASSUME AuditAssumption, IInv, NEW w \in Writers, Abort(w)
  PROVE IInv'
<1>1. /\ InFlight(w) /\ UNCHANGED <<sqlite, log, up, rebuilt, check, written>>
      /\ writer' = [writer EXCEPT ![w] = IdleWriter]
  BY DEF Abort
<1>2. up
  BY <1>1 DEF IInv, WriterInv, WriterOk, InFlight
<1>3. PICK P : writer \in [Writers -> WriterShape(P)]
  BY DEF IInv, WriterInv
<1> DEFINE Q == P \cup {"idle", None, 0}
<1>4. writer \in [Writers -> WriterShape(Q)] /\ IdleWriter \in WriterShape(Q)
  BY <1>3 DEF WriterShape, IdleWriter
<1>5. /\ writer' \in [Writers -> WriterShape(Q)] /\ writer'[w] = IdleWriter
      /\ \A o \in Writers \ {w} : writer'[o] = writer[o]
  BY <1>1, <1>4
<1>6. WriterOk(w)' /\ writer'[w].pc # "read"
  BY <1>5, AuditAssumption DEF WriterOk, InFlight, IdleWriter
<1> QED
  BY <1>1, <1>2, <1>5, <1>6, WriterStep

\* The row that is appended is the next link: its number was free, so the row
\* the writer has read is still the last one.
LEMMA InsertKeeps ==
  ASSUME AuditAssumption, IInv, NEW w \in Writers, Insert(w)
  PROVE IInv'
<1> DEFINE s == writer[w].sequence
           r == Row(s, writer[w].content, writer[w].prev)
<1>1. /\ writer[w].pc = "read" /\ ~Taken(s)
      /\ log' = Append(log, r)
      /\ written' = Append(written, writer[w].content)
      /\ writer' = [writer EXCEPT ![w] = IdleWriter]
      /\ UNCHANGED <<sqlite, up, rebuilt, check>>
  BY DEF Insert
<1>2. up /\ WriterOk(w)
  BY <1>1 DEF IInv, WriterInv, WriterOk
<1>3. /\ Len(log) \in Nat /\ DOMAIN log = 1 .. Len(log)
  BY SequenceFacts DEF IInv, ShapeInv
<1>4. s = Len(log) + 1 /\ writer[w].prev = PrevIn(log, s) /\ writer[w].content \in Contents
  <2>1. s \in 1 .. Len(log) + 1 /\ s \notin 1 .. Len(log)
    BY <1>1, <1>2, RowsOfChain DEF IInv, WriterOk
  <2> QED
    BY <2>1, <1>1, <1>2, <1>3 DEF WriterOk, InFlight
<1>5. /\ IsSeq(log') /\ Len(log') = Len(log) + 1 /\ DOMAIN log' = 1 .. Len(log) + 1
      /\ \A n \in DOMAIN log : log'[n] = log[n]
      /\ log'[Len(log) + 1] = r
  BY <1>1, SequenceFacts DEF IInv, ShapeInv
<1>6. /\ written \in Seq(Contents) /\ Len(written) = Len(log)
  BY DEF IInv, ShapeInv
<1>7. /\ written' \in Seq(Contents) /\ Len(written') = Len(log) + 1
      /\ \A n \in DOMAIN log : written'[n] = written[n]
      /\ written'[Len(log) + 1] = writer[w].content
  BY <1>1, <1>3, <1>4, <1>6
<1>8. Grows
  BY <1>1, <1>3, <1>5, <1>7 DEF Grows
<1>9. ShapeInv'
  BY <1>1, <1>5, <1>7 DEF IInv, ShapeInv
<1>10. ChainInv'
  <2>1. ASSUME NEW n \in DOMAIN log PROVE Link(log', n, written')
    <3>1. PrevIn(log', n) = PrevIn(log, n)
      BY <1>3, <1>5 DEF PrevIn
    <3>2. Link(log, n, written)
      BY <1>2 DEF IInv, ChainInv
    <3> QED
      BY <3>1, <3>2, <1>5, <1>7 DEF Link
  <2>2. PrevIn(log', s) = PrevIn(log, s)
    BY <1>3, <1>4, <1>5 DEF PrevIn
  <2>3. Link(log', s, written')
    BY <2>2, <1>4, <1>5, <1>7 DEF Link, Row, Shaped
  <2> QED
    BY <2>1, <2>3, <1>1, <1>2, <1>3, <1>4, <1>5 DEF ChainInv
<1>11. PICK P : writer \in [Writers -> WriterShape(P)]
  BY DEF IInv, WriterInv
<1> DEFINE Q == P \cup {"idle", None, 0}
<1>12. writer \in [Writers -> WriterShape(Q)] /\ IdleWriter \in WriterShape(Q)
  BY <1>11 DEF WriterShape, IdleWriter
<1>13. /\ writer' \in [Writers -> WriterShape(Q)] /\ writer'[w] = IdleWriter
       /\ \A o \in Writers \ {w} : writer'[o] = writer[o]
  BY <1>1, <1>12
<1>14. WriterOk(w)' /\ writer'[w].pc # "read"
  BY <1>13, AuditAssumption DEF WriterOk, InFlight, IdleWriter
<1>15. WriterInv'
  BY <1>8, <1>13, <1>14, WriterStays DEF IInv, WriterInv
<1>16. LockInv'
  BY <1>1, <1>13, <1>14 DEF IInv, LockInv
<1>17. CheckInv'
  BY <1>1, <1>8, CheckStays DEF IInv, CheckInv
<1>18. ASSUME NEW v \in Verifiers, NEW x \in check[v].rows
       PROVE written'[x.sequence] = written[x.sequence]
  <2>1. x.sequence \in DOMAIN log
    BY DEF IInv, CheckInv, CheckOk
  <2> QED
    BY <2>1, <1>7
<1>19. ReportIsTrue'
  BY <1>1, <1>18 DEF IInv, ReportIsTrue
<1> QED
  BY <1>9, <1>10, <1>15, <1>16, <1>17, <1>19 DEF IInv

-----------------------------------------------------------------------------
(* Steps of verify_audit_chain, and edits from outside *)

LEMMA EditKeeps ==
  ASSUME AuditAssumption, IInv, NEW n \in DOMAIN log, NEW c \in Contents, Edit(n, c)
  PROVE IInv'
<1>1. /\ up /\ log' = [log EXCEPT ![n].content = c]
      /\ UNCHANGED <<sqlite, up, rebuilt, writer, check, written>>
  BY DEF Edit
<1>2. /\ Len(log) \in Nat /\ DOMAIN log = 1 .. Len(log)
  BY SequenceFacts DEF IInv, ShapeInv
<1>3. \A k \in DOMAIN log : Link(log, k, written)
  BY <1>1 DEF IInv, ChainInv
<1> DEFINE S == {log'[k] : k \in DOMAIN log}
<1>4. log' = [k \in 1 .. Len(log) |-> log'[k]]
  BY <1>1, <1>2 DEF IInv, ShapeInv, IsSeq
<1>5. log' \in Seq(S) /\ Len(log') = Len(log) /\ DOMAIN log' = DOMAIN log
  BY <1>2, <1>4
<1>6. ASSUME NEW k \in DOMAIN log
      PROVE /\ log'[k].sequence = log[k].sequence /\ log'[k].prev = log[k].prev
            /\ log'[k].hash = log[k].hash /\ Shaped(log'[k])
  <2>1. Shaped(log[k])
    BY <1>3 DEF Link
  <2>2. CASE k = n
    <3>1. log'[k] = [log[k] EXCEPT !.content = c]
      BY <1>1, <2>2
    <3> QED
      BY <2>1, <3>1 DEF Shaped
  <2>3. CASE k # n
    <3>1. log'[k] = log[k]
      BY <1>1, <2>3
    <3> QED
      BY <2>1, <3>1
  <2> QED
    BY <2>2, <2>3
<1>7. Grows
  BY <1>1, <1>2, <1>5, <1>6 DEF Grows
<1>8. ShapeInv'
  BY <1>1, <1>5 DEF IInv, ShapeInv, IsSeq
<1>9. ASSUME NEW k \in DOMAIN log PROVE Link(log', k, written)
  <2>1. PrevIn(log', k) = PrevIn(log, k)
    <3>1. k = 1 \/ k - 1 \in DOMAIN log
      BY <1>2
    <3> QED
      BY <3>1, <1>6 DEF PrevIn
  <2> QED
    BY <2>1, <1>3, <1>6 DEF Link
<1>10. ChainInv'
  BY <1>1, <1>5, <1>9 DEF IInv, ChainInv
<1>11. WriterInv'
  BY <1>1, <1>7, WriterStays DEF IInv, WriterInv
<1>12. LockInv'
  BY <1>1, <1>5 DEF IInv, LockInv
<1>13. CheckInv'
  BY <1>1, <1>7, CheckStays DEF IInv, CheckInv
<1>14. ReportIsTrue'
  BY <1>1 DEF IInv, ReportIsTrue
<1> QED
  BY <1>8, <1>10, <1>11, <1>12, <1>13, <1>14 DEF IInv

\* A step of one check, which leaves the log and the writers alone.
LEMMA CheckStep ==
  ASSUME IInv, up, UNCHANGED <<sqlite, log, up, rebuilt, writer, written>>,
         NEW v \in Verifiers, NEW P, check' \in [Verifiers -> CheckShape(P)],
         \A o \in Verifiers \ {v} : check'[o] = check[o],
         CheckOk(v)',
         check'[v].pc = "valid" =>
           \A r \in check'[v].rows : r.content = written[r.sequence],
         check'[v].pc = "alarm" =>
           ~\A r \in check'[v].rows : r.content = written[r.sequence]
  PROVE IInv'
<1> USE DEF IInv
<1>1. Grows
  BY SequenceFacts DEF Grows, ShapeInv
<1>2. CheckInv'
  BY <1>1, CheckStays DEF CheckInv
<1>3. ReportIsTrue'
  BY DEF ReportIsTrue
<1>4. ShapeInv' /\ ChainInv' /\ WriterInv' /\ LockInv'
  BY DEF ShapeInv, ChainInv, WriterInv, WriterOk, InFlight, LockInv
<1> QED
  BY <1>2, <1>3, <1>4

LEMMA ListKeeps ==
  ASSUME AuditAssumption, IInv, NEW v \in Verifiers, NEW after \in Nat, List(v, after)
  PROVE IInv'
<1> DEFINE rows == {r \in Rows : r.sequence > after}
           e == [pc |-> "listed", after |-> after, rows |-> rows]
<1>1. /\ up /\ UNCHANGED <<sqlite, log, up, rebuilt, writer, written>>
      /\ check' = [check EXCEPT ![v] = e]
  BY DEF List
<1>2. PICK P : check \in [Verifiers -> CheckShape(P)]
  BY DEF IInv, CheckInv
<1> DEFINE Q == P \cup {rows, after, "listed"}
<1>3. check \in [Verifiers -> CheckShape(Q)] /\ e \in CheckShape(Q)
  <2> HIDE DEF rows
  <2>1. check \in [Verifiers -> CheckShape(Q)]
    BY <1>2 DEF CheckShape
  <2>2. rows \in Q /\ after \in Q /\ "listed" \in Q
    OBVIOUS
  <2> HIDE DEF Q
  <2>3. e \in CheckShape(Q)
    BY <2>2 DEF CheckShape
  <2> QED
    BY <2>1, <2>3
<1>4. /\ check' \in [Verifiers -> CheckShape(Q)] /\ check'[v] = e
      /\ \A o \in Verifiers \ {v} : check'[o] = check[o]
  BY <1>1, <1>3
<1>5. /\ Len(log) \in Nat /\ DOMAIN log = 1 .. Len(log)
      /\ \A n \in DOMAIN log : log[n].sequence = n
  BY <1>1, SequenceFacts DEF IInv, ShapeInv, ChainInv, Link
<1>6. ASSUME NEW r \in rows
      PROVE /\ r.sequence \in DOMAIN log /\ r.sequence > after
            /\ r.prev = log[r.sequence].prev /\ r.hash = log[r.sequence].hash
            /\ \A k \in after + 1 .. r.sequence : \E o \in rows : o.sequence = k
  <2>1. PICK n \in DOMAIN log : r = log[n]
    BY DEF Rows
  <2>2. n > after /\ n = r.sequence
    BY <2>1, <1>5
  <2>3. ASSUME NEW k \in after + 1 .. n PROVE \E o \in rows : o.sequence = k
    <3>1. k \in DOMAIN log /\ k > after
      BY <2>1, <1>5
    <3>2. log[k] \in rows /\ log[k].sequence = k
      BY <3>1, <1>5 DEF Rows
    <3> QED
      BY <3>2
  <2> QED
    BY <2>1, <2>2, <2>3
<1> HIDE DEF rows
<1>7. CheckOk(v)'
  BY <1>1, <1>4, <1>6 DEF CheckOk
<1> QED
  BY <1>1, <1>4, <1>7, CheckStep

\* Where the rows that are listed are links, with the content they have now,
\* the check accepts them exactly when these contents are the written ones.
LEMMA AcceptsExactly ==
  ASSUME ShapeInv, ChainInv, up, NEW v \in Verifiers, CheckOk(v)
  PROVE Accepts(check[v].rows, check[v].after, Anchor(check[v].after)) <=>
          \A r \in check[v].rows : r.content = written[r.sequence]
<1> DEFINE rows == check[v].rows
           after == check[v].after
           anchor == Anchor(after)
<1>1. /\ Len(log) \in Nat /\ DOMAIN log = 1 .. Len(log) /\ after \in Nat
      /\ \A n \in DOMAIN log : Link(log, n, written)
  BY SequenceFacts DEF ShapeInv, ChainInv, CheckOk
<1>2. ASSUME NEW r \in rows
      PROVE /\ r.sequence \in DOMAIN log /\ r.sequence > after
            /\ r.prev = log[r.sequence].prev /\ r.hash = log[r.sequence].hash
            /\ \A k \in after + 1 .. r.sequence : \E o \in rows : o.sequence = k
  BY DEF CheckOk
<1>3. after > 0 /\ after \in DOMAIN log => anchor = log[after].hash
  <2> SUFFICES ASSUME after > 0, after \in DOMAIN log PROVE anchor = log[after].hash
    OBVIOUS
  <2>1. log[after] \in Rows /\ log[after].sequence = after
    BY <1>1 DEF Rows, Link
  <2>2. \A r \in Rows : r.sequence = after => r = log[after]
    BY RowsOfChain
  <2> QED
    BY <2>1, <2>2 DEF Anchor, Taken
<1>4. after = 0 => anchor = None
  BY <1>1, RowsOfChain DEF Anchor
<1> HIDE DEF anchor
<1>5. ASSUME NEW r \in rows, Earlier(rows, r) = {}
      PROVE r.sequence = after + 1 /\ r.prev = anchor
  <2>1. r.sequence = after + 1
    <3> SUFFICES ASSUME r.sequence # after + 1 PROVE FALSE
      OBVIOUS
    <3>1. after + 1 \in after + 1 .. r.sequence /\ after + 1 < r.sequence
      BY <1>1, <1>2
    <3>2. PICK o \in rows : o.sequence = after + 1
      BY <1>2, <3>1
    <3> QED
      BY <3>1, <3>2, <1>5 DEF Earlier
  <2>2. r.prev = PrevIn(log, r.sequence)
    BY <1>1, <1>2 DEF Link
  <2>3. after = 0 \/ (after > 0 /\ after \in DOMAIN log /\ r.sequence - 1 = after /\ r.sequence # 1)
    BY <2>1, <1>1, <1>2
  <2> QED
    BY <2>1, <2>2, <2>3, <1>3, <1>4 DEF PrevIn
<1>6. ASSUME NEW r \in rows, Earlier(rows, r) # {}
      PROVE /\ Highest(Earlier(rows, r)).sequence \in Nat
            /\ r.sequence = Highest(Earlier(rows, r)).sequence + 1
            /\ r.prev = Highest(Earlier(rows, r)).hash
  <2> DEFINE before == Earlier(rows, r)
             k == r.sequence - 1
  <2>1. PICK o \in before : TRUE
    BY <1>6
  <2>2. o \in rows /\ o.sequence < r.sequence
    BY DEF Earlier
  <2>3. k \in after + 1 .. r.sequence /\ k \in DOMAIN log /\ r.sequence # 1
    BY <2>2, <1>1, <1>2
  <2>4. PICK q \in rows : q.sequence = k
    BY <2>3, <1>2
  <2>5. q \in before /\ \A x \in before : x.sequence <= k
    BY <2>4, <1>1, <1>2 DEF Earlier
  <2>6. \E x \in before : \A y \in before : y.sequence <= x.sequence
    BY <2>4, <2>5
  <2>7. /\ Highest(before) \in before
        /\ \A y \in before : y.sequence <= Highest(before).sequence
    <3> HIDE DEF before
    <3> QED
      BY <2>6 DEF Highest
  <2>8. Highest(before) \in rows /\ Highest(before).sequence \in DOMAIN log
    BY <2>7, <1>2 DEF Earlier
  <2>9. Highest(before).sequence = k
    BY <2>4, <2>5, <2>7, <2>8, <2>3, <1>1
  <2>10. Highest(before).hash = log[k].hash
    BY <2>8, <2>9, <1>2
  <2>11. r.prev = PrevIn(log, r.sequence)
    BY <1>1, <1>2 DEF Link
  <2> QED
    BY <2>3, <2>9, <2>10, <2>11, <1>1, <1>2 DEF PrevIn
<1>7. ASSUME NEW r \in rows
      PROVE r.hash = HashOf(r) <=> r.content = written[r.sequence]
  <2>1. r.hash = Hash(r.sequence, written[r.sequence], r.prev)
    BY <1>1, <1>2 DEF Link
  <2> QED
    BY <2>1 DEF HashOf, Hash
<1>8. ASSUME NEW r \in rows
      PROVE LET before == Earlier(rows, r) IN
            /\ r.sequence = 1 + IF before = {} THEN after ELSE Highest(before).sequence
            /\ r.prev = IF before = {} THEN anchor ELSE Highest(before).hash
  <2>1. CASE Earlier(rows, r) = {}
    BY <2>1, <1>1, <1>5
  <2>2. CASE Earlier(rows, r) # {}
    BY <2>2, <1>6
  <2> QED
    BY <2>1, <2>2
<1> HIDE DEF rows, after
<1>9. Accepts(rows, after, anchor) <=> \A r \in rows : r.content = written[r.sequence]
  BY <1>7, <1>8 DEF Accepts
<1> QED
  BY <1>9 DEF rows, after, anchor

\* With the hash of the row before them, the rows that were listed are
\* accepted when their contents are the written ones, and only then.
LEMMA ReportKeeps ==
  ASSUME AuditAssumption, IInv, NEW v \in Verifiers, Report(v)
  PROVE IInv'
<1> DEFINE valid == Accepts(check[v].rows, check[v].after, Anchor(check[v].after))
           pc == IF valid THEN "valid" ELSE "alarm"
<1>1. /\ check[v].pc = "listed"
      /\ UNCHANGED <<sqlite, log, up, rebuilt, writer, written>>
      /\ check' = [check EXCEPT ![v].pc = pc]
  BY DEF Report, Answer
<1>2. CheckOk(v) /\ up
  BY <1>1 DEF IInv, CheckInv, CheckOk
<1>3. valid <=> \A r \in check[v].rows : r.content = written[r.sequence]
  BY <1>2, AcceptsExactly DEF IInv
<1> HIDE DEF valid
<1>4. PICK P : check \in [Verifiers -> CheckShape(P)]
  BY DEF IInv, CheckInv
<1> DEFINE Q == P \cup {"valid", "alarm"}
<1>5. check \in [Verifiers -> CheckShape(Q)]
  BY <1>4 DEF CheckShape
<1>6. /\ check' \in [Verifiers -> CheckShape(Q)]
      /\ check'[v].pc = pc /\ check'[v].after = check[v].after
      /\ check'[v].rows = check[v].rows
      /\ \A o \in Verifiers \ {v} : check'[o] = check[o]
  BY <1>1, <1>5 DEF CheckShape
<1>7. CheckOk(v)'
  BY <1>1, <1>2, <1>6 DEF CheckOk
<1> QED
  BY <1>1, <1>2, <1>3, <1>6, <1>7, CheckStep

-----------------------------------------------------------------------------
(* The theorems *)

LEMMA NextKeeps ==
  ASSUME AuditAssumption, IInv, [Next]_vars
  PROVE IInv'
<1>1. ASSUME NEW w \in Writers,
             \/ \E c \in Contents : Enter(w, c)
             \/ Read(w) \/ Insert(w) \/ Conflict(w) \/ Abort(w)
      PROVE IInv'
  BY <1>1, AuditAssumption, EnterKeeps, ReadKeeps, InsertKeeps, ConflictKeeps, AbortKeeps
<1>2. ASSUME NEW v \in Verifiers,
             (\E after \in 0 .. MaxLog : List(v, after)) \/ Report(v)
      PROVE IInv'
  <2>1. 0 .. MaxLog \subseteq Nat
    BY AuditAssumption
  <2> QED
    BY <1>2, <2>1, AuditAssumption, ListKeeps, ReportKeeps
<1>3. CASE UNCHANGED vars
  BY <1>3 DEF vars, IInv, ShapeInv, ChainInv, WriterInv, WriterOk, InFlight, LockInv,
              CheckInv, CheckOk, ReportIsTrue
<1> QED
  BY <1>1, <1>2, <1>3, AuditAssumption, RebuildRowKeeps, CommitBootKeeps, CrashBootKeeps,
     EditKeeps DEF Next

\* Every reachable state satisfies the inductive invariant.
THEOREM Invariance == Spec => []IInv
<1>1. Init => IInv
  BY InitInv
<1>2. IInv /\ [Next]_vars => IInv'
  BY NextKeeps, AuditAssumption
<1> QED
  BY <1>1, <1>2, PTL DEF Spec

\* Every variable keeps the shape of what it models; a writer that holds a hash
\* has it from a row that exists.
THEOREM TypeCorrect == Spec => []TypeOK
<1>1. IInv => TypeOK
  <2> SUFFICES ASSUME IInv PROVE TypeOK
    OBVIOUS
  <2>1. PICK P : writer \in [Writers -> WriterShape(P)]
    BY DEF IInv, WriterInv
  <2>2. ASSUME NEW w \in Writers PROVE writer[w] \in WriterState
    <3>1. writer[w] \in WriterShape(P) /\ WriterOk(w)
      BY <2>1 DEF IInv, WriterInv
    <3>2. writer[w].prev \in {None} \cup {r.hash : r \in Rows}
      BY <3>1 DEF WriterOk, Rows
    <3> QED
      BY <3>1, <3>2 DEF WriterOk, WriterShape, WriterState
  <2>3. writer \in [Writers -> WriterState]
    BY <2>1, <2>2
  <2> QED
    BY <2>3 DEF IInv, ShapeInv, CheckInv, CheckOk, TypeOK
<1> QED
  BY <1>1, Invariance, PTL

\* However many processes append, crash and retry at the same time, the log
\* stays one chain without a gap or a fork.
THEOREM ChainStaysIntact == Spec => []ChainIsIntact
<1>1. IInv => ChainIsIntact
  BY DEF IInv, ChainInv, Link, PrevIn, ChainIsIntact
<1> QED
  BY <1>1, Invariance, PTL

\* log_operation gives an entry up only after as many appends of others as it
\* has attempts, and on SQLite never.
THEOREM EntriesAreLostOnlyInRaces == Spec => []OnlyRacesFail
<1>1. IInv => OnlyRacesFail
  BY SequenceFacts, AuditAssumption DEF IInv, ShapeInv, WriterInv, WriterOk, OnlyRacesFail
<1> QED
  BY <1>1, Invariance, PTL

\* verify_audit_chain, full or incremental, reports a row if and only if a
\* content it has listed is not the one that was written.
THEOREM ReportsAreTrue == Spec => []ReportIsTrue
<1>1. IInv => ReportIsTrue
  BY DEF IInv
<1> QED
  BY <1>1, Invariance, PTL
=============================================================================
