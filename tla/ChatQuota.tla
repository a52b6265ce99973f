------------------------------ MODULE ChatQuota ------------------------------
(***************************************************************************)
(* The token budget of one user: backend/api/usage.py, and the life of a   *)
(* chat request in backend/api/chat.py, which reserves a share of the      *)
(* budget, streams, logs what the model reported and settles.              *)
(*                                                                         *)
(* reserve_user_quota is one transaction that locks out other reservations *)
(* (BEGIN IMMEDIATE, or the lock on the quota row); every other helper is  *)
(* a transaction of its own.  Costs are limited like tokens, other users   *)
(* and organizations share nothing with this one, and the month does not   *)
(* change: all three are left out.                                         *)
(***************************************************************************)
EXTENDS Naturals, Sequences, FiniteSets

CONSTANTS
  Requests,   \* calls of chat
  Ids,        \* X-Request-ID headers: a client that retries sends one again
  NoId,
  Share,      \* settings.quota_reservation_tokens
  Limits,     \* values of monthly_token_limit; 0 is no limit
  NoQuota,    \* no quota row, or a disabled one
  Tokens,     \* tokens a model call may report
  MaxCalls    \* bound: reported model calls of a request

ASSUME QuotaAssumption ==
  /\ NoId \notin Ids
  /\ Share \in Nat
  /\ Limits \subseteq Nat
  /\ NoQuota \notin Nat
  /\ Tokens \subseteq Nat
  /\ MaxCalls \in Nat

VARIABLES
  quota,        \* monthly_token_limit of usage_quotas
  reservation,  \* usage_quota_reservations, unique by request id
  used,         \* sum of total_tokens in llm_usage_logs
  req,          \* requests
  granted,      \* history: greatest limit under which a request was admitted
  loose         \* history: tokens logged that no reservation had to cover

vars == <<quota, reservation, used, req, granted, loose>>

-----------------------------------------------------------------------------
(* Data *)

Reservation == [status : {"none", "active", "settled", "expired"},
                overdue : BOOLEAN]
NoReservation == [status |-> "none", overdue |-> FALSE]

Points == {"idle", "open", "stream", "save", "done"}
RequestState == [pc : Points, id : Ids \cup {NoId}, own : BOOLEAN,
                 limited : BOOLEAN, reports : Seq(Tokens), logged : Nat]
IdleReq == [pc |-> "idle", id |-> NoId, own |-> FALSE, limited |-> FALSE,
            reports |-> <<>>, logged |-> 0]

Alive(i) == reservation[i].status = "active" /\ ~reservation[i].overdue

\* Tokens used, and reserved by reservations that have not expired.
Committed == used + Share * Cardinality({i \in Ids : Alive(i)})

\* The reservation rows after the overdue ones have been expired.
Expired ==
  [i \in Ids |->
     IF reservation[i].status = "active" /\ reservation[i].overdue
     THEN [reservation[i] EXCEPT !.status = "expired"]
     ELSE reservation[i]]

Fits == quota # 0 => Committed + Share <= quota

Init ==
  /\ quota \in Limits \cup {NoQuota}
  /\ reservation = [i \in Ids |-> NoReservation]
  /\ used = 0
  /\ req = [q \in Requests |-> IdleReq]
  /\ granted = 0
  /\ loose = 0

Goto(q, pc) == req' = [req EXCEPT ![q].pc = pc]
\* Of a request that has ended only its id matters.
End(q) == req' = [req EXCEPT ![q] = [IdleReq EXCEPT !.pc = "done", !.id = req[q].id]]

-----------------------------------------------------------------------------
(* reserve_user_quota.  A request that does not fit is answered 429 and    *)
(* changes nothing: it is a stuttering step.                               *)

ReserveWithoutQuota(q) ==
  /\ req[q].pc = "idle"
  /\ quota = NoQuota
  /\ reservation' = Expired
  /\ Goto(q, "open")
  /\ UNCHANGED <<quota, used, granted, loose>>

Admit(q, i, own) ==
  req' = [req EXCEPT ![q] =
    [IdleReq EXCEPT !.pc = "open", !.id = i, !.own = own, !.limited = quota # 0]]

Reserve(q, i) ==
  /\ req[q].pc = "idle"
  /\ quota # NoQuota /\ Fits
  /\ reservation[i].status = "none"
  /\ reservation' = [Expired EXCEPT ![i].status = "active"]
  /\ granted' = IF quota > granted THEN quota ELSE granted
  /\ Admit(q, i, TRUE)
  /\ UNCHANGED <<quota, used, loose>>

\* The insert hits the unique request id: the transaction is rolled back, and
\* the existing reservation is returned whatever its status is.
ReserveAgain(q, i) ==
  /\ req[q].pc = "idle"
  /\ quota # NoQuota /\ Fits
  /\ reservation[i].status # "none"
  /\ Admit(q, i, FALSE)
  /\ UNCHANGED <<quota, reservation, used, granted, loose>>

-----------------------------------------------------------------------------
(* The request.  It can fail between the reservation and the stream, and   *)
(* then never settles; the stream ends normally, with an exception or with *)
(* a disconnect.                                                           *)

OpenStream(q) ==
  /\ req[q].pc = "open"
  /\ Goto(q, "stream") \/ End(q)
  /\ UNCHANGED <<quota, reservation, used, granted, loose>>

ModelCall(q, t) ==
  /\ req[q].pc = "stream"
  /\ Len(req[q].reports) < MaxCalls
  /\ req' = [req EXCEPT ![q].reports = Append(@, t)]
  /\ UNCHANGED <<quota, reservation, used, granted, loose>>

\* Mutant of EndStream: the reservation is settled before the usage is saved.
EndStreamSettles(q) ==
  /\ req[q].pc = "stream"
  /\ Goto(q, "save")
  /\ reservation' = [i \in Ids |->
       IF i = req[q].id /\ reservation[i].status = "active"
       THEN [reservation[i] EXCEPT !.status = "settled"] ELSE reservation[i]]
  /\ UNCHANGED <<quota, used, granted, loose>>

EndStream(q) ==
  /\ req[q].pc = "stream"
  /\ Goto(q, "save")
  /\ UNCHANGED <<quota, reservation, used, granted, loose>>

\* The part of t more tokens that the request's reservation does not have to
\* cover: it has none of its own under a limit, it has outlived it or shares
\* it with a retry, or it goes beyond its share.
Uncovered(q, t) ==
  IF \/ ~req[q].own \/ ~req[q].limited
     \/ reservation[req[q].id].overdue
     \/ \E p \in Requests \ {q} : req[p].id = req[q].id
  THEN t
  ELSE IF req[q].logged + t <= Share THEN 0
  ELSE IF req[q].logged >= Share THEN t
  ELSE req[q].logged + t - Share

\* One record, one transaction; a record that cannot be saved is only logged.
SaveUsage(q) ==
  /\ req[q].pc = "save" /\ req[q].reports # <<>>
  /\ LET t == Head(req[q].reports)
         rest == [req EXCEPT ![q].reports = Tail(@)] IN
     \/ /\ used' = used + t
        /\ loose' = loose + Uncovered(q, t)
        /\ req' = [rest EXCEPT ![q].logged = @ + t]
     \/ /\ req' = rest
        /\ UNCHANGED <<used, loose>>
  /\ UNCHANGED <<quota, reservation, granted>>

\* Mutant of Settle: a status the other readers do not know.
SettleUnknown(q) ==
  /\ req[q].pc = "save" /\ req[q].reports = <<>>
  /\ reservation' = [i \in Ids |->
       IF i = req[q].id /\ reservation[i].status = "active"
       THEN [reservation[i] EXCEPT !.status = "done"] ELSE reservation[i]]
  /\ End(q)
  /\ UNCHANGED <<quota, used, granted, loose>>

Settle(q) ==
  /\ req[q].pc = "save" /\ req[q].reports = <<>>
  /\ reservation' = [i \in Ids |->
       IF i = req[q].id /\ reservation[i].status = "active"
       THEN [reservation[i] EXCEPT !.status = "settled"] ELSE reservation[i]]
  /\ End(q)
  /\ UNCHANGED <<quota, used, granted, loose>>

\* The process dies, or the last transaction of a request fails.
Stop(q) ==
  /\ req[q].pc \in {"open", "stream", "save"}
  /\ End(q)
  /\ UNCHANGED <<quota, reservation, used, granted, loose>>

-----------------------------------------------------------------------------
SetQuota(limit) ==
  /\ quota' = limit
  /\ UNCHANGED <<reservation, used, req, granted, loose>>

\* quota_reservation_ttl_seconds have passed.
LeaseEnds(i) ==
  /\ Alive(i)
  /\ reservation' = [reservation EXCEPT ![i].overdue = TRUE]
  /\ UNCHANGED <<quota, used, req, granted, loose>>

Next ==
  \/ \E q \in Requests :
       \/ ReserveWithoutQuota(q)
       \/ \E i \in Ids : Reserve(q, i) \/ ReserveAgain(q, i)
       \/ OpenStream(q) \/ EndStream(q) \/ SaveUsage(q)
       \/ Settle(q) \/ Stop(q)
       \/ \E t \in Tokens : ModelCall(q, t)
  \/ \E limit \in Limits \cup {NoQuota} : SetQuota(limit)
  \/ \E i \in Ids : LeaseEnds(i)

Spec == Init /\ [][Next]_vars

-----------------------------------------------------------------------------
(* Properties *)

\* Every variable keeps the shape of the rows and the local state it models.
TypeOK ==
  /\ quota \in Limits \cup {NoQuota}
  /\ reservation \in [Ids -> Reservation]
  /\ used \in Nat
  /\ req \in [Requests -> RequestState]
  /\ granted \in Nat
  /\ loose \in Nat

\* The budget is a hard limit: what is logged stays within the greatest limit
\* under which a request was admitted, however many requests run at once and
\* in whatever order they log and settle.  Only tokens that no reservation had
\* to cover come on top.
BudgetIsKept == used <= granted + loose

-----------------------------------------------------------------------------
(* What the repository says of the code, and the code does not keep.       *)

\* reviews/review-bugbot-20260822230957.md: quota is reserved atomically before
\* the model is called, and requests count the active reservations.  A retry
\* with a known request id streams on a reservation that is settled already:
\* the property is in no run, see the README.
StreamsAreReserved ==
  \A q \in Requests :
    req[q].pc = "stream" /\ req[q].limited =>
      reservation[req[q].id].status = "active" \/ reservation[req[q].id].overdue
=============================================================================
