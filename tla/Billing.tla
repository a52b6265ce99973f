------------------------------ MODULE Billing -------------------------------
(***************************************************************************)
(* Invoices and payments: backend/api/billing.py.  An administrator bills  *)
(* the usage of a period, clients open payments under an idempotency key,  *)
(* and the provider reports their outcome through the webhook: late,       *)
(* twice, or in another order than it happened.                            *)
(*                                                                         *)
(* Both creating handlers read first and insert later; what keeps them     *)
(* apart is a unique key.  The webhook sets columns to given values, so it *)
(* is one step, at its commit.  One organization is followed.              *)
(***************************************************************************)
EXTENDS Naturals, FiniteSets

CONSTANTS
  Periods,     \* invoice keys: organization, user, start and end
  PayKeys,     \* Idempotency-Key headers
  Payments,    \* rows of billing_payments
  Clients,     \* requests in flight
  NoPeriod,
  NoKey,
  MaxUsage,    \* bound: cost logged in a period
  MaxRequests  \* bound: requests of a behaviour

ASSUME BillingAssumption ==
  /\ NoPeriod \notin Periods /\ NoKey \notin PayKeys
  /\ MaxUsage \in Nat /\ MaxRequests \in Nat

VARIABLES
  usage,      \* cost in llm_usage_logs, per period
  invoice,    \* rows of billing_invoices; at most one per key
  payment,
  client,
  reported,   \* what the provider has reported: pairs of a payment and a status
  answers,    \* history: what requests for a payment were answered
  credited,   \* history: invoices a report of success was applied for
  requests

billingVars ==
  <<usage, invoice, payment, client, reported, answers, credited, requests>>

-----------------------------------------------------------------------------
(* Data *)

Invoice == [status : {"none", "open", "paid"}, total : 0..MaxUsage]
NoInvoice == [status |-> "none", total |-> 0]
Payment == [status : {"none", "pending", "succeeded", "failed"},
            period : Periods \cup {NoPeriod}, key : PayKeys \cup {NoKey}]
UnusedPayment == [status |-> "none", period |-> NoPeriod, key |-> NoKey]

Outcomes == {"succeeded", "failed"}
ClientPoints == {"idle", "bill", "open payment", "conflict"}
Client == [pc : ClientPoints, period : Periods \cup {NoPeriod}, key : PayKeys \cup {NoKey},
           total : 0..MaxUsage]
IdleClient == [pc |-> "idle", period |-> NoPeriod, key |-> NoKey, total |-> 0]

HasPayment(p) == payment[p].status # "none"
WithKey(k) == {p \in Payments : HasPayment(p) /\ payment[p].key = k}

BillingInit ==
  /\ usage = [t \in Periods |-> 0]
  /\ invoice = [t \in Periods |-> NoInvoice]
  /\ payment = [p \in Payments |-> UnusedPayment]
  /\ client = [c \in Clients |-> IdleClient]
  /\ reported = {}
  /\ answers = {}
  /\ credited = {}
  /\ requests = 0

NewRequest(c) == client[c].pc = "idle" /\ requests < MaxRequests /\ requests' = requests + 1
EndRequest(c) == client' = [client EXCEPT ![c] = IdleClient]

-----------------------------------------------------------------------------
(* create_invoice *)

\* A usage record arrives, possibly after its period was billed.
LogUsage(t) ==
  /\ usage[t] < MaxUsage
  /\ usage' = [usage EXCEPT ![t] = @ + 1]
  /\ UNCHANGED <<invoice, payment, client, reported, answers, credited, requests>>

\* No invoice has this key: its total is the usage at this point.
Bill(c, t) ==
  /\ NewRequest(c)
  /\ invoice[t].status = "none"
  /\ client' = [client EXCEPT ![c] = [IdleClient EXCEPT !.pc = "bill", !.period = t,
                                                        !.total = usage[t]]]
  /\ UNCHANGED <<usage, invoice, payment, reported, answers, credited>>

\* The unique key decides; the loser returns the invoice of the winner.
StoreInvoiceBlindly(c) ==  \* mutant: the invoice is stored without the unique key
  /\ client[c].pc = "bill"
  /\ invoice' = [invoice EXCEPT ![client[c].period] =
                   [status |-> "open", total |-> client[c].total]]
  /\ EndRequest(c)
  /\ UNCHANGED <<usage, payment, reported, answers, credited, requests>>
StoreInvoice(c) ==
  /\ client[c].pc = "bill"
  /\ invoice' = IF invoice[client[c].period].status = "none"
                THEN [invoice EXCEPT ![client[c].period] =
                        [status |-> "open", total |-> client[c].total]]
                ELSE invoice
  /\ EndRequest(c)
  /\ UNCHANGED <<usage, payment, reported, answers, credited, requests>>

-----------------------------------------------------------------------------
(* create_payment *)

AnswerWith(t, k, p) == answers' = answers \cup {[period |-> t, key |-> k, payment |-> p]}

\* A payment with this key exists: it is the answer, unless it belongs to
\* another invoice, which is an error.
AnswerExisting(c, t, k) ==
  /\ NewRequest(c)
  /\ invoice[t].status # "none"
  /\ \E p \in WithKey(k) : payment[p].period = t /\ AnswerWith(t, k, p)
  /\ UNCHANGED <<usage, invoice, payment, client, reported, credited>>

OpenPayment(c, t, k) ==
  /\ NewRequest(c)
  /\ invoice[t].status = "open"
  /\ WithKey(k) = {}
  /\ client' = [client EXCEPT ![c] = [IdleClient EXCEPT !.pc = "open payment", !.period = t,
                                                        !.key = k]]
  /\ UNCHANGED <<usage, invoice, payment, reported, answers, credited>>

StorePayment(c) ==
  /\ client[c].pc = "open payment"
  /\ WithKey(client[c].key) = {}
  /\ \E p \in Payments :
       /\ ~HasPayment(p)
       /\ payment' = [payment EXCEPT ![p] = [status |-> "pending", period |-> client[c].period,
                                             key |-> client[c].key]]
       /\ AnswerWith(client[c].period, client[c].key, p)
  /\ EndRequest(c)
  /\ UNCHANGED <<usage, invoice, reported, credited, requests>>

PaymentConflict(c) ==
  /\ client[c].pc = "open payment"
  /\ WithKey(client[c].key) # {}
  /\ client' = [client EXCEPT ![c].pc = "conflict"]
  /\ UNCHANGED <<usage, invoice, payment, reported, answers, credited, requests>>

\* After the unique key was hit: the winner's payment, or an error when it is
\* for another invoice.
AnswerWinnerUnchecked(c) ==  \* mutant: the winner's invoice is not compared
  /\ client[c].pc = "conflict"
  /\ \E p \in WithKey(client[c].key) : AnswerWith(client[c].period, client[c].key, p)
  /\ EndRequest(c)
  /\ UNCHANGED <<usage, invoice, payment, reported, credited, requests>>
AnswerWinner(c) ==
  /\ client[c].pc = "conflict"
  /\ \E p \in WithKey(client[c].key) :
       IF payment[p].period = client[c].period
       THEN AnswerWith(client[c].period, client[c].key, p) ELSE answers' = answers
  /\ EndRequest(c)
  /\ UNCHANGED <<usage, invoice, payment, reported, credited, requests>>

\* The request is cancelled or its connection fails before its commit.
DropRequest(c) ==
  /\ client[c].pc # "idle"
  /\ EndRequest(c)
  /\ UNCHANGED <<usage, invoice, payment, reported, answers, credited, requests>>

-----------------------------------------------------------------------------
(* The provider and the webhook *)

\* The provider may report a failure and, after another attempt, success.
ReportOutcome(p, outcome) ==
  /\ HasPayment(p)
  /\ <<p, "succeeded">> \notin reported
  /\ reported' = reported \cup {<<p, outcome>>}
  /\ UNCHANGED <<usage, invoice, payment, client, answers, credited, requests>>

\* A report is delivered at any time after it was made, any number of times.
PaidForLater(p, outcome) ==  \* mutant: a late failure opens the invoice again
  [invoice EXCEPT ![payment[p].period].status = IF outcome = "succeeded" THEN "paid" ELSE "open"]
PaidFor(p, outcome) ==
  IF outcome = "succeeded" THEN [invoice EXCEPT ![payment[p].period].status = "paid"] ELSE invoice

PaymentWebhook(p, outcome) ==
  /\ <<p, outcome>> \in reported
  /\ payment' = [payment EXCEPT ![p].status = outcome]
  /\ invoice' = PaidFor(p, outcome)
  /\ credited' = IF outcome = "succeeded" THEN credited \cup {payment[p].period} ELSE credited
  /\ UNCHANGED <<usage, client, reported, answers, requests>>

BillingNext ==
  \/ \E t \in Periods : LogUsage(t)
  \/ \E c \in Clients :
       \/ \E t \in Periods : Bill(c, t)
       \/ StoreInvoice(c)
       \/ \E t \in Periods, k \in PayKeys : AnswerExisting(c, t, k) \/ OpenPayment(c, t, k)
       \/ StorePayment(c) \/ PaymentConflict(c) \/ AnswerWinner(c) \/ DropRequest(c)
  \/ \E p \in Payments, outcome \in Outcomes : ReportOutcome(p, outcome) \/ PaymentWebhook(p, outcome)

BillingSpec == BillingInit /\ [][BillingNext]_billingVars

-----------------------------------------------------------------------------
(* Properties *)

\* Every variable has a value of its kind.
BillingTypeOK ==
  /\ usage \in [Periods -> 0..MaxUsage]
  /\ invoice \in [Periods -> Invoice]
  /\ payment \in [Payments -> Payment]
  /\ client \in [Clients -> Client]
  /\ reported \subseteq Payments \X Outcomes
  /\ answers \subseteq [period : Periods, key : PayKeys, payment : Payments]
  /\ credited \subseteq Periods
  /\ requests \in 0..MaxRequests

\* However requests with one idempotency key race and are repeated, they are
\* answered with one payment, and it is for the invoice they asked to pay.
AnswersAgree ==
  \A a \in answers :
    /\ payment[a.payment].period = a.period /\ payment[a.payment].key = a.key
    /\ \A b \in answers : a.key = b.key => a.payment = b.payment

\* An invoice is paid if and only if success was reported for one of its
\* payments, whatever else is reported before and after, twice and late.
PaidOnSuccess ==
  \A t \in Periods : invoice[t].status = "paid" <=> t \in credited

\* What was billed is never changed, not by usage logged later and not by a
\* request that computed another total.
TotalsAreFinal ==
  [][\A t \in Periods : invoice[t].status # "none" => invoice'[t].total = invoice[t].total]_billingVars

\* BillingPromise, with the rows of the tables as bills and bindings.
BillOf(t) == [period |-> t, total |-> invoice[t].total]
Billed == {BillOf(t) : t \in {u \in Periods : invoice[u].status # "none"}}
BindingOf(p) == [period |-> payment[p].period, key |-> payment[p].key, payment |-> p]
Bound == {BindingOf(p) : p \in {q \in Payments : HasPayment(q)}}
Paid == {t \in Periods : invoice[t].status = "paid"}
Bills == INSTANCE BillingPromise WITH
  Totals <- 0..MaxUsage, billed <- Billed, bound <- Bound, paid <- Paid

\* Billing does nothing its promise does not allow: whatever requests and
\* reports race, repeat or come late, a period is billed once with a total that
\* stays, a key never changes its payment nor a payment its period, answers
\* tell what is stored, and an invoice is paid only through a payment for it and
\* never opened again.
BillingKeepsPromise == Bills!Spec

\* An invoice is paid at most once.  It does not hold: two payments with
\* different keys can be open for it, and no run checks it.
PaidOnce ==
  \A t \in Periods :
    Cardinality({p \in Payments : <<p, "succeeded">> \in reported /\ payment[p].period = t}) <= 1
=============================================================================
