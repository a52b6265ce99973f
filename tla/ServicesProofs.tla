--------------------------- MODULE ServicesProofs ---------------------------
(***************************************************************************)
(* Proofs about the components of MCServices, one after the other: for     *)
(* each its inductive invariant, the lemmas that its steps keep it, and    *)
(* the theorems that follow.  The components share no state, nor do their  *)
(* proofs an invariant; the last section puts them together.               *)
(***************************************************************************)
EXTENDS MCServices, FiniteSetTheorems, SequenceTheorems, WellFoundedInduction, TLAPS

-----------------------------------------------------------------------------
(* Billing                                                                 *)

\* A request in flight is for a period, and one for a payment has a key and an
\* invoice.
ClientInv ==
  \A c \in Clients :
    /\ client[c].pc # "idle" => client[c].period \in Periods
    /\ client[c].pc \in {"open payment", "conflict"} =>
         /\ client[c].key \in PayKeys
         /\ invoice[client[c].period].status # "none"

\* A payment has a key of its own and is for an invoice, and only payments are
\* reported on.
PaymentInv ==
  /\ \A p \in Payments : HasPayment(p) =>
       /\ payment[p].key \in PayKeys /\ payment[p].period \in Periods
       /\ invoice[payment[p].period].status # "none"
  /\ \A p, q \in Payments :
       HasPayment(p) /\ HasPayment(q) /\ payment[p].key = payment[q].key => p = q
  /\ \A p \in Payments, outcome \in Outcomes :
       <<p, outcome>> \in reported => HasPayment(p)

\* What was answered is a payment with the key and the invoice of the request.
AnswerInv ==
  \A a \in answers :
    /\ HasPayment(a.payment)
    /\ payment[a.payment].period = a.period /\ payment[a.payment].key = a.key

BillingInv == BillingTypeOK /\ ClientInv /\ PaymentInv /\ AnswerInv /\ PaidOnSuccess

LEMMA IdleClientIsClient == IdleClient \in Client
BY BillingAssumption DEF IdleClient, Client, ClientPoints

LEMMA BillingStarts == BillingInit => BillingInv
<1> SUFFICES ASSUME BillingInit PROVE BillingInv
  OBVIOUS
<1> USE DEF BillingInit
<1>1. BillingTypeOK
  <2>1. NoInvoice \in Invoice /\ UnusedPayment \in Payment 
    BY BillingAssumption DEF NoInvoice, Invoice, UnusedPayment, Payment
  <2> QED
    BY <2>1, IdleClientIsClient, BillingAssumption DEF BillingTypeOK
<1>2. ClientInv
  BY DEF ClientInv, IdleClient
<1>3. PaymentInv /\ AnswerInv
  BY DEF PaymentInv, AnswerInv, HasPayment, UnusedPayment
<1>4. PaidOnSuccess
  BY DEF PaidOnSuccess, NoInvoice
<1> QED
  BY <1>1, <1>2, <1>3, <1>4 DEF BillingInv

\* What a step that only ends or moves the request of c leaves of the invariant.
LEMMA RowsKept ==
  ASSUME BillingInv, UNCHANGED <<usage, invoice, payment, reported, answers, credited>>,
         requests' \in 0..MaxRequests, NEW c \in Clients, NEW row \in Client,
         client' = [client EXCEPT ![c] = row],
         row.pc # "idle" => row.period \in Periods,
         row.pc \in {"open payment", "conflict"} =>
           row.key \in PayKeys /\ invoice[row.period].status # "none"
  PROVE  BillingInv'
<1> USE DEF BillingInv
<1>1. BillingTypeOK'
  BY DEF BillingTypeOK
<1>2. ClientInv'
  BY DEF ClientInv, BillingTypeOK
<1>3. PaymentInv' /\ AnswerInv' /\ PaidOnSuccess'
  BY DEF PaymentInv, AnswerInv, PaidOnSuccess, HasPayment
<1> QED
  BY <1>1, <1>2, <1>3

\* The unique key of invoices: the first request to store one stores its total,
\* the others change nothing.
LEMMA StoreInvoiceKeeps ==
  ASSUME BillingInv, NEW c \in Clients, StoreInvoice(c)
  PROVE  BillingInv'
<1> USE DEF BillingInv
<1>1. client[c].period \in Periods /\ client[c].total \in 0..MaxUsage
  BY DEF ClientInv, StoreInvoice, BillingTypeOK, Client
<1>2. /\ UNCHANGED <<usage, payment, reported, answers, credited, requests>>
      /\ client' = [client EXCEPT ![c] = IdleClient]
  BY DEF StoreInvoice, EndRequest
<1>3. /\ invoice' \in [Periods -> Invoice]
      /\ \A t \in Periods :
           \/ invoice'[t] = invoice[t]
           \/ invoice[t].status = "none" /\ invoice'[t].status = "open"
  <2> DEFINE row == [status |-> "open", total |-> client[c].total]
  <2>1. row \in Invoice /\ row.status = "open"
    BY <1>1 DEF Invoice
  <2>2. \/ invoice' = invoice
        \/ /\ invoice[client[c].period].status = "none"
           /\ invoice' = [invoice EXCEPT ![client[c].period] = row]
    BY DEF StoreInvoice
  <2> HIDE DEF row
  <2> QED
    BY <1>1, <2>1, <2>2 DEF BillingTypeOK
<1>4. BillingTypeOK'
  BY <1>2, <1>3, IdleClientIsClient DEF BillingTypeOK
<1>5. ClientInv'
  BY <1>2, <1>3 DEF ClientInv, BillingTypeOK, IdleClient
<1>6. PaymentInv' /\ AnswerInv'
  BY <1>2, <1>3 DEF PaymentInv, AnswerInv, HasPayment
<1>7. PaidOnSuccess'
  BY <1>2, <1>3 DEF PaidOnSuccess
<1> QED
  BY <1>4, <1>5, <1>6, <1>7

\* The unique key of payments: a key that is free gets one payment.
LEMMA StorePaymentKeeps ==
  ASSUME BillingInv, NEW c \in Clients, StorePayment(c)
  PROVE  BillingInv'
<1> USE DEF BillingInv
<1> DEFINE t == client[c].period
           k == client[c].key
<1>1. t \in Periods /\ k \in PayKeys /\ invoice[t].status # "none"
  BY DEF ClientInv, StorePayment
<1>2. PICK p \in Payments :
        /\ ~HasPayment(p)
        /\ payment' = [payment EXCEPT ![p] = [status |-> "pending", period |-> t, key |-> k]]
        /\ answers' = answers \cup {[period |-> t, key |-> k, payment |-> p]}
  BY DEF StorePayment, AnswerWith
<1>3. /\ UNCHANGED <<usage, invoice, reported, credited, requests>>
      /\ client' = [client EXCEPT ![c] = IdleClient]
      /\ \A q \in Payments : HasPayment(q) => payment[q].key # k
  BY DEF StorePayment, EndRequest, WithKey
<1> HIDE DEF t, k
<1>4. /\ payment' \in [Payments -> Payment]
      /\ payment'[p].status = "pending" /\ payment'[p].period = t /\ payment'[p].key = k
      /\ \A q \in Payments : q # p => payment'[q] = payment[q]
  BY <1>1, <1>2 DEF BillingTypeOK, Payment
<1>5. BillingTypeOK'
  BY <1>1, <1>2, <1>3, <1>4, IdleClientIsClient DEF BillingTypeOK
<1>6. ClientInv'
  BY <1>3 DEF ClientInv, BillingTypeOK, IdleClient
<1>7. \A q \in Payments : HasPayment(q)' <=> HasPayment(q) \/ q = p
  BY <1>4 DEF HasPayment
<1>8. PaymentInv'
  BY <1>1, <1>2, <1>3, <1>4, <1>7 DEF PaymentInv
<1>9. AnswerInv'
  <2> SUFFICES ASSUME NEW a \in answers'
               PROVE  /\ HasPayment(a.payment)'
                      /\ payment'[a.payment].period = a.period
                      /\ payment'[a.payment].key = a.key
    BY DEF AnswerInv
  <2>1. CASE a \in answers
    BY <1>2, <1>4, <1>7, <2>1 DEF AnswerInv, BillingTypeOK
  <2>2. CASE a = [period |-> t, key |-> k, payment |-> p]
    BY <1>4, <1>7, <2>2
  <2> QED
    BY <1>2, <2>1, <2>2
<1>10. PaidOnSuccess'
  BY <1>3 DEF PaidOnSuccess
<1> QED
  BY <1>5, <1>6, <1>8, <1>9, <1>10

\* An answer with a payment of the request's key and invoice, whoever made it.
LEMMA AnswerKeeps ==
  ASSUME BillingInv, NEW t \in Periods, NEW k \in PayKeys, NEW p \in WithKey(k),
         payment[p].period = t, AnswerWith(t, k, p),
         UNCHANGED <<usage, invoice, payment, reported, credited>>,
         UNCHANGED client \/ \E c \in Clients : EndRequest(c),
         requests' \in 0..MaxRequests
  PROVE  BillingInv'
<1> USE DEF BillingInv
<1>1. HasPayment(p) /\ payment[p].key = k /\ p \in Payments
  BY DEF WithKey
<1>2. answers' = answers \cup {[period |-> t, key |-> k, payment |-> p]}
  BY DEF AnswerWith
<1>3. client' \in [Clients -> Client] /\ ClientInv'
  <2>1. CASE UNCHANGED client
    BY <2>1 DEF BillingTypeOK, ClientInv
  <2>2. ASSUME NEW c \in Clients, EndRequest(c)
        PROVE  client' \in [Clients -> Client] /\ ClientInv'
    BY <2>2, IdleClientIsClient DEF BillingTypeOK, ClientInv, EndRequest, IdleClient
  <2> QED
    BY <2>1, <2>2
<1>4. PaymentInv' /\ PaidOnSuccess'
  BY DEF PaymentInv, PaidOnSuccess, HasPayment
<1>5. AnswerInv'
  BY <1>1, <1>2 DEF AnswerInv, HasPayment
<1>6. BillingTypeOK'
  BY <1>1, <1>2, <1>3 DEF BillingTypeOK
<1> QED
  BY <1>3, <1>4, <1>5, <1>6

\* Whatever is reported, late or twice, a paid invoice stays paid and a payment
\* keeps its key and its invoice.
LEMMA WebhookKeeps ==
  ASSUME BillingInv, NEW p \in Payments, NEW outcome \in Outcomes,
         PaymentWebhook(p, outcome)
  PROVE  BillingInv'
<1> USE DEF BillingInv
<1> DEFINE t == payment[p].period
<1>1. HasPayment(p) /\ t \in Periods /\ invoice[t].status # "none"
  BY DEF PaymentInv, PaymentWebhook
<1>2. /\ UNCHANGED <<usage, client, reported, answers, requests>>
      /\ payment' = [payment EXCEPT ![p].status = outcome]
      /\ \/ outcome = "succeeded" /\ invoice' = [invoice EXCEPT ![t].status = "paid"]
              /\ credited' = credited \cup {t}
         \/ invoice' = invoice /\ credited' = credited
  BY DEF PaymentWebhook, PaidFor
<1> HIDE DEF t
<1>3. /\ payment' \in [Payments -> Payment]
      /\ \A q \in Payments : /\ payment'[q].key = payment[q].key
                             /\ payment'[q].period = payment[q].period
                             /\ HasPayment(q)' <=> HasPayment(q)
  BY <1>1, <1>2 DEF BillingTypeOK, Payment, HasPayment, Outcomes
<1>4. /\ invoice' \in [Periods -> Invoice]
      /\ \A u \in Periods : invoice[u].status # "none" => invoice'[u].status # "none"
  BY <1>1, <1>2 DEF BillingTypeOK, Invoice
<1>5. BillingTypeOK'
  BY <1>1, <1>2, <1>3, <1>4 DEF BillingTypeOK
<1>6. ClientInv'
  BY <1>2, <1>4 DEF ClientInv
<1>7. PaymentInv'
  BY <1>2, <1>3, <1>4 DEF PaymentInv
<1>8. AnswerInv'
  BY <1>2, <1>3 DEF AnswerInv, BillingTypeOK
<1>9. PaidOnSuccess'
  BY <1>1, <1>2 DEF PaidOnSuccess, BillingTypeOK, Invoice
<1> QED
  BY <1>5, <1>6, <1>7, <1>8, <1>9

\* What the requests and the provider do, action by action.
LEMMA BillingKeeps == BillingInv /\ [BillingNext]_billingVars => BillingInv'
<1> SUFFICES ASSUME BillingInv, [BillingNext]_billingVars
             PROVE  BillingInv'
  OBVIOUS
<1> USE DEF BillingInv
<1>1. ASSUME NEW t \in Periods, LogUsage(t) PROVE BillingInv'
  <2>1. usage' \in [Periods -> 0..MaxUsage]
    BY <1>1, BillingAssumption DEF LogUsage, BillingTypeOK
  <2>2. UNCHANGED <<invoice, payment, client, reported, answers, credited, requests>>
    BY <1>1 DEF LogUsage
  <2>3. BillingTypeOK'
    BY <2>1, <2>2 DEF BillingTypeOK
  <2>4. ClientInv' /\ PaymentInv' /\ PaidOnSuccess'
    BY <2>2 DEF ClientInv, PaymentInv, PaidOnSuccess, HasPayment
  <2>5. AnswerInv'
    BY <2>2 DEF AnswerInv, HasPayment
  <2> QED
    BY <2>3, <2>4, <2>5
<1>2. ASSUME NEW c \in Clients, NewRequest(c) PROVE requests' \in 0..MaxRequests
  BY <1>2, BillingAssumption DEF NewRequest, BillingTypeOK
<1>3. ASSUME NEW c \in Clients, NEW t \in Periods, Bill(c, t) PROVE BillingInv'
  <2> DEFINE row == [IdleClient EXCEPT !.pc = "bill", !.period = t, !.total = usage[t]]
  <2>1. row \in Client /\ row.pc = "bill" /\ row.period = t
    BY IdleClientIsClient DEF BillingTypeOK, Client, ClientPoints, IdleClient
  <2>2. client' = [client EXCEPT ![c] = row]
    BY <1>3 DEF Bill
  <2> HIDE DEF row
  <2> QED
    BY <1>2, <1>3, <2>1, <2>2, RowsKept DEF Bill
<1>4. ASSUME NEW c \in Clients, NEW t \in Periods, NEW k \in PayKeys, AnswerExisting(c, t, k)
      PROVE  BillingInv'
  BY <1>2, <1>4, AnswerKeeps DEF AnswerExisting
<1>5. ASSUME NEW c \in Clients, NEW t \in Periods, NEW k \in PayKeys, OpenPayment(c, t, k)
      PROVE  BillingInv'
  <2> DEFINE row == [IdleClient EXCEPT !.pc = "open payment", !.period = t, !.key = k]
  <2>1. row \in Client /\ row.period = t /\ row.key = k
    BY IdleClientIsClient DEF Client, ClientPoints, IdleClient
  <2>2. client' = [client EXCEPT ![c] = row]
    BY <1>5 DEF OpenPayment
  <2> HIDE DEF row
  <2> QED
    BY <1>2, <1>5, <2>1, <2>2, RowsKept DEF OpenPayment
<1>6. ASSUME NEW c \in Clients, PaymentConflict(c) PROVE BillingInv'
  <2> DEFINE row == [client[c] EXCEPT !.pc = "conflict"]
  <2>1. /\ row \in Client /\ row.period \in Periods /\ row.key \in PayKeys
        /\ invoice[row.period].status # "none"
    BY <1>6 DEF PaymentConflict, BillingTypeOK, ClientInv, Client, ClientPoints
  <2>2. client' = [client EXCEPT ![c] = row]
    BY <1>6 DEF PaymentConflict
  <2> HIDE DEF row
  <2> QED
    BY <1>6, <2>1, <2>2, RowsKept DEF PaymentConflict, BillingTypeOK
<1>7. ASSUME NEW c \in Clients, EndRequest(c),
             UNCHANGED <<usage, invoice, payment, reported, answers, credited, requests>>
      PROVE  BillingInv'
  BY <1>7, IdleClientIsClient, RowsKept DEF EndRequest, IdleClient, BillingTypeOK
<1>8. ASSUME NEW c \in Clients, AnswerWinner(c) PROVE BillingInv'
  <2>1. client[c].period \in Periods /\ client[c].key \in PayKeys
    BY <1>8 DEF AnswerWinner, ClientInv
  <2>2. PICK p \in WithKey(client[c].key) :
          IF payment[p].period = client[c].period
          THEN AnswerWith(client[c].period, client[c].key, p) ELSE answers' = answers
    BY <1>8 DEF AnswerWinner
  <2>3. CASE payment[p].period = client[c].period
    BY <1>8, <2>1, <2>2, <2>3, AnswerKeeps DEF AnswerWinner, BillingTypeOK
  <2>4. CASE payment[p].period # client[c].period
    BY <1>7, <1>8, <2>2, <2>4 DEF AnswerWinner
  <2> QED
    BY <2>3, <2>4
<1>9. ASSUME NEW p \in Payments, NEW outcome \in Outcomes, ReportOutcome(p, outcome)
      PROVE  BillingInv'
  <2>1. reported' = reported \cup {<<p, outcome>>} /\ HasPayment(p)
    BY <1>9 DEF ReportOutcome
  <2>2. UNCHANGED <<usage, invoice, payment, client, answers, credited, requests>>
    BY <1>9 DEF ReportOutcome
  <2>3. BillingTypeOK'
    BY <2>1, <2>2 DEF BillingTypeOK
  <2>4. PaymentInv'
    BY <2>1, <2>2 DEF PaymentInv, HasPayment
  <2>5. ClientInv' /\ AnswerInv' /\ PaidOnSuccess'
    BY <2>2 DEF ClientInv, AnswerInv, PaidOnSuccess, HasPayment
  <2> QED
    BY <2>3, <2>4, <2>5
<1>10. CASE UNCHANGED billingVars
  BY <1>10 DEF billingVars, BillingTypeOK, ClientInv, PaymentInv, AnswerInv,
     PaidOnSuccess, HasPayment
<1> HIDE DEF BillingInv
<1> QED
  BY <1>1, <1>3, <1>4, <1>5, <1>6, <1>7, <1>8, <1>9, <1>10, StoreInvoiceKeeps,
     StorePaymentKeeps, WebhookKeeps DEF BillingNext, DropRequest

LEMMA BillingInvariance == BillingSpec => []BillingInv
BY BillingStarts, BillingKeeps, PTL DEF BillingSpec

\* Every variable of Billing keeps the columns of its row or the shape of its
\* request, for any number of invoices, payments and clients.
THEOREM BillingTypeCorrect == BillingSpec => []BillingTypeOK
<1>1. BillingInv => BillingTypeOK
  BY DEF BillingInv
<1> QED
  BY <1>1, BillingInvariance, PTL

\* create_payment: however requests under one key race, one payment answers
\* them, for the invoice they asked to pay.
THEOREM OnePaymentPerKey == BillingSpec => []AnswersAgree
<1>1. BillingInv => AnswersAgree
  BY DEF BillingInv, BillingTypeOK, PaymentInv, AnswerInv, AnswersAgree
<1> QED
  BY <1>1, BillingInvariance, PTL

\* payment_webhook: an invoice is paid if and only if a success was reported for
\* one of its payments, in any order and however often reports are delivered.
THEOREM InvoicesArePaidOnSuccess == BillingSpec => []PaidOnSuccess
<1>1. BillingInv => PaidOnSuccess
  BY DEF BillingInv
<1> QED
  BY <1>1, BillingInvariance, PTL

\* create_invoice: what was billed is never changed.
THEOREM TotalsStay == BillingSpec => TotalsAreFinal
<1> DEFINE Final == \A t \in Periods : invoice[t].status # "none" => invoice'[t].total = invoice[t].total
<1>1. BillingInv /\ [BillingNext]_billingVars => Final
  <2> SUFFICES ASSUME BillingInv, [BillingNext]_billingVars, NEW t \in Periods,
                      invoice[t].status # "none"
               PROVE  invoice'[t].total = invoice[t].total
    OBVIOUS
  <2>1. ASSUME NEW c \in Clients, StoreInvoice(c) PROVE invoice'[t] = invoice[t]
    BY <2>1 DEF StoreInvoice, BillingInv, BillingTypeOK
  <2>2. ASSUME NEW p \in Payments, NEW outcome \in Outcomes, PaymentWebhook(p, outcome)
        PROVE  invoice'[t].total = invoice[t].total
    BY <2>2 DEF PaymentWebhook, PaidFor, BillingInv, BillingTypeOK, Invoice
  <2>3. CASE invoice' = invoice
    BY <2>3
  <2> QED
    BY <2>1, <2>2, <2>3 DEF BillingNext, LogUsage, Bill, AnswerExisting, OpenPayment,
       StorePayment, PaymentConflict, AnswerWinner, DropRequest, ReportOutcome, billingVars
<1>2. BillingInv /\ [BillingNext]_billingVars => [Final]_billingVars
  BY <1>1
<1> QED
  BY <1>2, BillingInvariance, PTL DEF BillingSpec, TotalsAreFinal

\* What the rows of the tables are in the promise.
LEMMA BillsAre ==
  ASSUME BillingInv
  PROVE  /\ \A t \in Periods : Bills!IsBilled(t) <=> invoice[t].status # "none"
         /\ \A p \in Payments : HasPayment(p) => BindingOf(p) \in Bound /\ BindingOf(p) \in Bills!Binding
<1>1. \A t \in Periods : Bills!IsBilled(t) <=> invoice[t].status # "none"
  <2>1. \A t \in Periods : BillOf(t).period = t
    BY DEF BillOf
  <2>2. \A bill : bill \in Billed <=>
          \E t \in Periods : invoice[t].status # "none" /\ bill = BillOf(t)
    BY DEF Billed
  <2> QED
    BY <2>1, <2>2 DEF Bills!IsBilled
<1>2. ASSUME NEW p \in Payments, HasPayment(p)
      PROVE  BindingOf(p) \in Bound /\ BindingOf(p) \in Bills!Binding
  BY <1>2 DEF BillingInv, PaymentInv, Bound, BindingOf, Bills!Binding
<1> QED
  BY <1>1, <1>2

\* Invoices and payments that stay are the same bills and bindings.
LEMMA BillsStay ==
  /\ invoice' = invoice => Billed' = Billed /\ Paid' = Paid
  /\ payment' = payment => Bound' = Bound
  BY DEF Billed, BillOf, Paid, Bound, BindingOf, HasPayment

\* An answer tells a binding that is stored.
LEMMA AnswerIsBound ==
  ASSUME BillingInv, NEW t \in Periods, NEW k \in PayKeys, NEW p \in WithKey(k),
         payment[p].period = t, AnswerWith(t, k, p), UNCHANGED <<invoice, payment>>
  PROVE  Bills!Answer(BindingOf(p)) /\ BindingOf(p) \in Bills!Binding
<1>1. p \in Payments /\ HasPayment(p) /\ payment[p].key = k
  BY DEF WithKey
<1>2. answers' = answers \cup {BindingOf(p)}
  BY <1>1 DEF AnswerWith, BindingOf
<1> QED
  BY <1>1, <1>2, BillsAre, BillsStay DEF Bills!Answer

\* The first request to store an invoice bills its period, the others nothing.
LEMMA StoringBills ==
  ASSUME BillingInv, NEW c \in Clients, StoreInvoice(c)
  PROVE  \/ UNCHANGED <<Billed, Bound, answers, Paid>>
         \/ \E t \in Periods, total \in 0..MaxUsage : Bills!Issue(t, total)
<1> DEFINE t == client[c].period
           total == client[c].total
<1>1. t \in Periods /\ total \in 0..MaxUsage
  BY DEF BillingInv, ClientInv, StoreInvoice, BillingTypeOK, Client
<1>2. UNCHANGED <<payment, answers>>
  BY DEF StoreInvoice
<1>3. CASE invoice' = invoice
  BY <1>2, <1>3, BillsStay
<1>4. CASE invoice' # invoice
  <2>1. /\ invoice[t].status = "none"
        /\ invoice' = [invoice EXCEPT ![t] = [status |-> "open", total |-> total]]
    BY <1>4 DEF StoreInvoice
  <2> HIDE DEF t, total
  <2>2. /\ invoice'[t].status = "open" /\ invoice'[t].total = total
        /\ \A u \in Periods : u # t => invoice'[u] = invoice[u]
    BY <1>1, <2>1 DEF BillingInv, BillingTypeOK
  <2>3. Billed' = Billed \cup {[period |-> t, total |-> total]}
    BY <1>1, <2>1, <2>2 DEF Billed, BillOf
  <2>4. Paid' = Paid
    BY <1>1, <2>1, <2>2 DEF Paid
  <2>5. ~Bills!IsBilled(t)
    BY <1>1, <2>1, BillsAre
  <2>6. Bills!Issue(t, total)
    BY <1>2, <2>3, <2>4, <2>5, BillsStay DEF Bills!Issue
  <2> QED
    BY <1>1, <2>6
<1> QED
  BY <1>3, <1>4

\* A payment that is stored binds its key, which stood for nothing.
LEMMA StoringBinds ==
  ASSUME BillingInv, NEW c \in Clients, StorePayment(c)
  PROVE  \E b \in Bills!Binding : Bills!Bind(b)
<1> DEFINE t == client[c].period
           k == client[c].key
<1>1. t \in Periods /\ k \in PayKeys /\ invoice[t].status # "none"
  BY DEF BillingInv, ClientInv, StorePayment
<1>2. PICK p \in Payments :
        /\ ~HasPayment(p)
        /\ payment' = [payment EXCEPT ![p] = [status |-> "pending", period |-> t, key |-> k]]
        /\ answers' = answers \cup {[period |-> t, key |-> k, payment |-> p]}
  BY DEF StorePayment, AnswerWith
<1>3. invoice' = invoice /\ \A q \in Payments : HasPayment(q) => payment[q].key # k
  BY DEF StorePayment, WithKey
<1> HIDE DEF t, k
<1>4. /\ payment'[p].status = "pending" /\ payment'[p].period = t /\ payment'[p].key = k
      /\ \A q \in Payments : q # p => payment'[q] = payment[q]
  BY <1>1, <1>2 DEF BillingInv, BillingTypeOK
<1> DEFINE b == [period |-> t, key |-> k, payment |-> p]
<1>5. b \in Bills!Binding /\ b.period = t /\ b.key = k /\ b.payment = p
  BY <1>1 DEF Bills!Binding
<1>6. Bound' = Bound \cup {b}
  <2>1. \A q \in Payments : HasPayment(q)' <=> HasPayment(q) \/ q = p
    BY <1>4 DEF HasPayment
  <2>2. BindingOf(p)' = b /\ \A q \in Payments : q # p => BindingOf(q)' = BindingOf(q)
    BY <1>4 DEF BindingOf
  <2> HIDE DEF b
  <2> QED
    BY <1>2, <2>1, <2>2 DEF Bound
<1> HIDE DEF b
<1>7. \A other \in Bound : other.key # b.key /\ other.payment # b.payment
  BY <1>2, <1>3, <1>5 DEF Bound, BindingOf
<1>8. answers' = answers \cup {b}
  BY <1>2 DEF b
<1>9. Bills!Bind(b)
  BY <1>1, <1>3, <1>5, <1>6, <1>7, <1>8, BillsAre, BillsStay DEF Bills!Bind
<1> QED
  BY <1>5, <1>9

\* A report pays the invoice of its payment, or changes nothing.
LEMMA ReportPays ==
  ASSUME BillingInv, NEW p \in Payments, NEW outcome \in Outcomes, PaymentWebhook(p, outcome)
  PROVE  \/ UNCHANGED <<Billed, Bound, answers, Paid>>
         \/ \E b \in Bills!Binding : Bills!Pay(b)
<1> DEFINE t == payment[p].period
<1>1. HasPayment(p) /\ t \in Periods /\ invoice[t].status # "none"
  BY DEF BillingInv, PaymentInv, PaymentWebhook
<1>2. /\ answers' = answers
      /\ payment' = [payment EXCEPT ![p].status = outcome]
      /\ \/ invoice' = [invoice EXCEPT ![t].status = "paid"]
         \/ invoice' = invoice
  BY DEF PaymentWebhook, PaidFor
<1>3. Bound' = Bound
  <2>1. \A q \in Payments : HasPayment(q)' <=> HasPayment(q)
    BY <1>1, <1>2 DEF BillingInv, BillingTypeOK, Payment, HasPayment, Outcomes
  <2>2. \A q \in Payments : BindingOf(q)' = BindingOf(q)
    BY <1>2 DEF BillingInv, BillingTypeOK, Payment, BindingOf
  <2> QED
    BY <2>1, <2>2 DEF Bound
<1>4. CASE invoice' = invoice
  BY <1>2, <1>3, <1>4, BillsStay
<1>5. CASE invoice' = [invoice EXCEPT ![t].status = "paid"]
  <2> HIDE DEF t
  <2>1. /\ invoice'[t].status = "paid" /\ invoice'[t].total = invoice[t].total
        /\ \A u \in Periods : u # t => invoice'[u] = invoice[u]
    BY <1>1, <1>5 DEF BillingInv, BillingTypeOK, Invoice
  <2>2. Billed' = Billed
    <3>1. \A u \in Periods : /\ invoice'[u].status # "none" <=> invoice[u].status # "none"
                             /\ BillOf(u)' = BillOf(u)
      BY <1>1, <2>1 DEF BillOf
    <3> QED
      BY <3>1 DEF Billed
  <2>3. Paid' = Paid \cup {t}
    BY <1>1, <2>1 DEF Paid
  <2>4. BindingOf(p).period = t
    BY DEF BindingOf, t
  <2>5. Bills!Pay(BindingOf(p))
    BY <1>1, <1>2, <1>3, <2>2, <2>3, <2>4, BillsAre DEF Bills!Pay
  <2> QED
    BY <1>1, <2>5, BillsAre
<1> QED
  BY <1>2, <1>4, <1>5

\* billing.py: every step is one that BillingPromise allows, or one it does not
\* see: a period is billed once, a key keeps its payment, answers tell what is
\* stored, and what is paid was paid through a payment for it and stays paid.
THEOREM BillingIsKept == BillingSpec => BillingKeepsPromise
<1> DEFINE tables == <<Billed, Bound, answers, Paid>>
<1>1. BillingInit => Bills!Init
  BY DEF BillingInit, Bills!Init, Billed, Bound, Paid, NoInvoice, UnusedPayment, HasPayment
<1>2. BillingInv /\ [BillingNext]_billingVars => [Bills!Next]_tables
  <2> SUFFICES ASSUME BillingInv, [BillingNext]_billingVars
               PROVE  [Bills!Next]_tables
    OBVIOUS
  <2>1. CASE UNCHANGED <<invoice, payment, answers>>
    BY <2>1, BillsStay
  <2>2. ASSUME NEW c \in Clients, NEW t \in Periods, NEW k \in PayKeys, AnswerExisting(c, t, k)
        PROVE  Bills!Next
    BY <2>2, AnswerIsBound DEF AnswerExisting, Bills!Next
  <2>3. ASSUME NEW c \in Clients, AnswerWinner(c) PROVE [Bills!Next]_tables
    <3>1. client[c].period \in Periods /\ client[c].key \in PayKeys
      BY <2>3 DEF AnswerWinner, BillingInv, ClientInv
    <3>2. UNCHANGED <<invoice, payment>>
      BY <2>3 DEF AnswerWinner
    <3>3. PICK p \in WithKey(client[c].key) :
            IF payment[p].period = client[c].period
            THEN AnswerWith(client[c].period, client[c].key, p) ELSE answers' = answers
      BY <2>3 DEF AnswerWinner
    <3>4. CASE payment[p].period = client[c].period
      BY <3>1, <3>2, <3>3, <3>4, AnswerIsBound DEF Bills!Next
    <3>5. CASE payment[p].period # client[c].period
      BY <2>1, <3>2, <3>3, <3>5
    <3> QED
      BY <3>4, <3>5
  <2>4. ASSUME NEW c \in Clients, StoreInvoice(c) PROVE [Bills!Next]_tables
    BY <2>4, StoringBills DEF Bills!Next
  <2>5. ASSUME NEW c \in Clients, StorePayment(c) PROVE [Bills!Next]_tables
    BY <2>5, StoringBinds DEF Bills!Next
  <2>6. ASSUME NEW p \in Payments, NEW outcome \in Outcomes, PaymentWebhook(p, outcome)
        PROVE  [Bills!Next]_tables
    BY <2>6, ReportPays DEF Bills!Next
  <2> HIDE DEF tables
  <2> QED
    BY <2>1, <2>2, <2>3, <2>4, <2>5, <2>6 DEF BillingNext, LogUsage, Bill, OpenPayment,
       PaymentConflict, DropRequest, ReportOutcome, billingVars
<1> QED
  BY <1>1, <1>2, BillingInvariance, PTL DEF BillingSpec, BillingKeepsPromise, Bills!Spec

-----------------------------------------------------------------------------
(* Notifications                                                           *)

\* A worker keeps its fields, and an idle one has claimed nothing.
SenderInv ==
  /\ DOMAIN sender = Senders
  /\ \A s \in Senders : /\ DOMAIN sender[s] = {"pc", "claimed", "held"}
                        /\ sender[s].pc = "idle" => sender[s].claimed = {}

\* As long as no lease has ended while it was held, a delivery is held by one
\* worker, whose claim is still in the row and fresh: nobody claims it again.
ClaimInv ==
  \A e \in Endpoints : ~overrun[e] =>
    \A s \in Senders : Holds(s, e) =>
      /\ delivery[e].status = "sending" /\ ~delivery[e].overdue
      /\ \A t \in Senders : Holds(t, e) => t = s

\* Until the failed posts of a delivery have reached the limit, the attempts in
\* its row and those every worker is about to write are no more than they are.
AttemptInv ==
  /\ \A e \in Endpoints : failures[e] < MaxAttempts =>
       /\ delivery[e].attempts <= failures[e]
       /\ \A s \in Senders : e \in DOMAIN sender[s].held =>
            /\ sender[s].held[e].attempts <= failures[e]
            /\ sender[s].held[e].answer = "error" =>
                 sender[s].held[e].attempts + 1 <= failures[e]
  /\ GivenUpAfterFailures

NotificationsInv == NotificationsTypeOK /\ SenderInv /\ ClaimInv /\ AttemptInv

LEMMA NotificationsStart == NotificationsInit => NotificationsInv
<1> SUFFICES ASSUME NotificationsInit PROVE NotificationsInv
  OBVIOUS
<1> USE DEF NotificationsInit
<1>1. NoDelivery \in Delivery /\ NoDelivery.status = "none" /\ NoDelivery.attempts = 0
  BY DEF NoDelivery, Delivery
<1>2. \A s \in Senders : /\ sender[s].pc = "idle" /\ sender[s].claimed = {}
                         /\ DOMAIN sender[s].held = {}
  BY DEF IdleSender
<1>3. NotificationsTypeOK
  BY <1>1, <1>2, NotificationsAssumption DEF NotificationsTypeOK, EndpointStates, Preferences
<1>4. SenderInv
  BY DEF SenderInv, IdleSender
<1>5. ClaimInv
  BY <1>2 DEF ClaimInv, Holds
<1>6. AttemptInv
  <2>1. \A e \in Endpoints : /\ delivery[e].status = "none" /\ delivery[e].attempts = 0
                             /\ failures[e] = 0
    <3> SUFFICES ASSUME NEW e \in Endpoints
                 PROVE  /\ delivery[e].status = "none" /\ delivery[e].attempts = 0
                        /\ failures[e] = 0
      OBVIOUS
    <3>1. delivery[e] = NoDelivery /\ failures[e] = 0
      OBVIOUS
    <3> QED
      BY <1>1, <3>1
  <2> QED
    BY <1>2, <2>1 DEF AttemptInv, GivenUpAfterFailures
<1> QED
  BY <1>3, <1>4, <1>5, <1>6 DEF NotificationsInv

\* The rows a claim leaves: claimed, or as they were, or given back from a claim
\* whose lease had ended.
LEMMA ClaimSteps ==
  ASSUME NotificationsTypeOK, SenderInv, NEW s \in Senders, Claim(s)
  PROVE  /\ sender'[s].pc = "claimed" /\ sender'[s].claimed = Candidates(Reclaimed)
         /\ sender'[s].held = <<>>
         /\ \A t \in Senders : t # s => sender'[t] = sender[t]
         /\ SenderInv'
         /\ delivery' \in [Endpoints -> Delivery]
         /\ \A e \in Endpoints :
              /\ delivery'[e].attempts = delivery[e].attempts
              /\ \/ delivery'[e] = delivery[e]
                 \/ {delivery[e].status, delivery'[e].status} \subseteq OpenStatuses
              /\ e \in Candidates(Reclaimed) =>
                   delivery'[e].status = "sending" /\ ~delivery'[e].overdue
              /\ delivery[e].status = "sending" /\ ~delivery[e].overdue =>
                   delivery'[e] = delivery[e] /\ e \notin Candidates(Reclaimed)
<1> DEFINE reclaimed == Reclaimed
<1>1. /\ sender'[s].pc = "claimed" /\ sender'[s].claimed = Candidates(reclaimed)
      /\ sender'[s].held = <<>>
      /\ \A t \in Senders : t # s => sender'[t] = sender[t]
      /\ SenderInv'
  BY DEF Claim, IdleSender, SenderInv
<1>2. delivery' = [e \in Endpoints |->
                     IF e \in Candidates(reclaimed)
                     THEN [reclaimed[e] EXCEPT !.status = "sending", !.overdue = FALSE]
                     ELSE reclaimed[e]]
  BY DEF Claim
<1>3. \A e \in Endpoints :
        /\ reclaimed[e] \in Delivery /\ reclaimed[e].attempts = delivery[e].attempts
        /\ \/ reclaimed[e] = delivery[e] /\ ~ (delivery[e].status = "sending" /\ delivery[e].overdue)
           \/ /\ reclaimed[e].status = "retry"
              /\ delivery[e].status = "sending" /\ delivery[e].overdue
  <2> SUFFICES ASSUME NEW e \in Endpoints
               PROVE  /\ reclaimed[e] \in Delivery
                      /\ reclaimed[e].attempts = delivery[e].attempts
                      /\ \/ /\ reclaimed[e] = delivery[e]
                            /\ ~ (delivery[e].status = "sending" /\ delivery[e].overdue)
                         \/ /\ reclaimed[e].status = "retry"
                            /\ delivery[e].status = "sending" /\ delivery[e].overdue
    OBVIOUS
  <2>1. delivery[e] \in Delivery
    BY DEF NotificationsTypeOK
  <2>2. CASE delivery[e].status = "sending" /\ delivery[e].overdue
    <3>1. reclaimed[e] = [delivery[e] EXCEPT !.status = "retry", !.due = TRUE, !.overdue = FALSE]
      BY <2>2 DEF Reclaimed
    <3> HIDE DEF reclaimed
    <3> QED
      BY <2>1, <2>2, <3>1 DEF Delivery
  <2>3. CASE ~(delivery[e].status = "sending" /\ delivery[e].overdue)
    BY <2>1, <2>3 DEF Reclaimed
  <2> QED
    BY <2>2, <2>3
<1>4. \A e \in Endpoints : e \in Candidates(reclaimed) => reclaimed[e].status \in {"pending", "retry"}
  BY DEF Candidates
<1> HIDE DEF reclaimed
<1>5. \A e \in Endpoints :
        /\ delivery'[e] \in Delivery
        /\ delivery'[e].attempts = delivery[e].attempts
        /\ \/ delivery'[e] = delivery[e]
           \/ {delivery[e].status, delivery'[e].status} \subseteq OpenStatuses
        /\ e \in Candidates(reclaimed) => delivery'[e].status = "sending" /\ ~delivery'[e].overdue
        /\ delivery[e].status = "sending" /\ ~delivery[e].overdue =>
             delivery'[e] = delivery[e] /\ e \notin Candidates(reclaimed)
  <2> SUFFICES ASSUME NEW e \in Endpoints
               PROVE  /\ delivery'[e] \in Delivery
                      /\ delivery'[e].attempts = delivery[e].attempts
                      /\ \/ delivery'[e] = delivery[e]
                         \/ {delivery[e].status, delivery'[e].status} \subseteq OpenStatuses
                      /\ e \in Candidates(reclaimed) =>
                           delivery'[e].status = "sending" /\ ~delivery'[e].overdue
                      /\ delivery[e].status = "sending" /\ ~delivery[e].overdue =>
                           delivery'[e] = delivery[e] /\ e \notin Candidates(reclaimed)
    OBVIOUS
  <2> DEFINE new == [reclaimed[e] EXCEPT !.status = "sending", !.overdue = FALSE]
  <2>1. new \in Delivery /\ new.attempts = delivery[e].attempts
        /\ new.status = "sending" /\ ~new.overdue
    BY <1>3 DEF Delivery
  <2>2. delivery'[e] = IF e \in Candidates(reclaimed) THEN new ELSE reclaimed[e]
    BY <1>2
  <2> HIDE DEF new
  <2> QED
    BY <1>3, <1>4, <2>1, <2>2 DEF OpenStatuses
<1> QED
  BY <1>1, <1>2, <1>5 DEF reclaimed

LEMMA ClaimKeeps ==
  ASSUME NotificationsInv, NEW s \in Senders, Claim(s)
  PROVE  NotificationsInv'
<1> USE DEF NotificationsInv
<1> DEFINE mine == Candidates(Reclaimed)
<1>1. mine \subseteq Endpoints /\ sender[s].pc = "idle" /\ sender[s].claimed = {}
  BY DEF Candidates, Claim, SenderInv
<1>2. UNCHANGED <<endpoint, preference, failures, accepted, overrun, losses, changes>>
  BY DEF Claim
<1>3. /\ sender'[s].pc = "claimed" /\ sender'[s].claimed = mine
      /\ sender'[s].held = <<>>
      /\ \A t \in Senders : t # s => sender'[t] = sender[t]
      /\ SenderInv'
      /\ delivery' \in [Endpoints -> Delivery]
      /\ \A e \in Endpoints :
           /\ delivery'[e].attempts = delivery[e].attempts
           /\ \/ delivery'[e] = delivery[e]
              \/ {delivery[e].status, delivery'[e].status} \subseteq OpenStatuses
           /\ e \in mine => delivery'[e].status = "sending" /\ ~delivery'[e].overdue
           /\ delivery[e].status = "sending" /\ ~delivery[e].overdue =>
                delivery'[e] = delivery[e] /\ e \notin mine
  BY ClaimSteps
<1> HIDE DEF mine
<1>4. DOMAIN sender'[s].held = {}
  BY <1>3
<1>5. NotificationsTypeOK'
  BY <1>1, <1>2, <1>3, <1>4 DEF NotificationsTypeOK
<1>6. ClaimInv'
  <2> SUFFICES ASSUME NEW e \in Endpoints, ~overrun[e], NEW t \in Senders, Holds(t, e)'
               PROVE  /\ delivery'[e].status = "sending" /\ ~delivery'[e].overdue
                      /\ \A u \in Senders : Holds(u, e)' => u = t
    BY <1>2 DEF ClaimInv
  <2>1. CASE t = s
    BY <1>3, <1>4, <2>1 DEF ClaimInv, Holds
  <2>2. CASE t # s
    BY <1>3, <1>4, <2>2 DEF ClaimInv, Holds
  <2> QED
    BY <2>1, <2>2
<1>7. AttemptInv'
  BY <1>2, <1>3, <1>4 DEF AttemptInv, GivenUpAfterFailures, OpenStatuses
<1> QED
  BY <1>3, <1>5, <1>6, <1>7

LEMMA LoadClaimedKeeps ==
  ASSUME NotificationsInv, NEW s \in Senders, LoadClaimed(s)
  PROVE  NotificationsInv'
<1> USE DEF NotificationsInv
<1> DEFINE loaded == {c \in sender[s].claimed : HasEndpoint(c)}
           loadedRows == [e \in loaded |-> [attempts |-> delivery[e].attempts, answer |-> "none"]]
<1>1. loaded \subseteq Endpoints /\ loaded \subseteq sender[s].claimed
  BY DEF NotificationsTypeOK
<1>2. /\ UNCHANGED <<endpoint, preference, delivery, failures, accepted, overrun, losses, changes>>
      /\ sender' = [sender EXCEPT ![s].pc = "posting", ![s].held = loadedRows]
  BY DEF LoadClaimed
<1>3. /\ DOMAIN loadedRows = loaded
      /\ \A e \in loaded : /\ loadedRows[e] \in Held /\ loadedRows[e].answer = "none"
                           /\ loadedRows[e].attempts = delivery[e].attempts
  BY <1>1 DEF NotificationsTypeOK, Delivery, Held
<1> HIDE DEF loaded, loadedRows
<1>4. /\ sender'[s].pc = "posting" /\ sender'[s].claimed = sender[s].claimed
      /\ sender'[s].held = loadedRows
      /\ \A t \in Senders : t # s => sender'[t] = sender[t]
      /\ SenderInv'
  BY <1>2 DEF SenderInv
<1>5. NotificationsTypeOK'
  BY <1>1, <1>2, <1>3, <1>4 DEF NotificationsTypeOK
<1>6. ClaimInv'
  <2>1. \A t \in Senders, e \in Endpoints : Holds(t, e)' <=> Holds(t, e)
    BY <1>4 DEF Holds
  <2> QED
    BY <1>2, <2>1 DEF ClaimInv
<1>7. AttemptInv'
  <2> SUFFICES ASSUME NEW e \in Endpoints, failures[e] < MaxAttempts,
                      NEW t \in Senders, e \in DOMAIN sender'[t].held
               PROVE  /\ sender'[t].held[e].attempts <= failures[e]
                      /\ sender'[t].held[e].answer = "error" =>
                           sender'[t].held[e].attempts + 1 <= failures[e]
    BY <1>2 DEF AttemptInv, GivenUpAfterFailures
  <2>1. CASE t = s
    BY <1>3, <1>4, <2>1 DEF AttemptInv
  <2>2. CASE t # s
    BY <1>4, <2>2 DEF AttemptInv
  <2> QED
    BY <2>1, <2>2
<1> QED
  BY <1>4, <1>5, <1>6, <1>7

\* A failed post is counted before the worker that posted writes its attempt.
LEMMA PostKeeps ==
  ASSUME NotificationsInv, NEW s \in Senders, NEW e \in Endpoints,
         NEW answer \in {"ok", "error"}, Post(s, e, answer)
  PROVE  NotificationsInv'
<1> USE DEF NotificationsInv
<1>1. /\ UNCHANGED <<endpoint, preference, delivery, overrun, losses, changes>>
      /\ accepted' \in [Endpoints -> 0..2]
  BY DEF Post, NotificationsTypeOK
<1>2. /\ e \in DOMAIN sender[s].held
      /\ sender' = [sender EXCEPT ![s].held[e].answer = answer]
  BY DEF Post
<1>3. /\ sender'[s].pc = sender[s].pc /\ sender'[s].claimed = sender[s].claimed
      /\ sender'[s].held = [sender[s].held EXCEPT ![e].answer = answer]
      /\ \A t \in Senders : t # s => sender'[t] = sender[t]
      /\ SenderInv'
  BY <1>2 DEF SenderInv
<1>4. /\ DOMAIN sender'[s].held = DOMAIN sender[s].held
      /\ sender'[s].held[e] \in Held
      /\ sender'[s].held[e].attempts = sender[s].held[e].attempts
      /\ sender'[s].held[e].answer = answer
      /\ \A d \in DOMAIN sender[s].held : d # e => sender'[s].held[d] = sender[s].held[d]
  <2> DEFINE row == sender[s].held[e]
             new == [row EXCEPT !.answer = answer]
  <2>1. row \in Held
    BY <1>2 DEF NotificationsTypeOK
  <2>2. new \in Held /\ new.attempts = row.attempts /\ new.answer = answer
    BY <2>1 DEF Held
  <2>3. sender'[s].held = [sender[s].held EXCEPT ![e] = new]
    BY <1>3
  <2> HIDE DEF new
  <2> QED
    BY <1>2, <2>2, <2>3
<1>5. /\ failures' \in [Endpoints -> 0..MaxAttempts]
      /\ \A d \in Endpoints : failures[d] <= failures'[d]
      /\ answer = "error" /\ failures'[e] < MaxAttempts => failures'[e] = failures[e] + 1
  BY NotificationsAssumption DEF Post, NotificationsTypeOK
<1>6. NotificationsTypeOK'
  <2>1. \A d \in DOMAIN sender'[s].held : sender'[s].held[d] \in Held
    BY <1>4 DEF NotificationsTypeOK
  <2>2. ASSUME NEW t \in Senders
        PROVE  /\ sender'[t].pc \in {"idle", "claimed", "posting"}
               /\ sender'[t].claimed \subseteq Endpoints
               /\ DOMAIN sender'[t].held \subseteq sender'[t].claimed
               /\ \A d \in DOMAIN sender'[t].held : sender'[t].held[d] \in Held
    <3>1. CASE t = s
      BY <1>3, <1>4, <2>1, <3>1 DEF NotificationsTypeOK
    <3>2. CASE t # s
      BY <1>3, <3>2 DEF NotificationsTypeOK
    <3> QED
      BY <3>1, <3>2
  <2> QED
    BY <1>1, <1>5, <2>2 DEF NotificationsTypeOK
<1>7. ClaimInv'
  BY <1>1, <1>3 DEF ClaimInv, Holds
<1>8. AttemptInv'
  <2> SUFFICES ASSUME NEW d \in Endpoints, failures'[d] < MaxAttempts
               PROVE  /\ delivery[d].attempts <= failures'[d]
                      /\ \A t \in Senders : d \in DOMAIN sender'[t].held =>
                           /\ sender'[t].held[d].attempts <= failures'[d]
                           /\ sender'[t].held[d].answer = "error" =>
                                sender'[t].held[d].attempts + 1 <= failures'[d]
    <3>1. GivenUpAfterFailures'
      <4> SUFFICES ASSUME NEW x \in Endpoints, delivery[x].status = "failed"
                   PROVE  failures'[x] = MaxAttempts
        BY <1>1 DEF GivenUpAfterFailures
      <4>1. failures[x] = MaxAttempts
        BY DEF AttemptInv, GivenUpAfterFailures
      <4>2. failures'[x] \in 0..MaxAttempts /\ failures[x] <= failures'[x]
        BY <1>5
      <4> QED
        BY <4>1, <4>2, NotificationsAssumption
    <3> QED
      BY <1>1, <3>1 DEF AttemptInv
  <2>1. failures[d] \in Nat /\ failures'[d] \in Nat /\ failures[d] < MaxAttempts
    BY <1>5, NotificationsAssumption DEF NotificationsTypeOK
  <2>2. delivery[d].attempts <= failures'[d]
    BY <1>5, <2>1 DEF AttemptInv, NotificationsTypeOK, Delivery
  <2>3. ASSUME NEW t \in Senders, d \in DOMAIN sender[t].held
        PROVE  /\ sender[t].held[d].attempts \in Nat
               /\ sender[t].held[d].attempts <= failures[d]
               /\ sender[t].held[d].answer = "error" => sender[t].held[d].attempts + 1 <= failures[d]
    BY <2>1, <2>3 DEF AttemptInv, NotificationsTypeOK, Held
  <2>4. ASSUME NEW t \in Senders, d \in DOMAIN sender'[t].held, t # s \/ d # e
        PROVE  d \in DOMAIN sender[t].held /\ sender'[t].held[d] = sender[t].held[d]
    BY <1>3, <1>4, <2>4
  <2>5. failures[d] <= failures'[d]
    BY <1>5
  <2>6. ASSUME NEW t \in Senders, d \in DOMAIN sender'[t].held, t # s \/ d # e
        PROVE  /\ sender'[t].held[d].attempts <= failures'[d]
               /\ sender'[t].held[d].answer = "error" => sender'[t].held[d].attempts + 1 <= failures'[d]
    BY <2>1, <2>3, <2>4, <2>5, <2>6
  <2>7. ASSUME d = e
        PROVE  /\ sender'[s].held[d].attempts <= failures'[d]
               /\ sender'[s].held[d].answer = "error" => sender'[s].held[d].attempts + 1 <= failures'[d]
    BY <1>2, <1>4, <1>5, <2>1, <2>3, <2>5, <2>7
  <2> QED
    BY <2>2, <2>6, <2>7
<1> QED
  BY <1>3, <1>6, <1>7, <1>8

\* What a batch writes of a delivery, however old the worker's copy of it is.
LEMMA CommitSteps ==
  ASSUME NotificationsTypeOK, SenderInv, NEW s \in Senders, CommitBatch(s), NEW held,
         held = sender[s].held
  PROVE  /\ sender'[s].pc = "idle" /\ sender'[s].claimed = {} /\ DOMAIN sender'[s].held = {}
         /\ \A t \in Senders : t # s => sender'[t] = sender[t]
         /\ SenderInv'
         /\ DOMAIN held \subseteq sender[s].claimed
         /\ \A e \in DOMAIN held : held[e] \in Held /\ held[e].answer \in {"ok", "error"}
         /\ delivery' \in [Endpoints -> Delivery]
         /\ \A e \in Endpoints :
              /\ e \notin DOMAIN held => delivery'[e] = delivery[e]
              /\ e \in DOMAIN held /\ held[e].answer = "ok" =>
                   delivery'[e].attempts = delivery[e].attempts /\ delivery'[e].status = "sent"
              /\ e \in DOMAIN held /\ held[e].answer = "error" =>
                   /\ delivery'[e].attempts = held[e].attempts + 1
                   /\ delivery'[e].status \in {"failed", "retry"}
                   /\ delivery'[e].status = "failed" => held[e].attempts + 1 >= MaxAttempts
<1>1. /\ sender'[s].pc = "idle" /\ sender'[s].claimed = {} /\ sender'[s].held = <<>>
      /\ \A t \in Senders : t # s => sender'[t] = sender[t]
      /\ SenderInv'
  BY DEF CommitBatch, IdleSender, SenderInv
<1>2. DOMAIN sender'[s].held = {}
  BY <1>1
<1>3. /\ DOMAIN held \subseteq sender[s].claimed
      /\ \A e \in DOMAIN held : held[e] \in Held /\ held[e].answer \in {"ok", "error"}
  BY DEF CommitBatch, NotificationsTypeOK, Held
<1>4. delivery' = [e \in Endpoints |-> IF e \in DOMAIN held THEN Written(delivery[e], held[e])
                                       ELSE delivery[e]]
  BY DEF CommitBatch
<1>5. \A row \in Delivery, h \in Held :
        /\ Written(row, h) \in Delivery
        /\ h.answer = "ok" => /\ Written(row, h).attempts = row.attempts
                              /\ Written(row, h).status = "sent"
        /\ h.answer # "ok" => /\ Written(row, h).attempts = h.attempts + 1
                              /\ Written(row, h).status \in {"failed", "retry"}
                              /\ Written(row, h).status = "failed" => h.attempts + 1 >= MaxAttempts
  <2> SUFFICES ASSUME NEW row \in Delivery, NEW h \in Held
               PROVE  /\ Written(row, h) \in Delivery
                      /\ h.answer = "ok" => /\ Written(row, h).attempts = row.attempts
                                            /\ Written(row, h).status = "sent"
                      /\ h.answer # "ok" =>
                           /\ Written(row, h).attempts = h.attempts + 1
                           /\ Written(row, h).status \in {"failed", "retry"}
                           /\ Written(row, h).status = "failed" => h.attempts + 1 >= MaxAttempts
    OBVIOUS
  <2>1. CASE h.answer = "ok"
    BY <2>1 DEF Written, Delivery
  <2>2. CASE h.answer # "ok"
    <3> DEFINE next == IF h.attempts + 1 >= MaxAttempts THEN "failed" ELSE "retry"
    <3>1. h.attempts + 1 \in Nat
      BY DEF Held
    <3>2. Written(row, h) = [status |-> next, attempts |-> h.attempts + 1,
                             due |-> FALSE, overdue |-> FALSE]
      BY <2>2 DEF Written
    <3>3. next \in {"failed", "retry"} /\ (next = "failed" => h.attempts + 1 >= MaxAttempts)
      OBVIOUS
    <3> HIDE DEF next
    <3> QED
      BY <2>2, <3>1, <3>2, <3>3 DEF Delivery
  <2> QED
    BY <2>1, <2>2
<1>6. \A e \in Endpoints :
        /\ delivery'[e] \in Delivery
        /\ e \notin DOMAIN held => delivery'[e] = delivery[e]
        /\ e \in DOMAIN held /\ held[e].answer = "ok" =>
             delivery'[e].attempts = delivery[e].attempts /\ delivery'[e].status = "sent"
        /\ e \in DOMAIN held /\ held[e].answer = "error" =>
             /\ delivery'[e].attempts = held[e].attempts + 1
             /\ delivery'[e].status \in {"failed", "retry"}
             /\ delivery'[e].status = "failed" => held[e].attempts + 1 >= MaxAttempts
  BY <1>3, <1>4, <1>5 DEF NotificationsTypeOK
<1> QED
  BY <1>1, <1>2, <1>3, <1>4, <1>6

LEMMA CommitBatchKeeps ==
  ASSUME NotificationsInv, NEW s \in Senders, CommitBatch(s)
  PROVE  NotificationsInv'
<1> USE DEF NotificationsInv
<1>1. UNCHANGED <<endpoint, preference, failures, accepted, overrun, losses, changes>>
  BY DEF CommitBatch
<1> DEFINE held == sender[s].held
<1>2. /\ sender'[s].pc = "idle" /\ sender'[s].claimed = {}
      /\ \A t \in Senders : t # s => sender'[t] = sender[t]
      /\ SenderInv'
  BY CommitSteps
<1>3. DOMAIN sender'[s].held = {}
  BY CommitSteps
<1>4. /\ DOMAIN held \subseteq sender[s].claimed
      /\ \A e \in DOMAIN held : held[e] \in Held /\ held[e].answer \in {"ok", "error"}
  BY CommitSteps
<1>5. /\ delivery' \in [Endpoints -> Delivery]
      /\ \A e \in Endpoints :
           /\ e \notin DOMAIN held => delivery'[e] = delivery[e]
           /\ e \in DOMAIN held /\ held[e].answer = "ok" =>
                delivery'[e].attempts = delivery[e].attempts /\ delivery'[e].status = "sent"
           /\ e \in DOMAIN held /\ held[e].answer = "error" =>
                /\ delivery'[e].attempts = held[e].attempts + 1
                /\ delivery'[e].status = "failed" => held[e].attempts + 1 >= MaxAttempts
  BY CommitSteps
<1> HIDE DEF held
<1>6. NotificationsTypeOK'
  BY <1>1, <1>2, <1>3, <1>5 DEF NotificationsTypeOK
<1>7. ClaimInv'
  <2> SUFFICES ASSUME NEW e \in Endpoints, ~overrun[e], NEW t \in Senders, Holds(t, e)'
               PROVE  /\ delivery'[e].status = "sending" /\ ~delivery'[e].overdue
                      /\ \A u \in Senders : Holds(u, e)' => u = t
    BY <1>1 DEF ClaimInv
  <2>1. t # s /\ Holds(t, e)
    BY <1>2 DEF Holds
  <2>2. /\ delivery[e].status = "sending" /\ ~delivery[e].overdue
        /\ \A u \in Senders : Holds(u, e) => u = t
    BY <2>1 DEF ClaimInv
  <2>3. ~ Holds(s, e) /\ \A u \in Senders : Holds(u, e)' => Holds(u, e)
    BY <1>2, <2>1, <2>2 DEF Holds
  <2>4. delivery'[e] = delivery[e]
    BY <1>4, <1>5, <2>3 DEF Holds
  <2> QED
    BY <2>2, <2>3, <2>4
<1>8. AttemptInv'
  <2>1. ASSUME NEW e \in Endpoints, failures[e] < MaxAttempts
        PROVE  /\ delivery'[e].attempts <= failures[e]
               /\ \A t \in Senders : e \in DOMAIN sender'[t].held =>
                    /\ sender'[t].held[e].attempts <= failures[e]
                    /\ sender'[t].held[e].answer = "error" =>
                         sender'[t].held[e].attempts + 1 <= failures[e]
    <3>1. /\ delivery[e].attempts <= failures[e]
          /\ \A t \in Senders : e \in DOMAIN sender[t].held =>
               /\ sender[t].held[e].attempts <= failures[e]
               /\ sender[t].held[e].answer = "error" => sender[t].held[e].attempts + 1 <= failures[e]
      BY <2>1 DEF AttemptInv
    <3>2. delivery'[e].attempts <= failures[e]
      BY <1>4, <1>5, <3>1 DEF held
    <3> QED
      BY <1>2, <1>3, <3>1, <3>2
  <2>2. ASSUME NEW e \in Endpoints, delivery'[e].status = "failed", failures[e] # MaxAttempts
        PROVE  FALSE
    <3>1. failures[e] \in Nat /\ failures[e] < MaxAttempts
      <4>1. failures[e] \in 0..MaxAttempts
        BY DEF NotificationsTypeOK
      <4> QED
        BY <2>2, <4>1, NotificationsAssumption
    <3>2. delivery[e].status # "failed"
      BY <2>2 DEF AttemptInv, GivenUpAfterFailures
    <3>3. /\ e \in DOMAIN held /\ held[e].answer = "error" /\ held[e] \in Held
          /\ held[e].attempts + 1 >= MaxAttempts
      BY <1>4, <1>5, <2>2, <3>2
    <3>4. held[e].attempts + 1 <= failures[e]
      BY <3>1, <3>3 DEF AttemptInv, held
    <3> QED
      BY <3>1, <3>3, <3>4, NotificationsAssumption DEF Held
  <2> QED
    BY <1>1, <2>1, <2>2 DEF AttemptInv, GivenUpAfterFailures
<1> QED
  BY <1>2, <1>6, <1>7, <1>8

LEMMA LoseBatchKeeps ==
  ASSUME NotificationsInv, NEW s \in Senders, LoseBatch(s)
  PROVE  NotificationsInv'
<1> USE DEF NotificationsInv
<1>1. /\ UNCHANGED <<endpoint, preference, delivery, failures, accepted, overrun, changes>>
      /\ losses < MaxLosses /\ losses' = losses + 1
  BY DEF LoseBatch
<1>2. /\ sender'[s].pc = "idle" /\ sender'[s].claimed = {} /\ sender'[s].held = <<>>
      /\ \A t \in Senders : t # s => sender'[t] = sender[t]
      /\ SenderInv'
  BY DEF LoseBatch, IdleSender, SenderInv
<1>3. DOMAIN sender'[s].held = {}
  BY <1>2
<1>4. NotificationsTypeOK'
  <2>1. losses' \in 0..MaxLosses
    BY <1>1, NotificationsAssumption DEF NotificationsTypeOK
  <2> QED
    BY <1>1, <1>2, <1>3, <2>1 DEF NotificationsTypeOK
<1>5. ClaimInv'
  <2>1. \A t \in Senders, e \in Endpoints : Holds(t, e)' => Holds(t, e)
    BY <1>2 DEF Holds
  <2> QED
    BY <1>1, <2>1 DEF ClaimInv
<1>6. AttemptInv'
  <2>1. \A t \in Senders : DOMAIN sender'[t].held # {} => sender'[t] = sender[t]
    BY <1>2, <1>3
  <2>2. \A t \in Senders : \A e \in DOMAIN sender'[t].held : sender'[t] = sender[t]
    BY <2>1
  <2> QED
    BY <1>1, <2>2 DEF AttemptInv, GivenUpAfterFailures
<1> QED
  BY <1>2, <1>4, <1>5, <1>6

LEMMA TimeKeeps ==
  ASSUME NotificationsInv, NEW e \in Endpoints, LeaseEnds(e) \/ BecomesDue(e)
  PROVE  NotificationsInv'
<1> USE DEF NotificationsInv
<1>1. UNCHANGED <<endpoint, preference, sender, failures, accepted, losses, changes>>
  BY DEF LeaseEnds, BecomesDue
<1>2. /\ delivery' \in [Endpoints -> Delivery]
      /\ \A d \in Endpoints : /\ delivery'[d].attempts = delivery[d].attempts
                              /\ delivery'[d].status = delivery[d].status
                              /\ d # e => delivery'[d] = delivery[d]
  <2>1. \A row \in Delivery :
          /\ [row EXCEPT !.overdue = TRUE] \in Delivery /\ [row EXCEPT !.due = TRUE] \in Delivery
          /\ [row EXCEPT !.overdue = TRUE].attempts = row.attempts
          /\ [row EXCEPT !.overdue = TRUE].status = row.status
          /\ [row EXCEPT !.due = TRUE].attempts = row.attempts
          /\ [row EXCEPT !.due = TRUE].status = row.status
    BY DEF Delivery
  <2>2. \/ delivery' = [delivery EXCEPT ![e] = [delivery[e] EXCEPT !.overdue = TRUE]]
        \/ delivery' = [delivery EXCEPT ![e] = [delivery[e] EXCEPT !.due = TRUE]]
    BY DEF LeaseEnds, BecomesDue
  <2>3. delivery[e] \in Delivery /\ delivery \in [Endpoints -> Delivery]
    BY DEF NotificationsTypeOK
  <2>4. PICK row \in Delivery : /\ delivery' = [delivery EXCEPT ![e] = row]
                               /\ row.attempts = delivery[e].attempts
                               /\ row.status = delivery[e].status
    BY <2>1, <2>2, <2>3
  <2> QED
    BY <2>3, <2>4
<1>3. SenderInv'
  BY <1>1 DEF SenderInv
<1>4. AttemptInv'
  BY <1>1, <1>2 DEF AttemptInv, GivenUpAfterFailures
<1>5. CASE LeaseEnds(e)
  <2>1. /\ overrun' \in [Endpoints -> BOOLEAN]
        /\ \A d \in Endpoints : d # e => overrun'[d] = overrun[d]
        /\ ~overrun'[e] => ~overrun[e] /\ \A s \in Senders : ~Holds(s, e)
    BY <1>5 DEF LeaseEnds, NotificationsTypeOK
  <2>2. NotificationsTypeOK'
    BY <1>1, <1>2, <2>1 DEF NotificationsTypeOK
  <2>3. ClaimInv'
    BY <1>1, <1>2, <2>1 DEF ClaimInv, Holds
  <2> QED
    BY <1>3, <1>4, <2>2, <2>3
<1>6. CASE BecomesDue(e)
  <2>1. overrun' = overrun /\ delivery'[e].overdue = delivery[e].overdue
    BY <1>6 DEF BecomesDue, NotificationsTypeOK, Delivery
  <2>2. NotificationsTypeOK'
    BY <1>1, <1>2, <2>1 DEF NotificationsTypeOK
  <2>3. ClaimInv'
    BY <1>1, <1>2, <2>1 DEF ClaimInv, Holds
  <2> QED
    BY <1>3, <1>4, <2>2, <2>3
<1> QED
  BY <1>5, <1>6

LEMMA PublishKeeps ==
  ASSUME NotificationsInv, PublishNotification
  PROVE  NotificationsInv'
<1> USE DEF NotificationsInv
<1>1. UNCHANGED <<endpoint, preference, sender, failures, accepted, overrun, losses, changes>>
  BY DEF PublishNotification
<1>2. /\ delivery' \in [Endpoints -> Delivery]
      /\ \A e \in Endpoints : delivery'[e].attempts = 0 /\ delivery'[e].status # "failed"
  BY DEF PublishNotification, NoDelivery, Delivery
<1>3. \A e \in Endpoints : delivery[e].status = "none"
  BY DEF PublishNotification
<1>4. NotificationsTypeOK' /\ SenderInv'
  BY <1>1, <1>2 DEF NotificationsTypeOK, SenderInv
<1>5. ClaimInv'
  BY <1>1, <1>3 DEF ClaimInv, Holds
<1>6. AttemptInv'
  BY <1>1, <1>2 DEF AttemptInv, GivenUpAfterFailures, NotificationsTypeOK
<1> QED
  BY <1>4, <1>5, <1>6

\* Endpoints and preferences decide only what a later step reads of them.
LEMMA ChangesKeep ==
  ASSUME NotificationsInv, NEW e \in Endpoints,
         \/ \E state \in {"enabled", "disabled"} : CreateEndpoint(e, state) \/ UpdateEndpoint(e, state)
         \/ DeleteEndpoint(e)
         \/ \E event \in {"exact", "wildcard"}, on \in BOOLEAN : SetPreference(e, event, on)
  PROVE  NotificationsInv'
<1> USE DEF NotificationsInv
<1>1. UNCHANGED <<delivery, sender, failures, accepted, overrun, losses>>
  BY DEF CreateEndpoint, UpdateEndpoint, DeleteEndpoint, SetPreference
<1>2. changes' \in 0..MaxChanges
  BY NotificationsAssumption
  DEF CreateEndpoint, UpdateEndpoint, DeleteEndpoint, SetPreference, Change, NotificationsTypeOK
<1>3. endpoint' \in [Endpoints -> EndpointStates]
  BY DEF CreateEndpoint, UpdateEndpoint, DeleteEndpoint, SetPreference, NotificationsTypeOK,
     EndpointStates
<1>4. preference' \in [Endpoints -> [exact : Preferences, wildcard : Preferences]]
  <2>1. CASE preference' = preference
    BY <2>1 DEF NotificationsTypeOK
  <2>2. ASSUME NEW event \in {"exact", "wildcard"}, NEW on \in BOOLEAN, SetPreference(e, event, on)
        PROVE  preference' \in [Endpoints -> [exact : Preferences, wildcard : Preferences]]
    BY <2>2 DEF SetPreference, NotificationsTypeOK, Preferences
  <2> QED
    BY <2>1, <2>2 DEF CreateEndpoint, UpdateEndpoint, DeleteEndpoint
<1>5. NotificationsTypeOK'
  BY <1>1, <1>2, <1>3, <1>4 DEF NotificationsTypeOK
<1>6. SenderInv' /\ ClaimInv' /\ AttemptInv'
  BY <1>1 DEF SenderInv, ClaimInv, AttemptInv, GivenUpAfterFailures, Holds
<1> QED
  BY <1>5, <1>6

LEMMA NotificationsKeeps ==
  NotificationsInv /\ [NotificationsNext]_notificationVars => NotificationsInv'
<1> SUFFICES ASSUME NotificationsInv, [NotificationsNext]_notificationVars
             PROVE  NotificationsInv'
  OBVIOUS
<1>1. CASE UNCHANGED notificationVars
  BY <1>1 DEF NotificationsInv, NotificationsTypeOK, SenderInv, ClaimInv, AttemptInv,
     GivenUpAfterFailures, Holds, notificationVars
<1> QED
  BY <1>1, ClaimKeeps, LoadClaimedKeeps, PostKeeps, CommitBatchKeeps, LoseBatchKeeps, TimeKeeps,
     PublishKeeps, ChangesKeep DEF NotificationsNext, SenderStep

LEMMA NotificationsInvariance == NotificationsSpec => []NotificationsInv
BY NotificationsStart, NotificationsKeeps, PTL DEF NotificationsSpec

\* Every variable of Notifications keeps the columns of its row or the shape of
\* a worker's batch, for any number of endpoints and workers.
THEOREM NotificationsTypeCorrect == NotificationsSpec => []NotificationsTypeOK
<1>1. NotificationsInv => NotificationsTypeOK
  BY DEF NotificationsInv
<1> QED
  BY <1>1, NotificationsInvariance, PTL

\* deliver_pending: two workers send the same delivery only after one of them
\* has kept it for longer than a claim is good for.
THEOREM OneSenderPerFreshClaim == NotificationsSpec => []FreshClaimIsAlone
<1>1. ASSUME NotificationsInv, NEW e \in Endpoints, ~overrun[e]
      PROVE  ~ Cardinality({s \in Senders : Holds(s, e)}) > 1
  <2> DEFINE holders == {s \in Senders : Holds(s, e)}
  <2>1. CASE holders = {}
    BY <2>1, FS_EmptySet
  <2>2. CASE holders # {}
    <3>1. PICK s \in Senders : Holds(s, e)
      BY <2>2
    <3>2. holders = {s}
      BY <1>1, <3>1 DEF NotificationsInv, ClaimInv
    <3>3. Cardinality(holders) = 1
      BY <3>2, FS_Singleton
    <3> QED
      BY <3>3
  <2> QED
    BY <2>1, <2>2
<1>2. NotificationsInv => FreshClaimIsAlone
  BY <1>1 DEF FreshClaimIsAlone
<1> QED
  BY <1>2, NotificationsInvariance, PTL

\* deliver_pending: a delivery is given up only after as many failed posts as the
\* limit, although a late batch overwrites the attempts of another worker's.
THEOREM GivenUpOnlyAfterFailures == NotificationsSpec => []GivenUpAfterFailures
<1>1. NotificationsInv => GivenUpAfterFailures
  BY DEF NotificationsInv, AttemptInv
<1> QED
  BY <1>1, NotificationsInvariance, PTL

\* The worker was given this answer for the delivery.
Told(s, e, answer) == e \in DOMAIN sender[s].held /\ sender[s].held[e].answer = answer

\* A worker that was told so can write "sent", and who has not begun to post was
\* told nothing.  As long as no worker is late and no batch has died, what an
\* endpoint accepted is written or about to be.
AcceptInv ==
  \A e \in Endpoints :
    /\ delivery[e].status = "none" => \A s \in Senders : ~Holds(s, e)
    /\ delivery[e].status = "sent" => accepted[e] > 0
    /\ \A s \in Senders : Told(s, e, "ok") => accepted[e] > 0 /\ sender[s].pc = "posting"
    /\ accepted[e] > 0 /\ ~overrun[e] /\ losses = 0 =>
         delivery[e].status = "sent" \/ \E s \in Senders : Told(s, e, "ok")

\* Only who holds a delivery was told something.
LEMMA ToldHolds ==
  ASSUME NotificationsTypeOK, NEW s \in Senders, NEW e \in Endpoints, NEW answer,
         Told(s, e, answer)
  PROVE  Holds(s, e)
  BY DEF NotificationsTypeOK, Told, Holds

LEMMA AcceptStarts == NotificationsInit => AcceptInv
<1> SUFFICES ASSUME NotificationsInit, NEW e \in Endpoints
             PROVE  /\ delivery[e].status = "none" /\ accepted[e] = 0
                    /\ \A s \in Senders : ~Holds(s, e) /\ ~Told(s, e, "ok")
  BY DEF AcceptInv
<1>1. \A s \in Senders : ~Holds(s, e) /\ ~Told(s, e, "ok")
  <2>1. \A s \in Senders : sender[s].claimed = {} /\ DOMAIN sender[s].held = {}
    BY DEF NotificationsInit, IdleSender
  <2> QED
    BY <2>1 DEF Holds, Told
<1>2. delivery[e] = NoDelivery /\ accepted[e] = 0
  BY DEF NotificationsInit
<1> QED
  BY <1>1, <1>2 DEF NoDelivery

\* A post is counted with the answer the worker is told.
LEMMA PostTells ==
  ASSUME NotificationsTypeOK, SenderInv, NEW s \in Senders, NEW e \in Endpoints,
         NEW answer \in {"ok", "error"}, Post(s, e, answer)
  PROVE  /\ UNCHANGED <<delivery, overrun, losses>>
         /\ Told(s, e, "none") /\ sender[s].pc = "posting"
         /\ \A t \in Senders : sender'[t].pc = sender[t].pc /\ sender'[t].claimed = sender[t].claimed
         /\ Told(s, e, answer)'
         /\ \A t \in Senders, d \in Endpoints, told \in {"none", "ok", "error"} :
              t # s \/ d # e => (Told(t, d, told)' <=> Told(t, d, told))
<1>1. /\ e \in DOMAIN sender[s].held /\ sender[s].held[e].answer = "none"
      /\ sender' = [sender EXCEPT ![s].held[e].answer = answer]
      /\ UNCHANGED <<delivery, overrun, losses>> /\ sender[s].pc = "posting"
  BY DEF Post
<1>2. /\ sender'[s].pc = sender[s].pc /\ sender'[s].claimed = sender[s].claimed
      /\ sender'[s].held = [sender[s].held EXCEPT ![e].answer = answer]
      /\ \A t \in Senders : t # s => sender'[t] = sender[t]
  BY <1>1 DEF SenderInv
<1>3. /\ DOMAIN sender'[s].held = DOMAIN sender[s].held
      /\ sender'[s].held[e].answer = answer
      /\ \A d \in DOMAIN sender[s].held : d # e => sender'[s].held[d] = sender[s].held[d]
  <2> DEFINE new == [sender[s].held[e] EXCEPT !.answer = answer]
  <2>1. new.answer = answer
    BY <1>1 DEF NotificationsTypeOK, Held
  <2>2. sender'[s].held = [sender[s].held EXCEPT ![e] = new]
    BY <1>2
  <2> HIDE DEF new
  <2> QED
    BY <1>1, <2>1, <2>2
<1> QED
  BY <1>1, <1>2, <1>3 DEF Told

\* Without a late worker and a dead batch, an endpoint that is posted to has
\* not accepted.
LEMMA PostedIsOpen ==
  ASSUME NotificationsInv, AcceptInv, NEW s \in Senders, NEW e \in Endpoints,
         e \in DOMAIN sender[s].held
  PROVE  /\ delivery[e].status # "none"
         /\ ~overrun[e] => delivery[e].status = "sending"
         /\ accepted[e] > 0 /\ ~overrun[e] /\ losses = 0 => Told(s, e, "ok")
<1> USE DEF NotificationsInv
<1>1. Holds(s, e)
  BY DEF NotificationsTypeOK, Holds
<1>2. delivery[e].status # "none"
  BY <1>1 DEF AcceptInv
<1>3. ~overrun[e] => delivery[e].status = "sending" /\ \A t \in Senders : Holds(t, e) => t = s
  BY <1>1 DEF ClaimInv
<1>4. ASSUME accepted[e] > 0, ~overrun[e], losses = 0
      PROVE  Told(s, e, "ok")
  <2>1. PICK t \in Senders : Told(t, e, "ok")
    BY <1>3, <1>4 DEF AcceptInv
  <2> QED
    BY <1>3, <1>4, <2>1, ToldHolds
<1> QED
  BY <1>2, <1>3, <1>4

LEMMA ClaimAccepts ==
  ASSUME NotificationsInv, AcceptInv, NEW s \in Senders, Claim(s)
  PROVE  AcceptInv'
<1> USE DEF NotificationsInv
<1> DEFINE mine == Candidates(Reclaimed)
<1>1. UNCHANGED <<accepted, overrun, losses>> /\ sender[s].pc = "idle"
  BY DEF Claim
<1>2. sender[s].claimed = {}
  BY <1>1 DEF SenderInv
<1>3. /\ sender'[s].claimed = mine /\ sender'[s].held = <<>>
      /\ \A t \in Senders : t # s => sender'[t] = sender[t]
      /\ \A e \in Endpoints :
           /\ \/ delivery'[e] = delivery[e]
              \/ {delivery[e].status, delivery'[e].status} \subseteq OpenStatuses
           /\ e \in mine => delivery'[e].status = "sending"
  BY ClaimSteps
<1> HIDE DEF mine
<1>4. DOMAIN sender'[s].held = {} /\ DOMAIN sender[s].held = {}
  <2>1. DOMAIN sender'[s].held = {}
    BY <1>3
  <2>2. DOMAIN sender[s].held \subseteq sender[s].claimed
    BY DEF NotificationsTypeOK
  <2> QED
    BY <1>2, <2>1, <2>2
<1>5. \A t \in Senders, e \in Endpoints :
        /\ Told(t, e, "ok")' <=> Told(t, e, "ok")
        /\ Holds(t, e)' => Holds(t, e) \/ e \in mine
        /\ Told(t, e, "ok") => sender'[t] = sender[t]
  BY <1>3, <1>4 DEF Told, Holds
<1>6. \A e \in Endpoints : /\ delivery'[e].status = "none" => delivery[e].status = "none"
                           /\ delivery'[e].status = "sent" <=> delivery[e].status = "sent"
  BY <1>3 DEF OpenStatuses
<1> QED
  BY <1>1, <1>3, <1>5, <1>6 DEF AcceptInv

LEMMA LoadAccepts ==
  ASSUME NotificationsInv, AcceptInv, NEW s \in Senders, LoadClaimed(s)
  PROVE  AcceptInv'
<1> USE DEF NotificationsInv
<1> DEFINE loaded == {c \in sender[s].claimed : HasEndpoint(c)}
           posts == [e \in loaded |-> [attempts |-> delivery[e].attempts, answer |-> "none"]]
<1>1. /\ UNCHANGED <<delivery, accepted, overrun, losses>> /\ sender[s].pc = "claimed"
      /\ sender' = [sender EXCEPT ![s].pc = "posting", ![s].held = posts]
  BY DEF LoadClaimed
<1>2. \A e \in DOMAIN posts : posts[e].answer = "none"
  OBVIOUS
<1> HIDE DEF posts
<1>3. /\ sender'[s].claimed = sender[s].claimed /\ sender'[s].held = posts
      /\ \A t \in Senders : t # s => sender'[t] = sender[t]
  BY <1>1 DEF SenderInv
<1>4. \A e \in Endpoints : ~Told(s, e, "ok") /\ ~Told(s, e, "ok")'
  <2>1. \A e \in Endpoints : ~Told(s, e, "ok")
    BY <1>1 DEF AcceptInv
  <2> QED
    BY <1>2, <1>3, <2>1 DEF Told
<1>5. \A t \in Senders, e \in Endpoints :
        /\ Told(t, e, "ok")' <=> Told(t, e, "ok")
        /\ Holds(t, e)' <=> Holds(t, e)
        /\ Told(t, e, "ok") => sender'[t] = sender[t]
  BY <1>3, <1>4 DEF Told, Holds
<1> QED
  BY <1>1, <1>5 DEF AcceptInv

LEMMA PostAccepts ==
  ASSUME NotificationsInv, AcceptInv, NEW s \in Senders, NEW e \in Endpoints,
         NEW answer \in {"ok", "error"}, Post(s, e, answer)
  PROVE  AcceptInv'
<1> USE DEF NotificationsInv
<1>1. /\ UNCHANGED <<delivery, overrun, losses>>
      /\ Told(s, e, "none") /\ sender[s].pc = "posting"
      /\ \A t \in Senders : sender'[t].pc = sender[t].pc /\ sender'[t].claimed = sender[t].claimed
      /\ Told(s, e, answer)'
      /\ \A t \in Senders, d \in Endpoints, told \in {"none", "ok", "error"} :
           t # s \/ d # e => (Told(t, d, told)' <=> Told(t, d, told))
  BY PostTells
<1>2. /\ \A d \in Endpoints : accepted[d] > 0 => accepted'[d] > 0
      /\ answer = "ok" => accepted'[e] > 0
      /\ \A d \in Endpoints : d # e \/ answer # "ok" => accepted'[d] = accepted[d]
  BY DEF Post, NotificationsTypeOK
<1>3. \A t \in Senders, d \in Endpoints : Holds(t, d)' <=> Holds(t, d)
  BY <1>1 DEF Holds
<1>4. ASSUME NEW d \in Endpoints
      PROVE  /\ delivery'[d].status = "none" => \A t \in Senders : ~Holds(t, d)'
             /\ delivery'[d].status = "sent" => accepted'[d] > 0
  BY <1>1, <1>2, <1>3 DEF AcceptInv
<1>5. ASSUME NEW d \in Endpoints, NEW t \in Senders, Told(t, d, "ok")'
      PROVE  accepted'[d] > 0 /\ sender'[t].pc = "posting"
  <2>1. CASE t = s /\ d = e
    <3>1. answer = "ok"
      BY <1>1, <1>5, <2>1 DEF Told
    <3> QED
      BY <1>1, <1>2, <2>1, <3>1
  <2>2. CASE t # s \/ d # e
    BY <1>1, <1>2, <1>5, <2>2 DEF AcceptInv
  <2> QED
    BY <2>1, <2>2
<1>6. ASSUME NEW d \in Endpoints, accepted'[d] > 0, ~overrun'[d], losses' = 0
      PROVE  delivery'[d].status = "sent" \/ \E t \in Senders : Told(t, d, "ok")'
  <2>1. CASE d = e /\ answer = "ok"
    BY <1>1, <2>1
  <2>2. CASE d # e \/ answer # "ok"
    <3>1. accepted[d] > 0 /\ ~overrun[d] /\ losses = 0
      BY <1>1, <1>2, <1>6, <2>2
    <3>2. CASE delivery[d].status = "sent"
      BY <1>1, <3>2
    <3>3. ASSUME NEW t \in Senders, Told(t, d, "ok") PROVE Told(t, d, "ok")'
      <4>1. t # s \/ d # e
        BY <1>1, <3>3 DEF Told
      <4> QED
        BY <1>1, <3>3, <4>1
    <3> QED
      BY <3>1, <3>2, <3>3 DEF AcceptInv
  <2> QED
    BY <2>1, <2>2
<1> QED
  BY <1>4, <1>5, <1>6 DEF AcceptInv

LEMMA CommitAccepts ==
  ASSUME NotificationsInv, AcceptInv, NEW s \in Senders, CommitBatch(s)
  PROVE  AcceptInv'
<1> USE DEF NotificationsInv
<1> DEFINE held == sender[s].held
<1>1. UNCHANGED <<accepted, overrun, losses>>
  BY DEF CommitBatch
<1>2. /\ sender'[s].claimed = {} /\ DOMAIN sender'[s].held = {}
      /\ \A t \in Senders : t # s => sender'[t] = sender[t]
      /\ \A e \in DOMAIN held : held[e].answer \in {"ok", "error"}
      /\ \A e \in Endpoints :
           /\ e \notin DOMAIN held => delivery'[e] = delivery[e]
           /\ e \in DOMAIN held /\ held[e].answer = "ok" => delivery'[e].status = "sent"
           /\ e \in DOMAIN held /\ held[e].answer = "error" =>
                delivery'[e].status \in {"failed", "retry"}
  BY CommitSteps
<1>3. \A t \in Senders, e \in Endpoints :
        /\ Told(t, e, "ok")' => Told(t, e, "ok") /\ sender'[t] = sender[t]
        /\ Holds(t, e)' => Holds(t, e)
        /\ t # s /\ Told(t, e, "ok") => Told(t, e, "ok")'
  BY <1>2 DEF Told, Holds
<1>4. ASSUME NEW e \in Endpoints
      PROVE  /\ delivery'[e].status = "none" => delivery[e].status = "none"
             /\ delivery'[e].status = "sent" => delivery[e].status = "sent" \/ Told(s, e, "ok")
  BY <1>2 DEF Told
<1>5. ASSUME NEW e \in Endpoints, accepted[e] > 0, ~overrun[e], losses = 0
      PROVE  delivery'[e].status = "sent" \/ \E t \in Senders : Told(t, e, "ok")'
  <2>1. CASE e \in DOMAIN held
    <3>1. Told(s, e, "ok")
      BY <1>5, <2>1, PostedIsOpen
    <3> QED
      BY <1>2, <3>1 DEF Told
  <2>2. CASE e \notin DOMAIN held
    <3>1. delivery'[e] = delivery[e]
      BY <1>2, <2>2
    <3>2. ~Told(s, e, "ok")
      BY <2>2 DEF Told
    <3> QED
      BY <1>3, <1>5, <3>1, <3>2 DEF AcceptInv
  <2> QED
    BY <2>1, <2>2
<1> HIDE DEF held
<1> QED
  BY <1>1, <1>3, <1>4, <1>5 DEF AcceptInv

LEMMA OthersAccept ==
  ASSUME NotificationsInv, AcceptInv, [NotificationsNext]_notificationVars,
         \A s \in Senders : ~Claim(s) /\ ~LoadClaimed(s) /\ ~CommitBatch(s),
         \A s \in Senders, e \in Endpoints, answer \in {"ok", "error"} : ~Post(s, e, answer)
  PROVE  AcceptInv'
<1> USE DEF NotificationsInv
<1>1. CASE UNCHANGED <<delivery, sender, accepted, overrun, losses>>
  BY <1>1 DEF AcceptInv, Holds, Told
<1>2. CASE PublishNotification
  <2>1. UNCHANGED <<sender, accepted, overrun, losses>>
    BY <1>2 DEF PublishNotification
  <2>2. \A e \in Endpoints : delivery[e].status = "none" /\ delivery'[e].status # "sent"
    BY <1>2 DEF PublishNotification, NoDelivery
  <2>3. \A s \in Senders, e \in Endpoints : ~Holds(s, e) /\ ~Told(s, e, "ok")
    BY <2>2, ToldHolds DEF AcceptInv
  <2>4. \A s \in Senders, e \in Endpoints : ~Holds(s, e)' /\ ~Told(s, e, "ok")'
    BY <2>1, <2>3 DEF Holds, Told
  <2> QED
    BY <2>1, <2>2, <2>3, <2>4 DEF AcceptInv
<1>3. ASSUME NEW s \in Senders, LoseBatch(s) PROVE AcceptInv'
  <2>1. /\ UNCHANGED <<delivery, accepted, overrun>>
        /\ losses' # 0
    BY <1>3, NotificationsAssumption DEF LoseBatch, NotificationsTypeOK
  <2>2. /\ sender'[s].claimed = {} /\ sender'[s].held = <<>>
        /\ \A t \in Senders : t # s => sender'[t] = sender[t]
    BY <1>3 DEF LoseBatch, IdleSender, SenderInv
  <2>3. DOMAIN sender'[s].held = {}
    BY <2>2
  <2>4. \A t \in Senders, e \in Endpoints :
          /\ Told(t, e, "ok")' => Told(t, e, "ok") /\ sender'[t] = sender[t]
          /\ Holds(t, e)' => Holds(t, e)
    BY <2>2, <2>3 DEF Told, Holds
  <2> QED
    BY <2>1, <2>4 DEF AcceptInv
<1>4. ASSUME NEW e \in Endpoints, LeaseEnds(e) \/ BecomesDue(e) PROVE AcceptInv'
  <2>1. UNCHANGED <<sender, accepted, losses>>
    BY <1>4 DEF LeaseEnds, BecomesDue
  <2>2. \A d \in Endpoints : delivery'[d].status = delivery[d].status
    BY <1>4 DEF LeaseEnds, BecomesDue, NotificationsTypeOK, Delivery
  <2>3. \A d \in Endpoints : ~overrun'[d] => ~overrun[d]
    BY <1>4 DEF LeaseEnds, BecomesDue, NotificationsTypeOK
  <2>4. \A s \in Senders, d \in Endpoints : /\ Told(s, d, "ok")' <=> Told(s, d, "ok")
                                            /\ Holds(s, d)' <=> Holds(s, d)
    BY <2>1 DEF Told, Holds
  <2> QED
    BY <2>1, <2>2, <2>3, <2>4 DEF AcceptInv
<1>5. ASSUME NEW e \in Endpoints,
             \/ \E state \in {"enabled", "disabled"} : CreateEndpoint(e, state) \/ UpdateEndpoint(e, state)
             \/ DeleteEndpoint(e)
             \/ \E event \in {"exact", "wildcard"}, on \in BOOLEAN : SetPreference(e, event, on)
      PROVE  UNCHANGED <<delivery, sender, accepted, overrun, losses>>
  BY <1>5 DEF CreateEndpoint, UpdateEndpoint, DeleteEndpoint, SetPreference
<1> QED
  BY <1>1, <1>2, <1>3, <1>4, <1>5 DEF NotificationsNext, SenderStep, notificationVars

LEMMA AcceptInvariance == NotificationsSpec => [](NotificationsInv /\ AcceptInv)
<1>1. NotificationsInv /\ AcceptInv /\ [NotificationsNext]_notificationVars => AcceptInv'
  BY ClaimAccepts, LoadAccepts, PostAccepts, CommitAccepts, OthersAccept
<1> QED
  BY <1>1, NotificationsStart, NotificationsKeeps, AcceptStarts, PTL DEF NotificationsSpec

\* Rows that change among open statuses are the same boxes.
LEMMA BoxStays ==
  ASSUME \A e \in Endpoints : \/ delivery'[e].status = delivery[e].status
                              \/ {delivery[e].status, delivery'[e].status} \subseteq OpenStatuses
  PROVE  Box' = Box
<1>1. \A e \in Endpoints : BoxOf(e)' = BoxOf(e)
  BY DEF BoxOf
<1> QED
  BY <1>1 DEF Box

\* A delivery that a worker posts to or writes is one of the promise's.
LEMMA HeldIsLive ==
  ASSUME NotificationsInv, AcceptInv, NEW s \in Senders, NEW e \in Endpoints,
         e \in DOMAIN sender[s].held
  PROVE  /\ Outbox!Live(e)
         /\ accepted[e] > 0 /\ ~Outbox!Disturbed(e) => Told(s, e, "ok")
<1>1. Box[e] = BoxOf(e)
  BY DEF Box
<1>2. delivery[e].status # "none" /\ (~overrun[e] => delivery[e].status = "sending")
  BY PostedIsOpen
<1>3. Outbox!Live(e)
  BY <1>1, <1>2 DEF Outbox!Live, BoxOf, OpenStatuses
<1>4. ASSUME accepted[e] > 0, ~Outbox!Disturbed(e) PROVE Told(s, e, "ok")
  <2>1. ~overrun[e] /\ ~(losses > 0)
    BY <1>4 DEF Outbox!Disturbed
  <2>2. losses = 0
    BY <2>1, NotificationsAssumption DEF NotificationsInv, NotificationsTypeOK
  <2> QED
    BY <1>4, <2>1, <2>2, PostedIsOpen
<1> QED
  BY <1>3, <1>4

\* A post is accepted or refused as the promise allows, or beyond its counts.
LEMMA PostIsPromised ==
  ASSUME NotificationsInv, AcceptInv, NEW s \in Senders, NEW e \in Endpoints,
         NEW answer \in {"ok", "error"}, Post(s, e, answer)
  PROVE  \/ UNCHANGED <<Box, failures, accepted, overrun, losses>>
         \/ Outbox!Accept(e) \/ Outbox!Refuse(e)
<1>1. /\ UNCHANGED <<delivery, overrun, losses>>
      /\ e \in DOMAIN sender[s].held /\ sender[s].held[e].answer = "none"
  BY DEF Post
<1>2. Box' = Box /\ (losses > 0)' = (losses > 0)
  BY <1>1, BoxStays
<1>3. Outbox!Live(e) /\ (accepted[e] > 0 => Outbox!Disturbed(e))
  BY <1>1, HeldIsLive DEF Told
<1>4. accepted[e] \in 0..2 /\ accepted \in [Endpoints -> 0..2]
  BY DEF NotificationsInv, NotificationsTypeOK
<1>5. CASE answer = "ok"
  <2>1. failures' = failures
    BY <1>5 DEF Post
  <2>2. CASE accepted[e] < 2
    <3>1. accepted' = [accepted EXCEPT ![e] = @ + 1]
      BY <1>5, <2>2 DEF Post
    <3>2. accepted[e] = 1 => Outbox!Disturbed(e)
      BY <1>3, <1>4
    <3> QED
      BY <1>1, <1>2, <1>3, <2>1, <2>2, <3>1, <3>2 DEF Outbox!Accept
  <2>3. CASE ~(accepted[e] < 2)
    BY <1>1, <1>2, <2>1, <2>3 DEF Post
  <2> QED
    BY <2>2, <2>3
<1>6. CASE answer = "error"
  <2>1. accepted' = accepted
    BY <1>6 DEF Post
  <2>2. CASE failures[e] < MaxAttempts
    <3>1. failures' = [failures EXCEPT ![e] = @ + 1]
      BY <1>6, <2>2 DEF Post
    <3> QED
      BY <1>1, <1>2, <1>3, <2>1, <2>2, <3>1 DEF Outbox!Refuse
  <2>3. CASE ~(failures[e] < MaxAttempts)
    BY <1>1, <1>2, <2>1, <2>3 DEF Post
  <2> QED
    BY <2>2, <2>3
<1> QED
  BY <1>5, <1>6

\* What a batch writes, the promise settles.
LEMMA CommitIsPromised ==
  ASSUME NotificationsInv, NotificationsInv', AcceptInv, NEW s \in Senders, CommitBatch(s)
  PROVE  \E boxes \in [Endpoints -> Outbox!Boxes \cup {"none"}] : Outbox!Settle(boxes)
<1> DEFINE held == sender[s].held
<1>1. UNCHANGED <<failures, accepted, overrun, losses>>
  BY DEF CommitBatch
<1>2. /\ \A e \in DOMAIN held : held[e].answer \in {"ok", "error"}
      /\ \A e \in Endpoints :
           /\ e \notin DOMAIN held => delivery'[e] = delivery[e]
           /\ e \in DOMAIN held /\ held[e].answer = "ok" => delivery'[e].status = "sent"
           /\ e \in DOMAIN held /\ held[e].answer = "error" =>
                delivery'[e].status \in {"failed", "retry"}
  BY CommitSteps DEF NotificationsInv
<1>3. \A e \in Endpoints : Box'[e] = BoxOf(e)' /\ Box[e] = BoxOf(e)
  BY DEF Box
<1>4. Box' \in [Endpoints -> Outbox!Boxes \cup {"none"}]
  <2>1. \A e \in Endpoints : BoxOf(e)' \in Outbox!Boxes \cup {"none"}
    BY DEF NotificationsInv, NotificationsTypeOK, Delivery, BoxOf, OpenStatuses, Outbox!Boxes
  <2> QED
    BY <2>1 DEF Box
<1>5. ASSUME NEW e \in Endpoints
      PROVE  Box'[e] = Box[e] \/ (Box'[e] \in Outbox!Boxes /\ Outbox!MaySettle(e, Box'[e]))
  <2>1. CASE e \notin DOMAIN held
    BY <1>2, <1>3, <2>1 DEF BoxOf
  <2>2. CASE e \in DOMAIN held
    <3>1. Outbox!Live(e) /\ (accepted[e] > 0 /\ ~Outbox!Disturbed(e) => Told(s, e, "ok"))
      BY <2>2, HeldIsLive
    <3>2. CASE held[e].answer = "ok"
      <4>1. Box'[e] = "sent"
        BY <1>2, <1>3, <2>2, <3>2 DEF BoxOf, OpenStatuses
      <4>2. accepted[e] > 0
        BY <2>2, <3>2 DEF AcceptInv, Told
      <4> QED
        BY <3>1, <4>1, <4>2 DEF Outbox!MaySettle, Outbox!Boxes
    <3>3. CASE held[e].answer = "error"
      <4>1. accepted[e] > 0 => Outbox!Disturbed(e)
        BY <3>1, <3>3 DEF Told
      <4>2. CASE delivery'[e].status = "retry"
        <5>1. Box'[e] = "open"
          BY <1>3, <4>2 DEF BoxOf, OpenStatuses
        <5> QED
          BY <3>1, <5>1 DEF Outbox!MaySettle, Outbox!Boxes
      <4>3. CASE delivery'[e].status = "failed"
        <5>1. Box'[e] = "failed"
          BY <1>3, <4>3 DEF BoxOf, OpenStatuses
        <5>2. failures[e] = MaxAttempts
          BY <1>1, <4>3 DEF NotificationsInv, AttemptInv, GivenUpAfterFailures
        <5> QED
          BY <3>1, <4>1, <5>1, <5>2 DEF Outbox!MaySettle, Outbox!Boxes
      <4> QED
        BY <1>2, <2>2, <3>3, <4>2, <4>3
    <3> QED
      BY <1>2, <2>2, <3>2, <3>3
  <2> QED
    BY <2>1, <2>2
<1>6. Outbox!Settle(Box')
  BY <1>1, <1>5 DEF Outbox!Settle
<1> QED
  BY <1>4, <1>6

\* A lease that ends while it is held makes its worker late; time changes
\* nothing else.
LEMMA TimeIsPromised ==
  ASSUME NotificationsInv, NEW e \in Endpoints, LeaseEnds(e) \/ BecomesDue(e)
  PROVE  \/ UNCHANGED <<Box, failures, accepted, overrun, losses>>
         \/ Outbox!Overrun(e)
<1>1. UNCHANGED <<failures, accepted, losses>>
  BY DEF LeaseEnds, BecomesDue
<1>2. \A d \in Endpoints : delivery'[d].status = delivery[d].status
  BY DEF LeaseEnds, BecomesDue, NotificationsInv, NotificationsTypeOK, Delivery
<1>3. Box' = Box
  BY <1>2, BoxStays
<1>4. CASE overrun' = overrun
  BY <1>1, <1>3, <1>4
<1>5. CASE overrun' # overrun
  <2>1. /\ delivery[e].status = "sending"
        /\ overrun' = [overrun EXCEPT ![e] = @ \/ \E s \in Senders : Holds(s, e)]
    BY <1>5 DEF LeaseEnds, BecomesDue
  <2>2. overrun \in [Endpoints -> BOOLEAN]
    BY DEF NotificationsInv, NotificationsTypeOK
  <2>3. overrun' = [overrun EXCEPT ![e] = TRUE]
    BY <1>5, <2>1, <2>2
  <2>4. Box[e] = "open"
    BY <2>1 DEF Box, BoxOf, OpenStatuses
  <2> QED
    BY <1>1, <1>3, <2>3, <2>4 DEF Outbox!Overrun
<1> QED
  BY <1>4, <1>5

LEMMA PublishIsPromised ==
  ASSUME PublishNotification
  PROVE  \E es \in SUBSET Endpoints : Outbox!Publish(es)
<1> DEFINE es == {e \in Endpoints : endpoint[e] = "enabled" /\ Wanted(e)}
<1>1. UNCHANGED <<failures, accepted, overrun, losses>>
  BY DEF PublishNotification
<1>2. \A e \in Endpoints : /\ delivery[e].status = "none"
                           /\ delivery'[e].status = IF e \in es THEN "pending" ELSE "none"
  BY DEF PublishNotification, NoDelivery
<1> HIDE DEF es
<1>3. \A e \in Endpoints : Box[e] = "none" /\ BoxOf(e)' = IF e \in es THEN "open" ELSE "none"
  BY <1>2 DEF Box, BoxOf, OpenStatuses
<1>4. Box' = [e \in Endpoints |-> IF e \in es THEN "open" ELSE "none"]
  BY <1>3 DEF Box
<1>5. Outbox!Publish(es)
  BY <1>1, <1>3, <1>4 DEF Outbox!Publish
<1>6. es \in SUBSET Endpoints
  BY DEF es
<1> QED
  BY <1>5, <1>6

\* publish_notification and deliver_pending: every step is one that OutboxPromise
\* allows, or one it does not see: for any number of workers, an endpoint that has
\* accepted is posted to again, and given up, only after a worker was late or a
\* batch died, and a delivery is settled as its posts were answered.
THEOREM DeliveryIsKept == NotificationsSpec => OutboxKeepsPromise
<1> DEFINE kept == <<Box, failures, accepted, overrun, losses > 0>>
<1>1. NotificationsInit => Outbox!Init
  <2> SUFFICES ASSUME NotificationsInit PROVE Outbox!Init
    OBVIOUS
  <2>1. \A e \in Endpoints : BoxOf(e) = "none"
    BY DEF NotificationsInit, NoDelivery, BoxOf, OpenStatuses
  <2>2. Box = [e \in Endpoints |-> "none"]
    BY <2>1 DEF Box
  <2>3. (losses > 0) = FALSE
    BY DEF NotificationsInit
  <2> QED
    BY <2>2, <2>3 DEF NotificationsInit, Outbox!Init
<1>2. ASSUME NotificationsInv, NotificationsInv', AcceptInv,
             [NotificationsNext]_notificationVars
      PROVE  [Outbox!Next]_kept
  <2>1. ASSUME UNCHANGED <<Box, failures, accepted, overrun, losses>> PROVE UNCHANGED kept
    BY <2>1
  <2>2. ASSUME UNCHANGED <<delivery, failures, accepted, overrun, losses>> PROVE UNCHANGED kept
    BY <2>2, <2>1, BoxStays
  <2>3. ASSUME NEW s \in Senders, Claim(s) PROVE UNCHANGED kept
    <3>1. NotificationsTypeOK /\ SenderInv
      BY <1>2 DEF NotificationsInv
    <3>2. \A e \in Endpoints : \/ delivery'[e].status = delivery[e].status
                              \/ {delivery[e].status, delivery'[e].status} \subseteq OpenStatuses
      BY <2>3, <3>1, ClaimSteps
    <3>3. Box' = Box
      BY <3>2, BoxStays
    <3> QED
      BY <2>1, <2>3, <3>3 DEF Claim
  <2>4. ASSUME NEW s \in Senders, NEW e \in Endpoints, NEW answer \in {"ok", "error"},
               Post(s, e, answer)
        PROVE  [Outbox!Next]_kept
    BY <1>2, <2>1, <2>4, PostIsPromised DEF Outbox!Next
  <2>5. ASSUME NEW s \in Senders, CommitBatch(s) PROVE [Outbox!Next]_kept
    BY <1>2, <2>5, CommitIsPromised DEF Outbox!Next
  <2>6. ASSUME NEW s \in Senders, LoseBatch(s) PROVE [Outbox!Next]_kept
    <3>1. UNCHANGED <<delivery, failures, accepted, overrun>>
      BY <2>6 DEF LoseBatch
    <3>2. (losses > 0)' = TRUE
      BY <1>2, <2>6, NotificationsAssumption DEF LoseBatch, NotificationsInv, NotificationsTypeOK
    <3>3. Outbox!Crash
      BY <3>1, <3>2, BoxStays DEF Outbox!Crash
    <3> QED
      BY <3>3 DEF Outbox!Next
  <2>7. ASSUME NEW e \in Endpoints, LeaseEnds(e) \/ BecomesDue(e) PROVE [Outbox!Next]_kept
    BY <1>2, <2>1, <2>7, TimeIsPromised DEF Outbox!Next
  <2>8. CASE PublishNotification
    BY <2>8, PublishIsPromised DEF Outbox!Next
  <2>9. ASSUME NEW e \in Endpoints,
               \/ \E state \in {"enabled", "disabled"} : CreateEndpoint(e, state) \/ UpdateEndpoint(e, state)
               \/ DeleteEndpoint(e)
               \/ \E event \in {"exact", "wildcard"}, on \in BOOLEAN : SetPreference(e, event, on)
        PROVE  UNCHANGED kept
    BY <2>2, <2>9 DEF CreateEndpoint, UpdateEndpoint, DeleteEndpoint, SetPreference
  <2>10. ASSUME NEW s \in Senders, LoadClaimed(s) PROVE UNCHANGED kept
    BY <2>2, <2>10 DEF LoadClaimed
  <2>11. CASE UNCHANGED notificationVars
    BY <2>2, <2>11 DEF notificationVars
  <2> HIDE DEF kept
  <2> QED
    BY <1>2, <2>3, <2>4, <2>5, <2>6, <2>7, <2>8, <2>9, <2>10, <2>11 DEF NotificationsNext, SenderStep
<1> QED
  BY <1>1, <1>2, AcceptInvariance, PTL DEF NotificationsSpec, OutboxKeepsPromise, Outbox!Spec

-----------------------------------------------------------------------------
(* Ingestion                                                               *)

\* What a job may be about to do, for whom, and what a delete ends with.
JobInv ==
  \A j \in Jobs :
    /\ Active(j) => job[j].unit \in Units
    /\ ~foreign /\ Active(j) => job[j].unit = Owner
    /\ ~overlap => \A i \in Jobs : Active(i) /\ Active(j) => i = j
    /\ job[j].pc \in {"unlink", "erase"} => job[j].deletes
    /\ job[j].deletes =>
         doomed /\ job[j].pc \in {"purge vectors", "purge texts", "unlink", "erase"}

\* Both indexes hold every chunk for the owner, or none of them for anyone.
IsIndexed == (\A c \in Chunks : vectors[c] = Owner) /\ texts = Chunks \X {Owner}
IsForgotten == (\A c \in Chunks : vectors[c] = NoUnit) /\ texts = {} /\ ~file
NobodyWorks == \A j \in Jobs : ~Active(j)

\* What a job has done so far, as far as its later steps rely on it.
StageOf(j) ==
  /\ job[j].pc \in {"insert", "finish"} => \A c \in Chunks : vectors[c] = Owner
  /\ job[j].pc = "insert" => \A c \in Chunks : c \in job[j].left \/ <<c, Owner>> \in texts
  /\ job[j].pc = "finish" => \A c \in Chunks : <<c, Owner>> \in texts
  /\ job[j].pc \in {"purge texts", "unlink", "erase"} => \A c \in Chunks : vectors[c] = NoUnit
  /\ job[j].pc \in {"unlink", "erase"} => texts = {}
  /\ job[j].pc = "erase" => ~file

IsOwners == (\A c \in Chunks : vectors[c] \in {Owner, NoUnit}) /\ texts \subseteq Chunks \X {Owner}

\* When only the owner acted and jobs did not overlap, what a job has done so far
\* is still so, and nobody works on a document that is ready or deleted.
StageInv ==
  ~overlap /\ ~foreign =>
    /\ IsOwners
    /\ \A j \in Jobs : StageOf(j)
    /\ status = "deleted" => NobodyWorks /\ IsForgotten
    /\ status = "ready" /\ ~doomed => NobodyWorks /\ IsIndexed

IngestionInv == IngestionTypeOK /\ JobInv /\ StageInv

LEMMA IngestionStarts == IngestionInit => IngestionInv
<1> SUFFICES ASSUME IngestionInit PROVE IngestionInv
  OBVIOUS
<1> USE DEF IngestionInit
<1>1. IdleJob \in Job /\ IdleJob.pc = "idle" /\ ~IdleJob.deletes
  BY DEF IdleJob, Job, Points
<1>2. IngestionTypeOK
  <2>1. {overlap, doomed, foreign, silenced} \subseteq BOOLEAN
    OBVIOUS
  <2>2. crashes \in 0..MaxCrashes /\ started \in 0..MaxJobs
    BY IngestionAssumption
  <2>3. /\ status \in Statuses /\ file \in BOOLEAN
        /\ vectors \in [Chunks -> Units \cup {NoUnit}] /\ texts \subseteq Chunks \X Units
        /\ job \in [Jobs -> Job]
        /\ watcher \in [Watchers -> {"none", "waiting", "told", "gone"}]
    BY <1>1 DEF Statuses
  <2> QED
    BY <2>1, <2>2, <2>3 DEF IngestionTypeOK
<1>3. JobInv /\ StageInv
  BY <1>1 DEF JobInv, StageInv, StageOf, IsOwners, Active
<1> QED
  BY <1>2, <1>3 DEF IngestionInv

\* A job moves on, alone in what it changes of the jobs.
LEMMA JobMoves ==
  ASSUME IngestionTypeOK, NEW j \in Jobs, NEW pc \in Points, Goto(j, pc)
  PROVE  /\ job' \in [Jobs -> Job]
         /\ job'[j].pc = pc /\ job'[j].unit = job[j].unit /\ job'[j].left = job[j].left
         /\ job'[j].deletes = job[j].deletes
         /\ \A i \in Jobs : i # j => job'[i] = job[i]
<1>1. job[j] \in Job
  BY DEF IngestionTypeOK
<1> QED
  BY <1>1 DEF Goto, IngestionTypeOK, Job

LEMMA JobEnds ==
  ASSUME IngestionTypeOK, NEW j \in Jobs, job' = [job EXCEPT ![j] = IdleJob]
  PROVE  /\ job' \in [Jobs -> Job] /\ job'[j].pc = "idle" /\ ~job'[j].deletes
         /\ \A i \in Jobs : i # j => job'[i] = job[i]
BY DEF IngestionTypeOK, IdleJob, Job, Points

\* Jobs that only end or go on in the same unit keep what is said of jobs.
LEMMA JobInvKept ==
  ASSUME JobInv, NEW j \in Jobs, Active(j), UNCHANGED <<overlap, doomed, foreign>>,
         \A i \in Jobs : i # j => job'[i] = job[i],
         \/ job'[j].pc = "idle" /\ ~job'[j].deletes
         \/ /\ job'[j].unit = job[j].unit /\ job'[j].deletes = job[j].deletes
            /\ job'[j].pc \in {"unlink", "erase"} => job[j].deletes
            /\ job[j].deletes => job'[j].pc \in {"purge vectors", "purge texts", "unlink", "erase"}
  PROVE  JobInv'
<1> SUFFICES ASSUME NEW k \in Jobs
             PROVE  /\ Active(k)' => job'[k].unit \in Units
                    /\ ~foreign /\ Active(k)' => job'[k].unit = Owner
                    /\ ~overlap => \A i \in Jobs : Active(i)' /\ Active(k)' => i = k
                    /\ job'[k].pc \in {"unlink", "erase"} => job'[k].deletes
                    /\ job'[k].deletes =>
                         /\ doomed
                         /\ job'[k].pc \in {"purge vectors", "purge texts", "unlink", "erase"}
  BY DEF JobInv
<1>1. \A i \in Jobs : Active(i)' => Active(i) /\ job'[i].unit = job[i].unit
  BY DEF Active
<1>2. CASE k = j
  BY <1>1, <1>2 DEF JobInv
<1>3. CASE k # j
  BY <1>1, <1>3 DEF JobInv
<1> QED
  BY <1>2, <1>3

LEMMA OneMore ==
  ASSUME NEW limit \in Nat, NEW n \in 0..limit, n < limit
  PROVE  n + 1 \in 0..limit
OBVIOUS

\* A job that begins alone finds an idle document.
LEMMA BeginKeeps ==
  ASSUME IngestionInv, NEW j \in Jobs, NEW u \in Units, NEW deletes \in BOOLEAN, NEW pc,
         pc = "purge vectors" \/ (pc = "save" /\ ~deletes),
         Begin(j, u, pc, deletes), HasRow \/ status = "absent",
         UNCHANGED <<file, index, watcher, crashes>>,
         status' = "uploaded" \/ (status' = status /\ HasRow /\ deletes)
  PROVE  IngestionInv'
<1> DEFINE new == [IdleJob EXCEPT !.pc = pc, !.unit = u, !.deletes = deletes]
<1>1. new \in Job /\ new.pc = pc /\ new.unit = u /\ new.deletes = deletes
  BY DEF IdleJob, Job, Points
<1> HIDE DEF new
<1>2. /\ job' \in [Jobs -> Job] /\ job'[j] = new
      /\ \A i \in Jobs : i # j => job'[i] = job[i]
  BY <1>1 DEF Begin, new, IngestionInv, IngestionTypeOK
<1>3. /\ ~Active(j) /\ started' \in 0..MaxJobs
      /\ overlap' = (overlap \/ \E i \in Jobs : Active(i))
      /\ foreign' = (foreign \/ u # Owner) /\ doomed' = (doomed \/ deletes)
  <2>1. started' \in 0..MaxJobs
    <3>1. started < MaxJobs /\ started' = started + 1
      BY DEF Begin
    <3>2. started \in 0..MaxJobs
      BY DEF IngestionInv, IngestionTypeOK
    <3>3. MaxJobs \in Nat
      BY IngestionAssumption
    <3> QED
      BY <3>1, <3>2, <3>3, OneMore
  <2> QED
    BY <2>1 DEF Begin
<1>4. IngestionTypeOK'
  <2>1. {overlap', doomed', foreign', silenced'} \subseteq BOOLEAN
    <3>1. silenced' = silenced
      BY DEF Begin
    <3>2. {overlap, doomed, foreign, silenced} \subseteq BOOLEAN
      BY DEF IngestionInv, IngestionTypeOK
    <3> QED
      BY <1>3, <3>1, <3>2
  <2>2. status' \in Statuses
    BY DEF IngestionInv, IngestionTypeOK, Statuses
  <2> QED
    BY <1>2, <1>3, <2>1, <2>2 DEF IngestionInv, IngestionTypeOK, index
<1>5. JobInv'
  <2> SUFFICES ASSUME NEW k \in Jobs
               PROVE  /\ Active(k)' => job'[k].unit \in Units
                      /\ ~foreign' /\ Active(k)' => job'[k].unit = Owner
                      /\ ~overlap' => \A i \in Jobs : Active(i)' /\ Active(k)' => i = k
                      /\ job'[k].pc \in {"unlink", "erase"} => job'[k].deletes
                      /\ job'[k].deletes =>
                           /\ doomed'
                           /\ job'[k].pc \in {"purge vectors", "purge texts", "unlink", "erase"}
    BY DEF JobInv
  <2>1. ~overlap' => \A i \in Jobs : ~Active(i)
    BY <1>3
  <2>2. ~overlap' => \A i \in Jobs : Active(i)' => i = j
    BY <1>2, <2>1 DEF Active
  <2>3. CASE k = j
    BY <1>1, <1>2, <1>3, <2>2, <2>3 DEF Active
  <2>4. CASE k # j
    BY <1>2, <1>3, <2>2, <2>4 DEF IngestionInv, JobInv, Active
  <2> QED
    BY <2>3, <2>4
<1>6. StageInv'
  <2> SUFFICES ASSUME ~overlap', ~foreign' PROVE StageInv'
    BY DEF StageInv
  <2>1. ~overlap /\ ~foreign /\ NobodyWorks
    BY <1>3 DEF NobodyWorks
  <2>2. \A i \in Jobs : job'[i].pc \in {"idle", "purge vectors", "save"}
    BY <1>1, <1>2, <2>1 DEF NobodyWorks, Active
  <2>3. status' # "deleted" /\ (status' = "ready" => doomed')
    BY <1>3 DEF HasRow
  <2> QED
    BY <2>1, <2>2, <2>3 DEF IngestionInv, StageInv, StageOf, IsOwners, index
<1> QED
  BY <1>4, <1>5, <1>6 DEF IngestionInv

LEMMA RequestsKeep ==
  ASSUME IngestionInv, NEW j \in Jobs,
         Upload(j) \/ \E u \in Units : Reprocess(j, u) \/ Delete(j, u)
  PROVE  IngestionInv'
<1>1. CASE Upload(j)
  BY <1>1, BeginKeeps, IngestionAssumption DEF Upload
<1>2. ASSUME NEW u \in Units, Reprocess(j, u) PROVE IngestionInv'
  BY <1>2, BeginKeeps DEF Reprocess
<1>3. ASSUME NEW u \in Units, Delete(j, u) PROVE IngestionInv'
  BY <1>3, BeginKeeps DEF Delete
<1> QED
  BY <1>1, <1>2, <1>3

\* A job that works alone works for the owner, on a document that is not deleted.
LEMMA WorksAlone ==
  ASSUME IngestionInv, NEW j \in Jobs, Active(j), ~overlap, ~foreign
  PROVE  /\ job[j].unit = Owner /\ IsOwners /\ StageOf(j)
         /\ \A i \in Jobs : i # j => ~Active(i)
         /\ status # "deleted" /\ (status = "ready" => doomed)
BY DEF IngestionInv, JobInv, StageInv, NobodyWorks

\* What a step of a job has to show of that job alone.
LEMMA StepKeeps ==
  ASSUME IngestionInv, NEW j \in Jobs, Active(j),
         UNCHANGED <<crashes, started, overlap, doomed, foreign>>, silenced' \in BOOLEAN,
         job' \in [Jobs -> Job],
         \A i \in Jobs : i # j => job'[i] = job[i],
         \/ job'[j].pc = "idle" /\ ~job'[j].deletes
         \/ /\ job'[j].unit = job[j].unit /\ job'[j].deletes = job[j].deletes
            /\ job'[j].pc \in {"unlink", "erase"} => job[j].deletes
            /\ job[j].deletes => job'[j].pc \in {"purge vectors", "purge texts", "unlink", "erase"},
         status' \in Statuses, file' \in BOOLEAN, vectors' \in [Chunks -> Units \cup {NoUnit}],
         texts' \subseteq Chunks \X Units,
         watcher' \in [Watchers -> {"none", "waiting", "told", "gone"}],
         ~overlap /\ ~foreign =>
           /\ IsOwners' /\ StageOf(j)'
           /\ status' = "deleted" => job'[j].pc = "idle" /\ IsForgotten'
           /\ status' = "ready" /\ ~doomed => job'[j].pc = "idle" /\ IsIndexed'
  PROVE  IngestionInv'
<1>1. IngestionTypeOK'
  BY DEF IngestionInv, IngestionTypeOK
<1>2. JobInv'
  BY JobInvKept DEF IngestionInv
<1>3. StageInv'
  <2> SUFFICES ASSUME ~overlap, ~foreign
               PROVE  /\ IsOwners' /\ \A i \in Jobs : StageOf(i)'
                      /\ status' = "deleted" => NobodyWorks' /\ IsForgotten'
                      /\ status' = "ready" /\ ~doomed => NobodyWorks' /\ IsIndexed'
    BY DEF StageInv
  <2>1. \A i \in Jobs : i # j => job'[i].pc = "idle"
    BY WorksAlone DEF Active
  <2>2. \A i \in Jobs : StageOf(i)'
    <3> TAKE i \in Jobs
    <3>1. CASE i = j
      BY <3>1
    <3>2. CASE i # j
      BY <2>1, <3>2 DEF StageOf
    <3> QED
      BY <3>1, <3>2
  <2>3. job'[j].pc = "idle" => NobodyWorks'
    BY <2>1 DEF NobodyWorks, Active
  <2> QED
    BY <2>2, <2>3
<1> QED
  BY <1>1, <1>2, <1>3 DEF IngestionInv

\* The types an untouched part keeps.
LEMMA Untouched ==
  ASSUME IngestionInv
  PROVE  /\ status \in Statuses /\ file \in BOOLEAN
         /\ vectors \in [Chunks -> Units \cup {NoUnit}] /\ texts \subseteq Chunks \X Units
         /\ watcher \in [Watchers -> {"none", "waiting", "told", "gone"}]
         /\ silenced \in BOOLEAN /\ IngestionTypeOK
BY DEF IngestionInv, IngestionTypeOK

LEMMA SaveFileKeeps ==
  ASSUME IngestionInv, NEW j \in Jobs, SaveFile(j)
  PROVE  IngestionInv'
<1>1. /\ job[j].pc = "save" /\ Active(j) /\ Goto(j, "parsing") /\ "parsing" \in Points
      /\ file' = TRUE
      /\ UNCHANGED <<status, vectors, texts, watcher, crashes, started, overlap, doomed, foreign,
                   silenced>>
  BY DEF SaveFile, Active, index, history, Points
<1>2. /\ job' \in [Jobs -> Job] /\ job'[j].pc = "parsing" /\ job'[j].unit = job[j].unit
      /\ job'[j].deletes = job[j].deletes /\ \A i \in Jobs : i # j => job'[i] = job[i]
  BY <1>1, Untouched, JobMoves
<1>3. ~job[j].deletes
  BY <1>1 DEF IngestionInv, JobInv
<1>4. ASSUME ~overlap, ~foreign
      PROVE  IsOwners' /\ StageOf(j)' /\ status' # "deleted" /\ (status' = "ready" => doomed)
  <2>1. /\ IsOwners /\ StageOf(j) /\ status # "deleted" /\ (status = "ready" => doomed)
    BY <1>1, <1>4, WorksAlone
  <2> QED
    BY <1>1, <1>2, <2>1 DEF IsOwners, StageOf
<1> QED
  BY <1>1, <1>2, <1>3, <1>4, Untouched, StepKeeps

LEMMA FailKeeps ==
  ASSUME IngestionInv, NEW j \in Jobs, Fail(j)
  PROVE  IngestionInv'
<1>1. /\ job[j].pc \in {"parsing", "chunking", "embedding", "indexing", "upsert", "insert",
                        "finish"}
      /\ Active(j) /\ Goto(j, "failing") /\ "failing" \in Points
      /\ UNCHANGED <<status, file, vectors, texts, watcher>>
      /\ UNCHANGED <<crashes, started, overlap, doomed, foreign, silenced>>
  BY DEF Fail, Active, index, history, Points
<1>2. /\ job' \in [Jobs -> Job] /\ job'[j].pc = "failing" /\ job'[j].unit = job[j].unit
      /\ job'[j].deletes = job[j].deletes /\ \A i \in Jobs : i # j => job'[i] = job[i]
  BY <1>1, Untouched, JobMoves
<1>3. ~job[j].deletes
  BY <1>1 DEF IngestionInv, JobInv
<1>4. ASSUME ~overlap, ~foreign
      PROVE  IsOwners' /\ StageOf(j)' /\ status' # "deleted" /\ (status' = "ready" => doomed)
  <2>1. /\ IsOwners /\ StageOf(j) /\ status # "deleted" /\ (status = "ready" => doomed)
    BY <1>1, <1>4, WorksAlone
  <2> QED
    BY <1>1, <1>2, <2>1 DEF IsOwners, StageOf
<1> QED
  BY <1>1, <1>2, <1>3, <1>4, Untouched, StepKeeps

LEMMA AbortKeeps ==
  ASSUME IngestionInv, NEW j \in Jobs, Abort(j)
  PROVE  IngestionInv'
<1>1. /\ Active(j) /\ job' = [job EXCEPT ![j] = IdleJob]
      /\ UNCHANGED <<status, file, vectors, texts, watcher>>
      /\ UNCHANGED <<crashes, started, overlap, doomed, foreign>>
      /\ silenced' \in BOOLEAN
  BY Untouched DEF Abort, Active, index
<1>2. /\ job' \in [Jobs -> Job] /\ job'[j].pc = "idle" /\ ~job'[j].deletes
      /\ \A i \in Jobs : i # j => job'[i] = job[i]
  BY <1>1, Untouched, JobEnds
<1>3. ASSUME ~overlap, ~foreign
      PROVE  IsOwners' /\ StageOf(j)' /\ status' # "deleted" /\ (status' = "ready" => doomed)
  <2>1. /\ IsOwners /\ StageOf(j) /\ status # "deleted" /\ (status = "ready" => doomed)
    BY <1>1, <1>3, WorksAlone
  <2> QED
    BY <1>1, <1>2, <2>1 DEF IsOwners, StageOf
<1> QED
  BY <1>1, <1>2, <1>3, Untouched, StepKeeps

LEMMA PurgeVectorsKeeps ==
  ASSUME IngestionInv, NEW j \in Jobs, PurgeVectors(j)
  PROVE  IngestionInv'
<1>1. /\ job[j].pc = "purge vectors" /\ Active(j)
      /\ Goto(j, "purge texts") /\ "purge texts" \in Points
      /\ vectors' = [c \in Chunks |-> IF vectors[c] = job[j].unit THEN NoUnit ELSE vectors[c]]
      /\ UNCHANGED <<status, file, texts, watcher>>
      /\ UNCHANGED <<crashes, started, overlap, doomed, foreign, silenced>>
  BY DEF PurgeVectors, Active, history, Points
<1>2. /\ job' \in [Jobs -> Job] /\ job'[j].pc = "purge texts" /\ job'[j].unit = job[j].unit
      /\ job'[j].deletes = job[j].deletes /\ \A i \in Jobs : i # j => job'[i] = job[i]
  BY <1>1, Untouched, JobMoves
<1>3. vectors' \in [Chunks -> Units \cup {NoUnit}]
  BY <1>1, Untouched
<1>4. ASSUME ~overlap, ~foreign
      PROVE  IsOwners' /\ StageOf(j)' /\ status' # "deleted" /\ (status' = "ready" => doomed)
  <2>1. job[j].unit = Owner /\ IsOwners /\ status # "deleted" /\ (status = "ready" => doomed)
    BY <1>1, <1>4, WorksAlone
  <2>2. \A c \in Chunks : vectors'[c] = NoUnit
    BY <1>1, <2>1 DEF IsOwners
  <2> QED
    BY <1>1, <1>2, <2>1, <2>2 DEF IsOwners, StageOf
<1> QED
  BY <1>1, <1>2, <1>3, <1>4, Untouched, StepKeeps

LEMMA PurgeTextsKeeps ==
  ASSUME IngestionInv, NEW j \in Jobs, PurgeTexts(j)
  PROVE  IngestionInv'
<1> DEFINE pc == IF job[j].deletes THEN "unlink" ELSE "parsing"
<1>1. /\ job[j].pc = "purge texts" /\ Active(j) /\ Goto(j, pc) /\ pc \in Points
      /\ pc \in {"unlink", "parsing"} /\ (pc = "unlink" <=> job[j].deletes)
      /\ texts' = {t \in texts : t[2] # job[j].unit}
      /\ UNCHANGED <<status, file, vectors, watcher>>
      /\ UNCHANGED <<crashes, started, overlap, doomed, foreign, silenced>>
  BY DEF PurgeTexts, Active, history, Points
<1> HIDE DEF pc
<1>2. /\ job' \in [Jobs -> Job] /\ job'[j].pc = pc /\ job'[j].unit = job[j].unit
      /\ job'[j].deletes = job[j].deletes /\ \A i \in Jobs : i # j => job'[i] = job[i]
  BY <1>1, Untouched, JobMoves
<1>3. texts' \subseteq Chunks \X Units
  BY <1>1, Untouched
<1>4. ASSUME ~overlap, ~foreign
      PROVE  IsOwners' /\ StageOf(j)' /\ status' # "deleted" /\ (status' = "ready" => doomed)
  <2>1. /\ job[j].unit = Owner /\ IsOwners /\ StageOf(j)
        /\ status # "deleted" /\ (status = "ready" => doomed)
    BY <1>1, <1>4, WorksAlone
  <2>2. texts' = {}
    BY <1>1, <2>1 DEF IsOwners
  <2> QED
    BY <1>1, <1>2, <2>1, <2>2 DEF IsOwners, StageOf
<1> QED
  BY <1>1, <1>2, <1>3, <1>4, Untouched, StepKeeps

LEMMA UnlinkKeeps ==
  ASSUME IngestionInv, NEW j \in Jobs, Unlink(j)
  PROVE  IngestionInv'
<1>1. /\ job[j].pc = "unlink" /\ Active(j) /\ Goto(j, "erase") /\ "erase" \in Points
      /\ file' = FALSE
      /\ UNCHANGED <<status, vectors, texts, watcher>>
      /\ UNCHANGED <<crashes, started, overlap, doomed, foreign, silenced>>
  BY DEF Unlink, Active, index, history, Points
<1>2. /\ job' \in [Jobs -> Job] /\ job'[j].pc = "erase" /\ job'[j].unit = job[j].unit
      /\ job'[j].deletes = job[j].deletes /\ \A i \in Jobs : i # j => job'[i] = job[i]
  BY <1>1, Untouched, JobMoves
<1>3. job[j].deletes
  BY <1>1 DEF IngestionInv, JobInv
<1>4. ASSUME ~overlap, ~foreign
      PROVE  IsOwners' /\ StageOf(j)' /\ status' # "deleted" /\ (status' = "ready" => doomed)
  <2>1. /\ IsOwners /\ StageOf(j) /\ status # "deleted" /\ (status = "ready" => doomed)
    BY <1>1, <1>4, WorksAlone
  <2> QED
    BY <1>1, <1>2, <2>1 DEF IsOwners, StageOf
<1> QED
  BY <1>1, <1>2, <1>3, <1>4, Untouched, StepKeeps

\* What a job leaves when its row is deleted.
LEMMA EraseKeeps ==
  ASSUME IngestionInv, NEW j \in Jobs, Erase(j)
  PROVE  IngestionInv'
<1>1. /\ job[j].pc = "erase" /\ Active(j) /\ job' = [job EXCEPT ![j] = IdleJob]
      /\ status' \in {status, "deleted"}
      /\ UNCHANGED <<file, vectors, texts, watcher>>
      /\ UNCHANGED <<crashes, started, overlap, doomed, foreign, silenced>>
  BY DEF Erase, Mark, Active, index, history
<1>2. /\ job' \in [Jobs -> Job] /\ job'[j].pc = "idle" /\ ~job'[j].deletes
      /\ \A i \in Jobs : i # j => job'[i] = job[i]
  BY <1>1, Untouched, JobEnds
<1>3. status' \in Statuses
  BY <1>1, Untouched DEF Statuses
<1>4. ASSUME ~overlap, ~foreign
      PROVE  IsOwners' /\ StageOf(j)' /\ IsForgotten' /\ (status' = "ready" => doomed)
  <2>1. IsOwners /\ StageOf(j) /\ (status = "ready" => doomed)
    BY <1>1, <1>4, WorksAlone
  <2> QED
    BY <1>1, <1>2, <2>1 DEF IsOwners, StageOf, IsForgotten
<1> QED
  BY <1>1, <1>2, <1>3, <1>4, Untouched, StepKeeps

LEMMA StageKeeps ==
  ASSUME IngestionInv, NEW j \in Jobs, Stage(j)
  PROVE  IngestionInv'
<1> DEFINE pc == NextStage[job[j].pc]
<1>1. /\ job[j].pc \in {"parsing", "chunking", "embedding", "indexing"} /\ Active(j)
      /\ pc \in {"chunking", "embedding", "indexing", "upsert"}
      /\ Goto(j, pc) /\ status' \in {status, job[j].pc}
      /\ UNCHANGED <<file, vectors, texts, watcher>>
      /\ UNCHANGED <<crashes, started, overlap, doomed, foreign, silenced>>
  BY DEF Stage, NextStage, Mark, Active, index, history
<1> HIDE DEF pc
<1>2. /\ job' \in [Jobs -> Job] /\ job'[j].pc = pc /\ job'[j].unit = job[j].unit
      /\ job'[j].deletes = job[j].deletes /\ \A i \in Jobs : i # j => job'[i] = job[i]
  <2>1. pc \in Points
    BY <1>1 DEF Points
  <2> QED
    BY <1>1, <2>1, Untouched, JobMoves
<1>3. ~job[j].deletes
  BY <1>1 DEF IngestionInv, JobInv
<1>4. status' \in Statuses
  BY <1>1, Untouched DEF Statuses
<1>5. ASSUME ~overlap, ~foreign
      PROVE  IsOwners' /\ StageOf(j)' /\ status' # "deleted" /\ (status' = "ready" => doomed)
  <2>1. /\ IsOwners /\ StageOf(j) /\ status # "deleted" /\ (status = "ready" => doomed)
    BY <1>1, <1>5, WorksAlone
  <2> QED
    BY <1>1, <1>2, <2>1 DEF IsOwners, StageOf
<1> QED
  BY <1>1, <1>2, <1>3, <1>4, <1>5, Untouched, StepKeeps

LEMMA UpsertKeeps ==
  ASSUME IngestionInv, NEW j \in Jobs, Upsert(j)
  PROVE  IngestionInv'
<1>1. /\ job[j].pc = "upsert" /\ Active(j)
      /\ vectors' = [c \in Chunks |-> job[j].unit]
      /\ job' = [job EXCEPT ![j].pc = "insert", ![j].left = Chunks]
      /\ UNCHANGED <<status, file, texts, watcher>>
      /\ UNCHANGED <<crashes, started, overlap, doomed, foreign, silenced>>
  BY DEF Upsert, Active, history
<1>2. /\ job' \in [Jobs -> Job] /\ job'[j].pc = "insert" /\ job'[j].unit = job[j].unit
      /\ job'[j].left = Chunks
      /\ job'[j].deletes = job[j].deletes /\ \A i \in Jobs : i # j => job'[i] = job[i]
  <2>1. job[j] \in Job /\ job \in [Jobs -> Job]
    BY DEF IngestionInv, IngestionTypeOK
  <2> QED
    BY <1>1, <2>1 DEF Job, Points
<1>3. ~job[j].deletes /\ job[j].unit \in Units
  BY <1>1 DEF IngestionInv, JobInv
<1>4. vectors' \in [Chunks -> Units \cup {NoUnit}]
  BY <1>1, <1>3
<1>5. ASSUME ~overlap, ~foreign
      PROVE  IsOwners' /\ StageOf(j)' /\ status' # "deleted" /\ (status' = "ready" => doomed)
  <2>1. /\ job[j].unit = Owner /\ IsOwners /\ status # "deleted"
        /\ status = "ready" => doomed
    BY <1>1, <1>5, WorksAlone
  <2> QED
    BY <1>1, <1>2, <2>1 DEF IsOwners, StageOf
<1> QED
  BY <1>1, <1>2, <1>3, <1>4, <1>5, Untouched, StepKeeps

LEMMA InsertChunkKeeps ==
  ASSUME IngestionInv, NEW j \in Jobs, Insert(j)
  PROVE  IngestionInv'
<1>1. /\ job[j].pc = "insert" /\ Active(j)
      /\ UNCHANGED <<status, file, vectors, watcher>>
      /\ UNCHANGED <<crashes, started, overlap, doomed, foreign, silenced>>
  BY DEF Insert, Active, history
<1>2. PICK c \in job[j].left :
        /\ texts' = texts \cup {<<c, job[j].unit>>}
        /\ job' = [job EXCEPT ![j].left = @ \ {c},
                              ![j].pc = IF job[j].left = {c} THEN "finish" ELSE "insert"]
  BY DEF Insert
<1> DEFINE pc == IF job[j].left = {c} THEN "finish" ELSE "insert"
<1>3. job[j] \in Job /\ job[j].left \subseteq Chunks /\ c \in Chunks /\ pc \in {"finish", "insert"}
  BY <1>2 DEF IngestionInv, IngestionTypeOK, Job
<1>4. /\ job' \in [Jobs -> Job] /\ job'[j].pc = pc /\ job'[j].unit = job[j].unit
      /\ job'[j].left = job[j].left \ {c}
      /\ job'[j].deletes = job[j].deletes /\ \A i \in Jobs : i # j => job'[i] = job[i]
  BY <1>2, <1>3 DEF IngestionInv, IngestionTypeOK, Job, Points
<1>5. ~job[j].deletes /\ job[j].unit \in Units
  BY <1>1 DEF IngestionInv, JobInv
<1>6. texts' \subseteq Chunks \X Units
  BY <1>2, <1>3, <1>5, Untouched
<1>7. ASSUME ~overlap, ~foreign
      PROVE  IsOwners' /\ StageOf(j)' /\ status' # "deleted" /\ (status' = "ready" => doomed)
  <2>1. /\ job[j].unit = Owner /\ IsOwners /\ StageOf(j) /\ status # "deleted"
        /\ status = "ready" => doomed
    BY <1>1, <1>7, WorksAlone
  <2>2. texts' \subseteq Chunks \X {Owner}
    BY <1>2, <1>3, <2>1 DEF IsOwners
  <2>3. \A d \in Chunks : vectors[d] = Owner
    BY <1>1, <2>1 DEF StageOf
  <2>4. \A d \in Chunks : d \in job[j].left \ {c} \/ <<d, Owner>> \in texts'
    BY <1>1, <1>2, <2>1 DEF StageOf
  <2>5. pc = "finish" => \A d \in Chunks : <<d, Owner>> \in texts'
    BY <2>4
  <2> HIDE DEF pc
  <2> QED
    BY <1>1, <1>3, <1>4, <2>1, <2>2, <2>3, <2>4, <2>5 DEF IsOwners, StageOf
<1> HIDE DEF pc
<1> QED
  BY <1>1, <1>3, <1>4, <1>5, <1>6, <1>7, Untouched, StepKeeps

\* The end of a job of the pipeline, and what it says.
LEMMA JobEndKeeps ==
  ASSUME IngestionInv, NEW j \in Jobs, Finish(j) \/ ReportFailure(j)
  PROVE  IngestionInv'
<1>1. /\ job[j].pc \in {"finish", "failing"} /\ Active(j) /\ job' = [job EXCEPT ![j] = IdleJob]
      /\ status' \in {status, "ready", "failed"}
      /\ status' # status /\ status' = "ready" => job[j].pc = "finish"
      /\ UNCHANGED <<file, vectors, texts>>
      /\ UNCHANGED <<crashes, started, overlap, doomed, foreign, silenced>>
  BY DEF Finish, ReportFailure, Mark, Active, index, history
<1>2. /\ job' \in [Jobs -> Job] /\ job'[j].pc = "idle" /\ ~job'[j].deletes
      /\ \A i \in Jobs : i # j => job'[i] = job[i]
  BY <1>1, Untouched, JobEnds
<1>3. status' \in Statuses
  BY <1>1, Untouched DEF Statuses
<1>4. watcher' \in [Watchers -> {"none", "waiting", "told", "gone"}]
  BY Untouched DEF Finish, ReportFailure, Publish
<1>5. ASSUME ~overlap, ~foreign
      PROVE  /\ IsOwners' /\ StageOf(j)' /\ status' # "deleted"
             /\ status' = "ready" /\ ~doomed => IsIndexed'
  <2>1. IsOwners /\ StageOf(j) /\ status # "deleted" /\ (status = "ready" => doomed)
    BY <1>1, <1>5, WorksAlone
  <2>2. job[j].pc = "finish" => IsIndexed
    BY <2>1 DEF IsOwners, StageOf, IsIndexed
  <2> QED
    BY <1>1, <1>2, <2>1, <2>2 DEF IsOwners, StageOf, IsIndexed
<1> QED
  BY <1>1, <1>2, <1>3, <1>4, <1>5, Untouched, StepKeeps

\* Streams and crashes: a crash ends every job.
LEMMA StreamsKeep ==
  ASSUME IngestionInv, NEW w \in Watchers, Subscribe(w) \/ Consume(w)
  PROVE  IngestionInv'
<1>1. UNCHANGED <<status, file, vectors, texts, job, crashes, started, overlap, doomed, foreign,
                silenced>>
  BY DEF Subscribe, Consume, index, history
<1>2. watcher' \in [Watchers -> {"none", "waiting", "told", "gone"}]
  BY Untouched DEF Subscribe, Consume
<1>3. IngestionTypeOK'
  BY <1>1, <1>2 DEF IngestionInv, IngestionTypeOK
<1>4. JobInv' /\ StageInv'
  BY <1>1 DEF IngestionInv, JobInv, StageInv, StageOf, IsOwners, IsIndexed, IsForgotten,
     NobodyWorks, Active
<1> QED
  BY <1>3, <1>4 DEF IngestionInv

LEMMA CrashKeeps ==
  ASSUME IngestionInv, Crash
  PROVE  IngestionInv'
<1>1. /\ crashes < MaxCrashes /\ crashes' = crashes + 1
      /\ job' = [j \in Jobs |-> IdleJob]
      /\ watcher' = [w \in Watchers |-> IF watcher[w] = "none" THEN "none" ELSE "gone"]
      /\ status' \in {status, "failed"}
      /\ UNCHANGED <<file, vectors, texts, started, overlap, doomed, foreign, silenced>>
  BY DEF Crash, index
<1>2. /\ job' \in [Jobs -> Job]
      /\ \A j \in Jobs : job'[j].pc = "idle" /\ ~job'[j].deletes
  BY <1>1 DEF IdleJob, Job, Points
<1>3. IngestionTypeOK'
  <2>1. crashes' \in 0..MaxCrashes
    BY <1>1, IngestionAssumption DEF IngestionInv, IngestionTypeOK
  <2>2. watcher' \in [Watchers -> {"none", "waiting", "told", "gone"}]
    BY <1>1
  <2>3. status' \in Statuses
    BY <1>1, Untouched DEF Statuses
  <2> QED
    BY <1>1, <1>2, <2>1, <2>2, <2>3 DEF IngestionInv, IngestionTypeOK
<1>4. JobInv'
  BY <1>1, <1>2 DEF JobInv, Active
<1>5. StageInv'
  BY <1>1, <1>2 DEF IngestionInv, StageInv, StageOf, IsOwners, IsIndexed, IsForgotten,
     NobodyWorks, Active
<1> QED
  BY <1>3, <1>4, <1>5 DEF IngestionInv

LEMMA IngestionKeeps == IngestionInv /\ [IngestionNext]_ingestionVars => IngestionInv'
<1> SUFFICES ASSUME IngestionInv, [IngestionNext]_ingestionVars PROVE IngestionInv'
  OBVIOUS
<1>1. CASE UNCHANGED ingestionVars
  BY <1>1 DEF IngestionInv, IngestionTypeOK, JobInv, StageInv, StageOf, IsOwners, IsIndexed,
     IsForgotten, NobodyWorks, Active, ingestionVars
<1>2. ASSUME NEW j \in Jobs, JobStep(j) PROVE IngestionInv'
  BY <1>2, SaveFileKeeps, PurgeVectorsKeeps, PurgeTextsKeeps, UnlinkKeeps, EraseKeeps,
     StageKeeps, UpsertKeeps, InsertChunkKeeps, FailKeeps, JobEndKeeps DEF JobStep
<1> QED
  BY <1>1, <1>2, RequestsKeep, AbortKeeps, StreamsKeep, CrashKeeps DEF IngestionNext

LEMMA IngestionInvariance == IngestionSpec => []IngestionInv
BY IngestionStarts, IngestionKeeps, PTL DEF IngestionSpec

\* The pipeline: a document that says "ready" is in both indexes, for its owner
\* and for no other unit, for any number of chunks and jobs, and after any crash.
THEOREM ReadyMeansSearchable == IngestionSpec => []ReadyIsSearchable
<1>1. IngestionInv => ReadyIsSearchable
  BY DEF IngestionInv, StageInv, IsIndexed, ReadyIsSearchable
<1> QED
  BY <1>1, IngestionInvariance, PTL

\* delete_document: a deleted document is found no more and its file is gone.
THEOREM DeletedMeansForgotten == IngestionSpec => []DeletedIsForgotten
<1>1. IngestionInv => DeletedIsForgotten
  <2> SUFFICES ASSUME IngestionInv, status = "deleted", ~overlap, ~foreign
               PROVE  Hits(Units) = {} /\ ~file
    BY DEF DeletedIsForgotten
  <2>1. IsForgotten
    BY DEF IngestionInv, StageInv
  <2> QED
    BY <2>1, IngestionAssumption DEF IsForgotten, Hits
<1> QED
  BY <1>1, IngestionInvariance, PTL

-----------------------------------------------------------------------------
(* Connectors                                                              *)

\* Where a caller has read the settings, and where it has a connector.
Getting == {"look", "wait", "locked", "connect", "done", "asked"}
Got == {"connect", "done", "asked"}

\* The settings a caller read are not older than its call, and its connector is
\* to the database they name.
RowIsFresh(c) ==
  /\ caller[c].row.version = caller[c].row.target
  /\ caller[c].oldest <= written
  /\ caller[c].pc \in Getting => caller[c].oldest <= caller[c].row.target
  /\ caller[c].pc \in Got => conns[caller[c].got].target = caller[c].row.version

CallerIsSound(c) ==
  /\ ~At(c, "idle") => Server(c) \in Servers
  /\ caller[c].pc \in Got => caller[c].got \in 1..Len(conns)
  /\ ~raced => RowIsFresh(c)
  /\ ~crossed => (At(c, "connect") => CachedFor(c) = caller[c].got)

CachesAreOwn ==
  \A s \in Servers, v \in Versions : cached[s][v] # 0 => conns[cached[s][v]].server = s

\* Without a race of writers the version of the settings is the number of the
\* write, and a connector is filed under the database it is for.
VersionsAreTargets ==
  /\ config.version = written /\ config.target = written
  /\ \A s \in Servers, v \in Versions : cached[s][v] # 0 => conns[cached[s][v]].target = v

ConnectorsInv ==
  /\ ConnectorsTypeOK
  /\ \A c \in Callers : CallerIsSound(c)
  /\ CachesAreOwn
  /\ ~raced => VersionsAreTargets
  /\ NoConnectionIsLost

LEMMA IdleShape ==
  /\ 1 \in Versions /\ 0 \in 0..MaxConnectors
  /\ FirstRow \in Settings /\ FirstRow.version = 1 /\ FirstRow.target = 1
  /\ IdleCaller \in Caller /\ IdleCaller.pc = "idle" /\ IdleCaller.row = FirstRow
  /\ IdleCaller.oldest = 1 /\ IdleCaller.lock = 0
<1>1. 1 \in Versions /\ 0 \in 0..MaxConnectors
  BY ConnectorsAssumption DEF Versions
<1>2. FirstRow \in Settings /\ FirstRow.version = 1 /\ FirstRow.target = 1
  BY <1>1 DEF FirstRow, Settings
<1>3. IdleCaller \in Caller
  BY <1>1, <1>2 DEF IdleCaller, Caller, CallerPoints
<1> QED
  BY <1>1, <1>2, <1>3 DEF IdleCaller

LEMMA ConnectorsStart == ConnectorsInit => ConnectorsInv
<1> SUFFICES ASSUME ConnectorsInit PROVE ConnectorsInv
  OBVIOUS
<1>1. conns \in Seq(Connector) /\ Len(conns) = 0
  BY DEF ConnectorsInit
<1>2. ConnectorsTypeOK
  <2>1. config \in Settings /\ written \in Versions /\ caller \in [Callers -> Caller]
    BY IdleShape DEF ConnectorsInit
  <2>2. /\ cached \in [Servers -> [Versions -> 0..Len(conns)]]
        /\ lockOf \in [Servers -> [Versions -> Nat]]
    BY <1>1 DEF ConnectorsInit
  <2>3. {crossed, raced} \subseteq BOOLEAN
    BY DEF ConnectorsInit
  <2>4. drops \in 0..MaxDrops /\ calls \in 0..MaxCalls /\ Len(conns) <= MaxConnectors
    BY <1>1, ConnectorsAssumption DEF ConnectorsInit
  <2> QED
    BY <1>1, <2>1, <2>2, <2>3, <2>4 DEF ConnectorsTypeOK
<1>3. \A c \in Callers : CallerIsSound(c)
  BY IdleShape DEF ConnectorsInit, CallerIsSound, RowIsFresh, At, Got, Getting
<1>4. CachesAreOwn /\ VersionsAreTargets
  BY IdleShape DEF ConnectorsInit, CachesAreOwn, VersionsAreTargets
<1>5. NoConnectionIsLost
  BY <1>1 DEF NoConnectionIsLost
<1> QED
  BY <1>2, <1>3, <1>4, <1>5 DEF ConnectorsInv

\* A step of one caller leaves it with another record of its kind.
LEMMA CallerSet ==
  ASSUME caller \in [Callers -> Caller], NEW c \in Callers, NEW r \in Caller,
         caller' = [caller EXCEPT ![c] = r]
  PROVE  /\ caller' \in [Callers -> Caller] /\ caller'[c] = r
         /\ \A d \in Callers : d # c => caller'[d] = caller[d]
OBVIOUS

LEMMA CallerPointsAre == \A pc \in {"load", "look", "wait", "locked", "connect", "done",
                                   "asked", "write", "evict"} : pc \in CallerPoints
BY DEF CallerPoints

\* A step of one caller that touches no connector, no cache and no settings.
LEMMA CallerMoves ==
  ASSUME ConnectorsInv, NEW c \in Callers,
         UNCHANGED <<config, written, conns, cached, lockOf, crossed, raced>>,
         drops' \in 0..MaxDrops, calls' \in 0..MaxCalls,
         caller' \in [Callers -> Caller], \A d \in Callers : d # c => caller'[d] = caller[d],
         CallerIsSound(c)'
  PROVE  ConnectorsInv'
<1>1. ConnectorsTypeOK'
  BY DEF ConnectorsInv, ConnectorsTypeOK
<1>2. ASSUME NEW d \in Callers, d # c PROVE CallerIsSound(d)'
  BY <1>2 DEF ConnectorsInv, CallerIsSound, RowIsFresh, At, Server, CachedFor, Key
<1>3. CachesAreOwn' /\ (~raced => VersionsAreTargets') /\ NoConnectionIsLost'
  BY DEF ConnectorsInv, CachesAreOwn, VersionsAreTargets, NoConnectionIsLost
<1> QED
  BY <1>1, <1>2, <1>3 DEF ConnectorsInv

\* What a caller and its record look like.
LEMMA CallerShape ==
  ASSUME ConnectorsInv, NEW c \in Callers
  PROVE  /\ caller \in [Callers -> Caller] /\ caller[c] \in Caller /\ CallerIsSound(c)
         /\ caller[c].row \in Settings /\ caller[c].row.version \in Versions
         /\ config \in Settings /\ config.target \in Versions /\ written \in Versions
         /\ conns \in Seq(Connector) /\ Len(conns) \in 0..MaxConnectors
         /\ drops \in 0..MaxDrops /\ calls \in 0..MaxCalls
<1>1. Len(conns) \in 0..MaxConnectors
  BY ConnectorsAssumption DEF ConnectorsInv, ConnectorsTypeOK
<1>2. caller \in [Callers -> Caller] /\ caller[c] \in Caller /\ caller[c].row \in Settings
  BY DEF ConnectorsInv, ConnectorsTypeOK, Caller
<1>3. config \in Settings /\ config.target \in Versions /\ caller[c].row.version \in Versions
  BY <1>2 DEF ConnectorsInv, ConnectorsTypeOK, Settings
<1> QED
  BY <1>1, <1>2, <1>3 DEF ConnectorsInv, ConnectorsTypeOK

\* What is cached for a caller that is not idle is one of the objects.
LEMMA CachedShape ==
  ASSUME ConnectorsInv, NEW c \in Callers, ~At(c, "idle")
  PROVE  /\ Server(c) \in Servers /\ Key(c) \in Versions
         /\ CachedFor(c) \in 0..Len(conns) /\ CachedFor(c) \in 0..MaxConnectors
         /\ ~raced /\ CachedFor(c) # 0 => conns[CachedFor(c)].target = Key(c)
<1>1. Server(c) \in Servers /\ Key(c) \in Versions
  BY CallerShape DEF CallerIsSound, Key
<1>2. CachedFor(c) \in 0..Len(conns)
  BY <1>1 DEF ConnectorsInv, ConnectorsTypeOK, CachedFor
<1>3. CachedFor(c) \in 0..MaxConnectors
  BY <1>2, CallerShape, ConnectorsAssumption
<1>4. ~raced /\ CachedFor(c) # 0 => conns[CachedFor(c)].target = Key(c)
  BY <1>1 DEF ConnectorsInv, VersionsAreTargets, CachedFor
<1> QED
  BY <1>1, <1>2, <1>3, <1>4

LEMMA BeginCallKeeps ==
  ASSUME ConnectorsInv, NEW c \in Callers, NEW s \in Servers,
         NEW pc \in {"load", "write", "evict"}, NEW left \in SUBSET Versions,
         NEW returns \in BOOLEAN, BeginCall(c, s, pc, left, returns),
         UNCHANGED <<config, written, conns, cached, lockOf, crossed, raced, drops>>
  PROVE  ConnectorsInv'
<1> DEFINE new == [IdleCaller EXCEPT !.pc = pc, !.server = s, !.oldest = config.target,
                                     !.left = left, !.returns = returns]
<1>1. calls < MaxCalls /\ calls' = calls + 1 /\ caller' = [caller EXCEPT ![c] = new]
  BY DEF BeginCall
<1>2. /\ new \in Caller /\ new.pc = pc /\ new.server = s /\ new.row = FirstRow
      /\ new.oldest = config.target
  <2>1. pc \in CallerPoints /\ config.target \in Versions
    BY CallerShape DEF CallerPoints
  <2> QED
    BY <2>1, IdleShape DEF Caller
<1> HIDE DEF new
<1>3. /\ caller' \in [Callers -> Caller] /\ caller'[c] = new
      /\ \A d \in Callers : d # c => caller'[d] = caller[d]
  BY <1>1, <1>2, CallerShape
<1>4. calls' \in 0..MaxCalls
  BY <1>1, OneMore, CallerShape, ConnectorsAssumption
<1>5. ~raced => config.target <= written
  BY CallerShape DEF ConnectorsInv, VersionsAreTargets, Versions
<1>6. CallerIsSound(c)'
  BY IdleShape, <1>2, <1>3, <1>5 DEF CallerIsSound, RowIsFresh, At, Server, Got, Getting
<1> QED
  BY <1>3, <1>4, <1>6, CallerShape, CallerMoves

\* A caller that starts anew has nothing.
LEMMA CallEnds ==
  ASSUME ConnectorsInv, NEW c \in Callers, caller' = [caller EXCEPT ![c] = IdleCaller],
         UNCHANGED <<config, written, conns, cached, lockOf, crossed, raced, calls>>,
         drops' \in 0..MaxDrops
  PROVE  ConnectorsInv'
<1>1. /\ caller' \in [Callers -> Caller] /\ caller'[c] = IdleCaller
      /\ \A d \in Callers : d # c => caller'[d] = caller[d]
  BY IdleShape, CallerShape
<1>2. 1 <= written
  BY CallerShape DEF Versions
<1>3. CallerIsSound(c)'
  BY IdleShape, <1>1, <1>2 DEF CallerIsSound, RowIsFresh, At, Got, Getting
<1> QED
  BY <1>1, <1>3, CallerShape, CallerMoves

LEMMA RequestsBegin ==
  ASSUME ConnectorsInv, NEW c \in Callers, NEW s \in Servers,
         GetConnector(c, s) \/ Configure(c, s) \/ Reconnect(c, s)
  PROVE  ConnectorsInv'
<1>1. {} \in SUBSET Versions /\ CachedVersions(s) \in SUBSET Versions
  BY DEF CachedVersions
<1> QED
  BY <1>1, BeginCallKeeps DEF GetConnector, Configure, Reconnect

LEMMA LoadConfigKeeps ==
  ASSUME ConnectorsInv, NEW c \in Callers, LoadConfig(c)
  PROVE  ConnectorsInv'
<1>1. /\ At(c, "load") /\ caller' = [caller EXCEPT ![c].pc = "look", ![c].row = config]
      /\ UNCHANGED <<config, written, conns, cached, lockOf, crossed, raced, drops, calls>>
  BY DEF LoadConfig
<1>2. /\ caller' \in [Callers -> Caller] /\ \A d \in Callers : d # c => caller'[d] = caller[d]
      /\ caller'[c].pc = "look" /\ caller'[c].row = config
      /\ caller'[c].oldest = caller[c].oldest /\ caller'[c].server = caller[c].server
  <2> DEFINE new == [caller[c] EXCEPT !.pc = "look", !.row = config]
  <2>1. caller[c] \in Caller /\ config \in Settings /\ "look" \in CallerPoints
    BY CallerShape, CallerPointsAre
  <2>2. /\ new \in Caller /\ new.pc = "look" /\ new.row = config
        /\ new.oldest = caller[c].oldest /\ new.server = caller[c].server
    BY <2>1 DEF Caller
  <2>3. caller \in [Callers -> Caller] /\ caller' = [caller EXCEPT ![c] = new]
    BY <1>1, CallerShape
  <2> HIDE DEF new
  <2> QED
    BY <2>2, <2>3, CallerSet
<1>3. ~raced => RowIsFresh(c)'
  <2>1. ASSUME ~raced
        PROVE  /\ config.version = config.target /\ config.target = written
               /\ caller[c].oldest <= config.target
    BY <2>1, CallerShape DEF CallerIsSound, RowIsFresh, ConnectorsInv, VersionsAreTargets
  <2> QED
    BY <1>1, <1>2, <2>1 DEF RowIsFresh, Got
<1>4. CallerIsSound(c)'
  BY <1>1, <1>2, <1>3, CallerShape DEF CallerIsSound, At, Server, Got
<1> QED
  BY <1>1, <1>2, <1>4, CallerShape, CallerMoves

\* A caller that goes on with the settings it has read, with no connector or with
\* one that was made from them.
LEMMA CallerGoesOn ==
  ASSUME ConnectorsInv, NEW c \in Callers, caller[c].pc \in Getting,
         UNCHANGED <<config, written, conns, cached, lockOf, crossed, raced, drops, calls>>,
         caller' \in [Callers -> Caller], \A d \in Callers : d # c => caller'[d] = caller[d],
         caller'[c].row = caller[c].row, caller'[c].oldest = caller[c].oldest,
         caller'[c].server = caller[c].server, caller'[c].pc \in Getting,
         \/ caller'[c].pc \notin Got
         \/ /\ caller'[c].got \in 1..Len(conns)
            /\ ~raced => conns[caller'[c].got].target = Key(c)
            /\ ~crossed => (caller'[c].pc = "connect" => CachedFor(c) = caller'[c].got)
  PROVE  ConnectorsInv'
<1>1. ~At(c, "idle")
  BY DEF At, Getting
<1>2. ~raced => RowIsFresh(c)'
  BY CallerShape DEF CallerIsSound, RowIsFresh, Key
<1>3. CallerIsSound(c)'
  BY <1>1, <1>2, CallerShape DEF CallerIsSound, At, Server, Got, CachedFor, Key
<1> QED
  BY <1>3, CallerShape, CallerMoves

\* A caller that gets a connector keeps the settings it has read.
LEMMA CallerGets ==
  ASSUME ConnectorsInv, NEW c \in Callers, NEW pc \in CallerPoints, NEW o \in 0..MaxConnectors,
         caller' = [caller EXCEPT ![c].pc = pc, ![c].got = o]
  PROVE  /\ caller' \in [Callers -> Caller] /\ \A d \in Callers : d # c => caller'[d] = caller[d]
         /\ caller'[c].pc = pc /\ caller'[c].got = o
         /\ caller'[c].row = caller[c].row /\ caller'[c].oldest = caller[c].oldest
         /\ caller'[c].server = caller[c].server
<1> DEFINE new == [caller[c] EXCEPT !.pc = pc, !.got = o]
<1>1. caller \in [Callers -> Caller] /\ caller[c] \in Caller
  BY CallerShape
<1>2. /\ new \in Caller /\ new.pc = pc /\ new.got = o
      /\ new.row = caller[c].row /\ new.oldest = caller[c].oldest /\ new.server = caller[c].server
  BY <1>1 DEF Caller
<1>3. caller' = [caller EXCEPT ![c] = new]
  BY <1>1
<1> HIDE DEF new
<1> QED
  BY <1>1, <1>2, <1>3, CallerSet

LEMMA LookKeeps ==
  ASSUME ConnectorsInv, NEW c \in Callers, Look(c)
  PROVE  ConnectorsInv'
<1>1. /\ caller[c].pc = "look" /\ caller[c].pc \in Getting /\ ~At(c, "idle")
      /\ UNCHANGED <<config, written, conns, cached, lockOf, crossed, raced, drops, calls>>
  BY DEF Look, At, Getting
<1>2. CASE Healthy(CachedFor(c))
  <2>1. caller' = [caller EXCEPT ![c].pc = "done", ![c].got = CachedFor(c)]
    BY <1>2 DEF Look
  <2>2. CachedFor(c) \in 1..Len(conns) /\ CachedFor(c) \in 0..MaxConnectors
    BY <1>1, <1>2, CachedShape, CallerShape DEF Healthy
  <2>3. /\ caller' \in [Callers -> Caller] /\ \A d \in Callers : d # c => caller'[d] = caller[d]
        /\ caller'[c].pc = "done" /\ caller'[c].got = CachedFor(c)
        /\ caller'[c].row = caller[c].row /\ caller'[c].oldest = caller[c].oldest
        /\ caller'[c].server = caller[c].server
    BY <2>1, <2>2, CallerGets, CallerPointsAre
  <2>4. ~raced => conns[CachedFor(c)].target = Key(c)
    BY <1>1, <1>2, CachedShape DEF Healthy
  <2> QED
    BY <1>1, <2>2, <2>3, <2>4, CallerGoesOn DEF Getting
<1>3. CASE ~Healthy(CachedFor(c))
  <2>1. caller' = [caller EXCEPT ![c].pc = "wait", ![c].lock = lockOf[Server(c)][Key(c)]]
    BY <1>3 DEF Look
  <2>2. lockOf[Server(c)][Key(c)] \in Nat
    BY <1>1, CachedShape DEF ConnectorsInv, ConnectorsTypeOK
  <2>3. /\ caller' \in [Callers -> Caller] /\ \A d \in Callers : d # c => caller'[d] = caller[d]
        /\ caller'[c].pc = "wait"
        /\ caller'[c].row = caller[c].row /\ caller'[c].oldest = caller[c].oldest
        /\ caller'[c].server = caller[c].server
    <3> DEFINE new == [caller[c] EXCEPT !.pc = "wait", !.lock = lockOf[Server(c)][Key(c)]]
    <3>1. caller[c] \in Caller /\ "wait" \in CallerPoints /\ lockOf[Server(c)][Key(c)] \in Nat
      BY <2>2, CallerShape, CallerPointsAre
    <3>2. /\ new \in Caller /\ new.pc = "wait"
          /\ new.row = caller[c].row /\ new.oldest = caller[c].oldest /\ new.server = caller[c].server
      BY <3>1 DEF Caller
    <3>3. caller \in [Callers -> Caller] /\ caller' = [caller EXCEPT ![c] = new]
      BY <2>1, CallerShape
    <3> HIDE DEF new
    <3> QED
      BY <3>2, <3>3, CallerSet
  <2> QED
    BY <1>1, <2>3, CallerGoesOn DEF Getting, Got
<1> QED
  BY <1>2, <1>3

LEMMA AcquireKeeps ==
  ASSUME ConnectorsInv, NEW c \in Callers, Acquire(c)
  PROVE  ConnectorsInv'
<1>1. /\ caller[c].pc \in Getting /\ caller' = [caller EXCEPT ![c].pc = "locked"]
      /\ UNCHANGED <<config, written, conns, cached, lockOf, crossed, raced, drops, calls>>
  BY DEF Acquire, Move, At, Getting
<1>2. /\ caller' \in [Callers -> Caller] /\ \A d \in Callers : d # c => caller'[d] = caller[d]
      /\ caller'[c].pc = "locked"
      /\ caller'[c].row = caller[c].row /\ caller'[c].oldest = caller[c].oldest
      /\ caller'[c].server = caller[c].server
  <2> DEFINE new == [caller[c] EXCEPT !.pc = "locked"]
  <2>1. caller[c] \in Caller /\ "locked" \in CallerPoints
    BY CallerShape, CallerPointsAre
  <2>2. /\ new \in Caller /\ new.pc = "locked"
        /\ new.row = caller[c].row /\ new.oldest = caller[c].oldest /\ new.server = caller[c].server
    BY <2>1 DEF Caller
  <2>3. caller \in [Callers -> Caller] /\ caller' = [caller EXCEPT ![c] = new]
    BY <1>1, CallerShape
  <2> HIDE DEF new
  <2> QED
    BY <2>2, <2>3, CallerSet
<1> QED
  BY <1>1, <1>2, CallerGoesOn DEF Getting, Got

LEMMA ReuseKeeps ==
  ASSUME ConnectorsInv, NEW c \in Callers, At(c, "locked"), CachedFor(c) # 0, Reuse(c),
         UNCHANGED <<config, written, lockOf, crossed, raced, drops, calls>>
  PROVE  ConnectorsInv'
<1>1. caller[c].pc \in Getting /\ ~At(c, "idle") /\ UNCHANGED <<conns, cached>>
  BY DEF Reuse, At, Getting
<1>2. CachedFor(c) \in 1..Len(conns) /\ CachedFor(c) \in 0..MaxConnectors
  BY <1>1, CachedShape, CallerShape
<1>3. PICK pc \in {"done", "connect"} :
        caller' = [caller EXCEPT ![c].pc = pc, ![c].got = CachedFor(c)]
  BY DEF Reuse
<1>4. /\ caller' \in [Callers -> Caller] /\ \A d \in Callers : d # c => caller'[d] = caller[d]
      /\ caller'[c].pc = pc /\ caller'[c].got = CachedFor(c)
      /\ caller'[c].row = caller[c].row /\ caller'[c].oldest = caller[c].oldest
      /\ caller'[c].server = caller[c].server
  <2>1. pc \in CallerPoints
    BY CallerPointsAre
  <2> QED
    BY <1>2, <1>3, <2>1, CallerGets
<1>5. ~raced => conns[CachedFor(c)].target = Key(c)
  BY <1>1, CachedShape
<1> QED
  BY <1>1, <1>2, <1>4, <1>5, CallerGoesOn DEF Getting

LEMMA CreateConnectorKeeps ==
  ASSUME ConnectorsInv, NEW c \in Callers, CreateConnector(c)
  PROVE  ConnectorsInv'
<1> DEFINE found == cached[Server(c)][1]
<1>1. /\ caller[c].pc = "done" /\ caller[c].pc \in Getting /\ ~At(c, "idle")
      /\ caller' = [caller EXCEPT ![c].pc = "asked", ![c].again = found]
      /\ UNCHANGED <<config, written, conns, cached, lockOf, crossed, raced, drops, calls>>
  BY DEF CreateConnector, At, Getting
<1>2. found \in 0..Len(conns)
  BY <1>1, CachedShape, IdleShape DEF ConnectorsInv, ConnectorsTypeOK
<1>3. found \in 0..MaxConnectors
  BY <1>2, CallerShape, ConnectorsAssumption
<1> HIDE DEF found
<1>4. /\ caller' \in [Callers -> Caller] /\ \A d \in Callers : d # c => caller'[d] = caller[d]
      /\ caller'[c].pc = "asked" /\ caller'[c].got = caller[c].got
      /\ caller'[c].row = caller[c].row /\ caller'[c].oldest = caller[c].oldest
      /\ caller'[c].server = caller[c].server
  <2>1. caller' = [caller EXCEPT ![c].pc = "asked", ![c].again = found]
    BY <1>1
  <2>2. caller \in [Callers -> Caller] /\ "asked" \in CallerPoints
    BY CallerShape DEF CallerPoints
  <2> QED
    <3> DEFINE new == [caller[c] EXCEPT !.pc = "asked", !.again = found]
    <3>1. caller[c] \in Caller /\ "asked" \in CallerPoints
      BY CallerShape, CallerPointsAre
    <3>2. /\ new \in Caller /\ new.pc = "asked" /\ new.got = caller[c].got
          /\ new.row = caller[c].row /\ new.oldest = caller[c].oldest /\ new.server = caller[c].server
      BY <1>3, <3>1 DEF Caller
    <3>3. caller' = [caller EXCEPT ![c] = new]
      BY <2>1, <2>2
    <3> HIDE DEF new
    <3> QED
      BY <2>2, <3>2, <3>3, CallerSet
<1>5. /\ caller[c].got \in 1..Len(conns)
      /\ ~raced => conns[caller[c].got].target = Key(c)
  BY <1>1, CallerShape DEF CallerIsSound, RowIsFresh, Got, Key
<1> QED
  BY <1>1, <1>4, <1>5, CallerGoesOn DEF Getting

LEMMA CallsEnd ==
  ASSUME ConnectorsInv, NEW c \in Callers, EndCall(c) \/ ConnectFails(c)
  PROVE  ConnectorsInv'
<1>1. CASE EndCall(c)
  BY <1>1, CallEnds, CallerShape DEF EndCall
<1>2. CASE ConnectFails(c)
  <2>1. drops < MaxDrops /\ drops' = drops + 1
    BY <1>2 DEF ConnectFails
  <2>2. drops' \in 0..MaxDrops
    BY <2>1, OneMore, CallerShape, ConnectorsAssumption
  <2> QED
    BY <1>2, <2>2, CallEnds DEF ConnectFails
<1> QED
  BY <1>1, <1>2

LEMMA ReadSettingsKeeps ==
  ASSUME ConnectorsInv, NEW c \in Callers, ReadSettings(c)
  PROVE  ConnectorsInv'
<1>1. /\ caller[c].pc = "write" /\ caller' = [caller EXCEPT ![c].row = config, ![c].lock = 1]
      /\ UNCHANGED <<config, written, conns, cached, lockOf, crossed, raced, drops, calls>>
  BY DEF ReadSettings, At
<1>2. /\ caller' \in [Callers -> Caller] /\ \A d \in Callers : d # c => caller'[d] = caller[d]
      /\ caller'[c].pc = "write" /\ caller'[c].row = config
      /\ caller'[c].oldest = caller[c].oldest /\ caller'[c].server = caller[c].server
  <2> DEFINE new == [caller[c] EXCEPT !.row = config, !.lock = 1]
  <2>1. caller[c] \in Caller /\ config \in Settings /\ caller[c].pc = "write"
    BY <1>1, CallerShape
  <2>2. /\ new \in Caller /\ new.pc = "write"
        /\ new.row = config /\ new.oldest = caller[c].oldest /\ new.server = caller[c].server
    BY <2>1 DEF Caller
  <2>3. caller \in [Callers -> Caller] /\ caller' = [caller EXCEPT ![c] = new]
    BY <1>1, CallerShape
  <2> HIDE DEF new
  <2> QED
    BY <2>2, <2>3, CallerSet
<1>3. ~raced => RowIsFresh(c)'
  BY <1>1, <1>2, CallerShape
     DEF CallerIsSound, RowIsFresh, ConnectorsInv, VersionsAreTargets, Got, Getting
<1>4. CallerIsSound(c)'
  BY <1>1, <1>2, <1>3, CallerShape DEF CallerIsSound, At, Server, Got
<1> QED
  BY <1>1, <1>2, <1>4, CallerShape, CallerMoves

LEMMA EvictedKeeps ==
  ASSUME ConnectorsInv, NEW c \in Callers, Evicted(c)
  PROVE  ConnectorsInv'
<1>1. /\ caller[c].pc = "evict"
      /\ UNCHANGED <<config, written, conns, cached, lockOf, crossed, raced, drops, calls>>
      /\ caller' = [caller EXCEPT ![c] =
           IF caller[c].returns THEN [caller[c] EXCEPT !.pc = "load", !.lock = 0] ELSE IdleCaller]
  BY DEF Evicted, At
<1>2. CASE caller[c].returns
  <2> DEFINE new == [caller[c] EXCEPT !.pc = "load", !.lock = 0]
  <2>1. /\ new \in Caller /\ new.pc = "load" /\ new.row = caller[c].row
        /\ new.oldest = caller[c].oldest /\ new.server = caller[c].server
    <3>1. caller[c] \in Caller /\ "load" \in CallerPoints
      BY CallerShape, CallerPointsAre
    <3> QED
      BY <3>1 DEF Caller
  <2> HIDE DEF new
  <2>2. /\ caller' \in [Callers -> Caller] /\ caller'[c] = new
        /\ \A d \in Callers : d # c => caller'[d] = caller[d]
    BY <1>1, <1>2, <2>1, CallerShape DEF new
  <2>3. ~raced => RowIsFresh(c)'
    BY <1>1, <2>1, <2>2, CallerShape DEF CallerIsSound, RowIsFresh, Got, Getting
  <2>4. CallerIsSound(c)'
    BY <1>1, <2>1, <2>2, <2>3, CallerShape DEF CallerIsSound, At, Server, Got
  <2> QED
    BY <1>1, <2>2, <2>4, CallerShape, CallerMoves
<1>3. CASE ~caller[c].returns
  BY <1>1, <1>3, CallEnds, CallerShape
<1> QED
  BY <1>2, <1>3

LEMMA ConnectorShape ==
  ASSUME ConnectorsInv, NEW i \in 1..Len(conns)
  PROVE  conns[i] \in Connector /\ conns[i].server \in Servers
<1>1. conns \in Seq(Connector)
  BY DEF ConnectorsInv, ConnectorsTypeOK
<1>2. conns[i] \in Connector
  BY <1>1, ElementOfSeq
<1> QED
  BY <1>2 DEF Connector

\* A connector that is opened or closed stays what it is otherwise.
LEMMA OpenChanges ==
  ASSUME ConnectorsInv, NEW o \in 1..Len(conns), NEW open \in BOOLEAN,
         conns' = [conns EXCEPT ![o].open = open]
  PROVE  /\ conns' \in Seq(Connector) /\ Len(conns') = Len(conns) /\ DOMAIN conns' = DOMAIN conns
         /\ conns'[o].open = open
         /\ \A i \in 1..Len(conns) :
              /\ conns'[i].target = conns[i].target /\ conns'[i].server = conns[i].server
              /\ i # o => conns'[i].open = conns[i].open
<1> DEFINE new == [conns[o] EXCEPT !.open = open]
<1>1. conns \in Seq(Connector) /\ conns[o] \in Connector
  BY ElementOfSeq DEF ConnectorsInv, ConnectorsTypeOK
<1>2. /\ new \in Connector /\ new.open = open
      /\ new.target = conns[o].target /\ new.server = conns[o].server
  BY <1>1 DEF Connector
<1>3. conns' = [conns EXCEPT ![o] = new]
  OBVIOUS
<1> HIDE DEF new
<1>4. /\ conns' \in Seq(Connector) /\ Len(conns') = Len(conns)
      /\ \A i \in 1..Len(conns) : conns'[i] = IF i = o THEN new ELSE conns[i]
  BY <1>1, <1>2, <1>3, ExceptSeq
<1>5. DOMAIN conns' = DOMAIN conns
  BY <1>1, <1>3
<1> QED
  BY <1>2, <1>4, <1>5

\* A caller that is not concerned by what happens to connectors and settings.
LEMMA OthersStaySound ==
  ASSUME ConnectorsInv, NEW d \in Callers, caller'[d] = caller[d],
         conns' \in Seq(Connector), Len(conns) <= Len(conns'),
         \A i \in 1..Len(conns) : conns'[i].target = conns[i].target,
         written' \in Versions, written <= written', ~raced' => ~raced, ~crossed' => ~crossed,
         ~crossed' => (At(d, "connect") => CachedFor(d)' = CachedFor(d))
  PROVE  CallerIsSound(d)'
<1>1. caller[d].pc \in Got => caller[d].got \in 1..Len(conns) /\ caller[d].got \in 1..Len(conns')
  <2>1. Len(conns) \in Nat /\ Len(conns') \in Nat
    BY CallerShape, LenProperties
  <2> QED
    BY <2>1, CallerShape DEF CallerIsSound
<1>2. ASSUME ~raced PROVE RowIsFresh(d)'
  <2>1. RowIsFresh(d) /\ caller[d].oldest \in Versions
    BY <1>2, CallerShape DEF CallerIsSound, Caller
  <2>2. caller[d].oldest <= written'
    BY <2>1, CallerShape DEF RowIsFresh, Versions
  <2> QED
    BY <1>1, <2>1, <2>2 DEF RowIsFresh
<1>3. ~At(d, "idle") => Server(d) \in Servers
  BY CallerShape DEF CallerIsSound
<1>4. ~crossed' => (At(d, "connect") => CachedFor(d)' = caller[d].got)
  BY CallerShape DEF CallerIsSound
<1> QED
  BY <1>1, <1>2, <1>3, <1>4 DEF CallerIsSound, At, Server

\* A connection is lost, or one is made that its process can find.
LEMMA OpenKeeps ==
  ASSUME ConnectorsInv, NEW o \in 1..Len(conns), NEW open \in BOOLEAN,
         conns' = [conns EXCEPT ![o].open = open],
         ~crossed /\ open => \E v \in Versions : cached[conns[o].server][v] = o,
         UNCHANGED <<config, written, cached, lockOf, crossed, raced>>,
         drops' \in 0..MaxDrops, calls' \in 0..MaxCalls,
         caller' \in [Callers -> Caller], \A c \in Callers : CallerIsSound(c)'
  PROVE  ConnectorsInv'
<1>1. ConnectorsTypeOK'
  BY OpenChanges DEF ConnectorsInv, ConnectorsTypeOK
<1>2. \A s \in Servers, v \in Versions : cached[s][v] # 0 => cached[s][v] \in 1..Len(conns)
  <2>1. Len(conns) \in Nat
    BY LenProperties DEF ConnectorsInv, ConnectorsTypeOK
  <2> QED
    BY <2>1 DEF ConnectorsInv, ConnectorsTypeOK
<1>3. CachesAreOwn' /\ (~raced => VersionsAreTargets')
  BY <1>2, OpenChanges DEF ConnectorsInv, CachesAreOwn, VersionsAreTargets
<1>4. NoConnectionIsLost'
  <2> SUFFICES ASSUME ~crossed, NEW i \in DOMAIN conns', conns'[i].open
               PROVE  \E v \in Versions : cached[conns'[i].server][v] = i
    BY DEF NoConnectionIsLost
  <2>1. i \in DOMAIN conns /\ i \in 1..Len(conns) /\ conns'[i].server = conns[i].server
    BY OpenChanges DEF ConnectorsInv, ConnectorsTypeOK
  <2>2. CASE i = o
    <3>1. open
      BY <2>2, OpenChanges
    <3> QED
      BY <2>1, <2>2, <3>1
  <2>3. CASE i # o
    BY <2>1, <2>3, OpenChanges DEF ConnectorsInv, NoConnectionIsLost
  <2> QED
    BY <2>2, <2>3
<1> QED
  BY <1>1, <1>3, <1>4 DEF ConnectorsInv

LEMMA DropKeeps ==
  ASSUME ConnectorsInv, NEW o \in DOMAIN conns, Drop(o)
  PROVE  ConnectorsInv'
<1>1. /\ drops < MaxDrops /\ drops' = drops + 1 /\ conns' = [conns EXCEPT ![o].open = FALSE]
      /\ UNCHANGED <<config, written, cached, lockOf, caller, crossed, raced, calls>>
  BY DEF Drop
<1>2. /\ conns \in Seq(Connector) /\ o \in 1..Len(conns) /\ caller \in [Callers -> Caller]
      /\ drops \in 0..MaxDrops /\ calls \in 0..MaxCalls /\ written \in Versions
      /\ Len(conns) \in Nat
  BY LenProperties DEF ConnectorsInv, ConnectorsTypeOK
<1>3. drops' \in 0..MaxDrops
  BY <1>1, <1>2, OneMore, ConnectorsAssumption
<1>4. written <= written /\ Len(conns) <= Len(conns)
  BY <1>2 DEF Versions
<1>5. ASSUME NEW c \in Callers PROVE CallerIsSound(c)'
  BY <1>1, <1>2, <1>4, OpenChanges, OthersStaySound DEF CachedFor, Server, Key
<1> QED
  BY <1>1, <1>2, <1>3, <1>5, OpenKeeps

LEMMA ConnectKeeps ==
  ASSUME ConnectorsInv, NEW c \in Callers, Connect(c)
  PROVE  ConnectorsInv'
<1> DEFINE o == caller[c].got
<1>1. /\ At(c, "connect") /\ conns' = [conns EXCEPT ![o].open = TRUE]
      /\ caller' = [caller EXCEPT ![c].pc = "done"]
      /\ UNCHANGED <<config, written, cached, lockOf, crossed, raced, drops, calls>>
  BY DEF Connect, Move
<1>2. o \in 1..Len(conns) /\ Server(c) \in Servers /\ Key(c) \in Versions
  BY <1>1, CallerShape DEF CallerIsSound, At, Got, Key
<1>3. /\ caller' \in [Callers -> Caller] /\ \A d \in Callers : d # c => caller'[d] = caller[d]
      /\ caller'[c].pc = "done" /\ caller'[c].got = o
      /\ caller'[c].row = caller[c].row /\ caller'[c].oldest = caller[c].oldest
      /\ caller'[c].server = caller[c].server
  <2> DEFINE new == [caller[c] EXCEPT !.pc = "done"]
  <2>1. caller[c] \in Caller /\ "done" \in CallerPoints
    BY CallerShape, CallerPointsAre
  <2>2. /\ new \in Caller /\ new.pc = "done" /\ new.got = o
        /\ new.row = caller[c].row /\ new.oldest = caller[c].oldest /\ new.server = caller[c].server
    BY <2>1 DEF Caller
  <2>3. caller \in [Callers -> Caller] /\ caller' = [caller EXCEPT ![c] = new]
    BY <1>1, CallerShape
  <2> HIDE DEF new
  <2> QED
    BY <2>2, <2>3, CallerSet
<1>4. o # 0
  BY <1>2
<1>5. ~crossed => cached[Server(c)][Key(c)] = o /\ conns[o].server = Server(c)
  BY <1>1, <1>2, <1>4, CallerShape DEF CallerIsSound, CachedFor, ConnectorsInv, CachesAreOwn
<1> HIDE DEF o
<1>6. written <= written /\ Len(conns) <= Len(conns)
  BY CallerShape DEF Versions
<1>7. ASSUME NEW d \in Callers, d # c PROVE CallerIsSound(d)'
  <2>1. caller'[d] = caller[d] /\ CachedFor(d)' = CachedFor(d)
    BY <1>1, <1>3, <1>7 DEF CachedFor, Server, Key
  <2>2. /\ conns' \in Seq(Connector) /\ Len(conns) <= Len(conns')
        /\ \A i \in 1..Len(conns) : conns'[i].target = conns[i].target
    BY <1>1, <1>2, <1>6, OpenChanges
  <2> QED
    BY <1>1, <1>6, <2>1, <2>2, CallerShape, OthersStaySound
<1>8. ~raced => RowIsFresh(c)'
  BY <1>1, <1>2, <1>3, CallerShape, OpenChanges
     DEF CallerIsSound, RowIsFresh, At, Got, Getting, o
<1>9. CallerIsSound(c)'
  BY <1>1, <1>2, <1>3, <1>8, OpenChanges DEF CallerIsSound, At, Server
<1>10. \A d \in Callers : CallerIsSound(d)'
  BY <1>7, <1>9
<1>11. ~crossed => \E v \in Versions : cached[conns[o].server][v] = o
  BY <1>2, <1>5
<1> QED
  BY <1>1, <1>2, <1>3, <1>10, <1>11, CallerShape, OpenKeeps

LEMMA BuildKeeps ==
  ASSUME ConnectorsInv, NEW c \in Callers, At(c, "locked"), CachedFor(c) = 0, Build(c),
         UNCHANGED <<config, written, lockOf, crossed, raced, drops, calls>>
  PROVE  ConnectorsInv'
<1> DEFINE new == [target |-> caller[c].row.target, server |-> Server(c), open |-> FALSE]
           n == Len(conns) + 1
<1>1. /\ Len(conns) < MaxConnectors /\ conns' = Append(conns, new)
      /\ cached' = [cached EXCEPT ![Server(c)][Key(c)] = n]
      /\ caller' = [caller EXCEPT ![c].pc = "connect", ![c].got = n]
  BY DEF Build
<1>2. Server(c) \in Servers /\ Key(c) \in Versions
  BY CachedShape DEF At
<1>3. /\ new \in Connector /\ ~new.open /\ new.server = Server(c)
      /\ new.target = caller[c].row.target
  BY <1>2, CallerShape DEF Connector, Settings
<1>4. Len(conns) \in Nat /\ MaxConnectors \in Nat /\ n \in Nat /\ n # 0 /\ n \in 0..MaxConnectors
  BY <1>1, CallerShape, ConnectorsAssumption
<1> HIDE DEF new
<1>5. /\ conns' \in Seq(Connector) /\ Len(conns') = n /\ conns'[n] = new
      /\ \A i \in 1..Len(conns) : conns'[i] = conns[i]
  BY <1>1, <1>3, CallerShape, AppendProperties
<1>6. n \in 1..Len(conns') /\ \A i \in 1..Len(conns') : i # n => i \in 1..Len(conns)
  BY <1>4, <1>5
<1>7. Len(conns) <= Len(conns') /\ Len(conns') <= MaxConnectors
  BY <1>4, <1>5
<1> HIDE DEF n
<1>8. \A s \in Servers, v \in Versions :
        cached'[s][v] = IF s = Server(c) /\ v = Key(c) THEN n ELSE cached[s][v]
  BY <1>1, <1>2 DEF ConnectorsInv, ConnectorsTypeOK
<1>9. \A s \in Servers, v \in Versions :
        cached[s][v] # 0 => cached[s][v] \in 1..Len(conns) /\ cached'[s][v] = cached[s][v]
  <2>1. \A s \in Servers, v \in Versions : cached[s][v] \in 0..Len(conns)
    BY DEF ConnectorsInv, ConnectorsTypeOK
  <2> QED
    BY <1>4, <1>8, <2>1 DEF CachedFor
<1>10. /\ caller' \in [Callers -> Caller] /\ \A d \in Callers : d # c => caller'[d] = caller[d]
       /\ caller'[c].pc = "connect" /\ caller'[c].got = n
       /\ caller'[c].row = caller[c].row /\ caller'[c].oldest = caller[c].oldest
       /\ caller'[c].server = caller[c].server
  <2>1. caller' = [caller EXCEPT ![c].pc = "connect", ![c].got = n]
    BY <1>1
  <2>2. "connect" \in CallerPoints
    BY DEF CallerPoints
  <2> QED
    BY <1>4, <2>1, <2>2, CallerGets
<1>11. ConnectorsTypeOK'
  <2>1. cached' \in [Servers -> [Versions -> 0..Len(conns')]]
    <3>1. cached \in [Servers -> [Versions -> 0..Len(conns')]]
      BY <1>4, <1>5, <1>7 DEF ConnectorsInv, ConnectorsTypeOK, n
    <3>2. n \in 0..Len(conns')
      BY <1>4, <1>5
    <3> QED
      BY <1>1, <1>2, <3>1, <3>2
  <2> QED
    BY <1>5, <1>7, <1>10, <2>1 DEF ConnectorsInv, ConnectorsTypeOK
<1>12. ASSUME NEW d \in Callers, d # c PROVE CallerIsSound(d)'
  <2>1. caller'[d] = caller[d]
    BY <1>10, <1>12
  <2>2. ~crossed => (At(d, "connect") => CachedFor(d)' = CachedFor(d))
    <3> SUFFICES ASSUME ~crossed, At(d, "connect") PROVE CachedFor(d)' = CachedFor(d)
      OBVIOUS
    <3>1. /\ CachedFor(d) = caller[d].got /\ caller[d].got \in 1..Len(conns)
          /\ Server(d) \in Servers /\ Key(d) \in Versions
      BY CallerShape DEF CallerIsSound, At, Got, Key
    <3>2. CachedFor(d) # 0
      BY <1>4, <3>1
    <3> QED
      BY <1>9, <2>1, <3>1, <3>2 DEF CachedFor, Server, Key
  <2>3. \A i \in 1..Len(conns) : conns'[i].target = conns[i].target
    BY <1>5
  <2>4. written' \in Versions /\ written <= written'
    BY CallerShape DEF Versions
  <2> QED
    BY <1>5, <1>7, <2>1, <2>2, <2>3, <2>4, OthersStaySound
<1>13. CallerIsSound(c)'
  <2>1. ~raced => RowIsFresh(c)'
    BY <1>3, <1>5, <1>10, CallerShape DEF CallerIsSound, RowIsFresh, At, Getting
  <2>2. CachedFor(c)' = n
    BY <1>2, <1>8, <1>10 DEF CachedFor, Server, Key
  <2> QED
    BY <1>2, <1>6, <1>10, <2>1, <2>2 DEF CallerIsSound, At, Server
<1>14. CachesAreOwn'
  BY <1>3, <1>5, <1>8, <1>9 DEF ConnectorsInv, CachesAreOwn
<1>15. ~raced => VersionsAreTargets'
  <2> SUFFICES ASSUME ~raced PROVE VersionsAreTargets'
    OBVIOUS
  <2>1. VersionsAreTargets /\ RowIsFresh(c)
    BY CallerShape DEF ConnectorsInv, CallerIsSound
  <2>2. new.target = Key(c)
    BY <1>3, <2>1 DEF RowIsFresh, Key
  <2>3. conns'[n].target = Key(c)
    BY <1>5, <2>2
  <2>4. ASSUME NEW s \in Servers, NEW v \in Versions, cached'[s][v] # 0
        PROVE  conns'[cached'[s][v]].target = v
    <3>1. CASE s = Server(c) /\ v = Key(c)
      BY <1>8, <2>3, <3>1
    <3>2. CASE ~(s = Server(c) /\ v = Key(c))
      <4>1. cached'[s][v] = cached[s][v] /\ cached[s][v] # 0
        BY <1>8, <2>4, <3>2
      <4> QED
        BY <1>5, <1>9, <2>1, <4>1 DEF VersionsAreTargets
    <3> QED
      BY <3>1, <3>2
  <2> QED
    BY <2>1, <2>4 DEF VersionsAreTargets
<1>16. NoConnectionIsLost'
  <2> SUFFICES ASSUME ~crossed, NEW i \in DOMAIN conns', conns'[i].open
               PROVE  \E v \in Versions : cached'[conns'[i].server][v] = i
    BY DEF NoConnectionIsLost
  <2>1. i \in 1..Len(conns) /\ i \in DOMAIN conns /\ conns'[i] = conns[i]
    BY <1>3, <1>5, <1>6, CallerShape
  <2>2. conns[i].server \in Servers
    BY <2>1, ConnectorShape
  <2>3. PICK v \in Versions : cached[conns[i].server][v] = i
    BY <2>1 DEF ConnectorsInv, NoConnectionIsLost
  <2>4. i # 0
    BY <1>4, <2>1
  <2> QED
    BY <1>9, <2>1, <2>2, <2>3, <2>4
<1> QED
  BY <1>11, <1>12, <1>13, <1>14, <1>15, <1>16 DEF ConnectorsInv

LEMMA WriteSettingsKeeps ==
  ASSUME ConnectorsInv, NEW c \in Callers, WriteSettings(c)
  PROVE  ConnectorsInv'
<1> DEFINE left == CachedVersions(Server(c))
<1>1. /\ At(c, "write") /\ caller[c].row.version < MaxVersion /\ written < MaxVersion
      /\ written' = written + 1
      /\ config' = [version |-> caller[c].row.version + 1, target |-> written + 1]
      /\ raced' = (raced \/ config # caller[c].row)
      /\ caller' = [caller EXCEPT ![c].pc = "evict", ![c].left = left]
      /\ UNCHANGED <<conns, cached, lockOf, crossed, drops, calls>>
  BY DEF WriteSettings, Key
<1>2. left \in SUBSET Versions
  BY DEF CachedVersions
<1> HIDE DEF left
<1>3. written' \in Versions /\ written <= written' /\ caller[c].row.version + 1 \in Versions
  <2>1. MaxVersion \in Nat /\ written \in 1..MaxVersion /\ caller[c].row.version \in 1..MaxVersion
    BY CallerShape, ConnectorsAssumption DEF Versions
  <2> QED
    BY <1>1, <2>1 DEF Versions
<1>4. config' \in Settings
  BY <1>1, <1>3 DEF Settings
<1>5. /\ caller' \in [Callers -> Caller] /\ \A d \in Callers : d # c => caller'[d] = caller[d]
      /\ caller'[c].pc = "evict" /\ caller'[c].row = caller[c].row
      /\ caller'[c].oldest = caller[c].oldest /\ caller'[c].server = caller[c].server
  <2>1. caller' = [caller EXCEPT ![c].pc = "evict", ![c].left = left]
    BY <1>1
  <2>2. caller \in [Callers -> Caller] /\ "evict" \in CallerPoints
    BY CallerShape DEF CallerPoints
  <2> QED
    <3> DEFINE new == [caller[c] EXCEPT !.pc = "evict", !.left = left]
    <3>1. caller[c] \in Caller
      BY CallerShape
    <3>2. /\ new \in Caller /\ new.pc = "evict"
          /\ new.row = caller[c].row /\ new.oldest = caller[c].oldest /\ new.server = caller[c].server
      BY <1>2, <2>2, <3>1 DEF Caller
    <3>3. caller' = [caller EXCEPT ![c] = new]
      BY <2>1, <2>2
    <3> HIDE DEF new
    <3> QED
      BY <2>2, <3>2, <3>3, CallerSet
<1>6. ConnectorsTypeOK'
  <2>1. {crossed', raced'} \subseteq BOOLEAN
    BY <1>1 DEF ConnectorsInv, ConnectorsTypeOK
  <2> QED
    BY <1>1, <1>3, <1>4, <1>5, <2>1 DEF ConnectorsInv, ConnectorsTypeOK
<1>7. ~raced' => ~raced /\ config = caller[c].row
  BY <1>1
<1>8. ASSUME NEW d \in Callers, d # c PROVE CallerIsSound(d)'
  <2>1. caller'[d] = caller[d] /\ CachedFor(d)' = CachedFor(d)
    BY <1>1, <1>5, <1>8 DEF CachedFor, Server, Key
  <2>2. conns' \in Seq(Connector) /\ Len(conns) <= Len(conns')
    BY <1>1, CallerShape
  <2> QED
    BY <1>1, <1>3, <1>7, <2>1, <2>2, OthersStaySound
<1>9. CallerIsSound(c)'
  <2>1. ASSUME ~raced PROVE RowIsFresh(c)'
    <3>1. RowIsFresh(c) /\ caller[c].oldest \in Versions
      BY <2>1, CallerShape DEF CallerIsSound, Caller
    <3>2. caller[c].oldest <= written'
      BY <1>3, <3>1, CallerShape DEF RowIsFresh, Versions
    <3> QED
      BY <1>5, <3>1, <3>2 DEF RowIsFresh, Got, Getting
  <2> QED
    BY <1>1, <1>5, <1>7, <2>1, CallerShape DEF CallerIsSound, At, Server, Got
<1>10. ~raced' => VersionsAreTargets'
  <2> SUFFICES ASSUME ~raced' PROVE VersionsAreTargets'
    OBVIOUS
  <2>1. VersionsAreTargets /\ config = caller[c].row
    BY <1>7 DEF ConnectorsInv
  <2>2. config'.version = written' /\ config'.target = written'
    BY <1>1, <2>1 DEF VersionsAreTargets
  <2> QED
    BY <1>1, <2>1, <2>2 DEF VersionsAreTargets
<1>11. CachesAreOwn' /\ NoConnectionIsLost'
  BY <1>1 DEF ConnectorsInv, CachesAreOwn, NoConnectionIsLost
<1> QED
  BY <1>6, <1>8, <1>9, <1>10, <1>11 DEF ConnectorsInv

\* What one turn of an eviction does to the objects.
ClosesCached(s, v) ==
  conns' = IF cached[s][v] = 0 THEN conns ELSE [conns EXCEPT ![cached[s][v]].open = FALSE]

LEMMA EvictCloses ==
  ASSUME ConnectorsInv, NEW s \in Servers, NEW v \in Versions, ClosesCached(s, v)
  PROVE  /\ conns' \in Seq(Connector) /\ Len(conns') = Len(conns) /\ DOMAIN conns' = DOMAIN conns
         /\ \A i \in 1..Len(conns) :
              /\ conns'[i].target = conns[i].target /\ conns'[i].server = conns[i].server
              /\ conns'[i].open => conns[i].open /\ i # cached[s][v]
<1>1. conns \in Seq(Connector) /\ Len(conns) \in Nat /\ cached[s][v] \in 0..Len(conns)
  BY LenProperties DEF ConnectorsInv, ConnectorsTypeOK
<1>2. CASE cached[s][v] = 0
  BY <1>1, <1>2 DEF ClosesCached
<1>3. CASE cached[s][v] # 0
  <2> DEFINE o == cached[s][v]
  <2>1. o \in 1..Len(conns) /\ conns' = [conns EXCEPT ![o].open = FALSE]
    BY <1>1, <1>3 DEF ClosesCached
  <2> HIDE DEF o
  <2>2. /\ conns' \in Seq(Connector) /\ Len(conns') = Len(conns) /\ DOMAIN conns' = DOMAIN conns
        /\ conns'[o].open = FALSE
        /\ \A i \in 1..Len(conns) :
             /\ conns'[i].target = conns[i].target /\ conns'[i].server = conns[i].server
             /\ i # o => conns'[i].open = conns[i].open
    BY <2>1, OpenChanges
  <2>3. \A i \in 1..Len(conns) : conns'[i].open => conns[i].open /\ i # o
    BY <2>2
  <2>4. \A i \in 1..Len(conns) : conns'[i].open => conns[i].open /\ i # cached[s][v]
    BY <2>3 DEF o
  <2> QED
    BY <2>2, <2>4
<1> QED
  BY <1>2, <1>3

LEMMA EvictKeeps ==
  ASSUME ConnectorsInv, NEW c \in Callers, NEW v \in Versions, Evict(c, v)
  PROVE  ConnectorsInv'
<1> DEFINE s == Server(c)
<1>1. /\ At(c, "evict")
      /\ cached' = [cached EXCEPT ![s][v] = 0] /\ lockOf' = [lockOf EXCEPT ![s][v] = @ + 1]
      /\ conns' = IF cached[s][v] = 0 THEN conns ELSE [conns EXCEPT ![cached[s][v]].open = FALSE]
      /\ crossed' = (crossed \/ \E d \in Callers : Server(d) = s /\
                       caller[d].pc \in {"look", "wait", "locked", "connect"})
      /\ caller' = [caller EXCEPT ![c].left = @ \ {v}]
      /\ UNCHANGED <<config, written, raced, drops, calls>>
  BY DEF Evict
<1>2. s \in Servers
  BY <1>1, CachedShape DEF At
<1> HIDE DEF s
<1>3. /\ conns' \in Seq(Connector) /\ Len(conns') = Len(conns) /\ DOMAIN conns' = DOMAIN conns
      /\ \A i \in 1..Len(conns) :
           /\ conns'[i].target = conns[i].target /\ conns'[i].server = conns[i].server
           /\ conns'[i].open => conns[i].open /\ i # cached[s][v]
  <2>1. ClosesCached(s, v)
    BY <1>1 DEF ClosesCached
  <2> QED
    BY <1>2, <2>1, EvictCloses
<1>4. \A r \in Servers, w \in Versions :
        cached'[r][w] = IF r = s /\ w = v THEN 0 ELSE cached[r][w]
  BY <1>1, <1>2 DEF ConnectorsInv, ConnectorsTypeOK
<1>5. \A r \in Servers, w \in Versions : cached[r][w] # 0 => cached[r][w] \in 1..Len(conns)
  <2>1. \A r \in Servers, w \in Versions : cached[r][w] \in 0..Len(conns)
    BY DEF ConnectorsInv, ConnectorsTypeOK
  <2> QED
    BY <2>1, CallerShape
<1>6. /\ caller' \in [Callers -> Caller] /\ \A d \in Callers : d # c => caller'[d] = caller[d]
      /\ caller'[c].pc = caller[c].pc /\ caller'[c].row = caller[c].row
      /\ caller'[c].oldest = caller[c].oldest /\ caller'[c].server = caller[c].server
  <2> DEFINE new == [caller[c] EXCEPT !.left = @ \ {v}]
  <2>1. caller[c] \in Caller
    BY CallerShape
  <2>2. /\ new \in Caller /\ new.pc = caller[c].pc
        /\ new.row = caller[c].row /\ new.oldest = caller[c].oldest /\ new.server = caller[c].server
    BY <2>1 DEF Caller
  <2>3. caller \in [Callers -> Caller] /\ caller' = [caller EXCEPT ![c] = new]
    BY <1>1, CallerShape
  <2> HIDE DEF new
  <2> QED
    BY <2>2, <2>3, CallerSet
<1>7. ConnectorsTypeOK'
  <2>1. cached' \in [Servers -> [Versions -> 0..Len(conns')]]
    <3>1. 0 \in 0..Len(conns)
      BY CallerShape
    <3> QED
      BY <1>1, <1>2, <1>3, <3>1 DEF ConnectorsInv, ConnectorsTypeOK
  <2>2. lockOf' \in [Servers -> [Versions -> Nat]]
    BY <1>1, <1>2 DEF ConnectorsInv, ConnectorsTypeOK
  <2>3. {crossed', raced'} \subseteq BOOLEAN
    BY <1>1 DEF ConnectorsInv, ConnectorsTypeOK
  <2> QED
    BY <1>1, <1>3, <1>6, <2>1, <2>2, <2>3 DEF ConnectorsInv, ConnectorsTypeOK
<1>8. ~crossed' => ~crossed /\ \A d \in Callers : At(d, "connect") => Server(d) # s
  BY <1>1 DEF At
<1>9. ASSUME NEW d \in Callers, d # c PROVE CallerIsSound(d)'
  <2>1. caller'[d] = caller[d]
    BY <1>6, <1>9
  <2>2. ~crossed' => (At(d, "connect") => CachedFor(d)' = CachedFor(d))
    <3> SUFFICES ASSUME ~crossed', At(d, "connect") PROVE CachedFor(d)' = CachedFor(d)
      OBVIOUS
    <3>1. Server(d) \in Servers /\ Key(d) \in Versions /\ Server(d) # s
      BY <1>8, CachedShape DEF At
    <3> QED
      BY <1>4, <2>1, <3>1 DEF CachedFor, Server, Key
  <2>3. written' \in Versions /\ written <= written' /\ Len(conns) <= Len(conns')
    BY <1>1, <1>3, CallerShape DEF Versions
  <2> QED
    BY <1>1, <1>3, <1>8, <2>1, <2>2, <2>3, OthersStaySound
<1>10. CallerIsSound(c)'
  BY <1>1, <1>6, CallerShape DEF CallerIsSound, RowIsFresh, At, Server, Got, Getting
<1>11. CachesAreOwn' /\ (~raced => VersionsAreTargets')
  BY <1>1, <1>3, <1>4, <1>5 DEF ConnectorsInv, CachesAreOwn, VersionsAreTargets
<1>12. NoConnectionIsLost'
  <2> SUFFICES ASSUME ~crossed', NEW i \in DOMAIN conns', conns'[i].open
               PROVE  \E w \in Versions : cached'[conns'[i].server][w] = i
    BY DEF NoConnectionIsLost
  <2>1. i \in 1..Len(conns) /\ i \in DOMAIN conns /\ i # cached[s][v] /\ conns[i].open
    BY <1>3, CallerShape
  <2>2. conns[i].server \in Servers
    BY <2>1, ConnectorShape
  <2>3. PICK w \in Versions : cached[conns[i].server][w] = i
    BY <1>8, <2>1 DEF ConnectorsInv, NoConnectionIsLost
  <2> QED
    BY <1>3, <1>4, <2>1, <2>2, <2>3
<1> QED
  BY <1>1, <1>7, <1>9, <1>10, <1>11, <1>12 DEF ConnectorsInv

LEMMA ConnectorsKeep == ConnectorsInv /\ [ConnectorsNext]_connectorVars => ConnectorsInv'
<1> SUFFICES ASSUME ConnectorsInv, [ConnectorsNext]_connectorVars PROVE ConnectorsInv'
  OBVIOUS
<1>1. CASE UNCHANGED connectorVars
  BY <1>1 DEF ConnectorsInv, ConnectorsTypeOK, CallerIsSound, RowIsFresh, CachesAreOwn,
     VersionsAreTargets, NoConnectionIsLost, At, Server, CachedFor, Key, connectorVars
<1>2. ASSUME NEW c \in Callers, Obtain(c) PROVE ConnectorsInv'
  BY <1>2, BuildKeeps, ReuseKeeps DEF Obtain
<1> QED
  BY <1>1, <1>2, RequestsBegin, LoadConfigKeeps, LookKeeps, AcquireKeeps, ConnectKeeps,
     CallsEnd, CreateConnectorKeeps, ReadSettingsKeeps, WriteSettingsKeeps, EvictKeeps,
     EvictedKeeps, DropKeeps DEF ConnectorsNext

LEMMA ConnectorsInvariance == ConnectorsSpec => []ConnectorsInv
BY ConnectorsStart, ConnectorsKeep, PTL DEF ConnectorsSpec

\* Every variable of Connectors keeps its shape: what is cached is one of the
\* objects, for any number of processes, callers and versions.
THEOREM ConnectorsTypeCorrect == ConnectorsSpec => []ConnectorsTypeOK
<1>1. ConnectorsInv => ConnectorsTypeOK
  BY DEF ConnectorsInv
<1> QED
  BY <1>1, ConnectorsInvariance, PTL

\* get_connector: the connector it returns is to the database that was configured
\* when the call began, or to a later one, unless two writers of the settings raced.
THEOREM ConnectorsAreCurrent == ConnectorsSpec => []ConnectorIsCurrent
<1>1. ASSUME ConnectorsInv, NEW c \in Callers, At(c, "done"), ~raced
      PROVE  conns[caller[c].got].target >= caller[c].oldest
  <2>1. RowIsFresh(c) /\ caller[c].pc \in Getting /\ caller[c].pc \in Got
    BY <1>1, CallerShape DEF CallerIsSound, At, Getting, Got
  <2>2. /\ conns[caller[c].got].target = caller[c].row.target
        /\ caller[c].oldest <= caller[c].row.target
    BY <2>1 DEF RowIsFresh
  <2>3. caller[c].oldest \in Nat /\ caller[c].row.target \in Nat
    BY <1>1, CallerShape DEF Caller, Settings, Versions
  <2> QED
    BY <2>2, <2>3
<1>2. ConnectorsInv => ConnectorIsCurrent
  BY <1>1 DEF ConnectorIsCurrent
<1> QED
  BY <1>2, ConnectorsInvariance, PTL

\* close_tenant_connector and close_connector find every open connection of their
\* process, unless one was evicted while a request was getting it.
THEOREM OpenConnectionsAreFound == ConnectorsSpec => []NoConnectionIsLost
<1>1. ConnectorsInv => NoConnectionIsLost
  BY DEF ConnectorsInv
<1> QED
  BY <1>1, ConnectorsInvariance, PTL

-----------------------------------------------------------------------------
(* Memories                                                                *)

\* A task that has a fact to add has one left; a turn has one message of the user
\* and, when it ended, one reply.
FactsLeft ==
  \A t \in Tasks : task[t].pc \in {"count", "oldest", "insert"} => task[t].left > 0
MessagesInv ==
  /\ messages.user <= turns.begun
  /\ messages.assistant + turns.streaming <= turns.begun

\* The tasks that are going to add a memory, and the memories each will take away.
Adding == {t \in Tasks : task[t].pc \in {"oldest", "insert"}}
Doomed(t) == IF task[t].pc = "oldest" THEN Oldest(ActiveMemories, task[t].overflow)
             ELSE task[t].oldest
Surviving(ts) == {m \in ActiveMemories : \A t \in ts : m \notin Doomed(t)}

\* Whichever of them come first, there is room for what they add.
RoomInv ==
  revived = {} => \A ts \in SUBSET Adding :
    Cardinality(Surviving(ts)) + Cardinality(ts) < MaxActive + Cardinality(Tasks)

MemoriesInv == MemoriesTypeOK /\ IndexAgrees /\ FactsLeft /\ MessagesInv /\ RoomInv

LEMMA RowsShape ==
  ASSUME MemoriesTypeOK
  PROVE  /\ Len(memory) \in Nat /\ DOMAIN memory = 1..Len(memory) /\ Len(memory) <= MaxRows
         /\ DOMAIN memory \subseteq 1..MaxRows /\ DOMAIN memory \subseteq Nat
         /\ ActiveMemories \subseteq DOMAIN memory
         /\ IsFiniteSet(ActiveMemories) /\ Cardinality(ActiveMemories) \in Nat
<1>1. Len(memory) \in Nat /\ DOMAIN memory = 1..Len(memory) /\ Len(memory) <= MaxRows
  BY LenProperties DEF MemoriesTypeOK
<1>2. MaxRows \in Nat
  BY MemoriesAssumption
<1>3. DOMAIN memory \subseteq 1..MaxRows /\ DOMAIN memory \subseteq Nat
  BY <1>1, <1>2
<1>4. ActiveMemories \subseteq DOMAIN memory
  BY DEF ActiveMemories, InState
<1>5. IsFiniteSet(DOMAIN memory)
  BY <1>1, FS_Interval
<1> QED
  BY <1>1, <1>3, <1>4, <1>5, FS_Subset, FS_CardinalityType

\* The n oldest of a set are n: the others have as many different ranks.
LEMMA FewAreYounger ==
  ASSUME NEW ms \in SUBSET Nat, IsFiniteSet(ms), NEW n \in Nat, n <= Cardinality(ms)
  PROVE  Cardinality(ms \ Oldest(ms, n)) <= Cardinality(ms) - n
<1> DEFINE older(m) == {o \in ms : o < m}
           young == ms \ Oldest(ms, n)
           ranks == n..(Cardinality(ms) - 1)
           rank == [m \in young |-> Cardinality(older(m))]
<1>1. Cardinality(ms) \in Nat
  BY FS_CardinalityType
<1>2. \A m \in ms : IsFiniteSet(older(m)) /\ Cardinality(older(m)) \in Nat
  <2>1. \A m \in ms : older(m) \in SUBSET ms
    OBVIOUS
  <2> QED
    BY <2>1, FS_Subset, FS_CardinalityType
<1>3. ASSUME NEW m \in young PROVE Cardinality(older(m)) \in ranks
  <2>1. m \in ms /\ ~ (Cardinality(older(m)) < n)
    BY DEF Oldest
  <2>2. older(m) \in SUBSET (ms \ {m})
    BY <2>1
  <2>3. IsFiniteSet(ms \ {m}) /\ Cardinality(ms \ {m}) = Cardinality(ms) - 1
    BY <2>1, FS_RemoveElement
  <2>4. Cardinality(older(m)) <= Cardinality(ms) - 1
    BY <2>2, <2>3, FS_Subset
  <2>5. Cardinality(older(m)) \in Nat
    BY <1>2, <2>1
  <2> HIDE DEF older
  <2> QED
    BY <1>1, <2>1, <2>4, <2>5
<1>4. ASSUME NEW m \in young, NEW o \in young, m < o
      PROVE  Cardinality(older(m)) # Cardinality(older(o))
  <2>1. m \in ms /\ o \in ms /\ m \in Nat /\ o \in Nat
    OBVIOUS
  <2>2. older(m) \in SUBSET older(o)
    <3> SUFFICES ASSUME NEW x \in ms, x < m PROVE x < o
      OBVIOUS
    <3>1. x \in Nat /\ m \in Nat /\ o \in Nat
      BY <2>1
    <3> QED
      BY <1>4, <3>1
  <2>3. m \in older(o) /\ m \notin older(m)
    BY <1>4, <2>1
  <2> HIDE DEF older
  <2> QED
    BY <1>2, <2>1, <2>2, <2>3, FS_Subset
<1>5. rank \in Injection(young, ranks)
  <2>1. rank \in [young -> ranks]
    BY <1>3
  <2>2. ASSUME NEW m \in young, NEW o \in young, m # o PROVE rank[m] # rank[o]
    <3>1. m < o \/ o < m
      <4>1. m \in Nat /\ o \in Nat
        OBVIOUS
      <4> QED
        BY <2>2, <4>1
    <3> HIDE DEF young, older
    <3> QED
      BY <1>4, <3>1
  <2> QED
    BY <2>1, <2>2 DEF Injection, IsInjective
<1>6. IsFiniteSet(ranks) /\ Cardinality(ranks) = Cardinality(ms) - n
  <2>1. n \in Int /\ Cardinality(ms) - 1 \in Int
    BY <1>1
  <2>2. /\ IsFiniteSet(ranks)
        /\ Cardinality(ranks) = IF n > Cardinality(ms) - 1 THEN 0 ELSE Cardinality(ms) - 1 - n + 1
    BY <2>1, FS_Interval
  <2> QED
    BY <1>1, <2>2
<1> HIDE DEF young, ranks, rank
<1>7. Cardinality(young) <= Cardinality(ranks)
  BY <1>5, <1>6, FS_Injection
<1> QED
  BY <1>6, <1>7 DEF young

\* A memory that is among the n oldest still is when no older one has come.
LEMMA StillOldest ==
  ASSUME NEW ms, IsFiniteSet(ms), NEW now, NEW n \in Nat, NEW m \in now,
         \A o \in now : o < m => o \in ms, m \in Oldest(ms, n)
  PROVE  m \in Oldest(now, n)
<1> DEFINE was == {o \in ms : o < m}
           is == {o \in now : o < m}
<1>1. was \in SUBSET ms /\ is \in SUBSET was
  OBVIOUS
<1>2. IsFiniteSet(was)
  BY <1>1, FS_Subset
<1>3. Cardinality(is) <= Cardinality(was) /\ Cardinality(was) \in Nat /\ Cardinality(is) \in Nat
  BY <1>1, <1>2, FS_Subset, FS_CardinalityType
<1>4. Cardinality(was) < n
  BY DEF Oldest
<1> HIDE DEF was, is
<1>5. Cardinality(is) < n
  BY <1>3, <1>4
<1> QED
  BY <1>5 DEF Oldest, is

LEMMA TasksAreFinite ==
  ASSUME NEW ts \in SUBSET Tasks
  PROVE  /\ IsFiniteSet(ts) /\ Cardinality(ts) \in Nat /\ Cardinality(Tasks) \in Nat
         /\ Cardinality(ts) <= Cardinality(Tasks)
         /\ \A t \in Tasks : t \notin ts =>
              /\ Cardinality(ts \cup {t}) = Cardinality(ts) + 1
              /\ Cardinality(ts) < Cardinality(Tasks)
<1>1. IsFiniteSet(Tasks) /\ IsFiniteSet(ts) /\ Cardinality(ts) <= Cardinality(Tasks)
  BY MemoriesAssumption, FS_Subset
<1>2. Cardinality(ts) \in Nat /\ Cardinality(Tasks) \in Nat
  BY <1>1, FS_CardinalityType
<1>3. ASSUME NEW t \in Tasks, t \notin ts
      PROVE  /\ Cardinality(ts \cup {t}) = Cardinality(ts) + 1
             /\ Cardinality(ts) < Cardinality(Tasks)
  <2>1. Cardinality(ts \cup {t}) = Cardinality(ts) + 1
    BY <1>1, <1>3, FS_AddElement
  <2>2. ts \cup {t} \in SUBSET Tasks
    OBVIOUS
  <2>3. Cardinality(ts \cup {t}) <= Cardinality(Tasks)
    BY <1>1, <2>2, FS_Subset
  <2> QED
    BY <1>2, <2>1, <2>3
<1> QED
  BY <1>1, <1>2, <1>3

LEMMA SurvivorsShape ==
  ASSUME MemoriesTypeOK, NEW ts
  PROVE  /\ Surviving(ts) \in SUBSET ActiveMemories
         /\ IsFiniteSet(Surviving(ts)) /\ Cardinality(Surviving(ts)) \in Nat
<1>1. Surviving(ts) \in SUBSET ActiveMemories
  BY DEF Surviving
<1> QED
  BY <1>1, RowsShape, FS_Subset, FS_CardinalityType

\* A memory that a task takes away is still taken away when there are fewer.
LEMMA DoomedStays ==
  ASSUME MemoriesTypeOK, ActiveMemories' \subseteq ActiveMemories,
         NEW t \in Tasks, task'[t] = task[t], NEW m \in ActiveMemories', m \in Doomed(t)
  PROVE  m \in Doomed(t)'
<1>1. CASE task[t].pc = "oldest"
  <2>1. task[t].overflow \in Nat
    BY DEF MemoriesTypeOK, Task
  <2>2. m \in Oldest(ActiveMemories, task[t].overflow)
    BY <1>1 DEF Doomed
  <2>3. m \in Oldest(ActiveMemories', task[t].overflow)
    BY <2>1, <2>2, RowsShape, StillOldest
  <2> QED
    BY <1>1, <2>3 DEF Doomed
<1>2. CASE task[t].pc # "oldest"
  BY <1>2 DEF Doomed
<1> QED
  BY <1>1, <1>2

\* As long as no memory is made and no task begins to add one, room stays.
LEMMA RoomStays ==
  ASSUME MemoriesTypeOK, RoomInv, revived' = {} => revived = {},
         ActiveMemories' \subseteq ActiveMemories,
         \A t \in Tasks : \/ task'[t].pc \notin {"oldest", "insert"}
                          \/ task'[t] = task[t]
                          \/ t \in Adding /\ Doomed(t)' = Doomed(t)
  PROVE  RoomInv'
<1> SUFFICES ASSUME revived' = {}, NEW ts \in SUBSET Adding'
             PROVE  Cardinality(Surviving(ts)') + Cardinality(ts) < MaxActive + Cardinality(Tasks)
  BY DEF RoomInv
<1>1. ts \in SUBSET Adding
  BY DEF Adding
<1>2. Surviving(ts)' \in SUBSET Surviving(ts)
  <2> SUFFICES ASSUME NEW m \in Surviving(ts)', NEW t \in ts PROVE m \notin Doomed(t)
    BY DEF Surviving
  <2>1. m \in ActiveMemories' /\ m \notin Doomed(t)' /\ t \in Tasks
    BY <1>1 DEF Surviving, Adding
  <2>2. task'[t] = task[t] \/ Doomed(t)' = Doomed(t)
    BY DEF Adding
  <2> QED
    BY <2>1, <2>2, DoomedStays
<1>3. Cardinality(Surviving(ts)') <= Cardinality(Surviving(ts)) /\ Cardinality(Surviving(ts)') \in Nat
  BY <1>2, SurvivorsShape, FS_Subset, FS_CardinalityType
<1>4. Cardinality(Surviving(ts)) + Cardinality(ts) < MaxActive + Cardinality(Tasks)
  BY <1>1 DEF RoomInv
<1>5. /\ Cardinality(Surviving(ts)) \in Nat /\ Cardinality(ts) \in Nat
      /\ Cardinality(Tasks) \in Nat /\ MaxActive \in Nat
  <2>1. ts \in SUBSET Tasks
    BY <1>1 DEF Adding
  <2> QED
    BY <2>1, SurvivorsShape, TasksAreFinite, MemoriesAssumption
<1> QED
  BY <1>3, <1>4, <1>5

LEMMA TaskSet ==
  ASSUME MemoriesTypeOK, FactsLeft, NEW t \in Tasks, NEW r \in Task, Set(t, r),
         r.pc \in {"count", "oldest", "insert"} => r.left > 0
  PROVE  /\ task' \in [Tasks -> Task] /\ task'[t] = r /\ FactsLeft'
         /\ \A s \in Tasks : s # t => task'[s] = task[s]
<1>1. /\ task' \in [Tasks -> Task] /\ task'[t] = r
      /\ \A s \in Tasks : s # t => task'[s] = task[s]
  BY DEF Set, MemoriesTypeOK
<1> QED
  BY <1>1 DEF FactsLeft

\* A step that changes neither the memories nor what is known of them.
RowsRest == UNCHANGED <<memory, searchable, revived, touched>>
CountersFit ==
  /\ profile \in Nat /\ conversation \in {"open", "deleted"}
  /\ messages \in [user : 0..MaxTurns, assistant : 0..MaxTurns]
  /\ turns \in [begun : 0..MaxTurns, streaming : 0..MaxTurns]
  /\ edits \in 0..MaxEdits

LEMMA QuietStep ==
  ASSUME MemoriesInv, NEW t \in Tasks, NEW r \in Task, Set(t, r),
         r.pc \notin {"oldest", "insert"}, r.pc = "count" => r.left > 0,
         RowsRest, CountersFit', MessagesInv'
  PROVE  MemoriesInv'
<1>1. /\ task' \in [Tasks -> Task] /\ task'[t] = r /\ FactsLeft'
      /\ \A s \in Tasks : s # t => task'[s] = task[s]
  BY TaskSet DEF MemoriesInv
<1>2. ActiveMemories' = ActiveMemories /\ Rows' = Rows
  BY DEF ActiveMemories, Rows, InState, RowsRest
<1>3. MemoriesTypeOK'
  BY <1>1 DEF MemoriesInv, MemoriesTypeOK, CountersFit, RowsRest
<1>4. IndexAgrees'
  BY <1>2 DEF MemoriesInv, IndexAgrees, RowsRest
<1>5. RoomInv'
  BY <1>1, <1>2, RoomStays DEF MemoriesInv, RowsRest
<1> QED
  BY <1>1, <1>3, <1>4, <1>5 DEF MemoriesInv

LEMMA CountersAreFit == MemoriesInv => CountersFit
BY DEF MemoriesInv, MemoriesTypeOK, CountersFit

LEMMA MemoriesStart == MemoriesInit => MemoriesInv
<1> SUFFICES ASSUME MemoriesInit PROVE MemoriesInv
  OBVIOUS
<1>1. MaxFacts \in Nat /\ MaxRows \in Nat /\ MaxTurns \in Nat /\ MaxEdits \in Nat
  BY MemoriesAssumption
<1>2. IdleTask \in Task /\ IdleTask.pc = "idle"
  BY <1>1 DEF IdleTask, Task, TaskPoints
<1>3. /\ memory = <<>> /\ searchable = {} /\ profile = 0 /\ task = [t \in Tasks |-> IdleTask]
      /\ conversation = "open" /\ messages = [user |-> 0, assistant |-> 0]
      /\ turns = [begun |-> 0, streaming |-> 0]
      /\ revived = {} /\ touched = {} /\ edits = 0
  BY DEF MemoriesInit
<1>4. memory \in Seq({"active", "deprecated", "deleted"}) /\ Len(memory) = 0
  BY <1>3
<1>5. MemoriesTypeOK
  BY <1>1, <1>2, <1>3, <1>4 DEF MemoriesTypeOK
<1>6. ActiveMemories = {}
  BY <1>3 DEF ActiveMemories, InState
<1>7. IndexAgrees /\ FactsLeft /\ MessagesInv
  BY <1>2, <1>3, <1>6 DEF IndexAgrees, FactsLeft, MessagesInv
<1>8. RoomInv
  <2> SUFFICES ASSUME NEW ts \in SUBSET Adding
               PROVE  Cardinality(Surviving(ts)) + Cardinality(ts) < MaxActive + Cardinality(Tasks)
    BY DEF RoomInv
  <2>1. Surviving(ts) = {} /\ ts = {}
    BY <1>2, <1>3, <1>6 DEF Surviving, Adding
  <2>2. Cardinality({}) = 0
    BY FS_EmptySet
  <2>3. Cardinality(Tasks) \in Nat
    BY TasksAreFinite
  <2> QED
    BY <2>1, <2>2, <2>3, MemoriesAssumption
<1> QED
  BY <1>5, <1>7, <1>8 DEF MemoriesInv

LEMMA TaskRows ==
  /\ IdleTask \in Task /\ IdleTask.pc = "idle" /\ MaxFacts \in Nat
  /\ 0 \in 0..MaxFacts
<1>1. MaxFacts \in Nat
  BY MemoriesAssumption
<1> QED
  BY <1>1 DEF IdleTask, Task, TaskPoints

LEMMA TurnsShape ==
  ASSUME MemoriesInv
  PROVE  /\ MaxTurns \in Nat /\ turns.begun \in 0..MaxTurns /\ turns.streaming \in 0..MaxTurns
         /\ messages.user \in 0..MaxTurns /\ messages.assistant \in 0..MaxTurns
         /\ messages.user <= turns.begun
         /\ messages.assistant + turns.streaming <= turns.begun
BY MemoriesAssumption DEF MemoriesInv, MemoriesTypeOK, MessagesInv

LEMMA BeginTurnKeeps ==
  ASSUME MemoriesInv, NEW t \in Tasks, NEW n \in 0..MaxFacts, BeginTurn(t, n)
  PROVE  MemoriesInv'
<1> DEFINE r == IF n = 0 THEN IdleTask ELSE [IdleTask EXCEPT !.pc = "count", !.left = n]
<1>1. /\ turns.begun < MaxTurns
      /\ turns' = [begun |-> turns.begun + 1, streaming |-> turns.streaming + 1]
      /\ messages' = [messages EXCEPT !.user = @ + 1]
      /\ Set(t, r) /\ UNCHANGED <<profile, conversation, edits>> /\ RowsRest
  BY DEF BeginTurn, rows, memoryHistory, RowsRest
<1>2. r \in Task /\ r.pc \in {"idle", "count"} /\ (r.pc = "count" => r.left > 0)
  <2>1. CASE n = 0
    BY <2>1, TaskRows
  <2>2. CASE n # 0
    <3> DEFINE counting == [IdleTask EXCEPT !.pc = "count", !.left = n]
    <3>1. n > 0
      BY <2>2, TaskRows
    <3>2. counting \in Task /\ counting.pc = "count" /\ counting.left = n
      BY TaskRows DEF Task, TaskPoints
    <3>3. r = counting
      BY <2>2
    <3> HIDE DEF r, counting
    <3> QED
      BY <3>1, <3>2, <3>3
  <2> QED
    BY <2>1, <2>2
<1> HIDE DEF r
<1>3. /\ turns.begun + 1 \in 0..MaxTurns /\ turns.streaming + 1 \in 0..MaxTurns
      /\ messages.user + 1 \in 0..MaxTurns /\ messages.user + 1 <= turns.begun + 1
      /\ messages.assistant + (turns.streaming + 1) <= turns.begun + 1
  BY <1>1, TurnsShape
<1>4. CountersFit' /\ MessagesInv'
  BY <1>1, <1>3, CountersAreFit DEF CountersFit, MessagesInv
<1> QED
  BY <1>1, <1>2, <1>4, QuietStep

LEMMA FinishTurnKeeps ==
  ASSUME MemoriesInv, NEW t \in Tasks, NEW n \in 0..MaxFacts, FinishTurn(t, n)
  PROVE  MemoriesInv'
<1> DEFINE r == [IdleTask EXCEPT !.pc = IF n = 0 THEN "mark" ELSE "count",
                                 !.extracts = TRUE, !.left = n]
<1>1. /\ turns.streaming > 0
      /\ turns' = [turns EXCEPT !.streaming = @ - 1]
      /\ messages' = [messages EXCEPT !.assistant = @ + 1]
      /\ Set(t, r) /\ UNCHANGED <<profile, conversation, edits>> /\ RowsRest
  BY DEF FinishTurn, rows, memoryHistory, RowsRest
<1>2. r \in Task /\ r.pc \in {"mark", "count"} /\ (r.pc = "count" => r.left > 0)
  <2> DEFINE pc == IF n = 0 THEN "mark" ELSE "count"
  <2>1. pc \in TaskPoints /\ pc \in {"mark", "count"} /\ (pc = "count" => n > 0)
    BY TaskRows DEF TaskPoints
  <2> HIDE DEF pc
  <2>2. [IdleTask EXCEPT !.pc = pc, !.extracts = TRUE, !.left = n] \in Task
    BY <2>1, TaskRows DEF Task
  <2> QED
    BY <2>1, <2>2, TaskRows DEF Task, pc
<1> HIDE DEF r
<1>3. /\ turns.streaming - 1 \in 0..MaxTurns /\ messages.assistant + 1 \in 0..MaxTurns
      /\ (messages.assistant + 1) + (turns.streaming - 1) <= turns.begun
  BY <1>1, TurnsShape
<1>4. CountersFit' /\ MessagesInv'
  <2>1. /\ messages \in [user : 0..MaxTurns, assistant : 0..MaxTurns]
        /\ turns \in [begun : 0..MaxTurns, streaming : 0..MaxTurns]
    BY CountersAreFit DEF CountersFit
  <2>2. /\ messages' \in [user : 0..MaxTurns, assistant : 0..MaxTurns]
        /\ messages'.user = messages.user /\ messages'.assistant = messages.assistant + 1
        /\ turns' \in [begun : 0..MaxTurns, streaming : 0..MaxTurns]
        /\ turns'.begun = turns.begun /\ turns'.streaming = turns.streaming - 1
    BY <1>1, <1>3, <2>1
  <2> QED
    BY <1>1, <1>3, <2>2, CountersAreFit, TurnsShape DEF CountersFit, MessagesInv
<1> QED
  BY <1>1, <1>2, <1>4, QuietStep

\* The rest of the steps of a task that add nothing.
LEMMA NextFactShape ==
  ASSUME MemoriesInv, NEW t \in Tasks, NEW saved \in BOOLEAN, task[t].pc = "insert",
         NextFact(t, saved)
  PROVE  \E r \in Task : /\ Set(t, r) /\ r.pc \in {"count", "mark", "idle"}
                         /\ r.pc = "count" => r.left > 0
<1> DEFINE r == [task[t] EXCEPT !.left = @ - 1, !.saved = saved, !.overflow = 0, !.oldest = {}]
           next == IF task[t].left > 1 THEN [r EXCEPT !.pc = "count"]
                   ELSE IF task[t].extracts THEN [r EXCEPT !.pc = "mark"] ELSE IdleTask
<1>1. task[t] \in Task /\ task[t].left > 0 /\ MaxFacts \in Nat
  BY MemoriesAssumption DEF MemoriesInv, MemoriesTypeOK, FactsLeft
<1>2. task[t].left \in 0..MaxFacts
  BY <1>1 DEF Task
<1>3. task[t].left - 1 \in 0..MaxFacts
  BY <1>1, <1>2
<1>4. r \in Task /\ r.left = task[t].left - 1
  BY <1>1, <1>3 DEF Task
<1>5. Set(t, next)
  BY DEF NextFact
<1> HIDE DEF r
<1>6. task[t].left > 1 => r.left > 0
  BY <1>2, <1>4
<1>7. next \in Task /\ next.pc \in {"count", "mark", "idle"} /\ (next.pc = "count" => next.left > 0)
  <2>1. CASE task[t].left > 1
    BY <1>4, <1>6, <2>1 DEF Task, TaskPoints
  <2>2. CASE ~ (task[t].left > 1) /\ task[t].extracts
    BY <1>4, <2>2 DEF Task, TaskPoints
  <2>3. CASE ~ (task[t].left > 1) /\ ~ task[t].extracts
    BY <2>3, TaskRows
  <2> QED
    BY <2>1, <2>2, <2>3
<1> QED
  BY <1>5, <1>7

\* A step of a task that moves its program counter on past the adding.
LEMMA LaterStep ==
  ASSUME MemoriesInv, NEW t \in Tasks, NEW r \in Task, Set(t, r),
         r.pc \in {"count", "mark", "idle", "gather", "version", "save"},
         r.pc = "count" => r.left > 0,
         RowsRest, profile' \in Nat, edits' \in 0..MaxEdits, UNCHANGED chatVars
  PROVE  MemoriesInv'
<1>1. CountersFit' /\ MessagesInv'
  BY CountersAreFit DEF CountersFit, MemoriesInv, MessagesInv, chatVars
<1> QED
  BY <1>1, QuietStep

LEMMA InsertFailsKeeps ==
  ASSUME MemoriesInv, NEW t \in Tasks, InsertFails(t)
  PROVE  MemoriesInv'
<1>1. /\ task[t].pc = "insert" /\ NextFact(t, task[t].saved)
      /\ UNCHANGED <<profile, edits, chatVars>> /\ RowsRest
  BY DEF InsertFails, rows, memoryHistory, RowsRest
<1>2. task[t].saved \in BOOLEAN
  BY DEF MemoriesInv, MemoriesTypeOK, Task
<1>3. PICK r \in Task : /\ Set(t, r) /\ r.pc \in {"count", "mark", "idle"}
                        /\ r.pc = "count" => r.left > 0
  BY <1>1, <1>2, NextFactShape
<1>4. profile \in Nat /\ edits \in 0..MaxEdits
  BY CountersAreFit DEF CountersFit
<1> QED
  BY <1>1, <1>3, <1>4, LaterStep

LEMMA ExtractionStepsKeep ==
  ASSUME MemoriesInv, NEW t \in Tasks,
         MarkExtracted(t) \/ Gather(t) \/ ReadVersion(t) \/ SaveProfile(t)
         \/ RegenerateProfile(t)
  PROVE  MemoriesInv'
<1>1. task[t] \in Task /\ task \in [Tasks -> Task] /\ profile \in Nat /\ edits \in 0..MaxEdits
  BY DEF MemoriesInv, MemoriesTypeOK
<1>2. \A pc \in {"gather", "version", "save"} :
        /\ [task[t] EXCEPT !.pc = pc] \in Task /\ [task[t] EXCEPT !.pc = pc].pc = pc
        /\ [IdleTask EXCEPT !.pc = pc] \in Task /\ [IdleTask EXCEPT !.pc = pc].pc = pc
  <2>1. {"gather", "version", "save"} \subseteq TaskPoints
    BY DEF TaskPoints
  <2> QED
    BY <1>1, <2>1, TaskRows DEF Task
<1>3. CASE MarkExtracted(t)
  <2>1. UNCHANGED <<profile, edits, chatVars>> /\ RowsRest
    BY <1>3 DEF MarkExtracted, rows, memoryHistory, RowsRest
  <2>2. Set(t, [task[t] EXCEPT !.pc = "gather"]) \/ Set(t, IdleTask)
    BY <1>1, <1>3 DEF MarkExtracted, Advance, Set
  <2> QED
    BY <1>1, <1>2, <2>1, <2>2, TaskRows, LaterStep
<1>4. CASE Gather(t)
  <2>1. UNCHANGED <<profile, edits, chatVars>> /\ RowsRest
    BY <1>4 DEF Gather, rows, memoryHistory, RowsRest
  <2>2. Set(t, [task[t] EXCEPT !.pc = "version"]) \/ Set(t, IdleTask)
    BY <1>4 DEF Gather
  <2> QED
    BY <1>1, <1>2, <2>1, <2>2, TaskRows, LaterStep
<1>5. CASE ReadVersion(t)
  <2> DEFINE r == [task[t] EXCEPT !.pc = "save", !.version = profile]
  <2>1. UNCHANGED <<profile, edits, chatVars>> /\ RowsRest /\ Set(t, r)
    BY <1>5 DEF ReadVersion, rows, memoryHistory, RowsRest
  <2>2. r \in Task /\ r.pc = "save"
    BY <1>1 DEF Task, TaskPoints
  <2> HIDE DEF r
  <2> QED
    BY <1>1, <2>1, <2>2, LaterStep
<1>6. CASE SaveProfile(t)
  <2>1. UNCHANGED <<edits, chatVars>> /\ RowsRest /\ Set(t, IdleTask)
    BY <1>6 DEF SaveProfile, rows, memoryHistory, RowsRest
  <2>2. profile' \in Nat
    <3>1. task[t].version \in Nat
      BY <1>1 DEF Task
    <3> QED
      BY <1>1, <1>6, <3>1 DEF SaveProfile
  <2> QED
    BY <1>1, <2>1, <2>2, TaskRows, LaterStep
<1>7. CASE RegenerateProfile(t)
  <2>1. /\ UNCHANGED <<profile, chatVars>> /\ RowsRest
        /\ Set(t, [IdleTask EXCEPT !.pc = "gather"])
        /\ edits < MaxEdits /\ edits' = edits + 1
    BY <1>7 DEF RegenerateProfile, Edit, rows, RowsRest
  <2>2. edits' \in 0..MaxEdits
    BY <1>1, <2>1, OneMore, MemoriesAssumption
  <2> QED
    BY <1>1, <1>2, <2>1, <2>2, LaterStep
<1> QED
  BY <1>3, <1>4, <1>5, <1>6, <1>7

\* add_memory counts the active memories: with the overflow it computes, fewer than
\* the limit survive.
LEMMA CountActiveKeeps ==
  ASSUME MemoriesInv, NEW t \in Tasks, CountActive(t)
  PROVE  MemoriesInv'
<1> DEFINE many == Cardinality(ActiveMemories) >= MaxActive
           r == IF many THEN [task[t] EXCEPT !.pc = "oldest", !.overflow = Over(t)]
                ELSE [task[t] EXCEPT !.pc = "insert", !.oldest = {}]
<1>1. /\ task[t].pc = "count" /\ Set(t, r) /\ UNCHANGED <<profile, edits, chatVars>> /\ RowsRest
  BY DEF CountActive, rows, memoryHistory, RowsRest
<1>2. /\ task[t] \in Task /\ task[t].left > 0 /\ MemoriesTypeOK /\ FactsLeft
      /\ Cardinality(ActiveMemories) \in Nat /\ MaxActive \in Nat \ {0}
  BY <1>1, RowsShape, MemoriesAssumption DEF MemoriesInv, MemoriesTypeOK, FactsLeft
<1>3. many => /\ Over(t) \in Nat /\ Over(t) <= Cardinality(ActiveMemories)
              /\ Cardinality(ActiveMemories) - Over(t) = MaxActive - 1
  BY <1>2 DEF Over
<1>4. /\ r \in Task /\ r.left > 0
      /\ many => r.pc = "oldest" /\ r.overflow = Over(t)
      /\ ~many => r.pc = "insert" /\ r.oldest = {}
  <2>1. CASE many
    BY <1>2, <1>3, <2>1 DEF Task, TaskPoints
  <2>2. CASE ~many
    BY <1>2, <2>2 DEF Task, TaskPoints
  <2> QED
    BY <2>1, <2>2
<1> HIDE DEF r
<1>5. /\ task' \in [Tasks -> Task] /\ task'[t] = r /\ FactsLeft'
      /\ \A s \in Tasks : s # t => task'[s] = task[s]
  BY <1>1, <1>2, <1>4, TaskSet
<1>6. ActiveMemories' = ActiveMemories /\ Rows' = Rows
  BY <1>1 DEF ActiveMemories, Rows, InState, RowsRest
<1>7. MemoriesTypeOK'
  BY <1>1, <1>2, <1>5 DEF MemoriesTypeOK, RowsRest, chatVars
<1>8. IndexAgrees' /\ MessagesInv'
  BY <1>1, <1>6 DEF MemoriesInv, IndexAgrees, MessagesInv, RowsRest, chatVars
<1>9. Cardinality(ActiveMemories \ Doomed(t)') < MaxActive
  <2>1. CASE many
    <3>1. Doomed(t)' = Oldest(ActiveMemories, Over(t))
      BY <1>4, <1>5, <1>6, <2>1 DEF Doomed
    <3>2. Cardinality(ActiveMemories \ Doomed(t)') <= MaxActive - 1
      BY <1>2, <1>3, <2>1, <3>1, RowsShape, FewAreYounger
    <3>3. ActiveMemories \ Doomed(t)' \in SUBSET ActiveMemories
      OBVIOUS
    <3>4. Cardinality(ActiveMemories \ Doomed(t)') \in Nat
      BY <1>2, <3>3, RowsShape, FS_Subset, FS_CardinalityType
    <3> QED
      BY <1>2, <3>2, <3>4
  <2>2. CASE ~many
    <3>1. Doomed(t)' = {}
      BY <1>4, <1>5, <2>2 DEF Doomed
    <3>2. ActiveMemories \ Doomed(t)' = ActiveMemories
      BY <3>1
    <3> QED
      BY <1>2, <2>2, <3>2
  <2> QED
    BY <2>1, <2>2
<1>10. ASSUME revived' = {}, NEW ts \in SUBSET Adding'
       PROVE  Cardinality(Surviving(ts)') + Cardinality(ts) < MaxActive + Cardinality(Tasks)
  <2>1. CASE t \in ts
    <3>1. Surviving(ts)' \in SUBSET (ActiveMemories \ Doomed(t)')
      BY <1>6, <2>1 DEF Surviving
    <3>2. ActiveMemories \ Doomed(t)' \in SUBSET ActiveMemories
      OBVIOUS
    <3>3. /\ IsFiniteSet(ActiveMemories \ Doomed(t)')
          /\ Cardinality(ActiveMemories \ Doomed(t)') \in Nat
      BY <1>2, <3>2, RowsShape, FS_Subset, FS_CardinalityType
    <3>4. /\ Cardinality(Surviving(ts)') <= Cardinality(ActiveMemories \ Doomed(t)')
          /\ Cardinality(Surviving(ts)') \in Nat
      BY <3>1, <3>3, FS_Subset, FS_CardinalityType
    <3>5. /\ Cardinality(ts) \in Nat /\ Cardinality(Tasks) \in Nat
          /\ Cardinality(ts) <= Cardinality(Tasks)
      <4>1. ts \in SUBSET Tasks
        BY DEF Adding
      <4> QED
        BY <4>1, TasksAreFinite
    <3> QED
      BY <1>2, <1>9, <3>3, <3>4, <3>5
  <2>2. CASE t \notin ts
    <3>1. \A s \in ts : s \in Tasks /\ task'[s] = task[s]
      BY <1>5, <2>2 DEF Adding
    <3>2. ts \in SUBSET Adding
      BY <3>1 DEF Adding
    <3>3. \A s \in ts : Doomed(s)' = Doomed(s)
      BY <1>6, <3>1 DEF Doomed
    <3>4. Surviving(ts)' = Surviving(ts)
      BY <1>6, <3>3 DEF Surviving
    <3>5. revived = {}
      BY <1>1, <1>10 DEF RowsRest
    <3> QED
      BY <3>2, <3>4, <3>5 DEF MemoriesInv, RoomInv
  <2> QED
    BY <2>1, <2>2
<1> QED
  BY <1>5, <1>7, <1>8, <1>10 DEF MemoriesInv, RoomInv

LEMMA ReadOldestKeeps ==
  ASSUME MemoriesInv, NEW t \in Tasks, ReadOldest(t)
  PROVE  MemoriesInv'
<1> DEFINE oldest == Oldest(ActiveMemories, task[t].overflow)
           r == [task[t] EXCEPT !.pc = "insert", !.oldest = oldest]
<1>1. /\ task[t].pc = "oldest" /\ Set(t, r) /\ UNCHANGED <<profile, edits, chatVars>> /\ RowsRest
  BY DEF ReadOldest, rows, memoryHistory, RowsRest
<1>2. /\ task[t] \in Task /\ task[t].left > 0 /\ MemoriesTypeOK /\ FactsLeft
  BY <1>1 DEF MemoriesInv, MemoriesTypeOK, FactsLeft
<1>3. oldest \in SUBSET (1..MaxRows)
  <2>1. oldest \in SUBSET ActiveMemories
    BY DEF Oldest
  <2> QED
    BY <1>2, <2>1, RowsShape
<1>4. Doomed(t) = oldest
  BY <1>1 DEF Doomed
<1> HIDE DEF oldest
<1>5. r \in Task /\ r.left > 0 /\ r.pc = "insert" /\ r.oldest = oldest
  BY <1>2, <1>3 DEF Task, TaskPoints
<1> HIDE DEF r
<1>6. /\ task' \in [Tasks -> Task] /\ task'[t] = r /\ FactsLeft'
      /\ \A s \in Tasks : s # t => task'[s] = task[s]
  BY <1>1, <1>2, <1>5, TaskSet
<1>7. ActiveMemories' = ActiveMemories /\ Rows' = Rows
  BY <1>1 DEF ActiveMemories, Rows, InState, RowsRest
<1>8. MemoriesTypeOK'
  BY <1>1, <1>2, <1>6 DEF MemoriesTypeOK, RowsRest, chatVars
<1>9. IndexAgrees' /\ MessagesInv'
  BY <1>1, <1>7 DEF MemoriesInv, IndexAgrees, MessagesInv, RowsRest, chatVars
<1>10. t \in Adding /\ Doomed(t)' = Doomed(t)
  BY <1>1, <1>4, <1>5, <1>6 DEF Adding, Doomed
<1>11. RoomInv'
  BY <1>1, <1>2, <1>6, <1>7, <1>10, RoomStays DEF MemoriesInv, RowsRest
<1> QED
  BY <1>6, <1>8, <1>9, <1>11 DEF MemoriesInv

\* The rows after a task has added a memory.
MemoryStates == {"active", "deprecated", "deleted"}
WithoutOldest(t) == [m \in DOMAIN memory |-> IF m \in task[t].oldest /\ memory[m] # "deleted"
                                             THEN "deprecated" ELSE memory[m]]

LEMMA SeqOfLength ==
  ASSUME NEW S, NEW n \in Nat, NEW f \in [1..n -> S]
  PROVE  f \in Seq(S) /\ Len(f) = n
<1>1. f \in Seq(S)
  BY SeqDef
<1>2. Len(f) \in Nat /\ 1..Len(f) = 1..n
  BY <1>1, LenProperties
<1>3. \A a, b \in Nat : 1..a = 1..b => a = b
  <2> SUFFICES ASSUME NEW a \in Nat, NEW b \in Nat, 1..a = 1..b PROVE a = b
    OBVIOUS
  <2>1. a > 0 => a \in 1..b
    BY a \in 1..a \/ a = 0
  <2>2. b > 0 => b \in 1..a
    BY b \in 1..b \/ b = 0
  <2> QED
    BY <2>1, <2>2
<1> QED
  BY <1>1, <1>2, <1>3

LEMMA RowsAdded ==
  ASSUME MemoriesTypeOK, NEW t \in Tasks, memory' = Append(WithoutOldest(t), "active"),
         Len(memory) < MaxRows
  PROVE  /\ memory' \in Seq(MemoryStates) /\ Len(memory') <= MaxRows
         /\ DOMAIN memory' = DOMAIN memory \cup {Len(memory) + 1}
         /\ Len(memory) + 1 \notin DOMAIN memory /\ \A m \in DOMAIN memory : m < Len(memory) + 1
         /\ memory'[Len(memory) + 1] = "active"
         /\ \A m \in DOMAIN memory :
              memory'[m] = IF m \in task[t].oldest /\ memory[m] # "deleted"
                           THEN "deprecated" ELSE memory[m]
<1> DEFINE left == WithoutOldest(t)
           n == Len(memory)
<1>1. n \in Nat /\ DOMAIN memory = 1..n /\ MaxRows \in Nat
  BY RowsShape, MemoriesAssumption
<1>2. \A m \in DOMAIN memory : memory[m] \in MemoryStates
  BY <1>1, ElementOfSeq DEF MemoriesTypeOK, MemoryStates
<1>3. /\ left \in [1..n -> MemoryStates]
      /\ \A m \in 1..n : left[m] = IF m \in task[t].oldest /\ memory[m] # "deleted"
                                   THEN "deprecated" ELSE memory[m]
  BY <1>1, <1>2 DEF WithoutOldest, MemoryStates
<1> HIDE DEF left, n
<1>4. left \in Seq(MemoryStates) /\ Len(left) = n
  BY <1>1, <1>3, SeqOfLength
<1>5. memory' = Append(left, "active") /\ "active" \in MemoryStates
  BY DEF left, MemoryStates
<1>6. /\ memory' \in Seq(MemoryStates) /\ Len(memory') = n + 1
      /\ memory'[n + 1] = "active" /\ \A m \in 1..n : memory'[m] = left[m]
  <2>1. /\ Append(left, "active") \in Seq(MemoryStates)
        /\ Len(Append(left, "active")) = Len(left) + 1
        /\ \A m \in 1..Len(left) : Append(left, "active")[m] = left[m]
        /\ Append(left, "active")[Len(left) + 1] = "active"
    BY <1>4, <1>5, AppendProperties
  <2> QED
    BY <1>4, <1>5, <2>1
<1>7. DOMAIN memory' = 1..(n + 1)
  BY <1>6, LenProperties
<1>8. n + 1 \notin 1..n /\ 1..(n + 1) = (1..n) \cup {n + 1} /\ \A m \in 1..n : m < n + 1
  BY <1>1
<1>9. n + 1 <= MaxRows
  BY <1>1 DEF n
<1> QED
  BY <1>1, <1>3, <1>6, <1>7, <1>8, <1>9 DEF n

\* add_memory's transaction: the new memory takes the room that its task had.
LEMMA InsertMemoryKeeps ==
  ASSUME MemoriesInv, NEW t \in Tasks, InsertMemory(t)
  PROVE  MemoriesInv'
<1> DEFINE new == Len(memory) + 1
           oldest == task[t].oldest
<1>1. /\ task[t].pc = "insert" /\ Len(memory) < MaxRows /\ NextFact(t, TRUE)
      /\ memory' = Append(WithoutOldest(t), "active")
      /\ searchable' = (searchable \ oldest) \cup {new}
      /\ UNCHANGED <<profile, chatVars, revived, touched, edits>>
  BY DEF InsertMemory, WithoutOldest, memoryHistory
<1>2. MemoriesTypeOK /\ FactsLeft /\ IndexAgrees
  BY DEF MemoriesInv
<1>3. /\ memory' \in Seq(MemoryStates) /\ Len(memory') <= MaxRows
      /\ DOMAIN memory' = DOMAIN memory \cup {new}
      /\ new \notin DOMAIN memory /\ \A m \in DOMAIN memory : m < new
      /\ memory'[new] = "active"
      /\ \A m \in DOMAIN memory :
           memory'[m] = IF m \in oldest /\ memory[m] # "deleted"
                        THEN "deprecated" ELSE memory[m]
  BY <1>1, <1>2, RowsAdded
<1>4. PICK r \in Task : /\ Set(t, r) /\ r.pc \in {"count", "mark", "idle"}
                        /\ r.pc = "count" => r.left > 0
  BY <1>1, NextFactShape
<1>5. /\ task' \in [Tasks -> Task] /\ task'[t] = r /\ FactsLeft'
      /\ \A s \in Tasks : s # t => task'[s] = task[s]
  BY <1>2, <1>4, TaskSet
<1> HIDE DEF new
<1>6. ActiveMemories' = (ActiveMemories \ oldest) \cup {new}
  BY <1>3 DEF ActiveMemories, InState
<1>7. \A m \in Rows : m \in Rows'
  BY <1>3 DEF Rows, InState
<1>8. new \in Rows'
  BY <1>3 DEF Rows, InState
<1>9. MemoriesTypeOK'
  BY <1>1, <1>2, <1>3, <1>5 DEF MemoriesTypeOK, MemoryStates, chatVars
<1>10. IndexAgrees'
  BY <1>1, <1>2, <1>6, <1>7, <1>8 DEF IndexAgrees
<1>11. MessagesInv'
  BY <1>1 DEF MemoriesInv, MessagesInv, chatVars
<1>12. ASSUME revived' = {}, NEW ts \in SUBSET Adding'
       PROVE  Cardinality(Surviving(ts)') + Cardinality(ts) < MaxActive + Cardinality(Tasks)
  <2>1. t \notin ts /\ \A s \in ts : s \in Tasks /\ task'[s] = task[s]
    BY <1>4, <1>5 DEF Adding
  <2>2. ts \cup {t} \in SUBSET Adding
    BY <1>1, <2>1 DEF Adding
  <2>3. ASSUME NEW m \in Surviving(ts)', m # new PROVE m \in Surviving(ts \cup {t})
    <3>1. m \in ActiveMemories' /\ m \in ActiveMemories /\ m \notin oldest
      BY <1>6, <2>3 DEF Surviving
    <3>2. m \notin Doomed(t)
      BY <1>1, <3>1 DEF Doomed
    <3>3. ASSUME NEW s \in ts, m \in Doomed(s) PROVE FALSE
      <4>1. m \notin Doomed(s)' /\ s \in Tasks /\ task'[s] = task[s]
        BY <2>1 DEF Surviving
      <4>2. task[s].pc = "oldest"
        BY <3>3, <4>1 DEF Doomed
      <4>3. m \in Oldest(ActiveMemories, task[s].overflow) /\ task[s].overflow \in Nat
        BY <1>2, <3>3, <4>1, <4>2 DEF Doomed, MemoriesTypeOK, Task
      <4>4. \A o \in ActiveMemories' : o < m => o \in ActiveMemories
        <5>1. m < new /\ m \in Nat
          BY <1>2, <1>3, <3>1, RowsShape
        <5>2. new \in Nat
          BY <1>2, RowsShape DEF new
        <5>3. ~ (new < m)
          BY <5>1, <5>2
        <5> QED
          BY <1>6, <5>3
      <4>5. m \in Oldest(ActiveMemories', task[s].overflow)
        BY <1>2, <3>1, <4>3, <4>4, RowsShape, StillOldest
      <4> QED
        BY <4>1, <4>2, <4>5 DEF Doomed
    <3> QED
      BY <3>1, <3>2, <3>3 DEF Surviving
  <2>4. /\ IsFiniteSet(Surviving(ts \cup {t})) /\ Cardinality(Surviving(ts \cup {t})) \in Nat
    BY <1>2, SurvivorsShape
  <2>5. Surviving(ts)' \in SUBSET (Surviving(ts \cup {t}) \cup {new})
    BY <2>3
  <2>6. /\ IsFiniteSet(Surviving(ts \cup {t}) \cup {new})
        /\ Cardinality(Surviving(ts \cup {t}) \cup {new}) <= Cardinality(Surviving(ts \cup {t})) + 1
        /\ Cardinality(Surviving(ts \cup {t}) \cup {new}) \in Nat
    <3> DEFINE before == Surviving(ts \cup {t})
    <3>1. IsFiniteSet(before) /\ Cardinality(before) \in Nat
      BY <2>4
    <3> HIDE DEF before
    <3>2. /\ IsFiniteSet(before \cup {new})
          /\ Cardinality(before \cup {new}) = IF new \in before THEN Cardinality(before)
                                              ELSE Cardinality(before) + 1
      BY <3>1, FS_AddElement
    <3>3. Cardinality(before \cup {new}) \in Nat
      BY <3>2, FS_CardinalityType
    <3>4. Cardinality(before \cup {new}) <= Cardinality(before) + 1
      BY <3>1, <3>2
    <3> QED
      BY <3>2, <3>3, <3>4 DEF before
  <2>7. /\ Cardinality(Surviving(ts)') <= Cardinality(Surviving(ts \cup {t}) \cup {new})
        /\ Cardinality(Surviving(ts)') \in Nat
    BY <2>5, <2>6, FS_Subset, FS_CardinalityType
  <2>8. Cardinality(Surviving(ts \cup {t})) + Cardinality(ts \cup {t})
          < MaxActive + Cardinality(Tasks)
    BY <1>1, <1>12, <2>2 DEF MemoriesInv, RoomInv
  <2>9. /\ Cardinality(ts \cup {t}) = Cardinality(ts) + 1 /\ Cardinality(ts) \in Nat
        /\ Cardinality(Tasks) \in Nat
    <3>1. ts \in SUBSET Tasks
      BY <2>1
    <3> QED
      BY <2>1, <3>1, TasksAreFinite
  <2> QED
    BY <2>4, <2>6, <2>7, <2>8, <2>9, MemoriesAssumption
<1> QED
  BY <1>5, <1>9, <1>10, <1>11, <1>12 DEF MemoriesInv, RoomInv

\* A step that makes no memory active.
LEMMA FewerKeep ==
  ASSUME MemoriesInv, task' = task, CountersFit', MessagesInv', IndexAgrees',
         memory' \in Seq(MemoryStates), Len(memory') = Len(memory),
         searchable' \subseteq searchable, revived' \subseteq revived \cup Rows,
         touched' \subseteq touched \cup Rows,
         revived' = {} => revived = {} /\ ActiveMemories' \subseteq ActiveMemories
  PROVE  MemoriesInv'
<1>1. Rows \subseteq DOMAIN memory /\ DOMAIN memory' = DOMAIN memory
  <2>1. DOMAIN memory' = 1..Len(memory')
    BY LenProperties
  <2>2. DOMAIN memory = 1..Len(memory)
    BY RowsShape DEF MemoriesInv
  <2> QED
    BY <2>1, <2>2 DEF Rows, InState
<1>2. MemoriesTypeOK'
  BY <1>1 DEF MemoriesInv, MemoriesTypeOK, CountersFit, MemoryStates
<1>3. FactsLeft'
  BY DEF MemoriesInv, FactsLeft
<1>4. RoomInv'
  <2>1. CASE revived' = {}
    BY <2>1, RoomStays DEF MemoriesInv
  <2>2. CASE revived' # {}
    BY <2>2 DEF RoomInv
  <2> QED
    BY <2>1, <2>2
<1> QED
  BY <1>2, <1>3, <1>4 DEF MemoriesInv

LEMMA RowsRewritten ==
  ASSUME MemoriesTypeOK
  PROVE  /\ memory \in Seq(MemoryStates)
         /\ \A m \in DOMAIN memory, s \in MemoryStates :
              /\ [memory EXCEPT ![m] = s] \in Seq(MemoryStates)
              /\ Len([memory EXCEPT ![m] = s]) = Len(memory)
         /\ [m \in DOMAIN memory |-> "deleted"] \in Seq(MemoryStates)
         /\ Len([m \in DOMAIN memory |-> "deleted"]) = Len(memory)
<1>1. Len(memory) \in Nat /\ DOMAIN memory = 1..Len(memory)
  BY RowsShape
<1>2. memory \in Seq(MemoryStates)
  BY DEF MemoriesTypeOK, MemoryStates
<1>3. memory \in [1..Len(memory) -> MemoryStates]
  BY <1>2, LenProperties
<1>4. ASSUME NEW m \in DOMAIN memory, NEW s \in MemoryStates
      PROVE  /\ [memory EXCEPT ![m] = s] \in Seq(MemoryStates)
             /\ Len([memory EXCEPT ![m] = s]) = Len(memory)
  <2>1. [memory EXCEPT ![m] = s] \in [1..Len(memory) -> MemoryStates]
    BY <1>1, <1>3
  <2> QED
    BY <1>1, <2>1, SeqOfLength
<1>5. /\ [m \in DOMAIN memory |-> "deleted"] \in Seq(MemoryStates)
      /\ Len([m \in DOMAIN memory |-> "deleted"]) = Len(memory)
  <2>1. [m \in DOMAIN memory |-> "deleted"] \in [1..Len(memory) -> MemoryStates]
    BY <1>1 DEF MemoryStates
  <2> QED
    BY <1>1, <2>1, SeqOfLength
<1> QED
  BY <1>2, <1>4, <1>5

LEMMA EditsFit ==
  ASSUME MemoriesInv, Edit, UNCHANGED <<profile, chatVars>>
  PROVE  CountersFit' /\ MessagesInv'
<1>1. edits \in 0..MaxEdits /\ MaxEdits \in Nat /\ edits < MaxEdits /\ edits' = edits + 1
  BY MemoriesAssumption DEF Edit, MemoriesInv, MemoriesTypeOK
<1>2. edits' \in 0..MaxEdits
  BY <1>1, OneMore
<1> QED
  BY <1>2, CountersAreFit DEF CountersFit, MemoriesInv, MessagesInv, chatVars

\* PUT: a memory that is restored is in no count from then on.
LEMMA SetDeprecatedKeeps ==
  ASSUME MemoriesInv, NEW m \in DOMAIN memory, NEW deprecated \in BOOLEAN,
         SetDeprecated(m, deprecated)
  PROVE  MemoriesInv'
<1> DEFINE state == IF deprecated THEN "deprecated" ELSE "active"
<1>1. /\ Edit /\ m \in Rows /\ memory' = [memory EXCEPT ![m] = state]
      /\ revived' = IF deprecated \/ memory[m] = "active" THEN revived ELSE revived \cup {m}
      /\ UNCHANGED <<searchable, profile, task, chatVars, touched>>
  BY DEF SetDeprecated
<1>2. state \in MemoryStates
  BY DEF MemoryStates
<1>3. MemoriesTypeOK /\ IndexAgrees
  BY DEF MemoriesInv
<1>4. /\ memory' \in Seq(MemoryStates) /\ Len(memory') = Len(memory) /\ DOMAIN memory' = DOMAIN memory
      /\ memory'[m] = state /\ \A n \in DOMAIN memory : n # m => memory'[n] = memory[n]
  BY <1>1, <1>2, <1>3, RowsRewritten
<1>5. Rows' = Rows
  BY <1>1, <1>4 DEF Rows, InState
<1>6. \/ ActiveMemories' \subseteq ActiveMemories /\ revived' = revived
      \/ ActiveMemories' \subseteq ActiveMemories \cup {m} /\ revived' = revived \cup {m}
  BY <1>1, <1>4 DEF ActiveMemories, InState
<1>7. IndexAgrees'
  BY <1>1, <1>3, <1>5, <1>6 DEF IndexAgrees
<1>8. CountersFit' /\ MessagesInv'
  BY <1>1, EditsFit
<1>9. /\ revived' \subseteq revived \cup Rows
      /\ revived' = {} => revived = {} /\ ActiveMemories' \subseteq ActiveMemories
  BY <1>1, <1>6
<1> QED
  BY <1>1, <1>4, <1>7, <1>8, <1>9, FewerKeep

LEMMA DeleteMemoryKeeps ==
  ASSUME MemoriesInv, NEW m \in DOMAIN memory, DeleteMemory(m)
  PROVE  MemoriesInv'
<1>1. /\ Edit /\ memory' = [memory EXCEPT ![m] = "deleted"]
      /\ searchable' = searchable \ {m}
      /\ UNCHANGED <<profile, task, chatVars, revived, touched>>
  BY DEF DeleteMemory
<1>2. MemoriesTypeOK /\ IndexAgrees /\ "deleted" \in MemoryStates
  BY DEF MemoriesInv, MemoryStates
<1>3. /\ memory' \in Seq(MemoryStates) /\ Len(memory') = Len(memory) /\ DOMAIN memory' = DOMAIN memory
      /\ memory'[m] = "deleted" /\ \A n \in DOMAIN memory : n # m => memory'[n] = memory[n]
  BY <1>1, <1>2, RowsRewritten
<1>4. ActiveMemories' = ActiveMemories \ {m} /\ Rows' = Rows \ {m}
  BY <1>3 DEF ActiveMemories, Rows, InState
<1>5. IndexAgrees'
  BY <1>1, <1>2, <1>4 DEF IndexAgrees
<1>6. CountersFit' /\ MessagesInv'
  BY <1>1, EditsFit
<1> QED
  BY <1>1, <1>3, <1>4, <1>5, <1>6, FewerKeep

LEMMA DeleteByAnotherKeeps ==
  ASSUME MemoriesInv, NEW m \in DOMAIN memory, DeleteByAnother(m)
  PROVE  MemoriesInv'
<1>1. /\ Edit /\ m \in Rows /\ searchable' = searchable \ {m} /\ touched' = touched \cup {m}
      /\ UNCHANGED <<memory, profile, task, chatVars, revived>>
  BY DEF DeleteByAnother
<1>2. MemoriesTypeOK /\ IndexAgrees
  BY DEF MemoriesInv
<1>3. memory' \in Seq(MemoryStates) /\ Len(memory') = Len(memory)
  BY <1>1, <1>2, RowsRewritten
<1>4. ActiveMemories' = ActiveMemories /\ Rows' = Rows
  BY <1>1 DEF ActiveMemories, Rows, InState
<1>5. IndexAgrees'
  BY <1>1, <1>2, <1>4 DEF IndexAgrees
<1>6. CountersFit' /\ MessagesInv'
  BY <1>1, EditsFit
<1> QED
  BY <1>1, <1>3, <1>4, <1>5, <1>6, FewerKeep

LEMMA ClearAllKeeps ==
  ASSUME MemoriesInv, ClearAll
  PROVE  MemoriesInv'
<1>1. /\ Edit /\ memory' = [m \in DOMAIN memory |-> "deleted"]
      /\ searchable' = searchable \ Rows
      /\ UNCHANGED <<profile, task, chatVars, revived, touched>>
  BY DEF ClearAll
<1>2. MemoriesTypeOK /\ IndexAgrees
  BY DEF MemoriesInv
<1>3. memory' \in Seq(MemoryStates) /\ Len(memory') = Len(memory)
  BY <1>1, <1>2, RowsRewritten
<1>4. ActiveMemories' = {}
  BY <1>1 DEF ActiveMemories, InState
<1>5. IndexAgrees'
  BY <1>1, <1>2, <1>4 DEF IndexAgrees
<1>6. CountersFit' /\ MessagesInv'
  BY <1>1, EditsFit
<1> QED
  BY <1>1, <1>3, <1>4, <1>5, <1>6, FewerKeep

\* The client goes away, or the conversation is deleted.
LEMMA ChatStepsKeep ==
  ASSUME MemoriesInv, AbandonTurn \/ DeleteConversation
  PROVE  MemoriesInv'
<1>1. UNCHANGED <<memory, searchable, profile, task, revived, touched, edits>>
  BY DEF AbandonTurn, DeleteConversation, rows, memoryHistory
<1>2. ActiveMemories' = ActiveMemories /\ Rows' = Rows
  BY <1>1 DEF ActiveMemories, Rows, InState
<1>3. IndexAgrees'
  BY <1>1, <1>2 DEF IndexAgrees, MemoriesInv
<1>4. memory' \in Seq(MemoryStates) /\ Len(memory') = Len(memory)
  BY <1>1, RowsRewritten DEF MemoriesInv
<1>5. /\ messages \in [user : 0..MaxTurns, assistant : 0..MaxTurns]
      /\ turns \in [begun : 0..MaxTurns, streaming : 0..MaxTurns]
  BY CountersAreFit DEF CountersFit
<1>6. CountersFit' /\ MessagesInv'
  <2>1. CASE AbandonTurn
    <3>1. turns.streaming > 0 /\ turns' = [turns EXCEPT !.streaming = @ - 1]
          /\ UNCHANGED <<conversation, messages>>
      BY <2>1 DEF AbandonTurn
    <3>2. /\ turns.streaming - 1 \in 0..MaxTurns
          /\ messages.assistant + (turns.streaming - 1) <= turns.begun
      BY <3>1, TurnsShape
    <3>3. /\ turns' \in [begun : 0..MaxTurns, streaming : 0..MaxTurns]
          /\ turns'.begun = turns.begun /\ turns'.streaming = turns.streaming - 1
      BY <1>5, <3>1, <3>2
    <3> QED
      BY <1>1, <3>1, <3>2, <3>3, CountersAreFit, TurnsShape DEF CountersFit, MessagesInv
  <2>2. CASE DeleteConversation
    <3>1. messages' = [user |-> 0, assistant |-> 0] /\ turns' = turns /\ conversation' = "deleted"
      BY <2>2 DEF DeleteConversation
    <3>2. 0 \in 0..MaxTurns /\ 0 <= turns.begun /\ 0 + turns.streaming <= turns.begun
      BY TurnsShape
    <3> QED
      BY <1>1, <3>1, <3>2, CountersAreFit DEF CountersFit, MessagesInv
  <2> QED
    BY <2>1, <2>2
<1> QED
  BY <1>1, <1>2, <1>3, <1>4, <1>6, FewerKeep

LEMMA MemoriesKeep == MemoriesInv /\ [MemoriesNext]_memoryVars => MemoriesInv'
<1> SUFFICES ASSUME MemoriesInv, [MemoriesNext]_memoryVars PROVE MemoriesInv'
  OBVIOUS
<1>1. CASE UNCHANGED memoryVars
  <2>1. memory' \in Seq(MemoryStates)
    BY <1>1, RowsRewritten DEF memoryVars, MemoriesInv
  <2>2. ActiveMemories' = ActiveMemories /\ Rows' = Rows
    BY <1>1 DEF ActiveMemories, Rows, InState, memoryVars
  <2>3. CountersFit' /\ MessagesInv' /\ IndexAgrees'
    BY <1>1, <2>2, CountersAreFit DEF CountersFit, MessagesInv, IndexAgrees, MemoriesInv, memoryVars
  <2> QED
    BY <1>1, <2>1, <2>2, <2>3, FewerKeep DEF memoryVars
<1>2. ASSUME NEW t \in Tasks, TaskStep(t) PROVE MemoriesInv'
  BY <1>2, CountActiveKeeps, ReadOldestKeeps, InsertMemoryKeeps, InsertFailsKeeps,
     ExtractionStepsKeep DEF TaskStep
<1>3. ASSUME NEW t \in Tasks, NEW n \in 0..MaxFacts, BeginTurn(t, n) \/ FinishTurn(t, n)
      PROVE  MemoriesInv'
  BY <1>3, BeginTurnKeeps, FinishTurnKeeps
<1>4. ASSUME NEW t \in Tasks, RegenerateProfile(t) PROVE MemoriesInv'
  BY <1>4, ExtractionStepsKeep
<1>5. ASSUME NEW m \in DOMAIN memory,
             \/ \E deprecated \in BOOLEAN : SetDeprecated(m, deprecated)
             \/ DeleteMemory(m) \/ DeleteByAnother(m)
      PROVE  MemoriesInv'
  BY <1>5, SetDeprecatedKeeps, DeleteMemoryKeeps, DeleteByAnotherKeeps
<1> QED
  BY <1>1, <1>2, <1>3, <1>4, <1>5, ChatStepsKeep, ClearAllKeeps DEF MemoriesNext

LEMMA MemoriesInvariance == MemoriesSpec => []MemoriesInv
BY MemoriesStart, MemoriesKeep, PTL DEF MemoriesSpec

\* Every variable of Memories keeps its shape, for any number of tasks and rows.
THEOREM MemoriesTypeCorrect == MemoriesSpec => []MemoriesTypeOK
<1>1. MemoriesInv => MemoriesTypeOK
  BY DEF MemoriesInv
<1> QED
  BY <1>1, MemoriesInvariance, PTL

\* add_memory counts, reads and writes in three steps that nothing holds together:
\* however many tasks interleave, and however long they go on, the active memories
\* exceed the limit by less than the number of tasks.
THEOREM ExcessIsBounded == MemoriesSpec => []CapIsKept
<1>1. MemoriesInv => CapIsKept
  <2> SUFFICES ASSUME MemoriesInv, revived = {}
               PROVE  Cardinality(ActiveMemories) < MaxActive + Cardinality(Tasks)
    BY DEF CapIsKept
  <2>1. {} \in SUBSET Adding /\ Surviving({}) = ActiveMemories
    BY DEF Surviving, ActiveMemories, InState
  <2>2. Cardinality(Surviving({})) + Cardinality({}) < MaxActive + Cardinality(Tasks)
    BY <2>1 DEF MemoriesInv, RoomInv
  <2>3. Cardinality({}) = 0
    BY FS_EmptySet
  <2>4. Cardinality(ActiveMemories) \in Nat
    BY RowsShape DEF MemoriesInv
  <2> QED
    BY <2>1, <2>2, <2>3, <2>4
<1> QED
  BY <1>1, MemoriesInvariance, PTL

\* The index is searched for active memories only: it has all of them, and none that
\* was deleted, but for those restored by hand or that another user tried to delete.
THEOREM IndexIsComplete == MemoriesSpec => []IndexAgrees
<1>1. MemoriesInv => IndexAgrees
  BY DEF MemoriesInv
<1> QED
  BY <1>1, MemoriesInvariance, PTL

-----------------------------------------------------------------------------
(* The agent                                                               *)

Messages == [role : {"user", "assistant", "tool"}, size : Nat, round : Nat, calls : Nat]
TurnRow == [pc : TurnPoints, phase : {"classify", "loop", "final"}, round : 0..MaxRounds,
            attempt : Nat, chat : Seq(Messages), todo : 0..MaxToolCalls, tool : Tools,
            submitted : Nat]

\* Attempts are those of the model or those of the tool that runs.
AttemptsFit(row) ==
  /\ row.attempt <= (IF row.pc = "tool" THEN ToolRetries ELSE ModelRetries)
  /\ row.pc \notin {"primary", "fallback", "tool"} => row.attempt = 0
  /\ row.pc = "tool" /\ row.tool = "none" => row.attempt = 0

\* The loop asks the model only in a round that is not yet used, and a tool runs
\* only for a call; it has submitted nothing before it answers.
RowInv(row) ==
  /\ AttemptsFit(row)
  /\ row.phase = "loop" /\ row.pc \notin {"tool", "top"} => row.round < MaxRounds
  /\ row.pc = "tool" => row.todo > 0 /\ row.round > 0
  /\ row.tool # "none" => row.pc = "tool" /\ row.submitted = 0
  /\ row.submitted <= 1

BreakerInv ==
  /\ breaker \in [failures : 0..Threshold, open : BOOLEAN, recovered : BOOLEAN]
  /\ {openings, recorded, unrecorded} \subseteq Nat
TurnsInv == turn \in [Turns -> TurnRow] /\ \A t \in Turns : RowInv(turn[t])
AgentInv == BreakerInv /\ TurnsInv /\ OpeningsAreAccountedFor

LEMMA NewRowKeeps ==
  ASSUME TurnsInv, NEW t \in Turns, NEW r \in TurnRow, RowInv(r),
         turn' = [turn EXCEPT ![t] = r]
  PROVE  TurnsInv'
<1>1. turn' \in [Turns -> TurnRow]
  BY DEF TurnsInv
<1>2. \A u \in Turns : turn'[u] = IF u = t THEN r ELSE turn[u]
  BY DEF TurnsInv
<1>3. ASSUME NEW u \in Turns PROVE RowInv(turn'[u])
  BY <1>2, <1>3 DEF TurnsInv
<1> QED
  BY <1>1, <1>3 DEF TurnsInv

\* A row that is idle or over.
LEMMA FreshRow ==
  ASSUME NEW pc \in {"idle", "ended"}
  PROVE  [IdleTurn EXCEPT !.pc = pc] \in TurnRow /\ RowInv([IdleTurn EXCEPT !.pc = pc])
<1> DEFINE r == [IdleTurn EXCEPT !.pc = pc]
<1>1. r = [pc |-> pc, phase |-> "classify", round |-> 0, attempt |-> 0,
           chat |-> <<>>, todo |-> 0, tool |-> "none", submitted |-> 0]
  BY DEF IdleTurn
<1>2. r \in TurnRow
  <2>1. <<>> \in Seq(Messages)
    OBVIOUS
  <2>2. 0 \in 0..MaxRounds /\ 0 \in 0..MaxToolCalls
    BY AgentAssumption
  <2>3. pc \in TurnPoints /\ "none" \in Tools
    BY DEF TurnPoints, Tools
  <2> HIDE DEF r
  <2> QED
    BY <1>1, <2>1, <2>2, <2>3 DEF TurnRow
<1>3. RowInv(r)
  <2> HIDE DEF r
  <2>1. /\ r.pc = pc /\ r.attempt = 0 /\ r.phase = "classify"
        /\ r.tool = "none" /\ r.submitted = 0
    BY <1>1
  <2> QED
    BY <2>1, AgentAssumption DEF RowInv, AttemptsFit
<1> QED
  BY <1>2, <1>3

LEMMA AgentStarts == AgentInit => AgentInv
<1> SUFFICES ASSUME AgentInit PROVE AgentInv
  OBVIOUS
<1>1. IdleTurn \in TurnRow /\ RowInv(IdleTurn)
  <2>1. IdleTurn = [IdleTurn EXCEPT !.pc = "idle"]
    BY DEF IdleTurn
  <2> QED
    BY <2>1, FreshRow
<1>2. TurnsInv
  <2>1. \A t \in Turns : turn[t] = IdleTurn
    BY DEF AgentInit
  <2> QED
    BY <1>1, <2>1 DEF AgentInit, TurnsInv
<1>3. BreakerInv
  BY AgentAssumption DEF AgentInit, BreakerInv
<1>4. OpeningsAreAccountedFor
  <2>1. {t \in Turns : Is(t, "opened")} = {}
    BY DEF AgentInit, IdleTurn, Is
  <2>2. Cardinality({t \in Turns : Is(t, "opened")}) = 0
    BY <2>1, FS_EmptySet
  <2> QED
    BY <2>2 DEF AgentInit, OpeningsAreAccountedFor
<1> QED
  BY <1>2, <1>3, <1>4 DEF AgentInv

LEMMA EndTurnKeeps ==
  ASSUME TurnsInv, NEW t \in Turns, EndTurn(t) PROVE TurnsInv'
BY FreshRow, NewRowKeeps DEF EndTurn

\* A turn that waits for the model goes on to another such point, or to the top.
LEMMA GoKeeps ==
  ASSUME TurnsInv, NEW t \in Turns, NEW pc \in TurnPoints \ {"tool"},
         turn[t].pc \notin {"tool", "top"}, Go(t, pc)
  PROVE  TurnsInv'
<1> DEFINE r == [turn[t] EXCEPT !.pc = pc, !.attempt = 0]
<1>1. turn[t] \in TurnRow /\ RowInv(turn[t])
  BY DEF TurnsInv
<1>2. turn' = [turn EXCEPT ![t] = r]
  BY DEF Go, TurnsInv
<1>3. r \in TurnRow
  BY <1>1 DEF TurnRow
<1>4. RowInv(r)
  <2>1. /\ r.pc = pc /\ r.attempt = 0 /\ r.phase = turn[t].phase /\ r.round = turn[t].round
        /\ r.tool = turn[t].tool /\ r.submitted = turn[t].submitted
    BY <1>1 DEF TurnRow
  <2> QED
    BY <1>1, <2>1, AgentAssumption DEF RowInv, AttemptsFit
<1> HIDE DEF r
<1> QED
  BY <1>2, <1>3, <1>4, NewRowKeeps

\* The steps of a call of the model, but for what they do to the circuit.
LEMMA ModelCallKeeps ==
  ASSUME TurnsInv, NEW t \in Turns,
         \/ Ask(t) \/ Succeeds(t) \/ TriesAgain(t) \/ Fails(t)
         \/ RecordSuccess(t) \/ CountFailure(t) \/ RecordOpening(t)
  PROVE  TurnsInv'
<1>1. AfterPrimary \in {"fallback", "refused"}
  BY DEF AfterPrimary
<1>2. CASE Ask(t)
  BY <1>1, <1>2, GoKeeps DEF Ask, Is, TurnPoints
<1>3. CASE Succeeds(t) \/ Fails(t)
  BY <1>3, GoKeeps DEF Succeeds, Fails, Is, TurnPoints
<1>4. CASE RecordSuccess(t) \/ CountFailure(t) \/ RecordOpening(t)
  BY <1>1, <1>4, GoKeeps DEF RecordSuccess, CountFailure, RecordOpening, Is, TurnPoints
<1>5. CASE TriesAgain(t)
  <2> DEFINE r == [turn[t] EXCEPT !.attempt = @ + 1]
  <2>1. turn[t] \in TurnRow /\ RowInv(turn[t])
    BY DEF TurnsInv
  <2>2. turn' = [turn EXCEPT ![t] = r]
    BY <1>5 DEF TriesAgain, TurnsInv
  <2>3. r \in TurnRow
    <3>1. turn[t].attempt + 1 \in Nat
      BY <2>1 DEF TurnRow
    <3> QED
      BY <2>1, <3>1 DEF TurnRow
  <2>4. RowInv(r)
    <3>1. /\ r.pc = turn[t].pc /\ r.attempt = turn[t].attempt + 1 /\ r.attempt <= ModelRetries
          /\ r.phase = turn[t].phase /\ r.round = turn[t].round
          /\ r.tool = turn[t].tool /\ r.submitted = turn[t].submitted
      BY <2>1, <1>5, AgentAssumption DEF TurnRow, TriesAgain
    <3> QED
      BY <2>1, <3>1, <1>5 DEF RowInv, AttemptsFit, TriesAgain
  <2> HIDE DEF r
  <2> QED
    BY <2>2, <2>3, <2>4, NewRowKeeps
<1> QED
  BY <1>2, <1>3, <1>4, <1>5

\* The steps of the loop between the calls of the model.
LEMMA LoopKeeps ==
  ASSUME TurnsInv, NEW t \in Turns,
         \/ Refused(t) \/ Round(t) \/ OutOfTime(t) \/ Classified(t) \/ LastAnswer(t)
         \/ \E n \in 1..MaxToolCalls, size \in TextSizes : AnswerWithCalls(t, n, size)
  PROVE  TurnsInv'
<1>1. turn[t] \in TurnRow /\ RowInv(turn[t]) /\ DOMAIN turn = Turns
  BY DEF TurnsInv
<1>2. CASE /\ turn[t].pc \in {"refused", "stream"} 
           /\ turn' = [turn EXCEPT ![t].pc = "top", ![t].phase = "loop"]
  <2> DEFINE r == [turn[t] EXCEPT !.pc = "top", !.phase = "loop"]
  <2>1. turn' = [turn EXCEPT ![t] = r]
    BY <1>1, <1>2
  <2>2. r \in TurnRow
    BY <1>1 DEF TurnRow, TurnPoints
  <2>3. RowInv(r)
    <3>1. /\ r.pc = "top" /\ r.attempt = turn[t].attempt
          /\ r.phase = "loop" /\ r.round = turn[t].round
          /\ r.tool = turn[t].tool /\ r.submitted = turn[t].submitted
      BY <1>1 DEF TurnRow
    <3> QED
      BY <1>1, <1>2, <3>1, AgentAssumption DEF RowInv, AttemptsFit
  <2> HIDE DEF r
  <2> QED
    BY <2>1, <2>2, <2>3, NewRowKeeps
<1>3. CASE Refused(t) \/ OutOfTime(t) \/ Classified(t) \/ LastAnswer(t)
  BY <1>2, <1>3, EndTurnKeeps DEF Refused, OutOfTime, Classified, LastAnswer, Is
<1>4. CASE Round(t)
  <2> DEFINE q == [turn[t] EXCEPT !.pc = "ask"]
             r == [turn[t] EXCEPT !.pc = "ask", !.phase = "final", !.chat = Append(@, Question)]
  <2>1. turn' = [turn EXCEPT ![t] = IF turn[t].round < MaxRounds THEN q ELSE r]
    BY <1>1, <1>4 DEF Round
  <2>2. q \in TurnRow
    BY <1>1 DEF TurnRow, TurnPoints
  <2>3. r \in TurnRow
    <3>1. Question \in Messages
      BY DEF Question, Message, Messages
    <3>2. turn[t].chat \in Seq(Messages)
      BY <1>1 DEF TurnRow
    <3>3. Append(turn[t].chat, Question) \in Seq(Messages)
      BY <3>1, <3>2
    <3> QED
      BY <1>1, <3>3 DEF TurnRow, TurnPoints
  <2>4. turn[t].round < MaxRounds => RowInv(q)
    <3>1. /\ q.pc = "ask" /\ q.attempt = turn[t].attempt
          /\ q.phase = turn[t].phase /\ q.round = turn[t].round
          /\ q.tool = turn[t].tool /\ q.submitted = turn[t].submitted
      BY <1>1 DEF TurnRow
    <3> QED
      BY <1>1, <1>4, <3>1, AgentAssumption DEF RowInv, AttemptsFit, Round, Is
  <2>5. RowInv(r)
    <3>1. /\ r.pc = "ask" /\ r.attempt = turn[t].attempt
          /\ r.phase = "final"
          /\ r.tool = turn[t].tool /\ r.submitted = turn[t].submitted
      BY <1>1 DEF TurnRow
    <3> QED
      BY <1>1, <1>4, <3>1, AgentAssumption DEF RowInv, AttemptsFit, Round, Is
  <2> HIDE DEF q, r
  <2> QED
    BY <2>1, <2>2, <2>3, <2>4, <2>5, NewRowKeeps
<1>5. ASSUME NEW n \in 1..MaxToolCalls, NEW size \in TextSizes, AnswerWithCalls(t, n, size)
      PROVE  TurnsInv'
  <2> DEFINE r == [turn[t] EXCEPT !.pc = "tool", !.todo = n, !.round = @ + 1,
                     !.chat = Append(@, Message("assistant", size, turn[t].round, n))]
  <2>1. turn' = [turn EXCEPT ![t] = r]
    BY <1>1, <1>5 DEF AnswerWithCalls
  <2>2. turn[t].round \in 0..MaxRounds /\ turn[t].round < MaxRounds
    BY <1>1, <1>5 DEF AnswerWithCalls, RowInv, Is, TurnRow
  <2>3. r \in TurnRow
    <3>1. Message("assistant", size, turn[t].round, n) \in Messages
      BY <2>2, AgentAssumption DEF Message, Messages
    <3>2. turn[t].chat \in Seq(Messages)
      BY <1>1 DEF TurnRow
    <3>3. Append(turn[t].chat, Message("assistant", size, turn[t].round, n)) \in Seq(Messages)
      BY <3>1, <3>2
    <3>4. turn[t].round + 1 \in 0..MaxRounds /\ n \in 0..MaxToolCalls
      BY <2>2, AgentAssumption
    <3> QED
      BY <1>1, <3>3, <3>4 DEF TurnRow, TurnPoints
  <2>4. RowInv(r)
    <3>1. /\ r.pc = "tool" /\ r.attempt = turn[t].attempt /\ r.todo = n
          /\ r.round = turn[t].round + 1
          /\ r.tool = turn[t].tool /\ r.submitted = turn[t].submitted
      BY <1>1 DEF TurnRow
    <3>2. turn[t].attempt = 0 /\ turn[t].tool = "none"
      BY <1>1, <1>5 DEF AnswerWithCalls, RowInv, AttemptsFit, Is
    <3> QED
      BY <1>1, <2>2, <3>1, <3>2, AgentAssumption DEF RowInv, AttemptsFit
  <2> HIDE DEF r
  <2> QED
    BY <2>1, <2>3, <2>4, NewRowKeeps
<1> QED
  BY <1>3, <1>4, <1>5

\* The result of a tool call: nothing runs any more.
LEMMA ResultKeeps ==
  ASSUME TurnsInv, NEW t \in Turns, turn[t].pc = "tool", NEW size \in Nat, NEW n \in 0..1,
         turn' = Result(t, size, n)
  PROVE  TurnsInv'
<1> DEFINE r == [turn[t] EXCEPT !.chat = Append(@, Message("tool", size, turn[t].round - 1, 0)),
                   !.todo = @ - 1, !.tool = "none", !.attempt = 0, !.submitted = n,
                   !.pc = IF turn[t].todo > 1 THEN "tool" ELSE "top"]
<1>1. turn[t] \in TurnRow /\ RowInv(turn[t]) /\ DOMAIN turn = Turns
  BY DEF TurnsInv
<1>2. turn' = [turn EXCEPT ![t] = r]
  BY <1>1 DEF Result
<1>3. turn[t].todo \in 1..MaxToolCalls /\ turn[t].round \in 1..MaxRounds
  BY <1>1, AgentAssumption DEF RowInv, TurnRow
<1>4. r \in TurnRow
  <2>1. Message("tool", size, turn[t].round - 1, 0) \in Messages
    BY <1>3, AgentAssumption DEF Message, Messages
  <2>2. turn[t].chat \in Seq(Messages)
    BY <1>1 DEF TurnRow
  <2>3. Append(turn[t].chat, Message("tool", size, turn[t].round - 1, 0)) \in Seq(Messages)
    BY <2>1, <2>2
  <2>4. turn[t].todo - 1 \in 0..MaxToolCalls
    BY <1>3, AgentAssumption
  <2> DEFINE pc == IF turn[t].todo > 1 THEN "tool" ELSE "top"
             chat == Append(turn[t].chat, Message("tool", size, turn[t].round - 1, 0))
             todo == turn[t].todo - 1
  <2>5. pc \in TurnPoints /\ chat \in Seq(Messages) /\ todo \in 0..MaxToolCalls
        /\ "none" \in Tools /\ n \in Nat
    BY <2>3, <2>4 DEF TurnPoints, Tools
  <2>6. r = [turn[t] EXCEPT !.chat = chat, !.todo = todo, !.tool = "none", !.attempt = 0,
               !.submitted = n, !.pc = pc]
    OBVIOUS
  <2> HIDE DEF r, pc, chat, todo
  <2> QED
    BY <1>1, <2>5, <2>6 DEF TurnRow
<1>5. RowInv(r)
  <2>1. /\ r.pc = (IF turn[t].todo > 1 THEN "tool" ELSE "top")
        /\ r.attempt = 0 /\ r.todo = turn[t].todo - 1
        /\ r.round = turn[t].round /\ r.tool = "none" /\ r.submitted = n
    BY <1>1 DEF TurnRow
  <2> QED
    BY <1>3, <2>1, AgentAssumption DEF RowInv, AttemptsFit
<1> HIDE DEF r
<1> QED
  BY <1>2, <1>4, <1>5, NewRowKeeps

\* execute_sql submits at most once: it is not tried again, and what it submitted is
\* counted when it answers, or raises after its commit.
LEMMA SubmittedFits ==
  ASSUME TurnsInv, NEW t \in Turns, turn[t].tool # "none", NEW commits \in BOOLEAN
  PROVE  Submitted(t, commits) \in 0..1 /\ (turn[t].tool # "write" => Submitted(t, commits) = 0)
BY DEF Submitted, TurnsInv, RowInv

LEMMA ToolKeeps ==
  ASSUME TurnsInv, NEW t \in Turns,
         \/ RefuseCall(t) \/ UnknownTool(t)
         \/ \E tool \in {"read", "write"} : StartTool(t, tool)
         \/ \E commits \in BOOLEAN :
              \/ \E size \in ResultSizes : ToolReturns(t, size, commits)
              \/ ToolRaises(t, commits)
  PROVE  TurnsInv'
<1>1. turn[t] \in TurnRow /\ RowInv(turn[t]) /\ DOMAIN turn = Turns
  BY DEF TurnsInv
<1>2. CASE RefuseCall(t) \/ UnknownTool(t)
  BY <1>2, ResultKeeps, EndTurnKeeps DEF RefuseCall, UnknownTool, Is
<1>3. ASSUME NEW tool \in {"read", "write"}, StartTool(t, tool) PROVE TurnsInv'
  <2> DEFINE r == [turn[t] EXCEPT !.tool = tool, !.submitted = 0]
  <2>1. turn' = [turn EXCEPT ![t] = r]
    BY <1>1, <1>3 DEF StartTool
  <2>2. r \in TurnRow
    BY <1>1 DEF TurnRow, Tools
  <2>3. RowInv(r)
    <3>1. /\ r.pc = turn[t].pc /\ r.attempt = turn[t].attempt /\ r.phase = turn[t].phase
          /\ r.round = turn[t].round /\ r.todo = turn[t].todo /\ r.tool = tool
          /\ r.submitted = 0
      BY <1>1 DEF TurnRow
    <3> QED
      BY <1>1, <1>3, <3>1 DEF RowInv, AttemptsFit, StartTool, Is
  <2> HIDE DEF r
  <2> QED
    BY <2>1, <2>2, <2>3, NewRowKeeps
<1>4. ASSUME NEW commits \in BOOLEAN, NEW size \in ResultSizes, ToolReturns(t, size, commits)
      PROVE  TurnsInv'
  <2>1. size \in Nat
    BY AgentAssumption
  <2> QED
    BY <1>4, <2>1, SubmittedFits, ResultKeeps DEF ToolReturns, Is
<1>5. ASSUME NEW commits \in BOOLEAN, ToolRaises(t, commits) PROVE TurnsInv'
  <2>1. turn[t].pc = "tool" /\ turn[t].tool # "none"
    BY <1>5 DEF ToolRaises, Is
  <2>2. CASE Retried(turn[t].tool) /\ turn[t].attempt < ToolRetries
    <3> DEFINE r == [turn[t] EXCEPT !.attempt = @ + 1, !.submitted = Submitted(t, commits)]
    <3>1. turn' = [turn EXCEPT ![t] = r]
      BY <1>1, <1>5, <2>2 DEF ToolRaises
    <3>2. Submitted(t, commits) = 0
      BY <2>1, <2>2, SubmittedFits DEF Retried
    <3>3. r \in TurnRow
      <4> DEFINE a == turn[t].attempt + 1
      <4>1. r = [turn[t] EXCEPT !.attempt = a, !.submitted = 0]
        BY <3>2
      <4>2. a \in Nat
        BY <1>1 DEF TurnRow
      <4> HIDE DEF r, a
      <4> QED
        BY <1>1, <4>1, <4>2 DEF TurnRow
    <3>4. RowInv(r)
      <4>1. /\ r.pc = turn[t].pc /\ r.attempt = turn[t].attempt + 1 /\ r.phase = turn[t].phase
            /\ r.round = turn[t].round /\ r.todo = turn[t].todo /\ r.tool = turn[t].tool
            /\ r.submitted = 0
        BY <1>1, <3>2 DEF TurnRow
      <4>2. r.attempt <= ToolRetries
        BY <1>1, <2>2, <4>1, AgentAssumption DEF TurnRow
      <4> QED
        BY <1>1, <2>1, <4>1, <4>2 DEF RowInv, AttemptsFit
    <3> HIDE DEF r
    <3> QED
      BY <3>1, <3>3, <3>4, NewRowKeeps
  <2>3. CASE ~(Retried(turn[t].tool) /\ turn[t].attempt < ToolRetries)
    <3>1. turn' = Result(t, 1, Submitted(t, commits))
      BY <1>5, <2>3 DEF ToolRaises
    <3> QED
      BY <2>1, <3>1, SubmittedFits, ResultKeeps
  <2> QED
    BY <2>2, <2>3
<1> QED
  BY <1>2, <1>3, <1>4, <1>5

LEMMA BeginAgentKeeps ==
  ASSUME TurnsInv, NEW t \in Turns, NEW matched \in BOOLEAN, BeginAgent(t, matched)
  PROVE  TurnsInv'
<1> DEFINE pc == IF matched THEN "top" ELSE "ask"
           phase == IF matched THEN "loop" ELSE "classify"
           r == [IdleTurn EXCEPT !.pc = pc, !.phase = phase, !.chat = FirstMessages]
<1>1. turn' = [turn EXCEPT ![t] = r]
  BY DEF BeginAgent
<1>2. r \in TurnRow
  <2>1. Question \in Messages
    BY DEF Question, Message, Messages
  <2>2. FirstMessages \in Seq(Messages)
    BY <2>1 DEF FirstMessages
  <2>3. IdleTurn \in TurnRow
    <3>1. IdleTurn = [IdleTurn EXCEPT !.pc = "idle"]
      BY DEF IdleTurn
    <3> QED
      BY <3>1, FreshRow
  <2>4. pc \in TurnPoints /\ phase \in {"classify", "loop", "final"}
    BY DEF TurnPoints
  <2> HIDE DEF pc, phase
  <2> QED
    BY <2>2, <2>3, <2>4 DEF TurnRow
<1>3. RowInv(r)
  BY AgentAssumption DEF IdleTurn, RowInv, AttemptsFit
<1> HIDE DEF r
<1> QED
  BY <1>1, <1>2, <1>3, NewRowKeeps

\* The circuit after a failure is one.
LEMMA CountFailureKeeps ==
  ASSUME BreakerInv, NEW t \in Turns, CountFailure(t)
  PROVE  BreakerInv' /\ openings' = (IF Opens THEN openings + 1 ELSE openings)
<1>1. /\ breaker.failures \in 0..Threshold /\ breaker.open \in BOOLEAN
      /\ breaker.recovered \in BOOLEAN /\ Threshold \in Nat \ {0}
  BY AgentAssumption DEF BreakerInv
<1>2. /\ breaker'.failures = (IF breaker.failures < Threshold
                              THEN breaker.failures + 1 ELSE breaker.failures)
      /\ breaker'.open = (breaker.open \/ breaker.failures + 1 >= Threshold)
  BY DEF CountFailure, BreakerInv
<1>3. breaker' \in [failures : 0..Threshold, open : BOOLEAN, recovered : BOOLEAN]
  <2> DEFINE f == IF breaker.failures < Threshold THEN breaker.failures + 1 ELSE breaker.failures
             o == breaker.open \/ breaker.failures + 1 >= Threshold
  <2>1. breaker' = [breaker EXCEPT !.failures = f, !.open = o] /\ f \in 0..Threshold /\ o \in BOOLEAN
    BY <1>1 DEF CountFailure, BreakerInv
  <2> HIDE DEF f, o
  <2> QED
    BY <2>1 DEF BreakerInv
<1>4. (~breaker.open /\ breaker'.open) <=> Opens
  BY <1>1, <1>2 DEF Opens
<1>5. openings' = IF Opens THEN openings + 1 ELSE openings
  BY <1>4 DEF CountFailure
<1>6. {openings', recorded', unrecorded'} \subseteq Nat
  BY <1>5 DEF BreakerInv, CountFailure
<1> QED
  BY <1>3, <1>5, <1>6 DEF BreakerInv

LEMMA BreakerKeeps ==
  ASSUME BreakerInv,
         \/ \E t \in Turns : Ask(t) \/ RecordSuccess(t) \/ RecordOpening(t) \/ Disconnect(t)
         \/ RecoveryTimePasses
         \/ UNCHANGED <<breaker, records>>
  PROVE  BreakerInv'
<1>1. {openings', recorded', unrecorded'} \subseteq Nat
  BY DEF Ask, RecordSuccess, RecordOpening, Disconnect, RecoveryTimePasses, records, BreakerInv
<1>2. [failures |-> 0, open |-> FALSE, recovered |-> FALSE]
        \in [failures : 0..Threshold, open : BOOLEAN, recovered : BOOLEAN]
  BY AgentAssumption
<1>3. breaker' \in [failures : 0..Threshold, open : BOOLEAN, recovered : BOOLEAN]
  BY <1>2 DEF Ask, RecordSuccess, RecordOpening, Disconnect, RecoveryTimePasses, BreakerInv
<1> QED
  BY <1>1, <1>3 DEF BreakerInv

\* What the account of openings has to know of a step: whether its turn comes to have
\* an opening to record, or has none any more.
LEMMA AccountKept ==
  ASSUME BreakerInv, OpeningsAreAccountedFor, NEW t \in Turns,
         \A u \in Turns \ {t} : turn'[u].pc = turn[u].pc,
         \/ /\ ~Is(t, "opened") /\ turn'[t].pc # "opened" /\ UNCHANGED records
         \/ /\ ~Is(t, "opened") /\ turn'[t].pc = "opened"
            /\ openings' = openings + 1 /\ UNCHANGED <<recorded, unrecorded>>
         \/ /\ Is(t, "opened") /\ turn'[t].pc # "opened" /\ UNCHANGED openings
            /\ \/ recorded' = recorded + 1 /\ UNCHANGED unrecorded
               \/ unrecorded' = unrecorded + 1 /\ UNCHANGED recorded
  PROVE  OpeningsAreAccountedFor'
<1> DEFINE S == {u \in Turns : turn[u].pc = "opened"}
           R == {u \in Turns : turn'[u].pc = "opened"}
<1>1. /\ {openings, recorded, unrecorded} \subseteq Nat
      /\ openings = recorded + unrecorded + Cardinality(S)
  BY DEF BreakerInv, OpeningsAreAccountedFor, Is
<1>2. IsFiniteSet(S) /\ Cardinality(S) \in Nat
  <2>1. S \in SUBSET Turns
    OBVIOUS
  <2> QED
    BY <2>1, AgentAssumption, FS_Subset, FS_CardinalityType
<1>3. (t \in S <=> Is(t, "opened")) /\ (t \in R <=> turn'[t].pc = "opened")
  BY DEF Is
<1>4. \A u \in Turns \ {t} : u \in R <=> u \in S
  OBVIOUS
<1>5. S \subseteq Turns /\ R \subseteq Turns
  OBVIOUS
<1>6. OpeningsAreAccountedFor' <=> openings' = recorded' + unrecorded' + Cardinality(R)
  BY DEF OpeningsAreAccountedFor, Is
<1> HIDE DEF S, R
<1>7. CASE ~Is(t, "opened") /\ turn'[t].pc # "opened" /\ UNCHANGED records
  <2>1. R = S
    BY <1>3, <1>4, <1>5, <1>7
  <2> QED
    BY <1>1, <1>6, <1>7, <2>1 DEF records
<1>8. CASE ~Is(t, "opened") /\ turn'[t].pc = "opened"
  <2>1. R = S \cup {t} /\ t \notin S
    BY <1>3, <1>4, <1>5, <1>8
  <2>2. Cardinality(R) = Cardinality(S) + 1
    BY <1>2, <2>1, FS_AddElement
  <2>3. openings' = openings + 1 /\ UNCHANGED <<recorded, unrecorded>>
    BY <1>8
  <2> QED
    BY <1>1, <1>2, <1>6, <2>2, <2>3
<1>9. CASE Is(t, "opened") /\ turn'[t].pc # "opened"
  <2>1. R = S \ {t} /\ t \in S
    BY <1>3, <1>4, <1>5, <1>9
  <2>2. Cardinality(R) = Cardinality(S) - 1
    BY <1>2, <2>1, FS_RemoveElement
  <2>3. openings' = openings /\ recorded' + unrecorded' = recorded + unrecorded + 1
    BY <1>1, <1>9
  <2>4. {recorded', unrecorded'} \subseteq Nat
    BY <1>1, <1>9
  <2> QED
    BY <1>1, <1>2, <1>6, <2>2, <2>3, <2>4
<1> QED
  BY <1>7, <1>8, <1>9

\* Other steps of a turn than those of an opening neither come to one nor from one.
LEMMA OtherSteps ==
  ASSUME TurnsInv, NEW t \in Turns, TurnStep(t), ~CountFailure(t), ~RecordOpening(t)
  PROVE  /\ \A u \in Turns \ {t} : turn'[u].pc = turn[u].pc
         /\ ~Is(t, "opened") /\ turn'[t].pc # "opened" /\ UNCHANGED records
<1>1. turn[t] \in TurnRow /\ DOMAIN turn = Turns
  BY DEF TurnsInv
<1>2. CASE Ask(t) \/ Succeeds(t) \/ Fails(t) \/ RecordSuccess(t)
  <2>1. AfterPrimary \in {"fallback", "refused"}
    BY DEF AfterPrimary
  <2> QED
    BY <1>1, <1>2, <2>1 DEF Ask, Succeeds, Fails, RecordSuccess, Go, Is, TurnRow
<1>3. CASE TriesAgain(t) \/ Classified(t) \/ Refused(t) \/ Round(t)
  BY <1>1, <1>3 DEF TriesAgain, Classified, Refused, Round, EndTurn, IdleTurn, Is, TurnRow
<1>4. CASE OutOfTime(t) \/ LastAnswer(t) \/ UnknownTool(t)
  BY <1>1, <1>4 DEF OutOfTime, LastAnswer, UnknownTool, EndTurn, IdleTurn, Is
<1>5. CASE \/ \E n \in 1..MaxToolCalls, size \in TextSizes : AnswerWithCalls(t, n, size)
           \/ \E tool \in {"read", "write"} : StartTool(t, tool)
  <2>1. ASSUME NEW n \in 1..MaxToolCalls, NEW size \in TextSizes, AnswerWithCalls(t, n, size)
        PROVE  /\ \A u \in Turns \ {t} : turn'[u].pc = turn[u].pc
               /\ ~Is(t, "opened") /\ turn'[t].pc = "tool" /\ UNCHANGED records
    BY <1>1, <2>1 DEF AnswerWithCalls, Is, TurnRow
  <2>2. ASSUME NEW tool \in {"read", "write"}, StartTool(t, tool)
        PROVE  /\ \A u \in Turns \ {t} : turn'[u].pc = turn[u].pc
               /\ ~Is(t, "opened") /\ turn'[t].pc = "tool" /\ UNCHANGED records
    BY <1>1, <2>2 DEF StartTool, Is, TurnRow
  <2> QED
    BY <1>5, <2>1, <2>2
<1>6. ASSUME NEW size, NEW n, turn' = Result(t, size, n)
      PROVE  turn'[t].pc \in {"tool", "top"} /\ \A u \in Turns \ {t} : turn'[u] = turn[u]
  BY <1>1, <1>6 DEF Result, TurnRow
<1>7. CASE RefuseCall(t)
  BY <1>6, <1>7 DEF RefuseCall, Is
<1>8. ASSUME NEW commits \in BOOLEAN, NEW size \in ResultSizes, ToolReturns(t, size, commits)
      PROVE  /\ \A u \in Turns \ {t} : turn'[u].pc = turn[u].pc
             /\ ~Is(t, "opened") /\ turn'[t].pc # "opened" /\ UNCHANGED records
  BY <1>6, <1>8 DEF ToolReturns, Is
<1>9. ASSUME NEW commits \in BOOLEAN, ToolRaises(t, commits)
      PROVE  /\ \A u \in Turns \ {t} : turn'[u].pc = turn[u].pc
             /\ ~Is(t, "opened") /\ turn'[t].pc # "opened" /\ UNCHANGED records
  <2>1. Is(t, "tool") /\ UNCHANGED records
    BY <1>9 DEF ToolRaises
  <2>2. CASE turn' = Result(t, 1, Submitted(t, commits))
    BY <1>6, <2>1, <2>2 DEF Is
  <2>3. CASE turn' = [turn EXCEPT ![t].attempt = @ + 1, ![t].submitted = Submitted(t, commits)]
    BY <1>1, <2>1, <2>3 DEF Is, TurnRow
  <2> QED
    BY <1>9, <2>2, <2>3 DEF ToolRaises
<1> QED
  BY <1>2, <1>3, <1>4, <1>5, <1>7, <1>8, <1>9 DEF TurnStep

\* Only a failure that finds the circuit closed has an opening to record.
LEMMA OpeningKeeps ==
  ASSUME BreakerInv, TurnsInv, OpeningsAreAccountedFor, NEW t \in Turns,
         CountFailure(t) \/ RecordOpening(t) \/ Disconnect(t)
  PROVE  OpeningsAreAccountedFor'
<1>1. turn[t] \in TurnRow /\ DOMAIN turn = Turns
  BY DEF TurnsInv
<1>2. AfterPrimary \in {"fallback", "refused"}
  BY DEF AfterPrimary
<1>3. CASE CountFailure(t)
  <2>1. /\ Is(t, "failed") /\ UNCHANGED <<recorded, unrecorded>>
        /\ turn'[t].pc = (IF Opens THEN "opened" ELSE AfterPrimary)
        /\ \A u \in Turns \ {t} : turn'[u].pc = turn[u].pc
    BY <1>1, <1>3 DEF CountFailure, Go, TurnRow
  <2>2. openings' = IF Opens THEN openings + 1 ELSE openings
    BY <1>3, CountFailureKeeps
  <2> QED
    BY <1>2, <2>1, <2>2, AccountKept DEF Is, records
<1>4. CASE RecordOpening(t)
  <2>1. /\ Is(t, "opened") /\ UNCHANGED openings
        /\ turn'[t].pc = AfterPrimary /\ \A u \in Turns \ {t} : turn'[u].pc = turn[u].pc
        /\ \/ recorded' = recorded + 1 /\ UNCHANGED unrecorded
           \/ unrecorded' = unrecorded + 1 /\ UNCHANGED recorded
    BY <1>1, <1>4 DEF RecordOpening, Go, TurnRow
  <2> QED
    BY <1>2, <2>1, AccountKept
<1>5. CASE Disconnect(t)
  <2>1. /\ turn'[t].pc = "ended" /\ \A u \in Turns \ {t} : turn'[u].pc = turn[u].pc
        /\ UNCHANGED <<openings, recorded>>
        /\ unrecorded' = IF Is(t, "opened") THEN unrecorded + 1 ELSE unrecorded
    BY <1>1, <1>5 DEF Disconnect, EndTurn, IdleTurn
  <2> QED
    BY <2>1, AccountKept DEF records
<1> QED
  BY <1>3, <1>4, <1>5

LEMMA AgentKeeps == AgentInv /\ [AgentNext]_agentVars => AgentInv'
<1> SUFFICES ASSUME AgentInv, [AgentNext]_agentVars PROVE AgentInv'
  OBVIOUS
<1> USE DEF AgentInv
<1>1. CASE UNCHANGED agentVars
  BY <1>1 DEF agentVars, records, BreakerInv, TurnsInv, OpeningsAreAccountedFor, Is
<1>2. ASSUME NEW t \in Turns, TurnStep(t) PROVE AgentInv'
  <2>1. TurnsInv'
    BY <1>2, ModelCallKeeps, LoopKeeps, ToolKeeps DEF TurnStep
  <2>2. CASE CountFailure(t) \/ RecordOpening(t)
    BY <2>1, <2>2, CountFailureKeeps, BreakerKeeps, OpeningKeeps
  <2>3. CASE ~CountFailure(t) /\ ~RecordOpening(t)
    <3>1. OpeningsAreAccountedFor'
      BY <1>2, <2>3, OtherSteps, AccountKept
    <3>2. CASE Ask(t) \/ RecordSuccess(t)
      BY <2>1, <3>1, <3>2, BreakerKeeps
    <3>3. CASE ~Ask(t) /\ ~RecordSuccess(t)
      <4>1. UNCHANGED breaker
        <5>1. CASE Succeeds(t) \/ TriesAgain(t) \/ Fails(t) \/ Refused(t) \/ Round(t)
          BY <5>1 DEF Succeeds, TriesAgain, Fails, Refused, Round
        <5>2. CASE \/ OutOfTime(t) \/ Classified(t) \/ LastAnswer(t)
                   \/ \E n \in 1..MaxToolCalls, size \in TextSizes : AnswerWithCalls(t, n, size)
          BY <5>2 DEF OutOfTime, Classified, LastAnswer, AnswerWithCalls
        <5>3. CASE \/ RefuseCall(t) \/ UnknownTool(t)
                   \/ \E tool \in {"read", "write"} : StartTool(t, tool)
          BY <5>3 DEF RefuseCall, UnknownTool, StartTool
        <5>4. CASE \E commits \in BOOLEAN :
                     \/ \E size \in ResultSizes : ToolReturns(t, size, commits)
                     \/ ToolRaises(t, commits)
          BY <5>4 DEF ToolReturns, ToolRaises
        <5> QED
          BY <1>2, <2>3, <3>3, <5>1, <5>2, <5>3, <5>4 DEF TurnStep
      <4>2. BreakerInv'
        BY <1>2, <2>3, <4>1, OtherSteps, BreakerKeeps
      <4> QED
        BY <2>1, <3>1, <4>2
    <3> QED
      BY <3>2, <3>3
  <2> QED
    BY <2>2, <2>3
<1>3. ASSUME NEW t \in Turns, NEW matched \in BOOLEAN, BeginAgent(t, matched) PROVE AgentInv'
  <2>1. UNCHANGED <<breaker, records>>
    BY <1>3 DEF BeginAgent
  <2>2. /\ \A u \in Turns \ {t} : turn'[u].pc = turn[u].pc
        /\ ~Is(t, "opened") /\ turn'[t].pc # "opened"
    BY <1>3 DEF BeginAgent, TurnsInv, IdleTurn, Is
  <2> QED
    BY <1>3, <2>1, <2>2, AccountKept, BeginAgentKeeps, BreakerKeeps
<1>4. ASSUME NEW t \in Turns, Disconnect(t) PROVE AgentInv'
  <2>1. TurnsInv'
    BY <1>4, EndTurnKeeps DEF Disconnect
  <2> QED
    BY <1>4, <2>1, OpeningKeeps, BreakerKeeps
<1>5. CASE RecoveryTimePasses
  <2>1. TurnsInv' /\ OpeningsAreAccountedFor'
    BY <1>5 DEF RecoveryTimePasses, records, TurnsInv, OpeningsAreAccountedFor, Is
  <2> QED
    BY <1>5, <2>1, BreakerKeeps
<1> QED
  BY <1>1, <1>2, <1>3, <1>4, <1>5 DEF AgentNext

LEMMA AgentInvariance == AgentSpec => []AgentInv
BY AgentStarts, AgentKeeps, PTL DEF AgentSpec

\* Every variable of Agent keeps its shape, for any number of turns and any limits.
THEOREM AgentTypeCorrect == AgentSpec => []AgentTypeOK
<1>1. AgentInv => AgentTypeOK
  <2> SUFFICES ASSUME AgentInv PROVE AgentTypeOK
    OBVIOUS
  <2>1. \A t \in Turns : turn[t] \in TurnRow /\ AttemptsFit(turn[t])
    BY DEF AgentInv, TurnsInv, RowInv
  <2>2. \A t \in Turns : turn[t].attempt \in 0..(IF Is(t, "tool") THEN ToolRetries ELSE ModelRetries)
    BY <2>1, AgentAssumption DEF TurnRow, AttemptsFit, Is
  <2> QED
    BY <2>1, <2>2 DEF AgentInv, BreakerInv, AgentTypeOK, TurnRow
<1> QED
  BY <1>1, AgentInvariance, PTL

\* A call of execute_sql submits at most one review, however often the registry tries
\* tools again, and also when the answer of the submission is lost.
THEOREM ACallSubmitsOnce == AgentSpec => []OneReviewPerCall
<1>1. AgentInv => OneReviewPerCall
  BY DEF AgentInv, TurnsInv, RowInv, OneReviewPerCall
<1> QED
  BY <1>1, AgentInvariance, PTL

\* The degradation events of the circuit: of the openings of the breaker that all turns
\* share, whatever calls were under way, as many are on record as there were but for
\* those whose insert failed or whose turn was cancelled before, and those of turns
\* that are about to record one.
THEOREM OpeningsAreRecordedOnce == AgentSpec => []OpeningsAreAccountedFor
<1>1. AgentInv => OpeningsAreAccountedFor
  BY DEF AgentInv
<1> QED
  BY <1>1, AgentInvariance, PTL

-----------------------------------------------------------------------------
(* What is sent to the model.  Functions that are defined by what they are  *)
(* at smaller numbers, as the loops of trim_messages are, need induction:   *)
(* SetInduction has it for sets, where the provers can apply it.            *)

\* A set of natural numbers has a least one.
LEMMA LeastExists ==
  ASSUME NEW S, S \subseteq Nat, S # {}
  PROVE  \E x \in S : \A y \in S : x <= y
<1> DEFINE R == OpToRel(<, Nat)
<1>1. IsWellFoundedOn(R, Nat)
  BY NatLessThanWellFounded
<1>2. \A x, y \in Nat : <<x, y>> \in R <=> x < y
  BY DEF OpToRel
<1> HIDE DEF R
<1>3. \E x \in S : \A y \in S : ~(<<y, x>> \in R)
  BY <1>1, WFMin
<1>4. PICK x \in S : \A y \in S : ~(<<y, x>> \in R)
  BY <1>3
<1>5. ASSUME NEW y \in S PROVE x <= y
  <2>1. x \in Nat /\ y \in Nat
    OBVIOUS
  <2>2. ~(y < x)
    BY <1>2, <1>4, <2>1
  <2> QED
    BY <2>1, <2>2
<1> QED
  BY <1>5

\* Induction, over a set instead of a predicate.
LEMMA SetInduction ==
  ASSUME NEW S, 0 \in S, \A n \in Nat : n \in S => n + 1 \in S
  PROVE  Nat \subseteq S
<1> SUFFICES ASSUME Nat \ S # {} PROVE FALSE
  OBVIOUS
<1>1. PICK x \in Nat \ S : \A y \in Nat \ S : x <= y
  BY LeastExists
<1>2. x # 0
  BY <1>1
<1>3. x - 1 \in Nat /\ ~(x <= x - 1) /\ x - 1 + 1 = x
  BY <1>2
<1>4. x - 1 \in S
  BY <1>1, <1>3
<1> QED
  BY <1>1, <1>3, <1>4

\* f iterates n steps from v, each of them a function on V.
AreSteps(step, n, V) == step \in [1..n -> [V -> V]]
Iterates(f, step, n, v, V) ==
  f \in [0..n -> V] /\ f[0] = v /\ \A k \in 1..n : f[k] = step[k][f[k - 1]]

LEMMA IterationExists ==
  ASSUME NEW V, NEW v \in V, NEW n \in Nat, NEW step, AreSteps(step, n, V)
  PROVE  \E f : Iterates(f, step, n, v, V)
<1> USE DEF AreSteps, Iterates
<1> DEFINE It(f, m) == Iterates(f, step, m, v, V)
           S == {m \in Nat : m <= n => \E f : It(f, m)}
<1>1. 0 \in S
  <2>1. It([k \in 0..0 |-> v], 0)
    OBVIOUS
  <2> QED
    BY <2>1
<1>2. ASSUME NEW m \in Nat, m \in S PROVE m + 1 \in S
  <2> SUFFICES ASSUME m + 1 <= n PROVE \E f : It(f, m + 1)
    OBVIOUS
  <2>1. PICK f : It(f, m)
    <3>1. m <= n
      OBVIOUS
    <3> QED
      BY <1>2, <3>1
  <2> DEFINE w == step[m + 1][f[m]]
             g == [k \in 0..(m + 1) |-> IF k = m + 1 THEN w ELSE f[k]]
  <2>2. f[m] \in V /\ m + 1 \in 1..n
    BY <2>1
  <2>3. w \in V
    BY <2>2
  <2>4. \A k \in 0..m : g[k] = f[k]
    OBVIOUS
  <2>5. g[m + 1] = w
    OBVIOUS
  <2>6. g \in [0..(m + 1) -> V]
    BY <2>1, <2>3
  <2> HIDE DEF g
  <2>7. ASSUME NEW k \in 1..(m + 1) PROVE g[k] = step[k][g[k - 1]]
    <3>1. CASE k = m + 1
      BY <2>4, <2>5, <3>1
    <3>2. CASE k # m + 1
      <4>1. k \in 1..m /\ k - 1 \in 0..m
        BY <3>2
      <4> QED
        BY <2>1, <2>4, <4>1
    <3> QED
      BY <3>1, <3>2
  <2>8. It(g, m + 1)
    BY <2>1, <2>4, <2>6, <2>7
  <2> QED
    BY <2>8
<1>3. n \in S
  <2> HIDE DEF S
  <2> QED
    BY <1>1, <1>2, SetInduction
<1> QED
  BY <1>3

\* The sizes of the beginnings of a sequence of messages.
LEMMA SizesAre ==
  ASSUME NEW ms \in Seq(Messages)
  PROVE  Sizes(ms) = [k \in 0..Len(ms) |-> IF k = 0 THEN 0 ELSE Sizes(ms)[k - 1] + ms[k].size]
<1> DEFINE n == Len(ms)
           step == [k \in 1..n |-> [total \in Nat |-> total + ms[k].size]]
<1>1. n \in Nat /\ 0 \in Nat
  OBVIOUS
<1>2. \A k \in 1..n : ms[k] \in Messages
  OBVIOUS
<1>3. \A k \in 1..n : ms[k].size \in Nat
  BY <1>2 DEF Messages
<1>4. AreSteps(step, n, Nat)
  BY <1>3 DEF AreSteps
<1>5. PICK f : Iterates(f, step, n, 0, Nat)
  <2> HIDE DEF step, n
  <2> QED
    BY <1>1, <1>4, IterationExists
<1>6. ASSUME NEW k \in 1..n PROVE f[k] = f[k - 1] + ms[k].size
  <2>1. f \in [0..n -> Nat] /\ f[k] = step[k][f[k - 1]]
    BY <1>5 DEF Iterates
  <2>2. f[k - 1] \in Nat
    <3> HIDE DEF step, n
    <3>1. k - 1 \in 0..n
      BY <1>1
    <3> QED
      BY <2>1, <3>1
  <2> QED
    BY <2>1, <2>2
<1>7. f = [k \in 0..n |-> IF k = 0 THEN 0 ELSE f[k - 1] + ms[k].size]
  <2> HIDE DEF n, step
  <2>1. f \in [0..n -> Nat] /\ f[0] = 0
    BY <1>5 DEF Iterates
  <2>2. ASSUME NEW k \in 0..n
        PROVE  f[k] = IF k = 0 THEN 0 ELSE f[k - 1] + ms[k].size
    <3>1. CASE k = 0
      BY <2>1, <3>1
    <3>2. CASE k # 0
      <4>1. k \in 1..n
        BY <1>1, <3>2
      <4> QED
        BY <1>6, <3>2, <4>1
    <3> QED
      BY <3>1, <3>2
  <2> QED
    BY <2>1, <2>2
<1> QED
  BY <1>7 DEF Sizes

LEMMA SizesGrow ==
  ASSUME NEW ms \in Seq(Messages)
  PROVE  /\ Sizes(ms)[0] = 0
         /\ \A k \in 1..Len(ms) : Sizes(ms)[k] = Sizes(ms)[k - 1] + ms[k].size
         /\ \A k \in 0..Len(ms) : Sizes(ms)[k] \in Nat
<1> DEFINE f == Sizes(ms)
           n == Len(ms)
<1>1. n \in Nat
  OBVIOUS
<1>2. f = [k \in 0..n |-> IF k = 0 THEN 0 ELSE f[k - 1] + ms[k].size]
  BY SizesAre
<1>3. \A k \in 1..n : ms[k].size \in Nat
  <2>1. \A k \in 1..n : ms[k] \in Messages
    OBVIOUS
  <2> QED
    BY <2>1 DEF Messages
<1> HIDE DEF f, n
<1>4. f[0] = 0 /\ \A k \in 1..n : f[k] = f[k - 1] + ms[k].size
  <2>1. f[0] = 0
    BY <1>1, <1>2
  <2>2. ASSUME NEW k \in 1..n PROVE f[k] = f[k - 1] + ms[k].size
    <3>1. k \in 0..n /\ k # 0
      BY <1>1
    <3> QED
      BY <1>2, <3>1
  <2> QED
    BY <2>1, <2>2
<1> DEFINE S == {k \in Nat : k <= n => f[k] \in Nat}
<1>5. 0 \in S
  BY <1>4
<1>6. ASSUME NEW k \in Nat, k \in S PROVE k + 1 \in S
  <2> SUFFICES ASSUME k + 1 <= n PROVE f[k + 1] \in Nat
    OBVIOUS
  <2>1. k + 1 \in 1..n /\ f[k] \in Nat /\ k + 1 - 1 = k
    BY <1>1, <1>6
  <2> QED
    BY <1>3, <1>4, <2>1
<1>7. Nat \subseteq S
  <2> HIDE DEF S
  <2> QED
    BY <1>5, <1>6, SetInduction
<1>8. \A k \in 0..n : f[k] \in Nat
  BY <1>7
<1> QED
  BY <1>4, <1>8 DEF f, n

LEMMA TotalIsNat ==
  ASSUME NEW ms \in Seq(Messages) PROVE TotalSize(ms) \in Nat
<1>1. Len(ms) \in 0..Len(ms)
  OBVIOUS
<1> QED
  BY <1>1, SizesGrow DEF TotalSize

LEMMA NothingHasNoSize == TotalSize(<<>>) = 0
<1>1. <<>> \in Seq(Messages) /\ Len(<<>>) = 0
  OBVIOUS
<1> QED
  BY <1>1, SizesGrow DEF TotalSize

LEMMA SizeOfOne ==
  ASSUME NEW m \in Messages PROVE TotalSize(<<m>>) = m.size
<1>1. <<m>> \in Seq(Messages) /\ Len(<<m>>) = 1 /\ <<m>>[1] = m
  OBVIOUS
<1>2. m.size \in Nat
  BY DEF Messages
<1> DEFINE ms == <<m>>
<1>3. Sizes(ms)[0] = 0 /\ Sizes(ms)[1] = Sizes(ms)[0] + m.size
  <2> HIDE DEF ms
  <2>1. 1 \in 1..Len(ms) /\ 1 - 1 = 0
    BY <1>1 DEF ms
  <2>2. Sizes(ms)[1] = Sizes(ms)[1 - 1] + ms[1].size /\ Sizes(ms)[0] = 0
    BY <1>1, <2>1, SizesGrow DEF ms
  <2> QED
    BY <1>1, <2>1, <2>2 DEF ms
<1> HIDE DEF ms
<1>4. TotalSize(ms) = m.size
  BY <1>1, <1>2, <1>3 DEF TotalSize, ms
<1> QED
  BY <1>4 DEF ms

LEMMA SizesAddUp ==
  ASSUME NEW ms \in Seq(Messages), NEW ns \in Seq(Messages)
  PROVE  TotalSize(ms \o ns) = TotalSize(ms) + TotalSize(ns)
<1> DEFINE f == Sizes(ms)
           g == Sizes(ns)
           both == ms \o ns
           h == Sizes(both)
           l == Len(ms)
           n == Len(ns)
           S == {k \in Nat : k <= l => h[k] = f[k]}
           T == {k \in Nat : k <= n => h[l + k] = f[l] + g[k]}
<1>1. /\ l \in Nat /\ n \in Nat /\ both \in Seq(Messages) /\ Len(both) = l + n
      /\ \A k \in 1..l : both[k] = ms[k]
      /\ \A k \in 1..n : both[l + k] = ns[k]
  BY ConcatProperties
<1>2. /\ \A k \in 1..l : ms[k].size \in Nat
      /\ \A k \in 1..n : ns[k].size \in Nat
  <2>1. /\ \A k \in 1..l : ms[k] \in Messages
        /\ \A k \in 1..n : ns[k] \in Messages
    OBVIOUS
  <2> QED
    BY <2>1 DEF Messages
<1>3. /\ f[0] = 0 /\ g[0] = 0 /\ h[0] = 0
      /\ \A k \in 1..l : f[k] = f[k - 1] + ms[k].size
      /\ \A k \in 1..n : g[k] = g[k - 1] + ns[k].size
      /\ \A k \in 1..(l + n) : h[k] = h[k - 1] + both[k].size
      /\ \A k \in 0..l : f[k] \in Nat
      /\ \A k \in 0..n : g[k] \in Nat
  <2>1. /\ f[0] = 0
        /\ \A k \in 1..l : f[k] = f[k - 1] + ms[k].size
        /\ \A k \in 0..l : f[k] \in Nat
    BY SizesGrow
  <2>2. /\ g[0] = 0
        /\ \A k \in 1..n : g[k] = g[k - 1] + ns[k].size
        /\ \A k \in 0..n : g[k] \in Nat
    BY SizesGrow
  <2>3. /\ h[0] = 0
        /\ \A k \in 1..Len(both) : h[k] = h[k - 1] + both[k].size
    <3> HIDE DEF both
    <3> QED
      BY <1>1, SizesGrow
  <2> HIDE DEF f, g, h, l, n, both
  <2> QED
    BY <1>1, <2>1, <2>2, <2>3
<1> HIDE DEF f, g, h, l, n, both
<1>4. ASSUME NEW k \in Nat, k \in S PROVE k + 1 \in S
  <2> SUFFICES ASSUME k + 1 <= l PROVE h[k + 1] = f[k + 1]
    OBVIOUS
  <2>1. /\ k + 1 \in 1..l /\ k + 1 \in 1..(l + n) /\ k + 1 - 1 = k
        /\ h[k] = f[k]
    BY <1>1, <1>4
  <2>2. h[k + 1] = h[k] + both[k + 1].size
    BY <1>3, <2>1
  <2>3. both[k + 1] = ms[k + 1]
    BY <1>1, <2>1
  <2>4. f[k + 1] = f[k] + ms[k + 1].size
    BY <1>3, <2>1
  <2> QED
    BY <2>1, <2>2, <2>3, <2>4
<1>5. Nat \subseteq S
  <2>1. 0 \in S
    BY <1>3
  <2> HIDE DEF S
  <2> QED
    BY <1>4, <2>1, SetInduction
<1>6. h[l] = f[l]
  BY <1>1, <1>5
<1>7. ASSUME NEW k \in Nat, k \in T PROVE k + 1 \in T
  <2> SUFFICES ASSUME k + 1 <= n PROVE h[l + (k + 1)] = f[l] + g[k + 1]
    OBVIOUS
  <2> DEFINE i == l + (k + 1)
  <2>1. /\ k + 1 \in 1..n /\ i \in 1..(l + n) /\ k + 1 - 1 = k
        /\ i - 1 = l + k /\ k \in 0..n /\ l \in 0..l
    BY <1>1, <1>7
  <2>2. h[l + k] = f[l] + g[k]
    BY <1>1, <1>7, <2>1
  <2>3. h[i] = h[l + k] + ns[k + 1].size
    <3>1. both[i] = ns[k + 1]
      BY <1>1, <2>1
    <3> HIDE DEF i
    <3> QED
      BY <1>3, <2>1, <3>1
  <2>4. g[k + 1] = g[k] + ns[k + 1].size
    BY <1>3, <2>1
  <2>5. f[l] \in Nat /\ g[k] \in Nat /\ ns[k + 1].size \in Nat
    BY <1>2, <1>3, <2>1
  <2> QED
    BY <2>2, <2>3, <2>4, <2>5
<1>8. Nat \subseteq T
  <2>1. 0 \in T
    <3>1. f[l] \in Nat /\ l + 0 = l
      BY <1>1, <1>3
    <3> QED
      BY <1>3, <1>6, <3>1
  <2> HIDE DEF T
  <2> QED
    BY <1>7, <2>1, SetInduction
<1>9. h[l + n] = f[l] + g[n]
  BY <1>1, <1>8
<1> QED
  BY <1>1, <1>9 DEF TotalSize, f, g, h, l, n, both

\* A loop through messages: what it keeps counts at least what its messages have.
LoopStates == [total : Nat, kept : Seq(Messages), at : {"next", "result", "full"}]
CountsEnough(s, first) ==
  /\ s \in LoopStates
  /\ s.total <= Budget + CutSize
  /\ first + TotalSize(s.kept) <= s.total

LEMMA KeepingMore ==
  ASSUME NEW s \in LoopStates, NEW m \in Messages
  PROVE  /\ <<m>> \o s.kept \in Seq(Messages)
         /\ TotalSize(<<m>> \o s.kept) = m.size + TotalSize(s.kept)
         /\ TotalSize(s.kept) \in Nat /\ s.total \in Nat /\ m.size \in Nat
<1>1. s.kept \in Seq(Messages) /\ s.total \in Nat /\ m.size \in Nat
  BY DEF LoopStates, Messages
<1>2. <<m>> \in Seq(Messages)
  OBVIOUS
<1> QED
  BY <1>1, <1>2, ConcatProperties, SizesAddUp, SizeOfOne, TotalIsNat

LEMMA KeepMessageCounts ==
  ASSUME NEW s \in LoopStates, NEW m \in Messages
  PROVE  /\ KeepMessage(s, m) \in LoopStates
         /\ \A first \in Nat : CountsEnough(s, first) /\ Fits(s, m)
                                => CountsEnough(KeepMessage(s, m), first)
<1> DEFINE total == s.total + m.size
           kept == <<m>> \o s.kept
           r == KeepMessage(s, m)
<1>1. r = [total |-> total, kept |-> kept, at |-> "next"]
  BY DEF KeepMessage
<1>2. /\ kept \in Seq(Messages) /\ TotalSize(kept) = m.size + TotalSize(s.kept)
      /\ TotalSize(s.kept) \in Nat /\ s.total \in Nat /\ m.size \in Nat
  BY KeepingMore
<1> HIDE DEF r, kept
<1>3. total \in Nat
  BY <1>2
<1>4. r \in LoopStates /\ r.total = total /\ r.kept = kept
  BY <1>1, <1>2, <1>3 DEF LoopStates
<1>5. ASSUME NEW first \in Nat, CountsEnough(s, first), Fits(s, m) PROVE CountsEnough(r, first)
  <2>1. first + TotalSize(s.kept) <= s.total /\ m.size + s.total <= Budget
    BY <1>5 DEF CountsEnough, Fits
  <2> QED
    BY <1>2, <1>4, <2>1, ContextAssumption DEF CountsEnough
<1> QED
  BY <1>4, <1>5 DEF r

LEMMA KeepResultCounts ==
  ASSUME NEW s \in LoopStates, NEW m \in Messages
  PROVE  /\ KeepResult(s, m) \in LoopStates
         /\ \A first \in Nat : CountsEnough(s, first) /\ s.total < Budget
                                => CountsEnough(KeepResult(s, m), first)
<1> DEFINE cut == [m EXCEPT !.size = Shortened(m.size)]
           total == s.total + (IF Fits(s, m) THEN m.size ELSE Shortened(m.size))
           kept == <<cut>> \o s.kept
           r == KeepResult(s, m)
<1>1. r = [total |-> total, kept |-> kept, at |-> "result"]
  BY DEF KeepResult
<1>2. /\ Shortened(m.size) \in Nat /\ Shortened(m.size) <= m.size
      /\ Shortened(m.size) <= CutSize /\ m.size \in Nat
  BY ContextAssumption DEF Shortened, Messages
<1>3. cut \in Messages /\ cut.size = Shortened(m.size)
  BY <1>2 DEF Messages
<1> HIDE DEF cut
<1>4. /\ kept \in Seq(Messages) /\ TotalSize(kept) = cut.size + TotalSize(s.kept)
      /\ TotalSize(s.kept) \in Nat /\ s.total \in Nat
  BY <1>3, KeepingMore
<1>5. total \in Nat
  BY <1>2, <1>4
<1> HIDE DEF r, kept, total
<1>6. r \in LoopStates /\ r.total = total /\ r.kept = kept
  BY <1>1, <1>4, <1>5 DEF LoopStates
<1>7. ASSUME NEW first \in Nat, CountsEnough(s, first), s.total < Budget
      PROVE  CountsEnough(r, first)
  <2>1. first + TotalSize(s.kept) <= s.total
    BY <1>7 DEF CountsEnough
  <2>2. s.total + cut.size <= total /\ total <= Budget + CutSize
    BY <1>2, <1>3, <1>4, <1>7, ContextAssumption DEF total, Fits
  <2>3. first + TotalSize(kept) <= total
    BY <1>2, <1>3, <1>4, <1>5, <2>1, <2>2
  <2> QED
    BY <1>6, <2>2, <2>3 DEF CountsEnough
<1> QED
  BY <1>6, <1>7 DEF r

LEMMA LookBackCounts ==
  ASSUME NEW s \in LoopStates, NEW m \in Messages
  PROVE  /\ LookBack(s, m) \in LoopStates
         /\ \A first \in Nat : CountsEnough(s, first) => CountsEnough(LookBack(s, m), first)
<1> DEFINE r == LookBack(s, m)
<1>1. \/ Fits(s, m) /\ r = KeepMessage(s, m)
      \/ s.total < Budget /\ r = KeepResult(s, m)
      \/ \E at \in {"next", "full"} : r = [s EXCEPT !.at = at]
  BY ContextAssumption DEF LookBack, LoopStates
<1> HIDE DEF r
<1>2. ASSUME NEW at \in {"next", "full"}, r = [s EXCEPT !.at = at]
      PROVE  /\ r \in LoopStates
             /\ \A first \in Nat : CountsEnough(s, first) => CountsEnough(r, first)
  <2>1. r \in LoopStates /\ r.total = s.total /\ r.kept = s.kept
    BY <1>2 DEF LoopStates
  <2> QED
    BY <2>1 DEF CountsEnough
<1>3. /\ r \in LoopStates
      /\ \A first \in Nat : CountsEnough(s, first) => CountsEnough(r, first)
  BY <1>1, <1>2, KeepMessageCounts, KeepResultCounts
<1> QED
  BY <1>3 DEF r

\* A loop from the last of some messages, with a total that is counted already.
LEMMA ScanIs ==
  ASSUME NEW ms \in Seq(Messages), NEW total \in Nat
  PROVE  Scan(ms, total) = [k \in 0..Len(ms) |->
           IF k = 0 THEN Start(total)
           ELSE LookBack(Scan(ms, total)[k - 1], ms[Len(ms) + 1 - k])]
<1> DEFINE n == Len(ms)
           step == [k \in 1..n |-> [s \in LoopStates |-> LookBack(s, ms[n + 1 - k])]]
<1>1. n \in Nat /\ \A k \in 1..n : ms[n + 1 - k] \in Messages
  OBVIOUS
<1>2. Start(total) \in LoopStates
  BY DEF Start, LoopStates
<1>3. AreSteps(step, n, LoopStates)
  BY <1>1, LookBackCounts DEF AreSteps
<1>4. PICK f : Iterates(f, step, n, Start(total), LoopStates)
  <2> HIDE DEF step, n
  <2> QED
    BY <1>1, <1>2, <1>3, IterationExists
<1>5. ASSUME NEW k \in 1..n PROVE f[k] = LookBack(f[k - 1], ms[n + 1 - k])
  <2>1. f[k - 1] \in LoopStates
    BY <1>4 DEF Iterates
  <2> QED
    BY <1>4, <2>1 DEF Iterates
<1>6. f = [k \in 0..n |-> IF k = 0 THEN Start(total) ELSE LookBack(f[k - 1], ms[n + 1 - k])]
  <2>1. f \in [0..n -> LoopStates] /\ f[0] = Start(total)
    BY <1>4 DEF Iterates
  <2> HIDE DEF n, step
  <2>2. ASSUME NEW k \in 0..n
        PROVE  f[k] = IF k = 0 THEN Start(total) ELSE LookBack(f[k - 1], ms[n + 1 - k])
    <3>1. CASE k = 0
      BY <2>1, <3>1
    <3>2. CASE k # 0
      <4>1. k \in 1..n
        BY <1>1, <3>2
      <4> QED
        BY <1>5, <3>2, <4>1
    <3> QED
      BY <3>1, <3>2
  <2> QED
    BY <2>1, <2>2
<1> QED
  BY <1>6 DEF Scan

LEMMA KeepBackCounts ==
  ASSUME NEW ms \in Seq(Messages), NEW total \in Nat, NEW first \in Nat,
         first <= total, total <= Budget + CutSize
  PROVE  CountsEnough(KeepBack(ms, total), first)
<1> DEFINE n == Len(ms)
           f == Scan(ms, total)
           S == {k \in Nat : k <= n => CountsEnough(f[k], first)}
<1>1. n \in Nat /\ \A k \in 1..n : ms[n + 1 - k] \in Messages
  OBVIOUS
<1>2. f = [k \in 0..n |-> IF k = 0 THEN Start(total) ELSE LookBack(f[k - 1], ms[n + 1 - k])]
  BY ScanIs
<1> HIDE DEF f, n
<1>3. f[0] = Start(total) /\ \A k \in 1..n : f[k] = LookBack(f[k - 1], ms[n + 1 - k])
  BY <1>1, <1>2
<1>4. 0 \in S
  <2>1. /\ f[0] \in LoopStates /\ f[0].total = total /\ f[0].kept = <<>>
    BY <1>3 DEF Start, LoopStates
  <2> QED
    BY <2>1, NothingHasNoSize, ContextAssumption DEF CountsEnough
<1>5. ASSUME NEW k \in Nat, k \in S PROVE k + 1 \in S
  <2> SUFFICES ASSUME k + 1 <= n PROVE CountsEnough(f[k + 1], first)
    OBVIOUS
  <2>1. k + 1 \in 1..n /\ k + 1 - 1 = k /\ CountsEnough(f[k], first)
    BY <1>1, <1>5
  <2> DEFINE j == k + 1
             m == ms[n + 1 - j]
  <2>2. m \in Messages /\ f[k + 1] = LookBack(f[k], m)
    <3>1. j \in 1..n /\ j - 1 = k
      BY <1>1, <2>1
    <3> HIDE DEF j
    <3>2. m \in Messages /\ f[j] = LookBack(f[j - 1], m)
      BY <1>1, <1>3, <3>1
    <3> QED
      BY <3>1, <3>2 DEF j
  <2> HIDE DEF m
  <2>3. f[k] \in LoopStates
    BY <2>1 DEF CountsEnough
  <2> QED
    BY <2>1, <2>2, <2>3, LookBackCounts
<1>6. Nat \subseteq S
  <2> HIDE DEF S
  <2> QED
    BY <1>4, <1>5, SetInduction
<1>7. CountsEnough(f[n], first)
  BY <1>1, <1>6
<1> QED
  BY <1>7 DEF KeepBack, f, n

LEMMA LastUserExists ==
  ASSUME NEW ms \in Seq(Messages), HasQuestion(ms)
  PROVE  LastUser(ms) \in DOMAIN ms /\ ms[LastUser(ms)].role = "user"
<1> DEFINE n == Len(ms)
           D == {d \in Nat : n - d \in 1..n /\ ms[n - d].role = "user"}
<1>1. n \in Nat /\ DOMAIN ms = 1..n
  OBVIOUS
<1>2. \A i \in 1..n : ms[i].role = "user" => n - i \in D
  <2> SUFFICES ASSUME NEW i \in 1..n, ms[i].role = "user" PROVE n - i \in D
    OBVIOUS
  <2>1. n - (n - i) = i /\ n - i \in Nat
    BY <1>1
  <2> QED
    BY <2>1
<1>3. D \subseteq Nat /\ D # {}
  BY <1>1, <1>2 DEF HasQuestion
<1>4. PICK d \in D : \A e \in D : d <= e
  <2> HIDE DEF D
  <2> QED
    BY <1>3, LeastExists
<1> DEFINE i == n - d
<1>5. i \in 1..n /\ ms[i].role = "user"
  BY <1>4
<1>6. ASSUME NEW j \in 1..n, ms[j].role = "user" PROVE j <= i
  <2>1. d <= n - j
    BY <1>2, <1>4, <1>6
  <2> QED
    BY <1>1, <1>4, <2>1
<1>7. \E l \in DOMAIN ms : ms[l].role = "user" /\
        \A j \in DOMAIN ms : ms[j].role = "user" => j <= l
  <2> HIDE DEF i, n
  <2> QED
    BY <1>1, <1>5, <1>6
<1> HIDE DEF i, n, D
<1> QED
  BY <1>7 DEF LastUser

\* What is sent of any messages that have a question: the newest one is in it, and the
\* budget is exceeded by a cut tool result at most.
LEMMA TrimmedFits ==
  ASSUME NEW ms \in Seq(Messages), HasQuestion(ms)
  PROVE  /\ TotalSize(Trimmed(ms)) <= Budget + CutSize
         /\ HasQuestion(Trimmed(ms))
<1> DEFINE a == LastUser(ms)
           m == ms[a]
           later == SubSeq(ms, a + 1, Len(ms))
           after == KeepBack(later, m.size)
           earlier == SubSeq(ms, 1, a - 1)
           before == KeepBack(earlier, after.total)
           short == [m EXCEPT !.size = Budget]
<1>1. a \in 1..Len(ms) /\ m \in Messages /\ m.role = "user" /\ m.size \in Nat
  <2>1. a \in 1..Len(ms) /\ m.role = "user"
    BY LastUserExists
  <2>2. m \in Messages
    BY <2>1
  <2> QED
    BY <2>1, <2>2 DEF Messages
<1>2. later \in Seq(Messages) /\ earlier \in Seq(Messages)
  <2> HIDE DEF a
  <2>1. /\ \A i \in (a + 1)..Len(ms) : ms[i] \in Messages
        /\ \A i \in 1..(a - 1) : ms[i] \in Messages
        /\ {a + 1, Len(ms), 1, a - 1} \subseteq Int
    BY <1>1
  <2> QED
    BY <2>1, SubSeqProperties
<1>3. CASE m.size > Budget
  <2>1. Trimmed(ms) = <<short>>
    BY <1>3 DEF Trimmed
  <2>2. short \in Messages /\ short.role = "user" /\ short.size = Budget
    <3> HIDE DEF m
    <3> QED
      BY <1>1, ContextAssumption DEF Messages
  <2> HIDE DEF short
  <2>3. TotalSize(<<short>>) = Budget
    BY <2>2, SizeOfOne
  <2>4. HasQuestion(<<short>>)
    <3>1. 1 \in DOMAIN <<short>> /\ <<short>>[1].role = "user"
      BY <2>2
    <3> QED
      BY <3>1 DEF HasQuestion
  <2> QED
    BY <2>1, <2>3, <2>4, ContextAssumption
<1>4. CASE ~(m.size > Budget)
  <2>1. Trimmed(ms) = before.kept \o <<m>> \o after.kept
    BY <1>4, Zenon DEF Trimmed
  <2> HIDE DEF m, a, later, earlier
  <2>2. CountsEnough(after, m.size)
    BY <1>1, <1>2, <1>4, KeepBackCounts, ContextAssumption
  <2> HIDE DEF after
  <2>3. after.total \in Nat /\ after.kept \in Seq(Messages) /\ TotalSize(after.kept) \in Nat
    BY <2>2, TotalIsNat DEF CountsEnough, LoopStates
  <2>4. CountsEnough(before, after.total)
    <3>1. after.total <= Budget + CutSize /\ after.total <= after.total
      BY <2>2, <2>3 DEF CountsEnough
    <3> QED
      BY <1>2, <2>3, <3>1, KeepBackCounts
  <2> HIDE DEF before
  <2>5. before.total \in Nat /\ before.kept \in Seq(Messages) /\ TotalSize(before.kept) \in Nat
    BY <2>4, TotalIsNat DEF CountsEnough, LoopStates
  <2> DEFINE one == <<m>>
             head == before.kept \o one
  <2>6. one \in Seq(Messages) /\ Len(one) = 1 /\ one[1] = m
    BY <1>1
  <2>7. TotalSize(one) = m.size
    BY <1>1, SizeOfOne
  <2> HIDE DEF one
  <2>8. head \in Seq(Messages) /\ TotalSize(head) = TotalSize(before.kept) + m.size
    BY <2>5, <2>6, <2>7, SizesAddUp, ConcatProperties
  <2>9. TotalSize(Trimmed(ms)) <= Budget + CutSize
    <3>1. Trimmed(ms) = head \o after.kept
      BY <2>1 DEF one
    <3> HIDE DEF head
    <3>2. TotalSize(Trimmed(ms)) = TotalSize(before.kept) + m.size + TotalSize(after.kept)
      BY <2>3, <2>8, <3>1, SizesAddUp
    <3>3. m.size + TotalSize(after.kept) <= after.total
      BY <2>2 DEF CountsEnough
    <3>4. /\ after.total + TotalSize(before.kept) <= before.total
          /\ before.total <= Budget + CutSize
      BY <2>4 DEF CountsEnough
    <3>5. TotalSize(before.kept) + m.size + TotalSize(after.kept) <= before.total
      BY <1>1, <2>3, <2>5, <3>3, <3>4
    <3>6. before.total <= Budget + CutSize
      BY <3>4
    <3> QED
      BY <1>1, <2>3, <2>5, <3>2, <3>5, <3>6, ContextAssumption
  <2>10. HasQuestion(Trimmed(ms))
    <3> DEFINE i == Len(before.kept) + 1
    <3>1. i \in 1..Len(head) /\ head[i] = m
      <4> DEFINE kept == before.kept
      <4>1. kept \in Seq(Messages) /\ Len(kept) \in Nat
        BY <2>5
      <4> HIDE DEF kept
      <4>2. /\ Len(kept \o one) = Len(kept) + Len(one)
            /\ \A j \in 1..(Len(kept) + Len(one)) :
                 (kept \o one)[j] = IF j <= Len(kept) THEN kept[j] ELSE one[j - Len(kept)]
        BY <2>6, <4>1, ConcatProperties
      <4> DEFINE l == Len(kept) + 1
      <4>3. l \in 1..(Len(kept) + Len(one)) /\ ~(l <= Len(kept)) /\ l - Len(kept) = 1
        BY <2>6, <4>1
      <4> HIDE DEF l
      <4>4. (kept \o one)[l] = one[1]
        BY <4>2, <4>3
      <4> QED
        BY <2>6, <4>2, <4>3, <4>4 DEF kept, l
    <3> HIDE DEF head, i
    <3>2. i \in DOMAIN (head \o after.kept) /\ (head \o after.kept)[i] = m
      BY <2>3, <2>8, <3>1, ConcatProperties
    <3> QED
      BY <1>1, <2>1, <3>2 DEF head, one, HasQuestion
  <2> QED
    BY <2>9, <2>10, Zenon
<1> QED
  BY <1>3, <1>4

\* A turn that runs has its question first: what comes later is appended.
AsksFirst(row) == row.pc \notin {"idle", "ended"} => row.chat # <<>> /\ row.chat[1].role = "user"
ChatInv == \A t \in Turns : AsksFirst(turn[t])

\* A step of a turn ends it, or adds at most one message to those it has.
LEMMA ChatsGrow ==
  ASSUME TurnsInv, NEW t \in Turns, TurnStep(t)
  PROVE  /\ turn[t].pc \notin {"idle", "ended"}
         /\ \A u \in Turns \ {t} : turn'[u] = turn[u]
         /\ \/ turn'[t].pc = "ended"
            \/ turn'[t].chat = turn[t].chat
            \/ \E m \in Messages : turn'[t].chat = Append(turn[t].chat, m)
<1>1. /\ turn[t] \in TurnRow /\ RowInv(turn[t]) /\ DOMAIN turn = Turns
      /\ turn[t].round \in 0..MaxRounds /\ Question \in Messages
  BY DEF TurnsInv, TurnRow, Question, Message, Messages
<1>2. CASE Ask(t) \/ Succeeds(t) \/ Fails(t) \/ RecordSuccess(t)
           \/ CountFailure(t) \/ RecordOpening(t)
  BY <1>1, <1>2 DEF Ask, Succeeds, Fails, RecordSuccess, CountFailure, RecordOpening, Go, Is, TurnRow
<1>3. CASE TriesAgain(t) \/ Classified(t) \/ Refused(t)
  BY <1>1, <1>3 DEF TriesAgain, Classified, Refused, EndTurn, IdleTurn, Is, TurnRow
<1>4. CASE OutOfTime(t) \/ LastAnswer(t) \/ UnknownTool(t)
  BY <1>1, <1>4 DEF OutOfTime, LastAnswer, UnknownTool, EndTurn, IdleTurn, Is
<1>5. CASE Round(t)
  BY <1>1, <1>5 DEF Round, Is, TurnRow
<1>6. ASSUME NEW n \in 1..MaxToolCalls, NEW size \in TextSizes, AnswerWithCalls(t, n, size)
      PROVE  /\ turn[t].pc \notin {"idle", "ended"}
             /\ \A u \in Turns \ {t} : turn'[u] = turn[u]
             /\ \E m \in Messages : turn'[t].chat = Append(turn[t].chat, m)
  <2> DEFINE m == Message("assistant", size, turn[t].round, n)
  <2>1. m \in Messages
    BY <1>1, AgentAssumption DEF Message, Messages
  <2> HIDE DEF m
  <2>2. turn'[t].chat = Append(turn[t].chat, m)
    BY <1>1, <1>6 DEF AnswerWithCalls, TurnRow, m
  <2>3. turn[t].pc = "stream" /\ \A u \in Turns \ {t} : turn'[u] = turn[u]
    BY <1>1, <1>6 DEF AnswerWithCalls, Is
  <2> QED
    BY <2>1, <2>2, <2>3
<1>7. ASSUME NEW size \in Nat, NEW n, turn[t].pc = "tool", turn' = Result(t, size, n)
      PROVE  /\ turn[t].pc \notin {"idle", "ended"}
             /\ \A u \in Turns \ {t} : turn'[u] = turn[u]
             /\ \E m \in Messages : turn'[t].chat = Append(turn[t].chat, m)
  <2> DEFINE m == Message("tool", size, turn[t].round - 1, 0)
  <2>1. m \in Messages
    BY <1>1, <1>7, AgentAssumption DEF RowInv, Message, Messages
  <2> HIDE DEF m
  <2>2. turn'[t].chat = Append(turn[t].chat, m)
    BY <1>1, <1>7 DEF Result, TurnRow, m
  <2>3. \A u \in Turns \ {t} : turn'[u] = turn[u]
    BY <1>1, <1>7 DEF Result
  <2> QED
    BY <1>7, <2>1, <2>2, <2>3
<1>8. CASE RefuseCall(t) \/ \E tool \in {"read", "write"} : StartTool(t, tool)
  <2>1. CASE RefuseCall(t)
    BY <1>7, <2>1 DEF RefuseCall, Is
  <2>2. CASE \E tool \in {"read", "write"} : StartTool(t, tool)
    BY <1>1, <2>2 DEF StartTool, Is, TurnRow
  <2> QED
    BY <1>8, <2>1, <2>2
<1>9. ASSUME NEW commits \in BOOLEAN, NEW size \in ResultSizes, ToolReturns(t, size, commits)
      PROVE  /\ turn[t].pc \notin {"idle", "ended"}
             /\ \A u \in Turns \ {t} : turn'[u] = turn[u]
             /\ \E m \in Messages : turn'[t].chat = Append(turn[t].chat, m)
  <2>1. size \in Nat
    BY AgentAssumption
  <2>2. turn[t].pc = "tool" /\ turn' = Result(t, size, Submitted(t, commits))
    BY <1>9 DEF ToolReturns, Is
  <2> QED
    BY <1>7, <2>1, <2>2
<1>10. ASSUME NEW commits \in BOOLEAN, ToolRaises(t, commits)
       PROVE  /\ turn[t].pc \notin {"idle", "ended"}
              /\ \A u \in Turns \ {t} : turn'[u] = turn[u]
              /\ \/ turn'[t].chat = turn[t].chat
                 \/ \E m \in Messages : turn'[t].chat = Append(turn[t].chat, m)
  <2>1. CASE turn' = Result(t, 1, Submitted(t, commits))
    BY <1>7, <1>10, <2>1 DEF ToolRaises, Is
  <2>2. CASE turn' = [turn EXCEPT ![t].attempt = @ + 1, ![t].submitted = Submitted(t, commits)]
    BY <1>1, <1>10, <2>2 DEF ToolRaises, Is, TurnRow
  <2> QED
    BY <1>10, <2>1, <2>2 DEF ToolRaises
<1> QED
  BY <1>2, <1>3, <1>4, <1>5, <1>6, <1>8, <1>9, <1>10 DEF TurnStep

LEMMA ChatsKeep == TurnsInv /\ ChatInv /\ [AgentNext]_agentVars => ChatInv'
<1> SUFFICES ASSUME TurnsInv, ChatInv, [AgentNext]_agentVars PROVE ChatInv'
  OBVIOUS
<1>1. turn \in [Turns -> TurnRow] /\ \A t \in Turns : turn[t].chat \in Seq(Messages)
  BY DEF TurnsInv, TurnRow
<1>2. CASE UNCHANGED turn
  BY <1>2 DEF ChatInv
<1>3. ASSUME NEW t \in Turns, TurnStep(t) PROVE ChatInv'
  <2>1. /\ \A u \in Turns \ {t} : turn'[u] = turn[u]
        /\ turn[t].chat # <<>> /\ turn[t].chat[1].role = "user"
    BY <1>3, ChatsGrow DEF ChatInv, AsksFirst
  <2>2. ASSUME NEW m \in Messages
        PROVE  Append(turn[t].chat, m) # <<>> /\ Append(turn[t].chat, m)[1] = turn[t].chat[1]
    BY <1>1, <2>1
  <2>3. AsksFirst(turn'[t])
    BY <1>3, <2>1, <2>2, ChatsGrow DEF AsksFirst
  <2> QED
    BY <2>1, <2>3 DEF ChatInv
<1>4. ASSUME NEW t \in Turns, EndTurn(t) PROVE ChatInv'
  BY <1>1, <1>4 DEF EndTurn, IdleTurn, ChatInv, AsksFirst
<1>5. ASSUME NEW t \in Turns, NEW matched \in BOOLEAN, BeginAgent(t, matched) PROVE ChatInv'
  <2>1. turn'[t].chat = FirstMessages /\ \A u \in Turns \ {t} : turn'[u] = turn[u]
    BY <1>1, <1>5 DEF BeginAgent, IdleTurn
  <2>2. FirstMessages # <<>> /\ FirstMessages[1].role = "user"
    BY DEF FirstMessages, Question, Message
  <2> QED
    BY <2>1, <2>2 DEF ChatInv, AsksFirst
<1> QED
  BY <1>2, <1>3, <1>4, <1>5 DEF AgentNext, agentVars, Disconnect, RecoveryTimePasses

LEMMA ChatsStart == AgentInit => ChatInv
BY DEF AgentInit, IdleTurn, ChatInv, AsksFirst

\* The messages of a turn that asks have a question, so what is sent of them fits.
LEMMA SentFits == TurnsInv /\ ChatInv => ContextFits
<1> SUFFICES ASSUME TurnsInv, ChatInv, NEW t \in Turns, Asked(t)
             PROVE  /\ TotalSize(Trimmed(turn[t].chat)) <= Budget + CutSize
                    /\ HasQuestion(Trimmed(turn[t].chat))
  BY DEF ContextFits
<1> DEFINE ms == turn[t].chat
<1>1. ms \in Seq(Messages)
  BY DEF TurnsInv, TurnRow
<1>2. ms # <<>> /\ ms[1].role = "user"
  BY DEF ChatInv, AsksFirst, Asked, Is
<1>3. HasQuestion(ms)
  <2>1. 1 \in DOMAIN ms
    BY <1>1, <1>2
  <2> QED
    BY <1>2, <2>1 DEF HasQuestion
<1> HIDE DEF ms
<1>4. TotalSize(Trimmed(ms)) <= Budget + CutSize /\ HasQuestion(Trimmed(ms))
  BY <1>1, <1>3, TrimmedFits
<1> QED
  BY <1>4 DEF ms

\* Whatever the model answers and however large the results of its tools are, what
\* trim_messages sends has the question of the user, and exceeds the budget by at
\* most one tool result that is cut.
THEOREM WhatIsSentFits == AgentSpec => []ContextFits
<1>1. AgentInit => AgentInv /\ ChatInv
  BY AgentStarts, ChatsStart
<1>2. (AgentInv /\ ChatInv) /\ [AgentNext]_agentVars => (AgentInv /\ ChatInv)'
  BY AgentKeeps, ChatsKeep DEF AgentInv
<1>3. AgentInv /\ ChatInv => ContextFits
  BY SentFits DEF AgentInv
<1> QED
  BY <1>1, <1>2, <1>3, PTL DEF AgentSpec

-----------------------------------------------------------------------------
(* The six together                                                        *)

\* Whichever component runs, a step is one of each component or leaves it alone.
LEMMA StepsAreOwn ==
  [Next]_vars => /\ [IngestionNext]_ingestionVars /\ [NotificationsNext]_notificationVars
                 /\ [BillingNext]_billingVars /\ [ConnectorsNext]_connectorVars
                 /\ [MemoriesNext]_memoryVars /\ [AgentNext]_agentVars
BY DEF Next, vars

\* Nothing is lost by checking the components in one run: a behaviour of MCServices is,
\* for each of them, a behaviour of its own specification, fairness included.
THEOREM EachBehavesAsAlone ==
  Spec => /\ IngestionSpec /\ NotificationsSpec /\ BillingSpec
          /\ ConnectorsSpec /\ MemoriesSpec /\ AgentSpec
<1>1. Init => /\ IngestionInit /\ NotificationsInit /\ BillingInit
              /\ ConnectorsInit /\ MemoriesInit /\ AgentInit
  BY DEF Init
<1> QED
  BY <1>1, StepsAreOwn, PTL
     DEF Spec, IngestionSpec, NotificationsSpec, BillingSpec, ConnectorsSpec, MemoriesSpec, AgentSpec

\* The components keep their kinds and their smaller invariants: what ServicesAreSound
\* says of the small instances holds for every number of documents, endpoints,
\* periods, servers, memories and turns, and every limit.
THEOREM AllAreSound == Spec => []ServicesAreSound
<1>1. IngestionSpec => []IngestionTypeOK
  <2>1. IngestionInv => IngestionTypeOK
    BY DEF IngestionInv
  <2> QED
    BY <2>1, IngestionInvariance, PTL
<1>2. /\ IngestionTypeOK /\ NotificationsTypeOK /\ BillingTypeOK
      /\ ConnectorsTypeOK /\ MemoriesTypeOK /\ AgentTypeOK
      /\ FreshClaimIsAlone /\ GivenUpAfterFailures
      /\ AnswersAgree /\ PaidOnSuccess /\ NoConnectionIsLost
      /\ IndexAgrees /\ OpeningsAreAccountedFor /\ CapIsKept
      => ServicesAreSound
  BY DEF ServicesAreSound
<1> QED
  BY <1>1, <1>2, EachBehavesAsAlone, NotificationsTypeCorrect, BillingTypeCorrect,
     ConnectorsTypeCorrect, MemoriesTypeCorrect, AgentTypeCorrect, OneSenderPerFreshClaim,
     GivenUpOnlyAfterFailures, OnePaymentPerKey, InvoicesArePaidOnSuccess, OpenConnectionsAreFound, IndexIsComplete,
     OpeningsAreRecordedOnce, ExcessIsBounded, PTL
=============================================================================
