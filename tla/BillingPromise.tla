--------------------------- MODULE BillingPromise ----------------------------
(***************************************************************************)
(* What billing promises to the organization that pays, without its        *)
(* requests, races, provider and webhook: a period is billed once, a key   *)
(* stands for one payment of one period for ever, whoever asks with it is  *)
(* told that payment, and what is paid stays paid.                         *)
(***************************************************************************)
CONSTANTS Periods, PayKeys, Payments,
          Totals   \* what a period can cost

VARIABLES
  billed,   \* bills, each of a period and its total
  bound,    \* what the keys stand for: the payment and its period
  answers,  \* what was told to those who asked
  paid      \* periods

Binding == [period : Periods, key : PayKeys, payment : Payments]

Init == billed = {} /\ bound = {} /\ answers = {} /\ paid = {}

IsBilled(t) == \E bill \in billed : bill.period = t

Issue(t, total) ==
  /\ ~IsBilled(t)
  /\ billed' = billed \cup {[period |-> t, total |-> total]}
  /\ UNCHANGED <<bound, answers, paid>>

\* A key that stands for nothing gets a payment that nothing else has.
Bind(b) ==
  /\ IsBilled(b.period)
  /\ \A other \in bound : other.key # b.key /\ other.payment # b.payment
  /\ bound' = bound \cup {b}
  /\ answers' = answers \cup {b}
  /\ UNCHANGED <<billed, paid>>

Answer(b) ==
  /\ b \in bound
  /\ answers' = answers \cup {b}
  /\ UNCHANGED <<billed, bound, paid>>

Pay(b) ==
  /\ b \in bound
  /\ paid' = paid \cup {b.period}
  /\ UNCHANGED <<billed, bound, answers>>

Next ==
  \/ \E t \in Periods, total \in Totals : Issue(t, total)
  \/ \E b \in Binding : Bind(b) \/ Answer(b) \/ Pay(b)

Spec == Init /\ [][Next]_<<billed, bound, answers, paid>>
=============================================================================
