---------------------------- MODULE OutboxPromise ----------------------------
(***************************************************************************)
(* What the delivery of a notification promises, without its workers,      *)
(* claims and batches: each endpoint is posted to until it accepts or has  *)
(* failed often enough, and once accepted it is left alone, unless a       *)
(* worker was late or a batch died.                                        *)
(***************************************************************************)
EXTENDS Naturals

CONSTANTS Endpoints, MaxAttempts

VARIABLES
  box,       \* "none", "open", "sent" or "failed"
  errors,    \* failed posts
  accepted,  \* accepted posts, up to the second
  late,      \* a worker kept the delivery for longer than its lease
  crashed    \* a batch died before its results were stored

Boxes == {"open", "sent", "failed"}

Init ==
  /\ box = [e \in Endpoints |-> "none"]
  /\ errors = [e \in Endpoints |-> 0]
  /\ accepted = [e \in Endpoints |-> 0]
  /\ late = [e \in Endpoints |-> FALSE]
  /\ crashed = FALSE

\* Somebody may post or write to it.
Live(e) == box[e] = "open" \/ (box[e] # "none" /\ late[e])

\* It may be posted to although it has accepted.
Disturbed(e) == late[e] \/ crashed

Publish(es) ==
  /\ \A e \in Endpoints : box[e] = "none"
  /\ box' = [e \in Endpoints |-> IF e \in es THEN "open" ELSE "none"]
  /\ UNCHANGED <<errors, accepted, late, crashed>>

Accept(e) ==
  /\ Live(e) /\ accepted[e] < 2
  /\ accepted[e] = 1 => Disturbed(e)
  /\ accepted' = [accepted EXCEPT ![e] = @ + 1]
  /\ UNCHANGED <<box, errors, late, crashed>>

Refuse(e) ==
  /\ Live(e) /\ errors[e] < MaxAttempts
  /\ accepted[e] > 0 => Disturbed(e)
  /\ errors' = [errors EXCEPT ![e] = @ + 1]
  /\ UNCHANGED <<box, accepted, late, crashed>>

\* The results of a batch are stored, of each delivery after its own posts.
MaySettle(e, to) ==
  /\ Live(e)
  /\ to = "sent" => accepted[e] > 0
  /\ to = "failed" => errors[e] = MaxAttempts /\ (accepted[e] > 0 => Disturbed(e))
Settle(boxes) ==
  /\ \A e \in Endpoints : boxes[e] = box[e] \/ (boxes[e] \in Boxes /\ MaySettle(e, boxes[e]))
  /\ box' = boxes
  /\ UNCHANGED <<errors, accepted, late, crashed>>

Overrun(e) ==
  /\ box[e] = "open"
  /\ late' = [late EXCEPT ![e] = TRUE]
  /\ UNCHANGED <<box, errors, accepted, crashed>>

Crash == crashed' = TRUE /\ UNCHANGED <<box, errors, accepted, late>>

Next ==
  \/ \E es \in SUBSET Endpoints : Publish(es)
  \/ \E e \in Endpoints : Accept(e) \/ Refuse(e) \/ Overrun(e)
  \/ \E boxes \in [Endpoints -> Boxes \cup {"none"}] : Settle(boxes)
  \/ Crash

Spec == Init /\ [][Next]_<<box, errors, accepted, late, crashed>>
=============================================================================
