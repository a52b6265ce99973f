--------------------------- MODULE Notifications ----------------------------
(***************************************************************************)
(* The delivery of a notification: backend/notifications.py (publish and   *)
(* deliver_pending, called every minute by a loop of every process) and    *)
(* the endpoints and preferences of backend/api/notifications.py.          *)
(*                                                                         *)
(* One notification of one user is followed, with one endpoint per         *)
(* channel.  A batch of fifty posts of ten seconds each outlasts the five  *)
(* minutes after which a claim is taken back, so a lease may end whenever  *)
(* a worker holds a delivery.  The limit of a batch is left out.           *)
(***************************************************************************)
EXTENDS Naturals, FiniteSets

CONSTANTS
  Endpoints,     \* each of its own channel
  Senders,       \* processes: each runs one delivery loop
  MaxAttempts,   \* 5 in the code
  MaxLosses,     \* bound: batches that die before their commit
  MaxChanges     \* bound: changes of endpoints and preferences

ASSUME NotificationsAssumption ==
  MaxAttempts \in Nat \ {0} /\ MaxLosses \in Nat /\ MaxChanges \in Nat

VARIABLES
  endpoint,     \* rows of notification_endpoints
  preference,   \* of the user, per channel: for the event and for "*"
  delivery,     \* rows of notification_deliveries
  sender,
  failures,     \* history: failed posts, up to MaxAttempts
  accepted,     \* history: posts answered with success, up to the second
  overrun,      \* history: the lease of the delivery ended while it was held
  losses, changes

notificationVars ==
  <<endpoint, preference, delivery, sender, failures, accepted, overrun, losses, changes>>

-----------------------------------------------------------------------------
(* Data *)

EndpointStates == {"none", "enabled", "disabled", "deleted"}
Preferences == {"unset", "on", "off"}
Delivery == [status : {"none", "pending", "sending", "retry", "sent", "failed"},
             attempts : Nat, due : BOOLEAN, overdue : BOOLEAN]
NoDelivery == [status |-> "none", attempts |-> 0, due |-> TRUE, overdue |-> FALSE]

\* What a worker holds of a delivery: the attempts it read, and its answer.
Held == [attempts : Nat, answer : {"none", "ok", "error"}]
IdleSender == [pc |-> "idle", claimed |-> {}, held |-> <<>>]

HasEndpoint(e) == endpoint[e] \in {"enabled", "disabled"}
OpenStatuses == {"pending", "sending", "retry"}

NotificationsInit ==
  /\ endpoint = [e \in Endpoints |-> "none"]
  /\ preference = [e \in Endpoints |-> [exact |-> "unset", wildcard |-> "unset"]]
  /\ delivery = [e \in Endpoints |-> NoDelivery]
  /\ sender = [s \in Senders |-> IdleSender]
  /\ failures = [e \in Endpoints |-> 0]
  /\ accepted = [e \in Endpoints |-> 0]
  /\ overrun = [e \in Endpoints |-> FALSE]
  /\ losses = 0 /\ changes = 0

-----------------------------------------------------------------------------
(* Endpoints and preferences *)

Change == changes < MaxChanges /\ changes' = changes + 1

CreateEndpoint(e, state) ==
  /\ Change
  /\ endpoint[e] = "none"
  /\ endpoint' = [endpoint EXCEPT ![e] = state]
  /\ UNCHANGED <<preference, delivery, sender, failures, accepted, overrun, losses>>

UpdateEndpoint(e, state) ==
  /\ Change
  /\ HasEndpoint(e)
  /\ endpoint' = [endpoint EXCEPT ![e] = state]
  /\ UNCHANGED <<preference, delivery, sender, failures, accepted, overrun, losses>>

DeleteEndpoint(e) ==
  /\ Change
  /\ HasEndpoint(e)
  /\ endpoint' = [endpoint EXCEPT ![e] = "deleted"]
  /\ UNCHANGED <<preference, delivery, sender, failures, accepted, overrun, losses>>

SetPreference(e, event, on) ==
  /\ Change
  /\ preference' = [preference EXCEPT ![e][event] = IF on THEN "on" ELSE "off"]
  /\ UNCHANGED <<endpoint, delivery, sender, failures, accepted, overrun, losses>>

\* The preference for the event counts before the one for all events.
Wanted(e) ==
  LET p == preference[e] IN
  (IF p.exact # "unset" THEN p.exact ELSE p.wildcard) # "off"

\* publish_notification: the notification and its deliveries, in one commit.
PublishNotification ==
  /\ \A e \in Endpoints : delivery[e].status = "none"
  /\ \E e \in Endpoints : endpoint[e] = "enabled" /\ Wanted(e)
  /\ delivery' = [e \in Endpoints |->
                    IF endpoint[e] = "enabled" /\ Wanted(e)
                    THEN [NoDelivery EXCEPT !.status = "pending"]
                    ELSE NoDelivery]
  /\ UNCHANGED <<endpoint, preference, sender, failures, accepted, overrun, losses, changes>>

-----------------------------------------------------------------------------
(* deliver_pending *)

\* The first statement gives claims back that are older than five minutes.
ReclaimedAlways ==  \* mutant: the age of a claim is not looked at
  [e \in Endpoints |->
     IF delivery[e].status = "sending"
     THEN [delivery[e] EXCEPT !.status = "retry", !.due = TRUE, !.overdue = FALSE]
     ELSE delivery[e]]
ReclaimedNever ==  \* mutant: no claim is given back
  delivery
Reclaimed ==
  [e \in Endpoints |->
     IF delivery[e].status = "sending" /\ delivery[e].overdue
     THEN [delivery[e] EXCEPT !.status = "retry", !.due = TRUE, !.overdue = FALSE]
     ELSE delivery[e]]

Candidates(rows) == {e \in Endpoints : rows[e].status \in {"pending", "retry"} /\ rows[e].due}

Claim(s) ==
  /\ sender[s].pc = "idle"
  /\ LET rows == Reclaimed IN
       /\ Candidates(rows) # {}
       /\ delivery' = [e \in Endpoints |->
                         IF e \in Candidates(rows)
                         THEN [rows[e] EXCEPT !.status = "sending", !.overdue = FALSE]
                         ELSE rows[e]]
       /\ sender' = [sender EXCEPT ![s] = [IdleSender EXCEPT !.pc = "claimed",
                                                             !.claimed = Candidates(rows)]]
  /\ UNCHANGED <<endpoint, preference, failures, accepted, overrun, losses, changes>>

\* The claimed rows are read again, joined with their endpoints: a delivery
\* whose endpoint is gone is not loaded, and stays "sending".
LoadClaimed(s) ==
  /\ sender[s].pc = "claimed"
  /\ sender' = [sender EXCEPT ![s].pc = "posting",
                  ![s].held = [e \in {c \in sender[s].claimed : HasEndpoint(c)} |->
                                 [attempts |-> delivery[e].attempts, answer |-> "none"]]]
  /\ UNCHANGED <<endpoint, preference, delivery, failures, accepted, overrun, losses, changes>>

Post(s, e, answer) ==
  /\ sender[s].pc = "posting"
  /\ e \in DOMAIN sender[s].held
  /\ sender[s].held[e].answer = "none"
  /\ sender' = [sender EXCEPT ![s].held[e].answer = answer]
  /\ failures' = IF answer = "error" /\ failures[e] < MaxAttempts
                 THEN [failures EXCEPT ![e] = @ + 1] ELSE failures
  /\ accepted' = IF answer = "ok" /\ accepted[e] < 2
                 THEN [accepted EXCEPT ![e] = @ + 1] ELSE accepted
  /\ UNCHANGED <<endpoint, preference, delivery, overrun, losses, changes>>

\* The row as the end of the batch writes it; an answer of another worker to
\* the same delivery is overwritten.
WrittenTwice(row, held) ==  \* mutant: a failure counts double
  IF held.answer = "ok"
  THEN [row EXCEPT !.status = "sent", !.overdue = FALSE]
  ELSE [status |-> IF held.attempts + 2 >= MaxAttempts THEN "failed" ELSE "retry",
        attempts |-> held.attempts + 2, due |-> FALSE, overdue |-> FALSE]
Written(row, held) ==
  IF held.answer = "ok"
  THEN [row EXCEPT !.status = "sent", !.overdue = FALSE]
  ELSE [status |-> IF held.attempts + 1 >= MaxAttempts THEN "failed" ELSE "retry",
        attempts |-> held.attempts + 1, due |-> FALSE, overdue |-> FALSE]

CommitBatch(s) ==
  /\ sender[s].pc = "posting"
  /\ \A e \in DOMAIN sender[s].held : sender[s].held[e].answer # "none"
  /\ delivery' = [e \in Endpoints |->
                    IF e \in DOMAIN sender[s].held
                    THEN Written(delivery[e], sender[s].held[e]) ELSE delivery[e]]
  /\ sender' = [sender EXCEPT ![s] = IdleSender]
  /\ UNCHANGED <<endpoint, preference, failures, accepted, overrun, losses, changes>>

\* The process dies, or a statement raises: what was posted is not recorded.
LoseBatch(s) ==
  /\ sender[s].pc # "idle"
  /\ losses < MaxLosses
  /\ losses' = losses + 1
  /\ sender' = [sender EXCEPT ![s] = IdleSender]
  /\ UNCHANGED <<endpoint, preference, delivery, failures, accepted, overrun, changes>>

-----------------------------------------------------------------------------
(* Time *)

Holds(s, e) == e \in sender[s].claimed

LeaseEnds(e) ==
  /\ delivery[e].status = "sending" /\ ~delivery[e].overdue
  /\ delivery' = [delivery EXCEPT ![e].overdue = TRUE]
  /\ overrun' = [overrun EXCEPT ![e] = @ \/ \E s \in Senders : Holds(s, e)]
  /\ UNCHANGED <<endpoint, preference, sender, failures, accepted, losses, changes>>

BecomesDue(e) ==
  /\ delivery[e].status = "retry" /\ ~delivery[e].due
  /\ delivery' = [delivery EXCEPT ![e].due = TRUE]
  /\ UNCHANGED <<endpoint, preference, sender, failures, accepted, overrun, losses, changes>>

SenderStep(s) ==
  \/ Claim(s)
  \/ LoadClaimed(s)
  \/ \E e \in Endpoints, answer \in {"ok", "error"} : Post(s, e, answer)
  \/ CommitBatch(s)

NotificationsNext ==
  \/ \E e \in Endpoints :
       \/ \E state \in {"enabled", "disabled"} : CreateEndpoint(e, state) \/ UpdateEndpoint(e, state)
       \/ DeleteEndpoint(e)
       \/ \E event \in {"exact", "wildcard"}, on \in BOOLEAN : SetPreference(e, event, on)
       \/ LeaseEnds(e)
       \/ BecomesDue(e)
  \/ PublishNotification
  \/ \E s \in Senders : SenderStep(s) \/ LoseBatch(s)

\* The loops go on, posts time out after ten seconds, and time passes.
NotificationsFairness ==
  /\ \A s \in Senders : WF_notificationVars(SenderStep(s))
  /\ \A e \in Endpoints : WF_notificationVars(LeaseEnds(e)) /\ WF_notificationVars(BecomesDue(e))

NotificationsSpec ==
  NotificationsInit /\ [][NotificationsNext]_notificationVars /\ NotificationsFairness

-----------------------------------------------------------------------------
(* Properties *)

\* Every variable has a value of its kind.
NotificationsTypeOK ==
  /\ endpoint \in [Endpoints -> EndpointStates]
  /\ preference \in [Endpoints -> [exact : Preferences, wildcard : Preferences]]
  /\ delivery \in [Endpoints -> Delivery]
  /\ \A s \in Senders :
       /\ sender[s].pc \in {"idle", "claimed", "posting"}
       /\ sender[s].claimed \subseteq Endpoints
       /\ DOMAIN sender[s].held \subseteq sender[s].claimed
       /\ \A e \in DOMAIN sender[s].held : sender[s].held[e] \in Held
  /\ failures \in [Endpoints -> 0..MaxAttempts]
  /\ accepted \in [Endpoints -> 0..2]
  /\ overrun \in [Endpoints -> BOOLEAN]
  /\ losses \in 0..MaxLosses /\ changes \in 0..MaxChanges

\* Two workers send the same delivery only after one of them has kept it for
\* more than five minutes.
FreshClaimIsAlone ==
  \A e \in Endpoints : Cardinality({s \in Senders : Holds(s, e)}) > 1 => overrun[e]

\* A delivery is given up only after as many failed posts as the limit says,
\* whatever workers overwrite of each other's attempts.
GivenUpAfterFailures ==
  \A e \in Endpoints : delivery[e].status = "failed" => failures[e] = MaxAttempts

\* OutboxPromise, with the status of the rows as boxes.
BoxOf(e) == IF delivery[e].status \in OpenStatuses THEN "open" ELSE delivery[e].status
Box == [e \in Endpoints |-> BoxOf(e)]
Outbox == INSTANCE OutboxPromise WITH
  box <- Box, errors <- failures, late <- overrun, crashed <- losses > 0

\* Deliveries do nothing their promise does not allow: whatever claims, posts,
\* timeouts and deaths interleave, an endpoint that accepted is posted to again,
\* or given up, only after a late worker or a death, "sent" is written only
\* after an endpoint accepted and "failed" only after enough failures, and both
\* are final without a late worker.
OutboxKeepsPromise == Outbox!Spec

\* A delivery is sent or given up in the end, although batches die and workers
\* overtake each other, unless its endpoint is deleted.
DeliveriesEnd ==
  \A e \in Endpoints :
    delivery[e].status \in OpenStatuses ~> delivery[e].status \notin OpenStatuses \/ endpoint[e] = "deleted"
=============================================================================
