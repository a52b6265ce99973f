----------------------------- MODULE MCServices -----------------------------
(***************************************************************************)
(* Small instances of six components that share no state with each other:  *)
(* the ingestion of documents, the delivery of notifications, billing, the *)
(* connectors to target databases, the memories of a user, and the agent.  *)
(* A behaviour picks one of them and stays with it, the others keep their  *)
(* initial state; the behaviours of one are those of its own module.       *)
(***************************************************************************)
EXTENDS Ingestion, Notifications, Billing, Connectors, Memories, AgentContext

VARIABLE running

vars == <<ingestionVars, notificationVars, billingVars, connectorVars, memoryVars,
          agentVars, running>>

Init ==
  /\ IngestionInit /\ NotificationsInit /\ BillingInit
  /\ ConnectorsInit /\ MemoriesInit /\ AgentInit
  /\ running \in {"ingestion", "notifications", "billing", "connectors", "memories", "agent"}

Next ==
  /\ UNCHANGED running
  /\ \/ /\ running = "ingestion" /\ IngestionNext
        /\ UNCHANGED <<notificationVars, billingVars, connectorVars, memoryVars, agentVars>>
     \/ /\ running = "notifications" /\ NotificationsNext
        /\ UNCHANGED <<ingestionVars, billingVars, connectorVars, memoryVars, agentVars>>
     \/ /\ running = "billing" /\ BillingNext
        /\ UNCHANGED <<ingestionVars, notificationVars, connectorVars, memoryVars, agentVars>>
     \/ /\ running = "connectors" /\ ConnectorsNext
        /\ UNCHANGED <<ingestionVars, notificationVars, billingVars, memoryVars, agentVars>>
     \/ /\ running = "memories" /\ MemoriesNext
        /\ UNCHANGED <<ingestionVars, notificationVars, billingVars, connectorVars, agentVars>>
     \/ /\ running = "agent" /\ AgentNext
        /\ UNCHANGED <<ingestionVars, notificationVars, billingVars, connectorVars, memoryVars>>

\* A fair action of a component that does not run is never enabled: with no
\* document, delivery or turn begun there is nothing for it to do.
Spec ==
  Init /\ [][Next]_vars /\ IngestionFairness /\ NotificationsFairness /\ AgentFairness

\* Every variable has a value of its kind, and the smaller invariants of the
\* components hold: two workers hold a delivery only after a claim was kept too
\* long, it is given up only after as many failures as the limit says, requests
\* with one key are answered one payment, an invoice is paid if and only if a
\* success was reported, an open connection can be closed, the search index has
\* the active memories, openings of the circuit are recorded once unless the insert
\* fails, and a user's active memories keep to their cap.
ServicesAreSound ==
  /\ IngestionTypeOK /\ NotificationsTypeOK /\ BillingTypeOK
  /\ ConnectorsTypeOK /\ MemoriesTypeOK /\ AgentTypeOK
  /\ FreshClaimIsAlone /\ GivenUpAfterFailures
  /\ AnswersAgree /\ PaidOnSuccess /\ NoConnectionIsLost
  /\ IndexAgrees /\ OpeningsAreAccountedFor /\ CapIsKept
=============================================================================
