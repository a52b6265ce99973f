-------------------------------- MODULE Agent -------------------------------
(***************************************************************************)
(* The agent that answers chat turns: run_agent of backend/agent/          *)
(* react_loop.py with the classifier, the calls of the model through the   *)
(* circuit breaker all turns share (backend/llm), and the tools it runs    *)
(* (backend/agent/tools).  What is sent of a turn's messages is in         *)
(* AgentContext.                                                           *)
(*                                                                         *)
(* What the model says is its choice; a message is its role, its size in   *)
(* tokens and the round of the loop it belongs to.  A provider may answer  *)
(* with tool calls it was not offered, which the code does not look at.    *)
(***************************************************************************)
EXTENDS Naturals, Sequences, FiniteSets

CONSTANTS
  Turns,          \* chat requests that stream
  Threshold,      \* settings.llm_circuit_failure_threshold
  ModelRetries,   \* settings.llm_max_retries
  ToolRetries,    \* the smaller of the tool's and settings.max_tool_retries
  HasFallback,    \* whether settings.llm_fallback_model names another model
  MaxRounds,      \* settings.max_loop_iterations
  ResultSizes,    \* sizes of tool results
  TextSizes,      \* sizes of the text that comes with tool calls
  MaxToolCalls    \* bound: tool calls of an answer

ASSUME AgentAssumption ==
  /\ IsFiniteSet(Turns)
  /\ {Threshold, MaxRounds} \subseteq Nat \ {0}
  /\ {ModelRetries, ToolRetries, MaxToolCalls} \subseteq Nat
  /\ HasFallback \in BOOLEAN
  /\ ResultSizes \cup TextSizes \subseteq Nat

VARIABLES
  breaker,
  turn,
  openings,   \* history: how often the breaker opened
  recorded,   \* rows circuit_opened of llm_degradation_events
  unrecorded  \* history: openings whose row was not inserted, or never tried

records == <<openings, recorded, unrecorded>>
agentVars == <<breaker, turn, records>>

-----------------------------------------------------------------------------
(* Data *)

TurnPoints == {"idle", "ask", "primary", "succeeded", "failed", "opened", "fallback",
               "refused", "stream", "tool", "top", "ended"}
Tools == {"none", "read", "write"}

Message(role, size, round, calls) ==
  [role |-> role, size |-> size, round |-> round, calls |-> calls]
Question == Message("user", 1, 0, 0)

\* The stored history holds the question already when it is appended.
FirstMessages == <<Question, Question>>
IdleTurn == [pc |-> "idle", phase |-> "classify", round |-> 0, attempt |-> 0,
             chat |-> <<>>, todo |-> 0, tool |-> "none", submitted |-> 0]

AgentInit ==
  /\ breaker = [failures |-> 0, open |-> FALSE, recovered |-> FALSE]
  /\ turn = [t \in Turns |-> IdleTurn]
  /\ openings = 0 /\ recorded = 0 /\ unrecorded = 0

Is(t, pc) == turn[t].pc = pc
Go(t, pc) == turn' = [turn EXCEPT ![t].pc = pc, ![t].attempt = 0]
EndTurn(t) == turn' = [turn EXCEPT ![t] = [IdleTurn EXCEPT !.pc = "ended"]]

-----------------------------------------------------------------------------
(* A call of the model *)

\* A rule may know the intent; else the model is asked for it.
BeginAgent(t, matched) ==
  /\ Is(t, "idle")
  /\ turn' = [turn EXCEPT ![t] = [IdleTurn EXCEPT
                !.pc = IF matched THEN "top" ELSE "ask",
                !.phase = IF matched THEN "loop" ELSE "classify",
                !.chat = FirstMessages]]
  /\ UNCHANGED <<breaker, records>>

\* CircuitBreaker.allow; an open circuit leads to the fallback at once.
AfterPrimary == IF HasFallback THEN "fallback" ELSE "refused"
Ask(t) ==
  /\ Is(t, "ask")
  /\ IF breaker.open /\ ~breaker.recovered
     THEN Go(t, AfterPrimary) /\ UNCHANGED breaker
     ELSE /\ Go(t, "primary")
          /\ breaker' = IF breaker.open
                        THEN [failures |-> 0, open |-> FALSE, recovered |-> FALSE] ELSE breaker
  /\ UNCHANGED records

\* An attempt succeeds, fails in a way that is tried again, or fails for good.
Succeeds(t) ==
  /\ turn[t].pc \in {"primary", "fallback"}
  /\ Go(t, IF Is(t, "primary") THEN "succeeded" ELSE "stream")
  /\ UNCHANGED <<breaker, records>>

TriesAgain(t) ==
  /\ turn[t].pc \in {"primary", "fallback"}
  /\ turn[t].attempt < ModelRetries
  /\ turn' = [turn EXCEPT ![t].attempt = @ + 1]
  /\ UNCHANGED <<breaker, records>>

Fails(t) ==
  /\ turn[t].pc \in {"primary", "fallback"}
  /\ Go(t, IF Is(t, "primary") THEN "failed" ELSE "refused")
  /\ UNCHANGED <<breaker, records>>

RecordSuccess(t) ==
  /\ Is(t, "succeeded")
  /\ breaker' = [failures |-> 0, open |-> FALSE, recovered |-> FALSE]
  /\ Go(t, "stream")
  /\ UNCHANGED records

\* CircuitBreaker.failure.  Calls that began before the circuit opened may
\* fail while it is open: only the failure that opens it is to be recorded.
\* Failures are counted up to Threshold.
OpensAnyway == breaker.failures + 1 >= Threshold  \* mutant: late failures count
Opens == breaker.failures + 1 >= Threshold /\ ~breaker.open
CountFailure(t) ==
  /\ Is(t, "failed")
  /\ breaker' = [breaker EXCEPT !.failures = IF @ < Threshold THEN @ + 1 ELSE @,
                                !.open = @ \/ breaker.failures + 1 >= Threshold]
  /\ openings' = IF ~breaker.open /\ breaker'.open THEN openings + 1 ELSE openings
  /\ Go(t, IF Opens THEN "opened" ELSE AfterPrimary)
  /\ UNCHANGED <<recorded, unrecorded>>

\* record_degradation, a transaction of its own, swallows every exception.
RecordOpening(t) ==
  /\ Is(t, "opened")
  /\ \/ recorded' = recorded + 1 /\ UNCHANGED unrecorded
     \/ unrecorded' = unrecorded + 1 /\ UNCHANGED recorded
  /\ Go(t, AfterPrimary)
  /\ UNCHANGED <<breaker, openings>>

RecoveryTimePasses ==
  /\ breaker.open /\ ~breaker.recovered
  /\ breaker' = [breaker EXCEPT !.recovered = TRUE]
  /\ UNCHANGED <<turn, records>>

\* Without an answer the intent is general chat; a turn ends with an error.
RefusedAsksAgain(t) ==  \* mutant: the intent is asked for until there is an answer
  /\ Is(t, "refused")
  /\ IF turn[t].phase = "classify" THEN Go(t, "ask") ELSE EndTurn(t)
  /\ UNCHANGED <<breaker, records>>
Refused(t) ==
  /\ Is(t, "refused")
  /\ IF turn[t].phase = "classify"
     THEN turn' = [turn EXCEPT ![t].pc = "top", ![t].phase = "loop"]
     ELSE EndTurn(t)
  /\ UNCHANGED <<breaker, records>>

-----------------------------------------------------------------------------
(* The loop *)

\* The top of a round; after the last one the model is asked to sum up.
Round(t) ==
  /\ Is(t, "top")
  /\ turn' = IF turn[t].round < MaxRounds
             THEN [turn EXCEPT ![t].pc = "ask"]
             ELSE [turn EXCEPT ![t].pc = "ask", ![t].phase = "final",
                               ![t].chat = Append(@, Question)]
  /\ UNCHANGED <<breaker, records>>

OutOfTime(t) ==
  /\ Is(t, "top") /\ turn[t].round < MaxRounds
  /\ EndTurn(t)
  /\ UNCHANGED <<breaker, records>>

Classified(t) ==
  /\ Is(t, "stream") /\ turn[t].phase = "classify"
  /\ turn' = [turn EXCEPT ![t].pc = "top", ![t].phase = "loop"]
  /\ UNCHANGED <<breaker, records>>

\* Text, nothing or an exception in the stream end the turn.
LastAnswer(t) ==
  /\ Is(t, "stream") /\ turn[t].phase \in {"loop", "final"}
  /\ EndTurn(t)
  /\ UNCHANGED <<breaker, records>>

AnswerWithCalls(t, n, size) ==
  /\ Is(t, "stream") /\ turn[t].phase = "loop"
  /\ turn' = [turn EXCEPT ![t].pc = "tool", ![t].todo = n, ![t].round = @ + 1,
       ![t].chat = Append(@, Message("assistant", size, turn[t].round, n))]
  /\ UNCHANGED <<breaker, records>>

-----------------------------------------------------------------------------
(* A tool call *)

\* The result of a call is the next message; n reviews were submitted for it.
Result(t, size, n) ==
  [turn EXCEPT ![t].chat = Append(@, Message("tool", size, turn[t].round - 1, 0)),
               ![t].todo = @ - 1, ![t].tool = "none", ![t].attempt = 0, ![t].submitted = n,
               ![t].pc = IF turn[t].todo > 1 THEN "tool" ELSE "top"]

\* Arguments that are not JSON or not what the tool takes are refused.
RefuseCall(t) ==
  /\ Is(t, "tool") /\ turn[t].tool = "none"
  /\ turn' = Result(t, 1, 0)
  /\ UNCHANGED <<breaker, records>>

\* A name the registry does not know raises out of run_agent: the turn ends.
UnknownTool(t) ==
  /\ Is(t, "tool") /\ turn[t].tool = "none"
  /\ EndTurn(t)
  /\ UNCHANGED <<breaker, records>>

StartTool(t, tool) ==
  /\ Is(t, "tool") /\ turn[t].tool = "none"
  /\ turn' = [turn EXCEPT ![t].tool = tool, ![t].submitted = 0]
  /\ UNCHANGED <<breaker, records>>

\* retry_strategy: execute_sql says "none".
AlwaysRetried(tool) == TRUE  \* mutant: execute_sql keeps the default
Retried(tool) == tool # "write"

\* execute_sql submits a review, or refuses the statement; an exception may
\* come before the commit of the review or after it.
Submitted(t, commits) ==
  turn[t].submitted + (IF turn[t].tool = "write" /\ commits THEN 1 ELSE 0)

ToolReturns(t, size, commits) ==
  /\ Is(t, "tool") /\ turn[t].tool # "none"
  /\ turn' = Result(t, size, Submitted(t, commits))
  /\ UNCHANGED <<breaker, records>>

ToolRaises(t, commits) ==
  /\ Is(t, "tool") /\ turn[t].tool # "none"
  /\ turn' = IF Retried(turn[t].tool) /\ turn[t].attempt < ToolRetries
             THEN [turn EXCEPT ![t].attempt = @ + 1, ![t].submitted = Submitted(t, commits)]
             ELSE Result(t, 1, Submitted(t, commits))
  /\ UNCHANGED <<breaker, records>>

\* The client goes away, and the turn is cancelled where it waits.
Disconnect(t) ==
  /\ turn[t].pc \notin {"idle", "ended"}
  /\ EndTurn(t)
  /\ unrecorded' = IF Is(t, "opened") THEN unrecorded + 1 ELSE unrecorded
  /\ UNCHANGED <<breaker, openings, recorded>>

-----------------------------------------------------------------------------
TurnStep(t) ==
  \/ Ask(t) \/ Succeeds(t) \/ TriesAgain(t) \/ Fails(t)
  \/ RecordSuccess(t) \/ CountFailure(t) \/ RecordOpening(t) \/ Refused(t)
  \/ Round(t) \/ OutOfTime(t) \/ Classified(t) \/ LastAnswer(t)
  \/ \E n \in 1..MaxToolCalls, size \in TextSizes : AnswerWithCalls(t, n, size)
  \/ RefuseCall(t) \/ UnknownTool(t)
  \/ \E tool \in {"read", "write"} : StartTool(t, tool)
  \/ \E commits \in BOOLEAN :
       \/ \E size \in ResultSizes : ToolReturns(t, size, commits)
       \/ ToolRaises(t, commits)

AgentNext ==
  \/ \E t \in Turns :
       \/ \E matched \in BOOLEAN : BeginAgent(t, matched)
       \/ TurnStep(t)
       \/ Disconnect(t)
  \/ RecoveryTimePasses

\* The event loop goes on with every turn.  Calls of the model have a timeout,
\* and what a provider answers is assumed to be finite.  Nothing is assumed of
\* tools: registry.execute awaits them without a timeout, the connectors set
\* none for a statement, and the time of a turn is looked at between rounds.
AgentFairness == \A t \in Turns : WF_agentVars(turn[t].tool = "none" /\ TurnStep(t))

AgentSpec == AgentInit /\ [][AgentNext]_agentVars /\ AgentFairness

-----------------------------------------------------------------------------
(* Properties *)

\* Every variable has a value of its kind.
AgentTypeOK ==
  /\ breaker \in [failures : 0..Threshold, open : BOOLEAN, recovered : BOOLEAN]
  /\ \A t \in Turns :
       /\ turn[t].pc \in TurnPoints
       /\ turn[t].phase \in {"classify", "loop", "final"}
       /\ turn[t].round \in 0..MaxRounds
       /\ turn[t].attempt \in 0..(IF Is(t, "tool") THEN ToolRetries ELSE ModelRetries)
       /\ turn[t].todo \in 0..MaxToolCalls
       /\ turn[t].tool \in Tools
       /\ turn[t].submitted \in Nat
  /\ {openings, recorded, unrecorded} \subseteq Nat

\* A call of execute_sql submits at most one review, although the registry
\* tries tools again and the answer of the submission may be lost.
OneReviewPerCall == \A t \in Turns : turn[t].submitted <= 1

\* Every opening of the circuit is recorded once, unless its insert fails or
\* its turn is cancelled before: calls that began before the circuit opened,
\* and fail while it is open, neither record it again nor keep its record away.
OpeningsAreAccountedFor ==
  openings = recorded + unrecorded + Cardinality({t \in Turns : Is(t, "opened")})

\* From some time on every turn that began has ended or waits for a tool that
\* never comes back, whatever the model and the tools answer and however the
\* calls of the turns interleave.
TurnsEnd ==
  <>[](\A t \in Turns : turn[t].pc \in {"idle", "ended"} \/ turn[t].tool # "none")

-----------------------------------------------------------------------------
(* What the repository says of the code, and the code does not keep.       *)

\* user-manual.md: MAX_TOTAL_TIME is the longest time a turn takes.  It is
\* compared at the top of a round, which a tool that hangs never reaches.
TurnsEndInTime == \A t \in Turns : ~Is(t, "idle") ~> Is(t, "ended")
=============================================================================
