---------------------------- MODULE AgentContext ----------------------------
(***************************************************************************)
(* What the agent sends of the messages of a turn: trim_messages of        *)
(* backend/agent/context.py, applied to the turns of Agent whenever they   *)
(* ask the model in their loop.                                            *)
(*                                                                         *)
(* Sizes are in tokens as trim_messages estimates them.  The mark it       *)
(* appends to what it cuts is left out.  The system prompt is sent before  *)
(* these messages and counts for nothing.  A question that is alone over   *)
(* the budget is cut by characters, here to just the budget.               *)
(***************************************************************************)
EXTENDS Agent

CONSTANTS
  Budget,   \* tokens of ContextManager.token_budget
  CutSize   \* tokens of max_tool_result_chars

ASSUME ContextAssumption == {Budget, CutSize} \subseteq Nat

-----------------------------------------------------------------------------
(* One of the two loops goes back from the last message and has kept some; *)
(* it is at the next message, at the one before a tool result, or done.    *)

Start(total) == [total |-> total, kept |-> <<>>, at |-> "next"]

Fits(s, m) == m.size + s.total <= Budget
Shortened(size) == IF size > CutSize THEN CutSize ELSE size

KeepMessage(s, m) == [total |-> s.total + m.size, kept |-> <<m>> \o s.kept, at |-> "next"]

\* A result is cut, but counts in full when it fits.
KeepResultUncut(s, m) ==  \* mutant: a result that does not fit is not cut
  [total |-> s.total + m.size, kept |-> <<m>> \o s.kept, at |-> "result"]
KeepResult(s, m) ==
  [total |-> s.total + (IF Fits(s, m) THEN m.size ELSE Shortened(m.size)),
   kept  |-> <<[m EXCEPT !.size = Shortened(m.size)]>> \o s.kept,
   at    |-> "result"]

\* An assistant message right before a result is kept if it fits, also when
\* the budget is used up, and passed over else.
LookBack(s, m) ==
  IF s.at = "result" /\ m.role = "assistant"
  THEN IF Fits(s, m) THEN KeepMessage(s, m) ELSE [s EXCEPT !.at = "next"]
  ELSE IF s.at = "full" \/ s.total >= Budget THEN [s EXCEPT !.at = "full"]
  ELSE IF m.role = "tool" THEN KeepResult(s, m)
  ELSE IF Fits(s, m) THEN KeepMessage(s, m) ELSE [s EXCEPT !.at = "full"]

\* The loop after k messages.
Scan(ms, total) ==
  LET scan[k \in 0..Len(ms)] ==
        IF k = 0 THEN Start(total) ELSE LookBack(scan[k - 1], ms[Len(ms) + 1 - k])
  IN scan
KeepBack(ms, total) == Scan(ms, total)[Len(ms)]

-----------------------------------------------------------------------------
(* trim_messages *)

LastUser(ms) == CHOOSE i \in DOMAIN ms : ms[i].role = "user" /\
                  \A j \in DOMAIN ms : ms[j].role = "user" => j <= i

\* The newest question is always kept; what follows it counts first.
Trimmed(ms) ==
  LET a == LastUser(ms)
      after == KeepBack(SubSeq(ms, a + 1, Len(ms)), ms[a].size)
      before == KeepBack(SubSeq(ms, 1, a - 1), after.total)
  IN IF ms[a].size > Budget THEN <<[ms[a] EXCEPT !.size = Budget]>>
     ELSE before.kept \o <<ms[a]>> \o after.kept

-----------------------------------------------------------------------------
(* Properties *)

\* The size of the first k messages, and of all.
Sizes(ms) ==
  LET sizes[k \in 0..Len(ms)] == IF k = 0 THEN 0 ELSE sizes[k - 1] + ms[k].size
  IN sizes
TotalSize(ms) == Sizes(ms)[Len(ms)]

HasQuestion(ms) == \E i \in DOMAIN ms : ms[i].role = "user"

\* What is sent fits the budget, but for one tool result that is cut, and has
\* the newest question.
Asked(t) == Is(t, "ask") /\ turn[t].phase # "classify"
ContextFits ==
  \A t \in Turns :
    Asked(t) =>
      LET sent == Trimmed(turn[t].chat) IN
        TotalSize(sent) <= Budget + CutSize /\ HasQuestion(sent)

\* context.py: trim_messages keeps complete pairs of tool calls and results.
Paired(ms) ==
  /\ \A i \in DOMAIN ms : ms[i].role = "tool" =>
       \E j \in 1..(i - 1) : ms[j].role = "assistant" /\ ms[j].round = ms[i].round
  /\ \A j \in DOMAIN ms : ms[j].role = "assistant" =>
       Cardinality({i \in DOMAIN ms : ms[i].role = "tool" /\ ms[i].round = ms[j].round})
         = ms[j].calls
PairsAreKept == \A t \in Turns : Asked(t) => Paired(Trimmed(turn[t].chat))
=============================================================================
