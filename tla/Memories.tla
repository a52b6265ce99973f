------------------------------ MODULE Memories ------------------------------
(***************************************************************************)
(* What the assistant remembers of one user: backend/memory/store.py and   *)
(* profile.py, the endpoints of backend/api/memories.py, and the tasks of  *)
(* backend/agent/intercept.py and session_extract.py that every chat turn  *)
(* starts and nobody waits for (backend/api/chat.py), with the             *)
(* conversation they read (backend/api/conversations.py).                  *)
(*                                                                         *)
(* A memory is the number of its row, in the order of creation; what it    *)
(* says, and how the model finds it in a text, is left out.                *)
(***************************************************************************)
EXTENDS Naturals, Sequences, FiniteSets

CONSTANTS
  Tasks,       \* background tasks in flight
  MaxActive,   \* settings.memory_max_count
  MaxFacts,    \* bound: facts found in one text
  MaxRows,     \* bound: memories ever made
  MaxTurns,    \* bound: chat turns
  MaxEdits     \* bound: calls of the memory endpoints

ASSUME MemoriesAssumption ==
  /\ IsFiniteSet(Tasks)
  /\ MaxActive \in Nat \ {0}
  /\ {MaxFacts, MaxRows, MaxTurns, MaxEdits} \subseteq Nat

VARIABLES
  memory,        \* rows of user_memories: active, deprecated or deleted
  searchable,    \* rows of user_memories_fts
  profile,       \* newest version in user_profiles; what it says is left out
  task,
  conversation,  \* open or deleted
  messages,      \* its rows in messages: user messages and replies
  turns,         \* chat turns so far, and those that stream
  revived,       \* history: memories restored with PUT after the cap had hit them
  touched,       \* history: memories another user tried to delete
  edits

memoryVars == <<memory, searchable, profile, task, conversation, messages,
                turns, revived, touched, edits>>
rows == <<memory, searchable>>
chatVars == <<conversation, messages, turns>>
memoryHistory == <<revived, touched, edits>>

-----------------------------------------------------------------------------
(* Data *)

TaskPoints == {"idle", "count", "oldest", "insert", "mark", "gather", "version", "save"}
Task == [pc : TaskPoints, extracts : BOOLEAN, left : 0..MaxFacts, saved : BOOLEAN,
         overflow : Nat, oldest : SUBSET (1..MaxRows), version : Nat]
IdleTask == [pc |-> "idle", extracts |-> FALSE, left |-> 0, saved |-> FALSE,
             overflow |-> 0, oldest |-> {}, version |-> 0]

InState(s) == {m \in DOMAIN memory : memory[m] = s}
ActiveMemories == InState("active")
Rows == InState("active") \cup InState("deprecated")

\* The n oldest of a set of memories.
Oldest(ms, n) == {m \in ms : Cardinality({o \in ms : o < m}) < n}

MemoriesInit ==
  /\ memory = <<>>
  /\ searchable = {}
  /\ profile = 0
  /\ task = [t \in Tasks |-> IdleTask]
  /\ conversation = "open"
  /\ messages = [user |-> 0, assistant |-> 0]
  /\ turns = [begun |-> 0, streaming |-> 0]
  /\ revived = {} /\ touched = {} /\ edits = 0

Set(t, r) == task' = [task EXCEPT ![t] = r]
Advance(t, pc) == task' = [task EXCEPT ![t].pc = pc]

-----------------------------------------------------------------------------
(* A chat turn *)

\* The user's message is saved, and a task looks for facts in it.
BeginTurn(t, n) ==
  /\ conversation = "open" /\ turns.begun < MaxTurns
  /\ turns' = [begun |-> turns.begun + 1, streaming |-> turns.streaming + 1]
  /\ messages' = [messages EXCEPT !.user = @ + 1]
  /\ task[t].pc = "idle"
  /\ Set(t, IF n = 0 THEN IdleTask ELSE [IdleTask EXCEPT !.pc = "count", !.left = n])
  /\ UNCHANGED <<rows, profile, conversation, memoryHistory>>

\* The reply is saved whether or not the conversation is still there.  The
\* extraction that follows reads all messages, and finds n facts in them.
FinishTurn(t, n) ==
  /\ turns.streaming > 0
  /\ turns' = [turns EXCEPT !.streaming = @ - 1]
  /\ messages' = [messages EXCEPT !.assistant = @ + 1]
  /\ task[t].pc = "idle"
  /\ Set(t, [IdleTask EXCEPT !.pc = IF n = 0 THEN "mark" ELSE "count",
                             !.extracts = TRUE, !.left = n])
  /\ UNCHANGED <<rows, profile, conversation, memoryHistory>>

\* The client goes away: the turn saves no reply and starts no extraction.
AbandonTurn ==
  /\ turns.streaming > 0
  /\ turns' = [turns EXCEPT !.streaming = @ - 1]
  /\ UNCHANGED <<rows, profile, task, conversation, messages, memoryHistory>>

DeleteConversation ==
  /\ conversation = "open" /\ messages.user > 0
  /\ conversation' = "deleted"
  /\ messages' = [user |-> 0, assistant |-> 0]
  /\ UNCHANGED <<rows, profile, task, turns, memoryHistory>>

-----------------------------------------------------------------------------
(* add_memory: two reads, then one transaction *)

Over(t) == Cardinality(ActiveMemories) - MaxActive + 1

CountActive(t) ==
  /\ task[t].pc = "count"
  /\ IF Cardinality(ActiveMemories) >= MaxActive
     THEN Set(t, [task[t] EXCEPT !.pc = "oldest", !.overflow = Over(t)])
     ELSE Set(t, [task[t] EXCEPT !.pc = "insert", !.oldest = {}])
  /\ UNCHANGED <<rows, profile, chatVars, memoryHistory>>

ReadOldest(t) ==
  /\ task[t].pc = "oldest"
  /\ Set(t, [task[t] EXCEPT !.pc = "insert",
                            !.oldest = Oldest(ActiveMemories, task[t].overflow)])
  /\ UNCHANGED <<rows, profile, chatVars, memoryHistory>>

\* After the last fact an extraction goes on; an interception ends.
NextFact(t, saved) ==
  LET r == [task[t] EXCEPT !.left = @ - 1, !.saved = saved, !.overflow = 0, !.oldest = {}] IN
  Set(t, IF task[t].left > 1 THEN [r EXCEPT !.pc = "count"]
         ELSE IF task[t].extracts THEN [r EXCEPT !.pc = "mark"]
         ELSE IdleTask)

InsertMemory(t) ==
  /\ task[t].pc = "insert" /\ Len(memory) < MaxRows
  /\ LET new == Len(memory) + 1 IN
       /\ memory' = Append([m \in DOMAIN memory |->
                              IF m \in task[t].oldest /\ memory[m] # "deleted"
                              THEN "deprecated" ELSE memory[m]], "active")
       /\ searchable' = (searchable \ task[t].oldest) \cup {new}
  /\ NextFact(t, TRUE)
  /\ UNCHANGED <<profile, chatVars, memoryHistory>>

\* The transaction fails: the task goes on with the next fact.
InsertFails(t) ==
  /\ task[t].pc = "insert"
  /\ NextFact(t, task[t].saved)
  /\ UNCHANGED <<rows, profile, chatVars, memoryHistory>>

-----------------------------------------------------------------------------
(* The end of an extraction, and the profile *)

MarkExtracted(t) ==
  /\ task[t].pc = "mark"
  /\ IF task[t].saved THEN Advance(t, "gather") ELSE Set(t, IdleTask)
  /\ UNCHANGED <<rows, profile, chatVars, memoryHistory>>

\* generate_profile reads the active memories; of nothing no profile is made.
Gather(t) ==
  /\ task[t].pc = "gather"
  /\ Set(t, IF ActiveMemories = {} THEN IdleTask
            ELSE [task[t] EXCEPT !.pc = "version"])
  /\ UNCHANGED <<rows, profile, chatVars, memoryHistory>>

ReadVersion(t) ==
  /\ task[t].pc = "version"
  /\ Set(t, [task[t] EXCEPT !.pc = "save", !.version = profile])
  /\ UNCHANGED <<rows, profile, chatVars, memoryHistory>>

\* Of two profiles that are made at the same time both get the same version.
SaveProfile(t) ==
  /\ task[t].pc = "save"
  /\ profile' = IF task[t].version + 1 > profile THEN task[t].version + 1 ELSE profile
  /\ Set(t, IdleTask)
  /\ UNCHANGED <<rows, chatVars, memoryHistory>>

-----------------------------------------------------------------------------
(* The endpoints.  An unknown memory is answered 404 and changes nothing.  *)

Edit == edits < MaxEdits /\ edits' = edits + 1

RegenerateProfile(t) ==
  /\ Edit
  /\ task[t].pc = "idle"
  /\ Set(t, [IdleTask EXCEPT !.pc = "gather"])
  /\ UNCHANGED <<rows, profile, chatVars, revived, touched>>

\* PUT with deprecated: the search index is left as it is.
SetDeprecated(m, deprecated) ==
  /\ Edit
  /\ m \in Rows
  /\ memory' = [memory EXCEPT ![m] = IF deprecated THEN "deprecated" ELSE "active"]
  /\ revived' = IF deprecated \/ memory[m] = "active" THEN revived ELSE revived \cup {m}
  /\ UNCHANGED <<searchable, profile, task, chatVars, touched>>

DeleteMemory(m) ==
  /\ Edit
  /\ m \in Rows
  /\ memory' = [memory EXCEPT ![m] = "deleted"]
  /\ searchable' = searchable \ {m}
  /\ UNCHANGED <<profile, task, chatVars, revived, touched>>

\* Of a memory of somebody else the row stays, and the index entry goes.
DeleteByAnother(m) ==
  /\ Edit
  /\ m \in Rows
  /\ searchable' = searchable \ {m}
  /\ touched' = touched \cup {m}
  /\ UNCHANGED <<memory, profile, task, chatVars, revived>>

ClearAllKeepsIndex ==  \* mutant: the search index is forgotten
  /\ Edit
  /\ memory' = [m \in DOMAIN memory |-> "deleted"]
  /\ UNCHANGED <<searchable, profile, task, chatVars, revived, touched>>
ClearAll ==
  /\ Edit
  /\ memory' = [m \in DOMAIN memory |-> "deleted"]
  /\ searchable' = searchable \ Rows
  /\ UNCHANGED <<profile, task, chatVars, revived, touched>>

-----------------------------------------------------------------------------
TaskStep(t) ==
  \/ CountActive(t) \/ ReadOldest(t) \/ InsertMemory(t) \/ InsertFails(t)
  \/ MarkExtracted(t) \/ Gather(t) \/ ReadVersion(t) \/ SaveProfile(t)

MemoriesNext ==
  \/ \E t \in Tasks :
       \/ \E n \in 0..MaxFacts : BeginTurn(t, n) \/ FinishTurn(t, n)
       \/ TaskStep(t)
       \/ RegenerateProfile(t)
  \/ \E m \in DOMAIN memory :
       \/ \E deprecated \in BOOLEAN : SetDeprecated(m, deprecated)
       \/ DeleteMemory(m) \/ DeleteByAnother(m)
  \/ AbandonTurn \/ DeleteConversation \/ ClearAll

MemoriesSpec == MemoriesInit /\ [][MemoriesNext]_memoryVars

-----------------------------------------------------------------------------
(* Properties *)

\* Every variable has a value of its kind.
MemoriesTypeOK ==
  /\ memory \in Seq({"active", "deprecated", "deleted"}) /\ Len(memory) <= MaxRows
  /\ searchable \subseteq DOMAIN memory
  /\ profile \in Nat
  /\ task \in [Tasks -> Task]
  /\ conversation \in {"open", "deleted"}
  /\ messages \in [user : 0..MaxTurns, assistant : 0..MaxTurns]
  /\ turns \in [begun : 0..MaxTurns, streaming : 0..MaxTurns]
  /\ revived \cup touched \subseteq DOMAIN memory
  /\ edits \in 0..MaxEdits

\* Tasks that add at the same time go beyond the limit by one memory each, and
\* however long they go on the excess does not grow, unless a memory is restored
\* by hand.
CapIsKept ==
  revived = {} => Cardinality(ActiveMemories) < MaxActive + Cardinality(Tasks)

\* The search index has every active memory and none that was deleted, unless
\* a memory was restored by hand or another user tried to delete it.
IndexAgrees ==
  /\ ActiveMemories \ (revived \cup touched) \subseteq searchable
  /\ searchable \subseteq Rows
=============================================================================
