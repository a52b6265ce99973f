----------------------------- MODULE Connectors -----------------------------
(***************************************************************************)
(* The connectors to the target database of one organization, when tenants *)
(* have databases of their own: the cache of backend/db_connector/         *)
(* factory.py in each process, the settings an administrator stores with   *)
(* set_tenant_database (backend/api/tenants.py), and reconnect_db.         *)
(*                                                                         *)
(* A target is the number of the write that configured it.  A cached       *)
(* connector is filed under the version of the settings it was built from. *)
(* Coroutines switch at every await; the processes share the settings.     *)
(***************************************************************************)
EXTENDS Naturals, Sequences

CONSTANTS
  Servers,        \* processes
  Callers,        \* coroutines that serve requests
  NoServer,
  MaxVersion,     \* bound: stored settings
  MaxConnectors,  \* bound: connector objects
  MaxDrops,       \* bound: lost connections and failed connects
  MaxCalls        \* bound: requests

ASSUME ConnectorsAssumption ==
  /\ NoServer \notin Servers
  /\ {MaxVersion, MaxConnectors} \subseteq Nat \ {0}
  /\ {MaxDrops, MaxCalls} \subseteq Nat

VARIABLES
  config,     \* the row of tenant_database_configs
  written,    \* writes of it so far
  conns,      \* connector objects of all processes
  cached,     \* _connectors: per process and version an object, or 0
  lockOf,     \* _locks: per process and version, how often it was dropped
  caller,
  crossed,    \* history: a connector was evicted while a request was getting it
  raced,      \* history: two writes of the settings read the same version
  drops, calls

connectorVars == <<config, written, conns, cached, lockOf, caller, crossed, raced, drops, calls>>

-----------------------------------------------------------------------------
(* Data *)

Versions == 1..MaxVersion
Settings == [version : Versions, target : Versions]
Connector == [target : Versions, server : Servers, open : BOOLEAN]

CallerPoints == {"idle", "load", "look", "wait", "locked", "connect", "done", "asked",
                 "write", "evict"}
Caller == [pc : CallerPoints, server : Servers \cup {NoServer}, row : Settings,
           lock : Nat, got : 0..MaxConnectors, again : 0..MaxConnectors, oldest : Versions,
           left : SUBSET Versions, returns : BOOLEAN]
FirstRow == [version |-> 1, target |-> 1]
IdleCaller == [pc |-> "idle", server |-> NoServer, row |-> FirstRow, lock |-> 0, got |-> 0,
               again |-> 0, oldest |-> 1, left |-> {}, returns |-> FALSE]

At(c, pc) == caller[c].pc = pc
Move(c, pc) == caller' = [caller EXCEPT ![c].pc = pc]
Server(c) == caller[c].server
KeyWithoutVersion(c) == 1  \* mutant: the version is left out, as create_connector does
Key(c) == caller[c].row.version
CachedFor(c) == cached[Server(c)][Key(c)]
Healthy(o) == o # 0 /\ conns[o].open

ConnectorsInit ==
  /\ config = FirstRow
  /\ written = 1
  /\ conns = <<>>
  /\ cached = [s \in Servers |-> [v \in Versions |-> 0]]
  /\ lockOf = [s \in Servers |-> [v \in Versions |-> 0]]
  /\ caller = [c \in Callers |-> IdleCaller]
  /\ crossed = FALSE /\ raced = FALSE
  /\ drops = 0 /\ calls = 0

BeginCall(c, s, pc, left, returns) ==
  /\ At(c, "idle")
  /\ calls < MaxCalls
  /\ calls' = calls + 1
  /\ caller' = [caller EXCEPT ![c] =
       [IdleCaller EXCEPT !.pc = pc, !.server = s, !.oldest = config.target,
                          !.left = left, !.returns = returns]]

-----------------------------------------------------------------------------
(* get_connector *)

GetConnector(c, s) ==
  /\ BeginCall(c, s, "load", {}, TRUE)
  /\ UNCHANGED <<config, written, conns, cached, lockOf, crossed, raced, drops>>

LoadConfig(c) ==
  /\ At(c, "load")
  /\ caller' = [caller EXCEPT ![c].pc = "look", ![c].row = config]
  /\ UNCHANGED <<config, written, conns, cached, lockOf, crossed, raced, drops, calls>>

\* A healthy connector is returned without the lock.
Look(c) ==
  /\ At(c, "look")
  /\ caller' = IF Healthy(CachedFor(c))
               THEN [caller EXCEPT ![c].pc = "done", ![c].got = CachedFor(c)]
               ELSE [caller EXCEPT ![c].pc = "wait", ![c].lock = lockOf[Server(c)][Key(c)]]
  /\ UNCHANGED <<config, written, conns, cached, lockOf, crossed, raced, drops, calls>>

SameLock(c, d) ==
  Server(c) = Server(d) /\ Key(c) = Key(d) /\ caller[c].lock = caller[d].lock

Acquire(c) ==
  /\ At(c, "wait")
  /\ \A d \in Callers \ {c} : caller[d].pc \in {"locked", "connect"} => ~SameLock(c, d)
  /\ Move(c, "locked")
  /\ UNCHANGED <<config, written, conns, cached, lockOf, crossed, raced, drops, calls>>

\* Under the lock: what is cached now, or a new object.
Build(c) ==
  /\ Len(conns) < MaxConnectors
  /\ conns' = Append(conns, [target |-> caller[c].row.target, server |-> Server(c), open |-> FALSE])
  /\ cached' = [cached EXCEPT ![Server(c)][Key(c)] = Len(conns) + 1]
  /\ caller' = [caller EXCEPT ![c].pc = "connect", ![c].got = Len(conns) + 1]
Reuse(c) ==
  /\ caller' = [caller EXCEPT ![c].pc = IF Healthy(CachedFor(c)) THEN "done" ELSE "connect",
                              ![c].got = CachedFor(c)]
  /\ UNCHANGED <<conns, cached>>
ObtainUnchecked(c) ==  \* mutant: the cache is not looked at again under the lock
  /\ At(c, "locked")
  /\ Build(c)
  /\ UNCHANGED <<config, written, lockOf, crossed, raced, drops, calls>>
Obtain(c) ==
  /\ At(c, "locked")
  /\ IF CachedFor(c) = 0 THEN Build(c) ELSE Reuse(c)
  /\ UNCHANGED <<config, written, lockOf, crossed, raced, drops, calls>>

Connect(c) ==
  /\ At(c, "connect")
  /\ conns' = [conns EXCEPT ![caller[c].got].open = TRUE]
  /\ Move(c, "done")
  /\ UNCHANGED <<config, written, cached, lockOf, crossed, raced, drops, calls>>

\* The target cannot be reached: the request fails, the object stays cached.
ConnectFails(c) ==
  /\ At(c, "connect")
  /\ drops < MaxDrops
  /\ drops' = drops + 1
  /\ caller' = [caller EXCEPT ![c] = IdleCaller]
  /\ UNCHANGED <<config, written, conns, cached, lockOf, crossed, raced, calls>>

\* A later create_connector() of the same request, as the backup manager does:
\* it looks under version 1 and raises when nothing is cached there.
CreateConnector(c) ==
  /\ At(c, "done")
  /\ caller' = [caller EXCEPT ![c].pc = "asked", ![c].again = cached[Server(c)][1]]
  /\ UNCHANGED <<config, written, conns, cached, lockOf, crossed, raced, drops, calls>>

EndCall(c) ==
  /\ caller[c].pc \in {"done", "asked"}
  /\ caller' = [caller EXCEPT ![c] = IdleCaller]
  /\ UNCHANGED <<config, written, conns, cached, lockOf, crossed, raced, drops, calls>>

-----------------------------------------------------------------------------
(* set_tenant_database, reconnect_db, close_tenant_connector *)

CachedVersions(s) == {v \in Versions : cached[s][v] # 0}

Configure(c, s) ==
  /\ BeginCall(c, s, "write", {}, FALSE)
  /\ UNCHANGED <<config, written, conns, cached, lockOf, crossed, raced, drops>>

\* config_version += 1 on the row as it was read; the caller keeps that row.
ReadSettings(c) ==
  /\ At(c, "write") /\ caller[c].lock = 0
  /\ caller' = [caller EXCEPT ![c].row = config, ![c].lock = 1]
  /\ UNCHANGED <<config, written, conns, cached, lockOf, crossed, raced, drops, calls>>

WriteSettings(c) ==
  /\ At(c, "write") /\ caller[c].lock = 1
  /\ Key(c) < MaxVersion /\ written < MaxVersion
  /\ written' = written + 1
  /\ config' = [version |-> Key(c) + 1, target |-> written + 1]
  /\ raced' = (raced \/ config # caller[c].row)
  /\ caller' = [caller EXCEPT ![c].pc = "evict", ![c].left = CachedVersions(Server(c))]
  /\ UNCHANGED <<conns, cached, lockOf, crossed, drops, calls>>

Reconnect(c, s) ==
  /\ BeginCall(c, s, "evict", CachedVersions(s), TRUE)
  /\ UNCHANGED <<config, written, conns, cached, lockOf, crossed, raced, drops>>

\* One turn of the loop: the object and its lock are dropped, and it is closed.
Evict(c, v) ==
  /\ At(c, "evict") /\ v \in caller[c].left
  /\ LET s == Server(c) IN
       /\ cached' = [cached EXCEPT ![s][v] = 0]
       /\ lockOf' = [lockOf EXCEPT ![s][v] = @ + 1]
       /\ conns' = IF cached[s][v] = 0 THEN conns
                   ELSE [conns EXCEPT ![cached[s][v]].open = FALSE]
       /\ crossed' = (crossed \/ \E d \in Callers : Server(d) = s /\
                        caller[d].pc \in {"look", "wait", "locked", "connect"})
  /\ caller' = [caller EXCEPT ![c].left = @ \ {v}]
  /\ UNCHANGED <<config, written, raced, drops, calls>>

Evicted(c) ==
  /\ At(c, "evict") /\ caller[c].left = {}
  /\ caller' = [caller EXCEPT ![c] =
       IF caller[c].returns THEN [caller[c] EXCEPT !.pc = "load", !.lock = 0] ELSE IdleCaller]
  /\ UNCHANGED <<config, written, conns, cached, lockOf, crossed, raced, drops, calls>>

Drop(o) ==
  /\ drops < MaxDrops
  /\ conns[o].open
  /\ drops' = drops + 1
  /\ conns' = [conns EXCEPT ![o].open = FALSE]
  /\ UNCHANGED <<config, written, cached, lockOf, caller, crossed, raced, calls>>

ConnectorsNext ==
  \/ \E c \in Callers :
       \/ \E s \in Servers : GetConnector(c, s) \/ Configure(c, s) \/ Reconnect(c, s)
       \/ LoadConfig(c) \/ Look(c) \/ Acquire(c) \/ Obtain(c) \/ Connect(c) \/ ConnectFails(c)
       \/ CreateConnector(c) \/ EndCall(c)
       \/ ReadSettings(c) \/ WriteSettings(c)
       \/ \E v \in Versions : Evict(c, v)
       \/ Evicted(c)
  \/ \E o \in DOMAIN conns : Drop(o)

ConnectorsSpec == ConnectorsInit /\ [][ConnectorsNext]_connectorVars

-----------------------------------------------------------------------------
(* Properties *)

\* Every variable has a value of its kind.
ConnectorsTypeOK ==
  /\ config \in Settings
  /\ written \in Versions
  /\ conns \in Seq(Connector) /\ Len(conns) <= MaxConnectors
  /\ cached \in [Servers -> [Versions -> 0..Len(conns)]]
  /\ lockOf \in [Servers -> [Versions -> Nat]]
  /\ caller \in [Callers -> Caller]
  /\ {crossed, raced} \subseteq BOOLEAN
  /\ drops \in 0..MaxDrops /\ calls \in 0..MaxCalls

\* In every process, get_connector returns a connector to the database that was
\* configured when the call began, or to a later one, unless two administrators
\* stored settings at the same time.
ConnectorIsCurrent ==
  \A c \in Callers :
    At(c, "done") /\ ~raced => conns[caller[c].got].target >= caller[c].oldest

\* An open connection can be closed again: it is in the cache of its process,
\* unless it was evicted while a request was getting it.
NoConnectionIsLost ==
  ~crossed => \A o \in DOMAIN conns :
                conns[o].open => \E v \in Versions : cached[conns[o].server][v] = o

\* factory.py: create_connector() raises when get_connector() was not called
\* before; after it, it returns the connector that get_connector() returned, as
\* long as that one is open and nothing was evicted while a request was getting
\* a connector.
CreatedIsTheSame ==
  \A c \in Callers :
    At(c, "asked") /\ conns[caller[c].got].open /\ ~crossed => caller[c].again = caller[c].got
=============================================================================
