---------------------------- MODULE Organization ----------------------------
(***************************************************************************)
(* Organization units and memberships: backend/organization_service.py,    *)
(* its handlers in backend/api/departments.py, the contexts that           *)
(* backend/organization_context.py resolves, and the constraints and       *)
(* triggers of the two tables.                                             *)
(*                                                                         *)
(* A handler reads the tables and later writes: on SQLite, the default     *)
(* database, a SELECT opens no transaction and FOR UPDATE is no lock, so   *)
(* another handler may commit in between.  The write carries the columns   *)
(* the handler changed, computed from what it read.                        *)
(*                                                                         *)
(* Names, roles and job titles are left out, and so is the version of a    *)
(* membership, which a client can always quote as the handler reads it.    *)
(* The domain event that a handler adds after its commit is read by no     *)
(* code, and left out.                                                     *)
(***************************************************************************)
EXTENDS Naturals, Sequences

CONSTANTS
  Units,       \* ids of units, fresh ones and those of InitialUnits
  Level,       \* 1 company, 2 department, 3 group, 4 individual
  Home,        \* the parent of an initial unit
  InitialUnits,
  Members,     \* ids of memberships
  Users,
  NoUnit,
  NoUser,
  Sessions,    \* handlers that have read and not written yet
  MaxWrites    \* bound: commits of a behaviour

ASSUME OrganizationAssumption ==
  /\ Level \in [Units -> 1..4]
  /\ InitialUnits \subseteq Units
  /\ Home \in [InitialUnits -> InitialUnits \cup {NoUnit}]
  /\ NoUnit \notin Units
  /\ NoUser \notin Users
  /\ MaxWrites \in Nat
  /\ \A u \in InitialUnits :
       IF Level[u] = 1 THEN Home[u] = NoUnit
       ELSE Home[u] # NoUnit /\ Level[u] = Level[Home[u]] + 1

VARIABLES
  units,     \* organization_units
  members,   \* organization_memberships
  seen,      \* what each session has read
  tokens,    \* the organization context token that is followed from its issue
  raced,     \* history: a handler wrote although the tables had changed
  writes     \* commits so far

orgVars == <<units, members, seen, tokens, raced, writes>>

-----------------------------------------------------------------------------
(* Rows *)

Unit == [state : {"none", "active", "disabled"}, parent : Units \cup {NoUnit},
         company : Units \cup {NoUnit}, path : Seq(Units), ver : Nat]
FreshUnit == [state |-> "none", parent |-> NoUnit, company |-> NoUnit,
              path |-> <<>>, ver |-> 0]

Validity == {"later", "now", "past"}
Member == [user : Users \cup {NoUser}, unit : Units \cup {NoUnit},
           active : BOOLEAN, primary : BOOLEAN, when : Validity]
FreshMember == [user |-> NoUser, unit |-> NoUnit, active |-> FALSE,
                primary |-> FALSE, when |-> "past"]

Read == [live : BOOLEAN, units : [Units -> Unit], members : [Members -> Member]]
Nothing == [live |-> FALSE, units |-> [u \in Units |-> FreshUnit],
            members |-> [m \in Members |-> FreshMember]]

Begins(p, q) == Len(p) <= Len(q) /\ SubSeq(q, 1, Len(p)) = p

\* The units below a path: the LIKE 'path/%' of the queries.
NothingBelow(us, p) == {}  \* mutant: the paths below stay
Below(us, p) == {u \in Units : us[u].state # "none" /\ us[u].path # p /\ Begins(p, us[u].path)}

\* resolve_scope_node_ids for a context of unit x.
Scope(us, x) ==
  IF Level[x] = 4 THEN {x}
  ELSE {u \in Units : /\ us[u].state = "active"
                      /\ us[u].company = us[x].company
                      /\ Begins(us[x].path, us[u].path)}
Visible(us, u) == \E x \in Units : us[x].state = "active" /\ u \in Scope(us, x)
VisibleFromAbove(us, u) ==
  \E x \in Units \ {u} : us[x].state = "active" /\ u \in Scope(us, x)

\* The trigger organization_parent_level_insert / _update.
ParentFits(us, p, lvl, company) ==
  us[p].state # "none" /\ Level[p] + 1 = lvl /\ us[p].company = company

Peers(ms, x, lvl) == {m \in Members : ms[m].user = x /\ ms[m].active
                                          /\ Level[ms[m].unit] = lvl}
Effective(ms, x, lvl) == {m \in Peers(ms, x, lvl) : ms[m].when = "now"}

\* The unique indexes of organization_memberships.
Indexed(ms) ==
  \A m, n \in {k \in Members : ms[k].user # NoUser} : m # n =>
    /\ ~ (ms[m].user = ms[n].user /\ ms[m].unit = ms[n].unit)
    /\ ~ (/\ ms[m].active /\ ms[n].active /\ ms[m].primary /\ ms[n].primary
          /\ ms[m].user = ms[n].user /\ Level[ms[m].unit] = Level[ms[n].unit])
    /\ ~ (ms[m].active /\ ms[n].active /\ ms[m].unit = ms[n].unit
          /\ Level[ms[m].unit] = 4)

\* The ORM puts a column into its UPDATE only when the handler changed it.
Put(current, read, new) == IF new = read THEN current ELSE new

PathTo[lvl \in 1..4] ==
  [u \in {v \in InitialUnits : Level[v] = lvl} |->
     IF lvl = 1 THEN <<u>> ELSE Append(PathTo[lvl - 1][Home[u]], u)]
OrgInit ==
  /\ units = [u \in Units |->
                IF u \notin InitialUnits THEN FreshUnit
                ELSE [state |-> "active", parent |-> Home[u],
                      company |-> Head(PathTo[Level[u]][u]),
                      path |-> PathTo[Level[u]][u], ver |-> 1]]
  /\ members = [m \in Members |-> FreshMember]
  /\ seen = [h \in Sessions |-> Nothing]
  /\ tokens = {}
  /\ raced = FALSE
  /\ writes = 0

-----------------------------------------------------------------------------
(* A handler's session *)

Load(h) ==
  /\ ~seen[h].live
  /\ seen' = [seen EXCEPT ![h] = [live |-> TRUE, units |-> units, members |-> members]]
  /\ UNCHANGED <<units, members, tokens, raced, writes>>

\* The handler refuses, or a constraint makes its commit fail.
GiveUp(h) ==
  /\ seen[h].live
  /\ seen' = [seen EXCEPT ![h] = Nothing]
  /\ UNCHANGED <<units, members, tokens, raced, writes>>

Commit(h) ==
  /\ seen[h].live
  /\ writes < MaxWrites
  /\ seen' = [seen EXCEPT ![h] = Nothing]
  /\ raced' = (raced \/ seen[h].units # units \/ seen[h].members # members)
  /\ writes' = writes + 1
  /\ UNCHANGED tokens

NewUnitUnderId(us, u, p) ==  \* mutant: the path starts at the parent
  [state |-> "active", parent |-> p,
   company |-> IF p = NoUnit THEN u ELSE us[p].company,
   path |-> IF p = NoUnit THEN <<u>> ELSE <<p, u>>, ver |-> 1]
NewUnit(us, u, p) ==
  [state |-> "active", parent |-> p,
   company |-> IF p = NoUnit THEN u ELSE us[p].company,
   path |-> IF p = NoUnit THEN <<u>> ELSE Append(us[p].path, u),
   ver |-> 1]

\* create_unit: the parent was active when it was read.
CreateUnit(h, u, p) ==
  LET us == seen[h].units
  IN /\ Commit(h)
     /\ units[u].state = "none"
     /\ IF Level[u] = 1 THEN p = NoUnit
        ELSE /\ p # NoUnit
             /\ us[p].state = "active" /\ Visible(us, p)
             /\ Level[u] = Level[p] + 1
             /\ ParentFits(units, p, Level[u], us[p].company)
     /\ units' = [units EXCEPT ![u] = NewUnit(us, u, p)]
     /\ UNCHANGED members

UpdateUnit(h, u) ==
  /\ Commit(h)
  /\ Visible(seen[h].units, u)
  /\ units' = [units EXCEPT ![u].ver = seen[h].units[u].ver + 1]
  /\ UNCHANGED members

RebasedSameVersion(read, current, old, new) ==  \* mutant: the version stays
  [current EXCEPT
     !.path = Put(@, read.path,
                  new \o SubSeq(read.path, Len(old) + 1, Len(read.path)))]
\* The row of a unit below the moved one, whose path then was old.
Rebased(read, current, old, new) ==
  [current EXCEPT
     !.path = Put(@, read.path,
                  new \o SubSeq(read.path, Len(old) + 1, Len(read.path))),
     !.ver = read.ver + 1]

Movable(us, u, p) ==
  /\ us[u].state # "none" /\ us[p].state = "active"
  /\ Level[u] # 1 /\ Level[u] = Level[p] + 1
  /\ us[p].company = us[u].company
  /\ ~Begins(us[u].path, us[p].path)

\* move_organization_unit, after reading us: it rewrites the unit and every unit
\* that the path of the unit says is below it.
Moved(us, u, p) ==
  LET new == Append(us[p].path, u)
  IN [v \in Units |->
        IF v = u
        THEN [units[u] EXCEPT !.parent = Put(@, us[u].parent, p),
                              !.path = Put(@, us[u].path, new),
                              !.ver = us[u].ver + 1]
        ELSE IF v \in Below(us, us[u].path) /\ us[v].company = us[u].company
        THEN Rebased(us[v], units[v], us[u].path, new)
        ELSE units[v]]

MoveUnit(h, u, p) ==
  LET us == seen[h].units
  IN /\ Commit(h)
     /\ Visible(us, u) /\ Visible(us, p)
     /\ Movable(us, u, p)
     /\ us[u].parent # p => ParentFits(units, p, Level[u], units[u].company)
     /\ units' = Moved(us, u, p)
     /\ UNCHANGED members

\* disable_unit counts active children and members, without a lock.
DisableUnit(h, u) ==
  LET us == seen[h].units
  IN /\ Commit(h)
     /\ VisibleFromAbove(us, u)
     /\ \A v \in Units : ~ (us[v].parent = u /\ us[v].state = "active")
     /\ \A m \in Members : ~ (seen[h].members[m].unit = u /\ seen[h].members[m].active)
     /\ units' = [units EXCEPT ![u].state = Put(@, us[u].state, "disabled"),
                               ![u].ver = us[u].ver + 1]
     /\ UNCHANGED members

-----------------------------------------------------------------------------
(* Memberships *)

StoreMembers(ms) ==
  /\ Indexed(ms)
  /\ members' = ms
  /\ UNCHANGED units

\* create_organization_membership, after reading ms.
NewMember(ms, x, u, w) ==
  [user |-> x, unit |-> u, active |-> TRUE,
   primary |-> Effective(ms, x, Level[u]) = {}, when |-> w]

AddMembership(h, m, x, u, w) ==
  LET us == seen[h].units
      ms == seen[h].members
  IN /\ Commit(h)
     /\ members[m] = FreshMember
     /\ us[u].state = "active" /\ Visible(us, u)
     /\ \A n \in Members : ~ (ms[n].user = x /\ ms[n].unit = u)
     /\ StoreMembers([members EXCEPT ![m] = NewMember(ms, x, u, w)])

\* update_membership looks neither at active nor at is_primary.
UpdateMembership(h, m, w) ==
  LET ms == seen[h].members
  IN /\ Commit(h)
     /\ ms[m].user # NoUser /\ Visible(seen[h].units, ms[m].unit)
     /\ StoreMembers([members EXCEPT ![m].when = Put(@, ms[m].when, w)])

\* The rows once m is the primary membership; the one it replaces was read as cur.
Promoted(ms, cur, m, read) ==
  [n \in Members |-> IF n = m THEN [ms[n] EXCEPT !.primary = Put(@, read, TRUE)]
                     ELSE IF n \in cur THEN [ms[n] EXCEPT !.primary = FALSE]
                     ELSE ms[n]]
Primaries(ms, m) ==
  {n \in Peers(ms, ms[m].user, Level[ms[m].unit]) : ms[n].primary}

SetPrimary(h, m) ==
  LET us == seen[h].units
      ms == seen[h].members
  IN /\ Commit(h)
     /\ ms[m].active /\ ms[m].when = "now" /\ Visible(us, ms[m].unit)
     /\ StoreMembers(Promoted(members, Primaries(ms, m), m, ms[m].primary))

\* A disabled membership keeps neither flag; the ORM writes those it changes.
Disabled(ms, m, read) ==
  [ms EXCEPT ![m].active = FALSE, ![m].primary = Put(@, read, FALSE)]

DisableMember(h, m) ==
  LET us == seen[h].units
      ms == seen[h].members
  IN /\ Commit(h)
     /\ ms[m].active /\ Visible(us, ms[m].unit)
     /\ ms[m].primary => Effective(ms, ms[m].user, Level[ms[m].unit]) \subseteq {m}
     /\ StoreMembers(Disabled(members, m, ms[m].primary))

\* With a replacement: the primary flag moves inside the same transaction,
\* which reads the other rows again.
ReplacePrimary(h, m, r) ==
  LET us == seen[h].units
      ms == seen[h].members
      freed == [members EXCEPT ![m].primary = FALSE]
  IN /\ Commit(h)
     /\ ms[m].active /\ ms[m].primary /\ Visible(us, ms[m].unit)
     /\ r \in Effective(ms, ms[m].user, Level[ms[m].unit])
     /\ members[r].active
     /\ StoreMembers(Disabled(Promoted(freed, Primaries(freed, r), r, FALSE), m, TRUE))

\* A validity period begins or ends.
Elapse(m) ==
  /\ members[m].user # NoUser
  /\ members[m].when # "past"
  /\ members' = [members EXCEPT ![m].when = IF @ = "later" THEN "now" ELSE "past"]
  /\ UNCHANGED <<units, seen, tokens, raced, writes>>

-----------------------------------------------------------------------------
(* Contexts *)

\* resolve_organization_context for membership m.
Resolves(m) ==
  LET u == members[m].unit
  IN /\ members[m].active /\ members[m].when = "now"
     /\ units[u].state = "active"
     /\ \A i \in 1..Len(units[u].path) :
          /\ units[units[u].path[i]].state = "active"
          /\ units[units[u].path[i]].company = units[u].company
     /\ units[u].path[Len(units[u].path)] = u

\* switch_context issues a token that carries the version of the unit.
SwitchContext(m) ==
  /\ tokens = {}
  /\ Resolves(m)
  /\ tokens' = {[member |-> m, path |-> units[members[m].unit].path,
                 ver |-> units[members[m].unit].ver]}
  /\ UNCHANGED <<units, members, seen, raced, writes>>

\* get_current_user with token t.
Accepts(t) == Resolves(t.member) /\ units[members[t.member].unit].ver = t.ver

OrgNext ==
  \/ \E h \in Sessions :
       \/ Load(h)
       \/ GiveUp(h)
       \/ \E u \in Units : \/ \E p \in Units \cup {NoUnit} : CreateUnit(h, u, p)
                           \/ UpdateUnit(h, u)
                           \/ \E p \in Units : MoveUnit(h, u, p)
                           \/ DisableUnit(h, u)
       \/ \E m \in Members :
            \/ \E x \in Users, u \in Units, w \in Validity : AddMembership(h, m, x, u, w)
            \/ \E w \in Validity : UpdateMembership(h, m, w)
            \/ SetPrimary(h, m)
            \/ DisableMember(h, m)
            \/ \E r \in Members : ReplacePrimary(h, m, r)
  \/ \E m \in Members : Elapse(m) \/ SwitchContext(m)

OrgSpec == OrgInit /\ [][OrgNext]_orgVars

-----------------------------------------------------------------------------
(* Properties *)

\* Every row has the columns of its table, and every session has read such rows.
OrgTypeOK ==
  /\ units \in [Units -> Unit]
  /\ members \in [Members -> Member]
  /\ seen \in [Sessions -> Read]
  /\ tokens \subseteq [member : Members, path : Seq(Units), ver : Nat]
  /\ raced \in BOOLEAN
  /\ writes \in 0..MaxWrites

Shaped(u, row) ==
  /\ Len(row.path) = Level[u]
  /\ row.path[Len(row.path)] = u
  /\ row.path[1] = row.company
  /\ \A i \in 1..Len(row.path) : Level[row.path[i]] = i

\* Whatever overlaps, a path names one unit per level, from the unit's company
\* to the unit itself: a scope, which is a prefix of paths, never leaves the
\* company (resolve_scope_node_ids, move_organization_unit).
PathsFollowLevels ==
  \A u \in Units : units[u].state # "none" => Shaped(u, units[u])

\* Every variable has a value of its kind, and the paths follow the levels.
OrgIsWellFormed == OrgTypeOK /\ PathsFollowLevels

\* Until a handler writes over a change it has not read, the paths follow the
\* parents, an active unit has an active parent and an active membership an
\* active unit: create, move and disable preserve the tree together.
TreeIsSound ==
  ~raced =>
    /\ \A u \in Units : units[u].state # "none" /\ units[u].parent # NoUnit =>
         /\ units[u].path = Append(units[units[u].parent].path, u)
         /\ units[u].state = "active" => units[units[u].parent].state = "active"
    /\ \A m \in Members : members[m].active => units[members[m].unit].state = "active"

\* Until then, a context token that is still accepted stands for the path it
\* was issued for: a move or a disabled unit anywhere above revokes it.
ContextIsFresh ==
  ~raced => \A t \in tokens : Accepts(t) =>
    /\ units[members[t.member].unit].path = t.path
    /\ \A i \in 1..Len(t.path) : units[t.path[i]].state = "active"

\* A user with active memberships of a level has one primary among them: what
\* organization_migration_check.py reports as primary_count_invalid otherwise.
\* It does not hold and is in no run: see the README.
OnePrimary ==
  \A x \in Users, lvl \in 1..4 :
    LET mine == Peers(members, x, lvl)
    IN mine # {} => \E m \in mine : members[m].primary

=============================================================================
