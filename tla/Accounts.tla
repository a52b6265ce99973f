------------------------------ MODULE Accounts ------------------------------
(***************************************************************************)
(* User accounts: backend/api/auth.py (login, create, update, change of    *)
(* password) and backend/auth.py (tokens, the check of every request, the  *)
(* first administrator).                                                   *)
(*                                                                         *)
(* A call reads rows and later commits.  Only a change of is_active locks  *)
(* out the others before it reads (_lock_platform_admin_mutation); the     *)
(* other commits carry columns computed from what the call read.  Phones,  *)
(* display names and roles are left out, and so are the version a client   *)
(* quotes, which it can always have read just before, and organizations,   *)
(* which restrict who may be managed (see Organization).                   *)
(***************************************************************************)
EXTENDS Naturals, FiniteSets

CONSTANTS
  People,     \* ids of users
  Names,      \* normalized usernames
  AdminName,  \* SQL_RPA_ADMIN_USERNAME
  NameOf,     \* the username a create payload asks for
  Payloads,   \* create payloads, up to their request hash
  Keys,       \* an actor and an Idempotency-Key
  Workers,    \* processes that start and call ensure_default_admin
  Calls,      \* requests
  Migrated,   \* users the identity migration may have left
  Nobody,     \* no user, no payload, no name
  MaxRevocations  \* bound: deactivations and changes of password

ASSUME AccountsAssumption ==
  /\ AdminName \in Names
  /\ NameOf \in [Payloads -> Names]
  /\ Migrated \subseteq People
  /\ Nobody \notin People \cup Payloads \cup Names
  /\ AdminName \notin Keys
  /\ MaxRevocations \in Nat

VARIABLES
  users,      \* users
  keys,       \* user_create_idempotency
  worker,     \* where a starting process is
  call,       \* calls
  issued,     \* the access token that is followed
  answers,    \* history: the last create call that answered with a user
  made,       \* history: users created, and under which key (or AdminName)
  overwrote,  \* history: a change of password wrote over a revocation
  revocations \* deactivations and changes of password so far

accountVars == <<users, keys, worker, call, issued, answers, made, overwrote,
                 revocations>>

-----------------------------------------------------------------------------
(* Rows *)

Account == [name : Names \cup {Nobody}, admin : BOOLEAN, active : BOOLEAN,
            tokenVersion : Nat]
NoAccount == [name |-> Nobody, admin |-> FALSE, active |-> FALSE, tokenVersion |-> 0]
NewAccount(n, admin) == [name |-> n, admin |-> admin, active |-> TRUE, tokenVersion |-> 1]

KeyRow == [user : People \cup {Nobody}, payload : Payloads \cup {Nobody}]
NoKeyRow == [user |-> Nobody, payload |-> Nobody]

Call == [pc : {"idle", "login", "create", "password"}, user : People \cup {Nobody},
         read : Nat, late : BOOLEAN,
         key : Keys \cup {Nobody}, payload : Payloads \cup {Nobody}]
IdleCall == [pc |-> "idle", user |-> Nobody, read |-> 0, late |-> FALSE,
             key |-> Nobody, payload |-> Nobody]

Exists(u) == users[u].name # Nobody
Taken(n) == \E u \in People : users[u].name = n
AllAdmins == {u \in People : users[u].admin}  \* as a mutant: the inactive count
ActiveAdmins == {u \in People : users[u].admin /\ users[u].active}

End(c) == call' = [call EXCEPT ![c] = IdleCall]

\* The row of u is read: its token version, and history: whether what the row
\* says has been revoked since.
ReadRow(c, u, pc) ==
  call' = [call EXCEPT ![c] = [IdleCall EXCEPT !.pc = pc, !.user = u,
                                              !.read = users[u].tokenVersion]]

\* get_current_user: who a token is accepted for.
Admits(t) == users[t.user].active /\ t.tokenVersion = users[t.user].tokenVersion

\* What a commit to user u revokes: every token issued for it so far, and what
\* the calls in progress have read.
Revoke(u) ==
  /\ revocations < MaxRevocations
  /\ revocations' = revocations + 1
  /\ issued' = {IF t.user = u THEN [t EXCEPT !.dead = TRUE] ELSE t : t \in issued}
RevokeReads(u) ==
  [c \in Calls |-> IF call[c].user = u THEN [call[c] EXCEPT !.late = TRUE] ELSE call[c]]

AccountsInit ==
  /\ \E old \in SUBSET Migrated, n \in [Migrated -> Names], admin \in [Migrated -> BOOLEAN] :
       /\ \A u, v \in old : u # v => n[u] # n[v]
       /\ users = [u \in People |-> IF u \in old THEN NewAccount(n[u], admin[u])
                                   ELSE NoAccount]
  /\ keys = [k \in Keys |-> NoKeyRow]
  /\ worker = [w \in Workers |-> "down"]
  /\ call = [c \in Calls |-> IdleCall]
  /\ issued = {}
  /\ answers = {}
  /\ made = {}
  /\ overwrote = FALSE
  /\ revocations = 0

-----------------------------------------------------------------------------
(* The first administrator: ensure_default_admin of a starting process *)

CountAdmins(w) ==
  /\ worker[w] = "down"
  /\ worker' = [worker EXCEPT ![w] =
       IF AllAdmins # {} THEN "up" ELSE IF Taken(AdminName) THEN "failed" ELSE "insert"]
  /\ UNCHANGED <<users, keys, call, issued, answers, made, overwrote, revocations>>

InsertAdmin(w) ==
  /\ worker[w] = "insert"
  /\ ~Taken(AdminName)
  /\ \E u \in People :
       /\ ~Exists(u)
       /\ users' = [users EXCEPT ![u] = NewAccount(AdminName, TRUE)]
       /\ made' = made \cup {<<u, AdminName>>}
  /\ worker' = [worker EXCEPT ![w] = "up"]
  /\ UNCHANGED <<keys, call, issued, answers, overwrote, revocations>>

\* The username is taken by now: another worker may have won the race.
InsertConflict(w) ==
  /\ worker[w] = "insert"
  /\ Taken(AdminName)
  /\ worker' = [worker EXCEPT ![w] = IF AllAdmins # {} THEN "up" ELSE "failed"]
  /\ UNCHANGED <<users, keys, call, issued, answers, made, overwrote, revocations>>

Running == \E w \in Workers : worker[w] = "up"

-----------------------------------------------------------------------------
(* Login *)

\* The row is read and the password verified.
LoginRead(c, u) ==
  /\ Running
  /\ call[c].pc = "idle"
  /\ users[u].active
  /\ ReadRow(c, u, "login")
  /\ UNCHANGED <<users, keys, worker, issued, answers, made, overwrote, revocations>>

\* The token is issued from the row as it was read.
LoginIssue(c) ==
  /\ call[c].pc = "login"
  /\ issued = {}
  /\ issued' = {[user |-> call[c].user, tokenVersion |-> call[c].read,
                 dead |-> call[c].late]}
  /\ End(c)
  /\ UNCHANGED <<users, keys, worker, answers, made, overwrote, revocations>>

-----------------------------------------------------------------------------
(* Create *)

\* A record of the key answers at once; a taken name is refused.
CreateRead(c, k, p) ==
  /\ Running
  /\ call[c].pc = "idle"
  /\ IF keys[k] # NoKeyRow
     THEN /\ keys[k].payload = p
          /\ answers' = {<<k, p, keys[k].user>>}
          /\ UNCHANGED call
     ELSE /\ ~Taken(NameOf[p])
          /\ call' = [call EXCEPT ![c] = [IdleCall EXCEPT !.pc = "create", !.key = k,
                                                          !.payload = p]]
          /\ UNCHANGED answers
  /\ UNCHANGED <<users, keys, worker, issued, made, overwrote, revocations>>

KeyIsOpen(k) == TRUE  \* mutant: no unique (actor_id, idempotency_key)
KeyIsFree(k) == keys[k] = NoKeyRow

\* The user, its membership and the record of the key are one transaction.
CreateCommit(c) ==
  LET k == call[c].key
      p == call[c].payload
  IN /\ call[c].pc = "create"
     /\ ~Taken(NameOf[p])
     /\ KeyIsFree(k)
     /\ \E u \in People :
          /\ ~Exists(u)
          /\ users' = [users EXCEPT ![u] = NewAccount(NameOf[p], FALSE)]
          /\ keys' = [keys EXCEPT ![k] = [user |-> u, payload |-> p]]
          /\ made' = made \cup {<<u, k>>}
          /\ answers' = {<<k, p, u>>}
     /\ End(c)
     /\ UNCHANGED <<worker, issued, overwrote, revocations>>

\* A unique constraint fails: at the flush of the user the error goes out
\* (Taken), at the commit of the record the call looks for it again.
CreateConflict(c) ==
  LET k == call[c].key
      p == call[c].payload
  IN /\ call[c].pc = "create"
     /\ Taken(NameOf[p]) \/ ~KeyIsFree(k)
     /\ answers' = IF ~Taken(NameOf[p]) /\ keys[k].payload = p
                   THEN {<<k, p, keys[k].user>>} ELSE answers
     /\ End(c)
     /\ UNCHANGED <<users, keys, worker, issued, made, overwrote, revocations>>

-----------------------------------------------------------------------------
(* Update and change of password *)

\* The row of a user who is deactivated, or activated again.
DeactivatedSameTokens(row, on) ==  \* mutant: the tokens stay valid
  [row EXCEPT !.active = on]
SwitchedRow(row, on) ==
  [row EXCEPT !.active = on,
              !.tokenVersion = IF on THEN @ ELSE @ + 1]

\* update_user with is_active, inside the lock; the acting administrator was
\* authenticated before it, and may be inactive by now.
SetActive(actor, u, on) ==
  /\ Running
  /\ users[actor].admin
  /\ Exists(u)
  /\ ~on => u # actor
  /\ (~on /\ users[u].admin /\ users[u].active) => Cardinality(ActiveAdmins) > 1
  /\ users' = [users EXCEPT ![u] = SwitchedRow(users[u], on)]
  /\ IF on THEN UNCHANGED <<issued, call, revocations>>
     ELSE Revoke(u) /\ call' = RevokeReads(u)
  /\ UNCHANGED <<keys, worker, answers, made, overwrote>>

\* change_password: the caller was let in, the row is read and verified.
PasswordRead(c, u) ==
  /\ Running
  /\ call[c].pc = "idle"
  /\ users[u].active
  /\ ReadRow(c, u, "password")
  /\ UNCHANGED <<users, keys, worker, issued, answers, made, overwrote, revocations>>

\* The token version follows from the one that was read.
PasswordCommit(c) ==
  LET u == call[c].user
  IN /\ call[c].pc = "password"
     /\ users' = [users EXCEPT ![u].tokenVersion = call[c].read + 1]
     /\ Revoke(u)
     /\ overwrote' = (overwrote \/ call[c].late)
     /\ call' = [RevokeReads(u) EXCEPT ![c] = IdleCall]
     /\ UNCHANGED <<keys, worker, answers, made>>

GiveUpCall(c) ==
  /\ call[c].pc # "idle"
  /\ End(c)
  /\ UNCHANGED <<users, keys, worker, issued, answers, made, overwrote, revocations>>

AccountsNext ==
  \/ \E w \in Workers : CountAdmins(w) \/ InsertAdmin(w) \/ InsertConflict(w)
  \/ \E c \in Calls :
       \/ LoginIssue(c)
       \/ \E k \in Keys, p \in Payloads : CreateRead(c, k, p)
       \/ CreateCommit(c)
       \/ CreateConflict(c)
       \/ PasswordCommit(c)
       \/ GiveUpCall(c)
       \/ \E u \in People : LoginRead(c, u) \/ PasswordRead(c, u)
  \/ \E a, u \in People, on \in BOOLEAN : SetActive(a, u, on)

AccountsSpec == AccountsInit /\ [][AccountsNext]_accountVars

-----------------------------------------------------------------------------
(* Properties *)

\* Every variable has the columns and values of its row, call or history.
AccountsTypeOK ==
  /\ users \in [People -> Account]
  /\ keys \in [Keys -> KeyRow]
  /\ worker \in [Workers -> {"down", "insert", "up", "failed"}]
  /\ call \in [Calls -> Call]
  /\ issued \subseteq [user : People, tokenVersion : Nat, dead : BOOLEAN]
  /\ answers \subseteq Keys \X Payloads \X People
  /\ made \subseteq People \X (Keys \cup {AdminName})
  /\ overwrote \in BOOLEAN
  /\ revocations \in 0..MaxRevocations

\* Once a process serves requests an active platform administrator exists, and
\* goes on existing when administrators deactivate each other at the same time
\* (ensure_default_admin, _lock_platform_admin_mutation).
AdminRemains == Running => \E u \in People : users[u].admin /\ users[u].active

\* However calls overlap and processes start, a key creates one user, so does
\* the bootstrap, and every answer to a key names the user it created for the
\* same payload (create_user, ensure_default_admin).
CreatedOnce ==
  /\ \A a, b \in made : a[2] = b[2] => a = b
  /\ \A a \in answers :
       /\ <<a[3], a[1]>> \in made
       /\ users[a[3]].name = NameOf[a[2]]

\* A token issued before a deactivation or a change of password is never
\* accepted again, even for a user who is activated again, until a change of
\* password writes over a row it has not read.
RevokedStaysRevoked ==
  ~overwrote => \A t \in issued : t.dead => ~Admits(t)

\* Every variable has a value of its kind and, however calls of create_user overlap
\* and processes start, a key creates one user and answers with no other.
AccountsAreWellFormed == AccountsTypeOK /\ CreatedOnce

\* README of the user remediation: a change of password revokes old tokens.
\* It does not hold and is in no run: see the README.
PasswordRevokes == \A t \in issued : t.dead => ~Admits(t)
=============================================================================
