--------------------------- MODULE AccountsProofs ---------------------------
(***************************************************************************)
(* Proofs about user accounts (Accounts) and the submission of reviews     *)
(* (Submission), for any number of users, calls, keys, reviews and         *)
(* policies.                                                               *)
(***************************************************************************)
EXTENDS Accounts, Submission, FiniteSetTheorems, TLAPS

(* Accounts                                                                *)

\* A row that was never inserted is empty.
RowInv == \A u \in People : ~Exists(u) => users[u] = NoAccount

\* What the calls in progress hold: the user whose row they read and, unless it
\* was revoked since, the token version it still has; or the key they create for.
CallInv ==
  \A c \in Calls :
    /\ call[c].pc \in {"login", "password"} =>
         /\ call[c].user \in People
         /\ Exists(call[c].user)
         /\ ~call[c].late => call[c].read = users[call[c].user].tokenVersion
    /\ call[c].pc = "create" => call[c].key \in Keys /\ call[c].payload \in Payloads

\* The records of the keys and the users that were made.
MadeInv ==
  /\ \A k \in Keys : keys[k] # NoKeyRow =>
       /\ keys[k].user \in People /\ keys[k].payload \in Payloads
       /\ users[keys[k].user].name = NameOf[keys[k].payload]
       /\ <<keys[k].user, k>> \in made
  /\ \A a \in made :
       /\ a[2] \in Keys => keys[a[2]].user = a[1]
       /\ a[2] = AdminName => users[a[1]].name = AdminName

\* The administrators: there is one when a process is up, and an active one
\* whenever there is one.
AdminInv ==
  /\ Running => AllAdmins # {}
  /\ AllAdmins # {} => ActiveAdmins # {}

\* As long as no change of password wrote over a revocation, every token and every
\* read is of a version its row has reached, and a revoked one of an earlier one.
TokenInv ==
  ~overwrote =>
    /\ \A t \in issued :
         /\ t.tokenVersion <= users[t.user].tokenVersion
         /\ t.dead => t.tokenVersion < users[t.user].tokenVersion
    /\ \A c \in Calls : call[c].pc \in {"login", "password"} =>
         /\ call[c].read <= users[call[c].user].tokenVersion
         /\ call[c].late => call[c].read < users[call[c].user].tokenVersion

AccountsInv ==
  AccountsTypeOK /\ RowInv /\ CallInv /\ MadeInv /\ CreatedOnce /\ AdminInv /\ TokenInv

LEMMA NewAccountIs ==
  ASSUME NEW n \in Names, NEW admin \in BOOLEAN
  PROVE  /\ NewAccount(n, admin) \in Account
         /\ NewAccount(n, admin).name = n /\ n # Nobody
         /\ NewAccount(n, admin).admin = admin /\ NewAccount(n, admin).active
BY AccountsAssumption DEF NewAccount, Account

LEMMA NoAccountIs ==
  /\ NoAccount \in Account /\ NoAccount.name = Nobody
  /\ ~NoAccount.admin /\ ~NoAccount.active /\ NoAccount.tokenVersion = 0
BY DEF NoAccount, Account

LEMMA IdleCallIs ==
  IdleCall \in Call /\ IdleCall.pc = "idle" /\ IdleCall.user = Nobody
BY DEF IdleCall, Call

LEMMA AccountsStart == AccountsInit => AccountsInv
<1> SUFFICES ASSUME AccountsInit PROVE AccountsInv
  OBVIOUS
<1>1. PICK old \in SUBSET Migrated, n \in [Migrated -> Names], admin \in [Migrated -> BOOLEAN] :
        users = [u \in People |-> IF u \in old THEN NewAccount(n[u], admin[u]) ELSE NoAccount]
  BY DEF AccountsInit
<1>2. \A u \in People :
        /\ users[u] \in Account
        /\ users[u] = NoAccount \/ (Exists(u) /\ users[u].active)
  <2> TAKE u \in People
  <2>1. CASE u \in old
    BY <1>1, <2>1, NewAccountIs DEF Exists
  <2>2. CASE u \notin old
    BY <1>1, <2>2, NoAccountIs
  <2> QED
    BY <2>1, <2>2
<1>3. AccountsTypeOK
  <2>1. users \in [People -> Account]
    BY <1>1, <1>2
  <2>2. keys \in [Keys -> KeyRow]
    BY DEF AccountsInit, NoKeyRow, KeyRow
  <2>3. call \in [Calls -> Call]
    BY IdleCallIs DEF AccountsInit
  <2>4. worker \in [Workers -> {"down", "insert", "up", "failed"}]
    BY DEF AccountsInit
  <2>5. /\ issued = {} /\ answers = {} /\ made = {} /\ overwrote = FALSE
        /\ revocations \in 0..MaxRevocations
    BY AccountsAssumption DEF AccountsInit
  <2> QED
    BY <2>1, <2>2, <2>3, <2>4, <2>5 DEF AccountsTypeOK
<1>4. RowInv
  BY <1>2 DEF RowInv
<1>5. CallInv /\ TokenInv
  BY IdleCallIs DEF AccountsInit, CallInv, TokenInv
<1>6. MadeInv /\ CreatedOnce
  BY DEF AccountsInit, MadeInv, CreatedOnce
<1>7. AdminInv
  <2>1. ~Running
    BY DEF AccountsInit, Running
  <2>2. AllAdmins # {} => ActiveAdmins # {}
    BY <1>2, NoAccountIs DEF AllAdmins, ActiveAdmins
  <2> QED
    BY <2>1, <2>2 DEF AdminInv
<1> QED
  BY <1>3, <1>4, <1>5, <1>6, <1>7 DEF AccountsInv

\* A step of a starting process that inserts nobody.
LEMMA BootKeeps ==
  ASSUME AccountsInv, NEW w \in Workers, CountAdmins(w) \/ InsertConflict(w)
  PROVE  AccountsInv'
<1> USE DEF AccountsInv
<1>1. /\ UNCHANGED <<users, keys, call, issued, answers, made, overwrote, revocations>>
      /\ worker' \in [Workers -> {"down", "insert", "up", "failed"}]
      /\ worker'[w] = "up" => AllAdmins # {}
      /\ \A v \in Workers : v # w => worker'[v] = worker[v]
  BY DEF CountAdmins, InsertConflict, AccountsTypeOK
<1>2. AccountsTypeOK'
  BY <1>1 DEF AccountsTypeOK
<1>3. AdminInv'
  BY <1>1 DEF AdminInv, Running, AllAdmins, ActiveAdmins
<1>4. RowInv' /\ CallInv' /\ MadeInv' /\ CreatedOnce' /\ TokenInv'
  BY <1>1 DEF RowInv, CallInv, MadeInv, CreatedOnce, TokenInv, Exists
<1> QED
  BY <1>2, <1>3, <1>4

\* What a new row leaves of the others, and of everything that names a user who
\* exists already.
LEMMA RowInserted ==
  ASSUME AccountsInv, NEW u \in People, ~Exists(u), NEW n \in Names, NEW admin \in BOOLEAN,
         users' = [users EXCEPT ![u] = NewAccount(n, admin)]
  PROVE  /\ users' \in [People -> Account] /\ RowInv'
         /\ users'[u].name = n /\ users'[u].admin = admin /\ users'[u].active
         /\ \A v \in People : v # u => users'[v] = users[v]
         /\ \A v \in People : users[v].tokenVersion <= users'[v].tokenVersion
         /\ \A v \in People : Exists(v) => v # u
         /\ \A v \in People : users[v].name # Nobody => users'[v].name = users[v].name
         /\ AllAdmins' # {} => ActiveAdmins' # {}
         /\ AllAdmins # {} => AllAdmins' # {}
<1> USE DEF AccountsInv
<1>1. users \in [People -> Account]
  BY DEF AccountsTypeOK
<1>2. /\ users' \in [People -> Account]
      /\ users'[u].name = n /\ n # Nobody /\ users'[u].admin = admin /\ users'[u].active
      /\ \A v \in People : v # u => users'[v] = users[v]
  BY <1>1, NewAccountIs
<1>3. users[u] = NoAccount /\ users[u].tokenVersion = 0
  BY NoAccountIs DEF RowInv
<1>4. \A v \in People : users[v].tokenVersion <= users'[v].tokenVersion
  <2>1. \A v \in People : users'[v].tokenVersion \in Nat /\ users[v].tokenVersion \in Nat
    BY <1>1, <1>2 DEF Account
  <2> QED
    BY <1>2, <1>3, <2>1
<1>5. RowInv'
  BY <1>2 DEF RowInv, Exists
<1>6. \A v \in People : Exists(v) => v # u
  OBVIOUS
<1>7. \A v \in People : users[v].name # Nobody => users'[v].name = users[v].name
  BY <1>2, <1>6 DEF Exists
<1>8. AllAdmins # {} => AllAdmins' # {}
  BY <1>2, <1>3, NoAccountIs DEF AllAdmins
<1>9. AllAdmins' # {} => ActiveAdmins' # {}
  <2> SUFFICES ASSUME NEW v \in People, users'[v].admin PROVE ActiveAdmins' # {}
    BY DEF AllAdmins
  <2>1. CASE v = u
    BY <1>2, <2>1 DEF ActiveAdmins
  <2>2. CASE v # u
    <3>1. PICK x \in People : users[x].admin /\ users[x].active
      BY <1>2, <2>2 DEF AdminInv, AllAdmins, ActiveAdmins
    <3>2. x # u
      BY <1>3, <3>1, NoAccountIs
    <3> QED
      BY <1>2, <3>1, <3>2 DEF ActiveAdmins
  <2> QED
    BY <2>1, <2>2
<1> QED
  BY <1>2, <1>4, <1>5, <1>6, <1>7, <1>8, <1>9

\* A row that appears disturbs no token and no call, and a call may end.
LEMMA OthersKept ==
  ASSUME AccountsInv, users' \in [People -> Account],
         UNCHANGED <<issued, overwrote>>,
         \A v \in People : Exists(v) => users'[v] = users[v],
         \A v \in People : users[v].tokenVersion <= users'[v].tokenVersion,
         \A c \in Calls : call'[c] = call[c] \/ call'[c] = IdleCall
  PROVE  CallInv' /\ TokenInv'
<1> USE DEF AccountsInv
<1>1. \A v \in People : Exists(v) => Exists(v)'
  BY DEF Exists
<1>2. CallInv'
  BY <1>1, IdleCallIs DEF CallInv
<1>3. \A v \in People : users[v].tokenVersion \in Nat /\ users'[v].tokenVersion \in Nat
  BY DEF AccountsTypeOK, Account
<1>4. ASSUME ~overwrote, NEW t \in issued
      PROVE  /\ t.tokenVersion <= users'[t.user].tokenVersion
             /\ t.dead => t.tokenVersion < users'[t.user].tokenVersion
  <2>1. t.user \in People /\ t.tokenVersion \in Nat
    BY DEF AccountsTypeOK
  <2>2. /\ t.tokenVersion <= users[t.user].tokenVersion
        /\ t.dead => t.tokenVersion < users[t.user].tokenVersion
    BY <1>4 DEF TokenInv
  <2> QED
    BY <1>3, <2>1, <2>2
<1>5. ASSUME ~overwrote, NEW c \in Calls, call'[c].pc \in {"login", "password"}
      PROVE  /\ call'[c].read <= users'[call'[c].user].tokenVersion
             /\ call'[c].late => call'[c].read < users'[call'[c].user].tokenVersion
  <2>1. call'[c] = call[c]
    BY <1>5, IdleCallIs
  <2>2. call[c].user \in People /\ Exists(call[c].user)
    BY <1>5, <2>1 DEF CallInv
  <2> QED
    BY <1>5, <2>1, <2>2 DEF TokenInv
<1> QED
  BY <1>2, <1>4, <1>5 DEF TokenInv

LEMMA InsertAdminKeeps ==
  ASSUME AccountsInv, NEW w \in Workers, InsertAdmin(w)
  PROVE  AccountsInv'
<1> USE DEF AccountsInv
<1>1. PICK u \in People :
        /\ ~Exists(u)
        /\ users' = [users EXCEPT ![u] = NewAccount(AdminName, TRUE)]
        /\ made' = made \cup {<<u, AdminName>>}
  BY DEF InsertAdmin
<1>2. /\ ~Taken(AdminName)
      /\ UNCHANGED <<keys, call, issued, answers, overwrote, revocations>>
      /\ worker' \in [Workers -> {"down", "insert", "up", "failed"}]
  BY DEF InsertAdmin, AccountsTypeOK
<1>3. /\ users' \in [People -> Account] /\ RowInv'
      /\ users'[u].name = AdminName /\ users'[u].admin /\ users'[u].active
      /\ \A v \in People : v # u => users'[v] = users[v]
      /\ \A v \in People : users[v].tokenVersion <= users'[v].tokenVersion
      /\ \A v \in People : Exists(v) => v # u
      /\ \A v \in People : users[v].name # Nobody => users'[v].name = users[v].name
      /\ AllAdmins' # {} => ActiveAdmins' # {}
  BY <1>1, AccountsAssumption, RowInserted
<1>4. AccountsTypeOK'
  <2>1. made' \subseteq People \X (Keys \cup {AdminName})
    BY <1>1 DEF AccountsTypeOK
  <2> QED
    BY <1>2, <1>3, <2>1 DEF AccountsTypeOK
<1>5. CallInv' /\ TokenInv'
  BY <1>2, <1>3, OthersKept
<1>6. \A a \in made : a[2] # AdminName
  <2>1. \A a \in made : a[1] \in People
    BY DEF AccountsTypeOK
  <2> QED
    BY <1>2, <2>1 DEF MadeInv, Taken
<1>7. MadeInv'
  <2>1. ASSUME NEW k \in Keys, keys[k] # NoKeyRow
        PROVE  /\ users'[keys[k].user].name = NameOf[keys[k].payload]
               /\ <<keys[k].user, k>> \in made'
    <3>1. /\ keys[k].user \in People /\ keys[k].payload \in Payloads
          /\ users[keys[k].user].name = NameOf[keys[k].payload]
          /\ <<keys[k].user, k>> \in made
      BY <2>1 DEF MadeInv
    <3>2. NameOf[keys[k].payload] # Nobody
      BY <3>1, AccountsAssumption
    <3> QED
      BY <1>1, <1>3, <3>1, <3>2
  <2>2. \A a \in made' : a[2] \in Keys => keys[a[2]].user = a[1]
    BY <1>1, AccountsAssumption DEF MadeInv
  <2>3. ASSUME NEW a \in made', a[2] = AdminName PROVE users'[a[1]].name = AdminName
    <3>1. a = <<u, AdminName>>
      BY <1>1, <1>6, <2>3
    <3>2. a[1] = u
      BY <3>1
    <3> QED
      BY <1>3, <3>2
  <2> QED
    BY <1>2, <2>1, <2>2, <2>3 DEF MadeInv
<1>8. CreatedOnce'
  <2>1. \A a, b \in made' : a[2] = b[2] => a = b
    BY <1>1, <1>6 DEF CreatedOnce
  <2>2. ASSUME NEW a \in answers
        PROVE  <<a[3], a[1]>> \in made' /\ users'[a[3]].name = NameOf[a[2]]
    <3>1. a[2] \in Payloads /\ a[3] \in People
      BY DEF AccountsTypeOK
    <3>2. users[a[3]].name = NameOf[a[2]] /\ NameOf[a[2]] # Nobody /\ <<a[3], a[1]>> \in made
      BY <3>1, AccountsAssumption DEF CreatedOnce
    <3> QED
      BY <1>1, <1>3, <3>1, <3>2
  <2> QED
    BY <1>2, <2>1, <2>2 DEF CreatedOnce
<1>9. AdminInv'
  BY <1>3 DEF AdminInv, AllAdmins
<1> QED
  BY <1>3, <1>4, <1>5, <1>7, <1>8, <1>9

LEMMA CreateCommitKeeps ==
  ASSUME AccountsInv, NEW c \in Calls, CreateCommit(c)
  PROVE  AccountsInv'
<1> USE DEF AccountsInv
<1> DEFINE k == call[c].key
           p == call[c].payload
<1>1. k \in Keys /\ p \in Payloads /\ NameOf[p] \in Names /\ k # AdminName
  BY AccountsAssumption DEF CreateCommit, CallInv
<1>2. PICK u \in People :
        /\ ~Exists(u)
        /\ users' = [users EXCEPT ![u] = NewAccount(NameOf[p], FALSE)]
        /\ keys' = [keys EXCEPT ![k] = [user |-> u, payload |-> p]]
        /\ made' = made \cup {<<u, k>>}
        /\ answers' = {<<k, p, u>>}
  BY DEF CreateCommit
<1>3. /\ keys[k] = NoKeyRow
      /\ UNCHANGED <<worker, issued, overwrote, revocations>>
      /\ call' = [call EXCEPT ![c] = IdleCall]
  BY DEF CreateCommit, KeyIsFree, End
<1> HIDE DEF k, p
<1>4. /\ users' \in [People -> Account] /\ RowInv'
      /\ users'[u].name = NameOf[p]
      /\ \A v \in People : v # u => users'[v] = users[v]
      /\ \A v \in People : users[v].tokenVersion <= users'[v].tokenVersion
      /\ \A v \in People : Exists(v) => v # u
      /\ \A v \in People : users[v].name # Nobody => users'[v].name = users[v].name
      /\ AllAdmins' # {} => ActiveAdmins' # {}
      /\ AllAdmins # {} => AllAdmins' # {}
  BY <1>1, <1>2, RowInserted
<1>5. /\ call' \in [Calls -> Call]
      /\ \A d \in Calls : call'[d] = call[d] \/ call'[d] = IdleCall
  BY <1>3, IdleCallIs DEF AccountsTypeOK
<1>6. /\ keys' \in [Keys -> KeyRow]
      /\ keys'[k].user = u /\ keys'[k].payload = p
      /\ \A l \in Keys : l # k => keys'[l] = keys[l]
  BY <1>1, <1>2 DEF AccountsTypeOK, KeyRow
<1>7. AccountsTypeOK'
  <2>1. made' \subseteq People \X (Keys \cup {AdminName})
    BY <1>1, <1>2 DEF AccountsTypeOK
  <2>2. answers' \subseteq Keys \X Payloads \X People
    BY <1>1, <1>2
  <2> QED
    BY <1>3, <1>4, <1>5, <1>6, <2>1, <2>2 DEF AccountsTypeOK
<1>8. CallInv' /\ TokenInv'
  BY <1>3, <1>4, <1>5, OthersKept
<1>9. \A a \in made : a[2] # k
  <2>1. \A a \in made : a[1] \in People /\ a[1] # Nobody
    BY AccountsAssumption DEF AccountsTypeOK
  <2> QED
    BY <1>1, <1>3, <2>1 DEF MadeInv, NoKeyRow
<1>10. MadeInv'
  <2>1. ASSUME NEW l \in Keys, keys'[l] # NoKeyRow
        PROVE  /\ keys'[l].user \in People /\ keys'[l].payload \in Payloads
               /\ users'[keys'[l].user].name = NameOf[keys'[l].payload]
               /\ <<keys'[l].user, l>> \in made'
    <3>1. CASE l = k
      BY <1>1, <1>2, <1>4, <1>6, <3>1
    <3>2. CASE l # k
      <4>1. /\ keys[l].user \in People /\ keys[l].payload \in Payloads
            /\ users[keys[l].user].name = NameOf[keys[l].payload]
            /\ <<keys[l].user, l>> \in made
        BY <1>6, <2>1, <3>2 DEF MadeInv
      <4>2. NameOf[keys[l].payload] # Nobody
        BY <4>1, AccountsAssumption
      <4> QED
        BY <1>2, <1>4, <1>6, <3>2, <4>1, <4>2
    <3> QED
      BY <3>1, <3>2
  <2>2. \A a \in made' : a[2] \in Keys => keys'[a[2]].user = a[1]
    BY <1>1, <1>2, <1>6, <1>9 DEF MadeInv
  <2>3. ASSUME NEW a \in made', a[2] = AdminName PROVE users'[a[1]].name = AdminName
    <3>1. a \in made
      BY <1>1, <1>2, <2>3
    <3>2. users[a[1]].name = AdminName /\ a[1] \in People
      BY <2>3, <3>1 DEF MadeInv, AccountsTypeOK
    <3> QED
      BY <1>4, <3>2, AccountsAssumption
  <2> QED
    BY <2>1, <2>2, <2>3 DEF MadeInv
<1>11. CreatedOnce'
  <2>1. \A a, b \in made' : a[2] = b[2] => a = b
    BY <1>2, <1>9 DEF CreatedOnce
  <2>2. ASSUME NEW a \in answers' PROVE <<a[3], a[1]>> \in made' /\ users'[a[3]].name = NameOf[a[2]]
    <3>1. a = <<k, p, u>>
      BY <1>2
    <3>2. a[1] = k /\ a[2] = p /\ a[3] = u
      BY <3>1
    <3> QED
      BY <1>2, <1>4, <3>2
  <2> QED
    BY <2>1, <2>2 DEF CreatedOnce
<1>12. AdminInv'
  BY <1>3, <1>4 DEF AdminInv, Running
<1> QED
  BY <1>4, <1>7, <1>8, <1>10, <1>11, <1>12

\* A step of a call that changes no user.
LEMMA RowsUnchanged ==
  ASSUME AccountsInv, UNCHANGED <<users, worker, made, overwrote, revocations>>
  PROVE  RowInv' /\ AdminInv'
BY DEF AccountsInv, RowInv, AdminInv, Running, AllAdmins, ActiveAdmins, Exists

LEMMA CreateReadKeeps ==
  ASSUME AccountsInv, NEW c \in Calls, NEW k \in Keys, NEW p \in Payloads, CreateRead(c, k, p)
  PROVE  AccountsInv'
<1> USE DEF AccountsInv
<1>1. UNCHANGED <<users, keys, worker, issued, made, overwrote, revocations>>
  BY DEF CreateRead
<1>2. RowInv' /\ AdminInv'
  BY <1>1, RowsUnchanged
<1>3. MadeInv'
  BY <1>1 DEF MadeInv
<1>4. CASE keys[k] # NoKeyRow
  <2>1. keys[k].payload = p /\ answers' = {<<k, p, keys[k].user>>} /\ UNCHANGED call
    BY <1>4 DEF CreateRead
  <2>2. /\ keys[k].user \in People /\ users[keys[k].user].name = NameOf[p]
        /\ <<keys[k].user, k>> \in made
    BY <1>4, <2>1 DEF MadeInv
  <2>3. AccountsTypeOK'
    <3>1. answers' \subseteq Keys \X Payloads \X People
      BY <2>1, <2>2
    <3> QED
      BY <1>1, <2>1, <3>1 DEF AccountsTypeOK
  <2>4. CallInv' /\ TokenInv'
    BY <1>1, <2>1 DEF CallInv, TokenInv, Exists
  <2>5. CreatedOnce'
    <3>1. \A a \in answers' : a[1] = k /\ a[2] = p /\ a[3] = keys[k].user
      BY <2>1
    <3> QED
      BY <1>1, <2>2, <3>1 DEF CreatedOnce
  <2> QED
    BY <1>2, <1>3, <2>3, <2>4, <2>5
<1>5. CASE keys[k] = NoKeyRow
  <2> DEFINE new == [IdleCall EXCEPT !.pc = "create", !.key = k, !.payload = p]
  <2>1. call' = [call EXCEPT ![c] = new] /\ UNCHANGED answers
    BY <1>5 DEF CreateRead
  <2>2. new \in Call /\ new.pc = "create" /\ new.key = k /\ new.payload = p
    BY DEF IdleCall, Call
  <2> HIDE DEF new
  <2>3. call' \in [Calls -> Call] /\ call'[c] = new /\ \A d \in Calls : d # c => call'[d] = call[d]
    BY <2>1, <2>2 DEF AccountsTypeOK
  <2>4. AccountsTypeOK'
    BY <1>1, <2>1, <2>3 DEF AccountsTypeOK
  <2>5. CallInv' /\ TokenInv'
    BY <1>1, <2>2, <2>3 DEF CallInv, TokenInv, Exists
  <2>6. CreatedOnce'
    BY <1>1, <2>1 DEF CreatedOnce
  <2> QED
    BY <1>2, <1>3, <2>4, <2>5, <2>6
<1> QED
  BY <1>4, <1>5

LEMMA CreateConflictKeeps ==
  ASSUME AccountsInv, NEW c \in Calls, CreateConflict(c)
  PROVE  AccountsInv'
<1> USE DEF AccountsInv
<1> DEFINE k == call[c].key
           p == call[c].payload
<1>1. /\ UNCHANGED <<users, keys, worker, issued, made, overwrote, revocations>>
      /\ call' = [call EXCEPT ![c] = IdleCall]
      /\ Taken(NameOf[p]) \/ keys[k] # NoKeyRow
      /\ answers' = IF ~Taken(NameOf[p]) /\ keys[k].payload = p
                    THEN {<<k, p, keys[k].user>>} ELSE answers
      /\ k \in Keys /\ p \in Payloads
  BY DEF CreateConflict, End, KeyIsFree, CallInv
<1> HIDE DEF k, p
<1>2. RowInv' /\ AdminInv'
  BY <1>1, RowsUnchanged
<1>3. MadeInv'
  BY <1>1 DEF MadeInv
<1>4. /\ call' \in [Calls -> Call]
      /\ \A d \in Calls : call'[d] = call[d] \/ call'[d] = IdleCall
  BY <1>1, IdleCallIs DEF AccountsTypeOK
<1>5. CallInv' /\ TokenInv'
  <2>1. users' \in [People -> Account] /\ \A v \in People : users[v].tokenVersion \in Nat
    BY <1>1 DEF AccountsTypeOK, Account
  <2>2. \A v \in People : users[v].tokenVersion <= users'[v].tokenVersion
    BY <1>1, <2>1
  <2> QED
    BY <1>1, <1>4, <2>1, <2>2, OthersKept
<1>6. \/ answers' = answers
      \/ /\ answers' = {<<k, p, keys[k].user>>}
         /\ keys[k].user \in People /\ users[keys[k].user].name = NameOf[p]
         /\ <<keys[k].user, k>> \in made
  BY <1>1 DEF MadeInv
<1>7. answers' \subseteq Keys \X Payloads \X People
  BY <1>1, <1>6 DEF AccountsTypeOK
<1>8. AccountsTypeOK'
  BY <1>1, <1>4, <1>7 DEF AccountsTypeOK
<1>9. CreatedOnce'
  <2>1. CASE answers' = answers
    BY <1>1, <2>1 DEF CreatedOnce
  <2>2. CASE answers' # answers
    <3>1. \A a \in answers' : a[1] = k /\ a[2] = p /\ a[3] = keys[k].user
      BY <1>6, <2>2
    <3> QED
      BY <1>1, <1>6, <2>2, <3>1 DEF CreatedOnce
  <2> QED
    BY <2>1, <2>2
<1> QED
  BY <1>2, <1>3, <1>5, <1>8, <1>9

LEMMA ReadKeeps ==
  ASSUME AccountsInv, NEW c \in Calls, NEW u \in People,
         LoginRead(c, u) \/ PasswordRead(c, u)
  PROVE  AccountsInv'
<1> USE DEF AccountsInv
<1>1. /\ UNCHANGED <<users, keys, worker, issued, answers, made, overwrote, revocations>>
      /\ users[u].active
  BY DEF LoginRead, PasswordRead
<1>2. PICK pc \in {"login", "password"} :
        call' = [call EXCEPT ![c] = [IdleCall EXCEPT !.pc = pc, !.user = u,
                                                     !.read = users[u].tokenVersion]]
  BY DEF LoginRead, PasswordRead, ReadRow
<1> DEFINE new == [IdleCall EXCEPT !.pc = pc, !.user = u, !.read = users[u].tokenVersion]
<1>3. users[u].tokenVersion \in Nat /\ Exists(u)
  BY <1>1, NoAccountIs DEF AccountsTypeOK, Account, RowInv
<1>4. /\ new \in Call /\ new.pc = pc /\ new.user = u /\ ~new.late
      /\ new.read = users[u].tokenVersion
  BY <1>3 DEF IdleCall, Call
<1> HIDE DEF new
<1>5. /\ call' \in [Calls -> Call] /\ call'[c] = new
      /\ \A d \in Calls : d # c => call'[d] = call[d]
  BY <1>2, <1>4 DEF AccountsTypeOK, new
<1>6. AccountsTypeOK'
  BY <1>1, <1>5 DEF AccountsTypeOK
<1>7. CallInv'
  BY <1>1, <1>3, <1>4, <1>5 DEF CallInv, Exists
<1>8. TokenInv'
  BY <1>1, <1>3, <1>4, <1>5 DEF TokenInv
<1>9. RowInv' /\ AdminInv'
  BY <1>1, RowsUnchanged
<1>10. MadeInv' /\ CreatedOnce'
  BY <1>1 DEF MadeInv, CreatedOnce
<1> QED
  BY <1>6, <1>7, <1>8, <1>9, <1>10

\* A call ends and leaves what it has read, as a token or not at all.
LEMMA EndKeeps ==
  ASSUME AccountsInv, NEW c \in Calls, LoginIssue(c) \/ GiveUpCall(c)
  PROVE  AccountsInv'
<1> USE DEF AccountsInv
<1>1. /\ UNCHANGED <<users, keys, worker, answers, made, overwrote, revocations>>
      /\ call' = [call EXCEPT ![c] = IdleCall]
  BY DEF LoginIssue, GiveUpCall, End
<1>2. \/ issued' = issued
      \/ /\ call[c].pc = "login"
         /\ issued' = {[user |-> call[c].user, tokenVersion |-> call[c].read,
                        dead |-> call[c].late]}
  BY DEF LoginIssue, GiveUpCall
<1>3. /\ call' \in [Calls -> Call] /\ call'[c] = IdleCall
      /\ \A d \in Calls : d # c => call'[d] = call[d]
  BY <1>1, IdleCallIs DEF AccountsTypeOK
<1>4. CallInv'
  BY <1>1, <1>3, IdleCallIs DEF CallInv, Exists
<1>5. ASSUME NEW t \in issued'
      PROVE  /\ t \in [user : People, tokenVersion : Nat, dead : BOOLEAN]
             /\ ~overwrote => /\ t.tokenVersion <= users[t.user].tokenVersion
                              /\ t.dead => t.tokenVersion < users[t.user].tokenVersion
  <2>1. CASE t \in issued
    BY <2>1 DEF TokenInv, AccountsTypeOK
  <2>2. CASE t \notin issued
    <3>1. /\ call[c].pc = "login"
          /\ t = [user |-> call[c].user, tokenVersion |-> call[c].read, dead |-> call[c].late]
      BY <1>2, <2>2
    <3>2. call[c].user \in People /\ call[c].read \in Nat /\ call[c].late \in BOOLEAN
      BY <3>1 DEF CallInv, AccountsTypeOK, Call
    <3> QED
      BY <3>1, <3>2 DEF TokenInv
  <2> QED
    BY <2>1, <2>2
<1>6. AccountsTypeOK'
  BY <1>1, <1>3, <1>5 DEF AccountsTypeOK
<1>7. TokenInv'
  BY <1>1, <1>3, <1>5, IdleCallIs DEF TokenInv
<1>8. RowInv' /\ AdminInv'
  BY <1>1, RowsUnchanged
<1>9. MadeInv' /\ CreatedOnce'
  BY <1>1 DEF MadeInv, CreatedOnce
<1> QED
  BY <1>4, <1>6, <1>7, <1>8, <1>9

\* A row that keeps its name keeps what keys, answers and history say of it.
LEMMA RowChanged ==
  ASSUME AccountsInv, NEW u \in People, Exists(u), NEW row \in Account,
         row.name = users[u].name, row.admin = users[u].admin,
         users' = [users EXCEPT ![u] = row],
         UNCHANGED <<keys, worker, answers, made>>
  PROVE  /\ users' \in [People -> Account] /\ users'[u] = row
         /\ \A v \in People : v # u => users'[v] = users[v]
         /\ \A v \in People : Exists(v)' <=> Exists(v)
         /\ RowInv' /\ MadeInv' /\ CreatedOnce' /\ AllAdmins' = AllAdmins
<1> USE DEF AccountsInv
<1>1. /\ users' \in [People -> Account] /\ users'[u] = row
      /\ \A v \in People : v # u => users'[v] = users[v]
  BY DEF AccountsTypeOK
<1>2. \A v \in People : users'[v].name = users[v].name /\ users'[v].admin = users[v].admin
  BY <1>1
<1>3. \A v \in People : Exists(v)' <=> Exists(v)
  BY <1>2 DEF Exists
<1>4. RowInv'
  BY <1>1, <1>3 DEF RowInv
<1>5. MadeInv'
  <2>1. \A a \in made : a[1] \in People
    BY DEF AccountsTypeOK
  <2> QED
    BY <1>2, <2>1 DEF MadeInv
<1>6. CreatedOnce'
  <2>1. \A a \in answers : a[3] \in People
    BY DEF AccountsTypeOK
  <2> QED
    BY <1>2, <2>1 DEF CreatedOnce
<1>7. AllAdmins' = AllAdmins
  BY <1>2 DEF AllAdmins
<1> QED
  BY <1>1, <1>3, <1>4, <1>5, <1>6, <1>7

\* What a revocation leaves of the tokens.
LEMMA RevokeSteps ==
  ASSUME AccountsInv, NEW u \in People, Revoke(u)
  PROVE  /\ revocations' \in 0..MaxRevocations
         /\ issued' \subseteq [user : People, tokenVersion : Nat, dead : BOOLEAN]
         /\ \A t \in issued' : \E s \in issued :
              /\ t.user = s.user /\ t.tokenVersion = s.tokenVersion
              /\ s.user # u => t.dead = s.dead
<1> USE DEF AccountsInv
<1>1. revocations' \in 0..MaxRevocations
  BY AccountsAssumption DEF Revoke, AccountsTypeOK
<1>2. ASSUME NEW s \in issued
      PROVE  [s EXCEPT !.dead = TRUE] \in [user : People, tokenVersion : Nat, dead : BOOLEAN]
             /\ [s EXCEPT !.dead = TRUE].user = s.user
             /\ [s EXCEPT !.dead = TRUE].tokenVersion = s.tokenVersion
  BY DEF AccountsTypeOK
<1>3. ASSUME NEW t \in issued'
      PROVE  /\ t \in [user : People, tokenVersion : Nat, dead : BOOLEAN]
             /\ \E s \in issued : /\ t.user = s.user /\ t.tokenVersion = s.tokenVersion
                                  /\ s.user # u => t.dead = s.dead
  <2>1. PICK s \in issued : t = IF s.user = u THEN [s EXCEPT !.dead = TRUE] ELSE s
    BY DEF Revoke
  <2>2. CASE s.user = u
    BY <1>2, <2>1, <2>2
  <2>3. CASE s.user # u
    BY <2>1, <2>3 DEF AccountsTypeOK
  <2> QED
    BY <2>2, <2>3
<1> QED
  BY <1>1, <1>3

\* The calls after a revocation of u: those in done have ended, and those that
\* have read the row of u are late.
ReadsRevoked(u, done) ==
  /\ call' \in [Calls -> Call]
  /\ \A d \in Calls :
       /\ d \in done => call'[d] = IdleCall
       /\ d \notin done =>
            /\ call'[d].pc = call[d].pc /\ call'[d].user = call[d].user
            /\ call'[d].read = call[d].read /\ call'[d].key = call[d].key
            /\ call'[d].payload = call[d].payload
            /\ call[d].user = u => call'[d].late
            /\ call[d].user # u => call'[d].late = call[d].late

LEMMA RevokeReadsSteps ==
  ASSUME AccountsInv, NEW u \in People, NEW done \in SUBSET Calls,
         \/ call' = RevokeReads(u) /\ done = {}
         \/ \E c \in Calls : call' = [RevokeReads(u) EXCEPT ![c] = IdleCall] /\ done = {c}
  PROVE  ReadsRevoked(u, done)
<1> USE DEF AccountsInv, ReadsRevoked
<1>1. \A r \in Call : LET m == [r EXCEPT !.late = TRUE] IN
        /\ m \in Call /\ m.late /\ m.pc = r.pc /\ m.user = r.user
        /\ m.read = r.read /\ m.key = r.key /\ m.payload = r.payload
  BY DEF Call
<1>2. /\ RevokeReads(u) \in [Calls -> Call]
      /\ \A d \in Calls : LET r == RevokeReads(u)[d] IN
           /\ r.pc = call[d].pc /\ r.user = call[d].user
           /\ r.read = call[d].read /\ r.key = call[d].key /\ r.payload = call[d].payload
           /\ call[d].user = u => r.late
           /\ call[d].user # u => r.late = call[d].late
  <2>1. \A d \in Calls : call[d] \in Call
    BY DEF AccountsTypeOK
  <2> QED
    BY <1>1, <2>1 DEF RevokeReads
<1>3. CASE call' = RevokeReads(u) /\ done = {}
  BY <1>2, <1>3
<1>4. ASSUME NEW c \in Calls, call' = [RevokeReads(u) EXCEPT ![c] = IdleCall], done = {c}
      PROVE  /\ call' \in [Calls -> Call] /\ call'[c] = IdleCall
             /\ \A d \in Calls : d # c => call'[d] = RevokeReads(u)[d]
  BY <1>2, <1>4, IdleCallIs
<1> QED
  BY <1>2, <1>3, <1>4

\* Tokens and calls after a revocation of u raised its token version, by one unless
\* a change of password wrote over another revocation.
LEMMA RevocationKeeps ==
  ASSUME AccountsInv, NEW u \in People, Revoke(u),
         users' \in [People -> Account],
         \A v \in People : v # u => users'[v] = users[v],
         \A v \in People : Exists(v)' <=> Exists(v),
         ~overwrote' => ~overwrote /\ users'[u].tokenVersion = users[u].tokenVersion + 1,
         NEW done \in SUBSET Calls, ReadsRevoked(u, done)
  PROVE  CallInv' /\ TokenInv'
<1> USE DEF AccountsInv, ReadsRevoked
<1>1. CallInv'
  <2> SUFFICES ASSUME NEW d \in Calls, d \notin done
               PROVE  /\ call[d].pc \in {"login", "password"} =>
                           /\ call[d].user \in People /\ Exists(call[d].user)'
                           /\ ~call'[d].late => call[d].read = users'[call[d].user].tokenVersion
                      /\ call[d].pc = "create" =>
                           call[d].key \in Keys /\ call[d].payload \in Payloads
    BY IdleCallIs DEF CallInv
  <2> QED
    BY DEF CallInv
<1>2. \A v \in People : users[v].tokenVersion \in Nat /\ users'[v].tokenVersion \in Nat
  BY DEF AccountsTypeOK, Account
<1>3. ASSUME ~overwrote', NEW t \in issued'
      PROVE  /\ t.tokenVersion <= users'[t.user].tokenVersion
             /\ t.dead => t.tokenVersion < users'[t.user].tokenVersion
  <2>1. PICK s \in issued : /\ t.user = s.user /\ t.tokenVersion = s.tokenVersion
                            /\ s.user # u => t.dead = s.dead
    BY RevokeSteps
  <2>2. /\ s.tokenVersion <= users[s.user].tokenVersion
        /\ s.dead => s.tokenVersion < users[s.user].tokenVersion
        /\ s.user \in People /\ s.tokenVersion \in Nat
    BY <1>3 DEF TokenInv, AccountsTypeOK
  <2> QED
    BY <1>2, <1>3, <2>1, <2>2
<1>4. ASSUME ~overwrote', NEW d \in Calls, call'[d].pc \in {"login", "password"}
      PROVE  /\ call'[d].read <= users'[call'[d].user].tokenVersion
             /\ call'[d].late => call'[d].read < users'[call'[d].user].tokenVersion
  <2>1. d \notin done
    BY <1>4, IdleCallIs
  <2>2. /\ call[d].pc \in {"login", "password"} /\ call[d].user \in People
        /\ call[d].read \in Nat
        /\ call[d].read <= users[call[d].user].tokenVersion
        /\ call[d].late => call[d].read < users[call[d].user].tokenVersion
    BY <1>4, <2>1 DEF CallInv, TokenInv, AccountsTypeOK, Call
  <2> QED
    BY <1>2, <1>4, <2>1, <2>2
<1> QED
  BY <1>1, <1>3, <1>4 DEF TokenInv

LEMMA SetActiveKeeps ==
  ASSUME AccountsInv, NEW actor \in People, NEW u \in People, NEW on \in BOOLEAN,
         SetActive(actor, u, on)
  PROVE  AccountsInv'
<1> USE DEF AccountsInv
<1> DEFINE row == SwitchedRow(users[u], on)
<1>1. /\ Running /\ users[actor].admin /\ Exists(u)
      /\ (~on /\ users[u].admin /\ users[u].active) => Cardinality(ActiveAdmins) > 1
      /\ users' = [users EXCEPT ![u] = row]
      /\ UNCHANGED <<keys, worker, answers, made, overwrote>>
  BY DEF SetActive
<1>2. /\ row \in Account /\ row.name = users[u].name /\ row.admin = users[u].admin
      /\ row.active = on
      /\ on => row.tokenVersion = users[u].tokenVersion
      /\ ~on => row.tokenVersion = users[u].tokenVersion + 1
  <2>1. users[u] \in Account
    BY DEF AccountsTypeOK
  <2>2. CASE on
    BY <2>1, <2>2 DEF SwitchedRow, Account
  <2>3. CASE on = FALSE
    <3>1. row = [users[u] EXCEPT !.active = FALSE, !.tokenVersion = users[u].tokenVersion + 1]
      BY <2>3 DEF SwitchedRow
    <3>2. users[u].tokenVersion + 1 \in Nat
      BY <2>1 DEF Account
    <3> HIDE DEF row
    <3>3. /\ row \in Account /\ row.name = users[u].name /\ row.admin = users[u].admin
          /\ row.active = FALSE /\ row.tokenVersion = users[u].tokenVersion + 1
      BY <2>1, <3>1, <3>2 DEF Account
    <3> QED
      BY <2>3, <3>3
  <2> QED
    BY <2>2, <2>3
<1> HIDE DEF row
<1>3. /\ users' \in [People -> Account] /\ users'[u] = row
      /\ \A v \in People : v # u => users'[v] = users[v]
      /\ \A v \in People : Exists(v)' <=> Exists(v)
      /\ RowInv' /\ MadeInv' /\ CreatedOnce' /\ AllAdmins' = AllAdmins
  BY <1>1, <1>2, RowChanged
<1>4. AdminInv'
  <2>1. Running' <=> Running
    BY <1>1 DEF Running
  <2>2. PICK x \in People : users[x].admin /\ users[x].active
    BY <1>1 DEF AdminInv, ActiveAdmins
  <2>3. ActiveAdmins' # {}
    <3>1. CASE on \/ x # u
      BY <1>2, <1>3, <2>2, <3>1 DEF ActiveAdmins
    <3>2. CASE ~on /\ x = u
      <4>1. Cardinality(ActiveAdmins) > 1
        BY <1>1, <2>2, <3>2
      <4>2. ActiveAdmins # {u}
        <5>1. Cardinality({u}) = 1
          BY FS_Singleton
        <5> QED
          BY <4>1, <5>1
      <4>3. PICK y \in ActiveAdmins : y # u
        BY <2>2, <3>2, <4>2 DEF ActiveAdmins
      <4> QED
        BY <1>3, <4>3 DEF ActiveAdmins
    <3> QED
      BY <3>1, <3>2
  <2> QED
    BY <1>1, <1>3, <2>1, <2>3 DEF AdminInv
<1>5. CASE on
  <2>1. UNCHANGED <<issued, call, revocations>>
    BY <1>5 DEF SetActive
  <2>2. AccountsTypeOK'
    BY <1>1, <1>3, <2>1 DEF AccountsTypeOK
  <2>3. \A v \in People : users'[v].tokenVersion = users[v].tokenVersion
    BY <1>2, <1>3, <1>5
  <2>4. CallInv'
    BY <1>3, <2>1, <2>3 DEF CallInv
  <2>5. TokenInv'
    <3>1. \A t \in issued : t.user \in People
      BY DEF AccountsTypeOK
    <3>2. \A c \in Calls : call[c].pc \in {"login", "password"} => call[c].user \in People
      BY DEF CallInv
    <3> QED
      BY <1>1, <2>1, <2>3, <3>1, <3>2 DEF TokenInv
  <2> QED
    BY <1>3, <1>4, <2>2, <2>4, <2>5
<1>6. CASE ~on
  <2>1. Revoke(u) /\ call' = RevokeReads(u)
    BY <1>6 DEF SetActive
  <2>2. ReadsRevoked(u, {})
    <3>1. {} \in SUBSET Calls
      OBVIOUS
    <3> QED
      BY <2>1, <3>1, RevokeReadsSteps
  <2>3. CallInv' /\ TokenInv'
    <3>1. ~overwrote' => ~overwrote /\ users'[u].tokenVersion = users[u].tokenVersion + 1
      BY <1>1, <1>2, <1>3, <1>6
    <3>2. {} \in SUBSET Calls
      OBVIOUS
    <3> QED
      BY <1>3, <2>1, <2>2, <3>1, <3>2, RevocationKeeps
  <2>4. AccountsTypeOK'
    BY <1>1, <1>3, <2>1, <2>2, RevokeSteps DEF AccountsTypeOK, ReadsRevoked
  <2> QED
    BY <1>3, <1>4, <2>3, <2>4
<1> QED
  BY <1>5, <1>6

LEMMA PasswordCommitKeeps ==
  ASSUME AccountsInv, NEW c \in Calls, PasswordCommit(c)
  PROVE  AccountsInv'
<1> USE DEF AccountsInv
<1> DEFINE u == call[c].user
           row == [users[u] EXCEPT !.tokenVersion = call[c].read + 1]
<1>1. /\ u \in People /\ Exists(u) /\ call[c].read \in Nat
      /\ ~call[c].late => call[c].read = users[u].tokenVersion
  BY DEF PasswordCommit, CallInv, AccountsTypeOK, Call
<1>2. /\ users' = [users EXCEPT ![u] = row]
      /\ Revoke(u)
      /\ overwrote' = (overwrote \/ call[c].late)
      /\ call' = [RevokeReads(u) EXCEPT ![c] = IdleCall]
      /\ UNCHANGED <<keys, worker, answers, made>>
  BY DEF PasswordCommit
<1>3. /\ row \in Account /\ row.name = users[u].name /\ row.admin = users[u].admin
      /\ row.active = users[u].active /\ row.tokenVersion = call[c].read + 1
  <2>1. users[u] \in Account
    BY <1>1 DEF AccountsTypeOK
  <2> QED
    BY <1>1, <2>1 DEF Account
<1> HIDE DEF u, row
<1>4. /\ users' \in [People -> Account] /\ users'[u] = row
      /\ \A v \in People : v # u => users'[v] = users[v]
      /\ \A v \in People : Exists(v)' <=> Exists(v)
      /\ RowInv' /\ MadeInv' /\ CreatedOnce' /\ AllAdmins' = AllAdmins
  BY <1>1, <1>2, <1>3, RowChanged
<1>5. AdminInv'
  <2>1. ActiveAdmins' = ActiveAdmins
    BY <1>3, <1>4 DEF ActiveAdmins
  <2> QED
    BY <1>2, <1>4, <2>1 DEF AdminInv, Running
<1>6. ReadsRevoked(u, {c})
  <2>1. {c} \in SUBSET Calls
    OBVIOUS
  <2> QED
    BY <1>1, <1>2, <2>1, RevokeReadsSteps
<1>7. CallInv' /\ TokenInv'
  <2>1. ~overwrote' => ~overwrote /\ users'[u].tokenVersion = users[u].tokenVersion + 1
    BY <1>1, <1>2, <1>3, <1>4 DEF AccountsTypeOK
  <2>2. {c} \in SUBSET Calls
    OBVIOUS
  <2> QED
    BY <1>1, <1>2, <1>4, <1>6, <2>1, <2>2, RevocationKeeps
<1>8. AccountsTypeOK'
  <2>1. overwrote' \in BOOLEAN
    BY <1>2
  <2> QED
    BY <1>1, <1>2, <1>4, <1>6, <2>1, RevokeSteps DEF AccountsTypeOK, ReadsRevoked
<1> QED
  BY <1>4, <1>5, <1>7, <1>8

LEMMA AccountsKeeps == AccountsInv /\ [AccountsNext]_accountVars => AccountsInv'
<1> SUFFICES ASSUME AccountsInv, [AccountsNext]_accountVars PROVE AccountsInv'
  OBVIOUS
<1>1. CASE UNCHANGED accountVars
  BY <1>1 DEF AccountsInv, AccountsTypeOK, RowInv, CallInv, MadeInv, CreatedOnce, AdminInv,
     TokenInv, Running, AllAdmins, ActiveAdmins, Exists, accountVars
<1> QED
  BY <1>1, BootKeeps, InsertAdminKeeps, CreateReadKeeps, CreateCommitKeeps,
     CreateConflictKeeps, ReadKeeps, EndKeeps, SetActiveKeeps, PasswordCommitKeeps
  DEF AccountsNext

LEMMA AccountsInvariance == AccountsSpec => []AccountsInv
BY AccountsStart, AccountsKeeps, PTL DEF AccountsSpec

\* create_user and ensure_default_admin: for any number of users, calls, keys and
\* processes, a key creates one user, the bootstrap makes one administrator, and
\* every answer to a key names the user it created for the same payload.
THEOREM OneUserPerKey == AccountsSpec => []AccountsAreWellFormed
<1>1. AccountsInv => AccountsAreWellFormed
  BY DEF AccountsInv, AccountsAreWellFormed
<1> QED
  BY <1>1, AccountsInvariance, PTL

\* _lock_platform_admin_mutation: administrators who deactivate each other at the
\* same time never leave the platform without an active one.
THEOREM AnAdminRemains == AccountsSpec => []AdminRemains
<1>1. AccountsInv => AdminRemains
  BY DEF AccountsInv, AdminInv, AdminRemains, ActiveAdmins
<1> QED
  BY <1>1, AccountsInvariance, PTL

\* get_current_user: a token issued before a deactivation or a change of password
\* is never accepted again, until a change of password writes over a row that it
\* has not read.
THEOREM RevokedForGood == AccountsSpec => []RevokedStaysRevoked
<1>1. AccountsInv => RevokedStaysRevoked
  <2> SUFFICES ASSUME AccountsInv, ~overwrote, NEW t \in issued, t.dead, Admits(t)
               PROVE  FALSE
    BY DEF RevokedStaysRevoked
  <2>1. t.user \in People /\ t.tokenVersion \in Nat /\ users[t.user].tokenVersion \in Nat
    BY DEF AccountsInv, AccountsTypeOK, Account
  <2>2. t.tokenVersion < users[t.user].tokenVersion /\ t.tokenVersion = users[t.user].tokenVersion
    BY DEF AccountsInv, TokenInv, Admits
  <2> QED
    BY <2>1, <2>2
<1> QED
  BY <1>1, AccountsInvariance, PTL

-----------------------------------------------------------------------------
(* Submission                                                              *)

\* What a request was answered is a review that was inserted for its key and
\* its statement; a key other than none has one review.
ReplyInv ==
  /\ \A a \in replies :
       /\ a.review \in Reviews /\ review[a.review].used
       /\ review[a.review].statement = a.statement /\ review[a.review].key = a.key
  /\ \A r, t \in Reviews :
       review[r].used /\ review[t].used /\ review[r].key = review[t].key
         /\ review[r].key # NoReviewKey => r = t

\* A request that inserted a review holds it, and one that has counted and not
\* read the policies yet is still demanded its floor.
SubmitInv ==
  \A q \in Submitters :
    /\ submit[q].pc = "log" =>
         /\ submit[q].review \in Reviews /\ review[submit[q].review].used
         /\ review[submit[q].review].statement = submit[q].statement
         /\ review[submit[q].review].key = submit[q].key
    /\ submit[q].pc = "evaluate" => floor[q] <= Demand(submit[q].rows, policy)

SubmissionInv == SubmissionTypeOK /\ ReplyInv /\ SubmitInv /\ DemandIsMet

\* The largest of the approvals that the matching policies require is no less
\* than what they demand together.
LEMMA RequiredMeetsDemand ==
  ASSUME NEW rows \in RowCounts, NEW ps \in [Policies -> Policy]
  PROVE  /\ Demand(rows, ps) \in Approvals /\ Required(rows, ps) \in Approvals
         /\ Demand(rows, ps) <= Required(rows, ps)
<1> DEFINE asked == {1} \cup {ps[p].approvals : p \in Matching(rows, ps)}
<1>1. \A p \in Matching(rows, ps) : ps[p].approvals \in {1, 2}
  BY DEF Matching, Policy, Approvals
<1>2. PICK m \in asked : \A y \in asked : m >= y
  <2>1. CASE 2 \in asked
    <3>1. \A y \in asked : 2 >= y
      BY <1>1
    <3> QED
      BY <2>1, <3>1
  <2>2. CASE 2 \notin asked
    <3>1. \A y \in asked : 1 >= y
      BY <1>1, <2>2
    <3> QED
      BY <3>1
  <2> QED
    BY <2>1, <2>2
<1>3. Required(rows, ps) \in asked /\ \A y \in asked : Required(rows, ps) >= y
  BY <1>2 DEF Required, Max
<1>4. Required(rows, ps) \in {1, 2}
  BY <1>1, <1>3
<1>5. /\ Demand(rows, ps) \in {1, 2}
      /\ Demand(rows, ps) = 1 \/ \E p \in Matching(rows, ps) : ps[p].approvals = Demand(rows, ps)
  <2> DEFINE Least(a) == /\ \A p \in Matching(rows, ps) : ps[p].approvals <= a
                         /\ a = 1 \/ \E p \in Matching(rows, ps) : ps[p].approvals = a
  <2>1. \E a \in Approvals : Least(a)
    <3>1. CASE \E p \in Matching(rows, ps) : ps[p].approvals = 2
      <4>1. Least(2)
        BY <1>1, <3>1
      <4> QED
        BY <4>1 DEF Approvals
    <3>2. CASE ~ \E p \in Matching(rows, ps) : ps[p].approvals = 2
      <4>1. Least(1)
        BY <1>1, <3>2
      <4> QED
        BY <4>1 DEF Approvals
    <3> QED
      BY <3>1, <3>2
  <2>2. Demand(rows, ps) = CHOOSE a \in Approvals : Least(a)
    BY DEF Demand
  <2> HIDE DEF Least
  <2>3. Demand(rows, ps) \in Approvals /\ Least(Demand(rows, ps))
    BY <2>1, <2>2
  <2> QED
    BY <2>3 DEF Least, Approvals
<1>6. Demand(rows, ps) \in asked
  BY <1>5
<1> HIDE DEF asked
<1> QED
  BY <1>3, <1>4, <1>5, <1>6 DEF Approvals

\* The least of two numbers of approvals.
LEMMA LeastOfTwo ==
  ASSUME NEW a \in Approvals, NEW b \in Approvals
  PROVE  Min({a, b}) \in Approvals /\ Min({a, b}) <= b
<1>1. a \in Nat /\ b \in Nat
  BY DEF Approvals
<1>2. \E x \in {a, b} : \A y \in {a, b} : x =< y
  BY <1>1
<1>3. Min({a, b}) \in {a, b} /\ \A y \in {a, b} : Min({a, b}) =< y
  BY <1>2 DEF Min
<1> QED
  BY <1>3

LEMMA IdleSubmitIs ==
  IdleSubmit \in Submit /\ IdleSubmit.pc = "idle"
BY SubmissionAssumption DEF IdleSubmit, Submit, SubmitPoints, Approvals

LEMMA SubmissionStarts == SubmissionInit => SubmissionInv
<1> SUFFICES ASSUME SubmissionInit PROVE SubmissionInv
  OBVIOUS
<1>1. UnusedReview \in Review /\ ~UnusedReview.used /\ UnusedPolicy \in Policy
  BY SubmissionAssumption DEF UnusedReview, Review, UnusedPolicy, Policy, Approvals
<1>2. SubmissionTypeOK
  <2>1. review \in [Reviews -> Review] /\ policy \in [Policies -> Policy]
    BY <1>1 DEF SubmissionInit
  <2>2. submit \in [Submitters -> Submit]
    BY IdleSubmitIs DEF SubmissionInit
  <2>3. edit \in [Admins -> [policy : Policies \cup {NoPolicy}, enabled : BOOLEAN]]
    BY DEF SubmissionInit, NoEdit
  <2>4. /\ logged \in SUBSET {r \in Reviews : review[r].used}
        /\ floor \in [Submitters -> Approvals]
        /\ submits \in 0..MaxSubmits /\ policyChanges \in 0..MaxPolicyChanges
    BY SubmissionAssumption DEF SubmissionInit, Approvals
  <2> QED
    BY <2>1, <2>2, <2>3, <2>4 DEF SubmissionTypeOK
<1>3. ReplyInv /\ SubmitInv /\ DemandIsMet
  BY <1>1, IdleSubmitIs DEF SubmissionInit, ReplyInv, SubmitInv, DemandIsMet
<1> QED
  BY <1>2, <1>3 DEF SubmissionInv

\* A request whose entry changes; the others keep theirs.
LEMMA SubmitMoves ==
  ASSUME SubmissionInv, NEW q \in Submitters, NEW new \in Submit,
         submit' = [submit EXCEPT ![q] = new],
         UNCHANGED <<policy, edit, policyChanges>>, UNCHANGED <<review, floor>>,
         new.pc \notin {"log", "evaluate"},
         new.pc = "insert" => new.required >= floor[q]
  PROVE  /\ submit' \in [Submitters -> Submit]
         /\ SubmitInv' /\ DemandIsMet'
<1>1. /\ submit' \in [Submitters -> Submit] /\ submit'[q] = new
      /\ \A t \in Submitters : t # q => submit'[t] = submit[t]
  BY DEF SubmissionInv, SubmissionTypeOK
<1>2. SubmitInv'
  BY <1>1 DEF SubmissionInv, SubmitInv
<1>3. DemandIsMet'
  BY <1>1 DEF SubmissionInv, DemandIsMet
<1> QED
  BY <1>1, <1>2, <1>3

\* The answer found under a key is a review of the key.
LEMMA FoundKeeps ==
  ASSUME SubmissionInv, NEW k, NEW s, NEW r \in Under(k), Found(k, s, r), UNCHANGED review
  PROVE  ReplyInv'
<1>1. r \in Reviews /\ review[r].used /\ review[r].key = k
  BY DEF Under
<1>2. ASSUME NEW a \in replies', a \notin replies
      PROVE  a = [key |-> k, statement |-> s, review |-> r] /\ review[r].statement = s
  <2>1. CASE review[r].statement = s
    BY <1>2, <2>1 DEF Found
  <2>2. CASE review[r].statement # s
    BY <1>2, <2>2 DEF Found
  <2> QED
    BY <2>1, <2>2
<1>3. ASSUME NEW a \in replies'
      PROVE  /\ a.review \in Reviews /\ review[a.review].used
             /\ review[a.review].statement = a.statement /\ review[a.review].key = a.key
  BY <1>1, <1>2 DEF SubmissionInv, ReplyInv
<1> QED
  BY <1>3 DEF SubmissionInv, ReplyInv

LEMMA BeginSubmitKeeps ==
  ASSUME SubmissionInv, NEW q \in Submitters, NEW k \in ReviewKeys \cup {NoReviewKey},
         NEW s \in Statements, BeginSubmit(q, k, s)
  PROVE  SubmissionInv'
<1>1. /\ submits' \in 0..MaxSubmits
      /\ UNCHANGED <<policy, edit, policyChanges>> /\ UNCHANGED <<review, logged, floor>>
  BY SubmissionAssumption DEF BeginSubmit, UnchangedPolicies, SubmissionInv, SubmissionTypeOK
<1>2. CASE \E r \in Under(k) : Found(k, s, r) /\ UNCHANGED submit
  <2>1. ReplyInv'
    BY <1>1, <1>2, FoundKeeps
  <2>2. SubmissionTypeOK'
    BY <1>1, <1>2 DEF SubmissionInv, SubmissionTypeOK
  <2>3. SubmitInv' /\ DemandIsMet'
    BY <1>1, <1>2 DEF SubmissionInv, SubmitInv, DemandIsMet
  <2> QED
    BY <2>1, <2>2, <2>3 DEF SubmissionInv
<1>3. CASE UNCHANGED replies
  <2> DEFINE new == [IdleSubmit EXCEPT !.pc = "count", !.key = k, !.statement = s]
  <2>1. CASE UNCHANGED submit
    BY <1>1, <1>3, <2>1 DEF SubmissionInv, SubmissionTypeOK, ReplyInv, SubmitInv, DemandIsMet
  <2>2. CASE submit' = [submit EXCEPT ![q] = new]
    <3>1. new \in Submit /\ new.pc = "count"
      <4>1. \A idle \in Submit :
              LET n == [idle EXCEPT !.pc = "count", !.key = k, !.statement = s] IN
              n \in Submit /\ n.pc = "count"
        BY DEF Submit, SubmitPoints
      <4> QED
        BY <4>1, IdleSubmitIs
    <3> HIDE DEF new
    <3>2. submit' \in [Submitters -> Submit] /\ SubmitInv' /\ DemandIsMet'
      BY <1>1, <2>2, <3>1, SubmitMoves
    <3>3. SubmissionTypeOK' /\ ReplyInv'
      BY <1>1, <1>3, <3>2 DEF SubmissionInv, SubmissionTypeOK, ReplyInv
    <3> QED
      BY <3>2, <3>3 DEF SubmissionInv
  <2> QED
    BY <2>1, <2>2 DEF BeginSubmit
<1> QED
  BY <1>2, <1>3 DEF BeginSubmit

LEMMA CountKeeps ==
  ASSUME SubmissionInv, NEW q \in Submitters, NEW rows \in RowCounts, Count(q, rows)
  PROVE  SubmissionInv'
<1>1. /\ UNCHANGED <<policy, edit, policyChanges>> /\ UNCHANGED <<review, logged, replies, submits>>
  BY DEF Count, UnchangedPolicies
<1>2. ReplyInv'
  BY <1>1 DEF SubmissionInv, ReplyInv
<1>3. CASE submit' = [submit EXCEPT ![q] = IdleSubmit] /\ UNCHANGED floor
  <2>1. submit' \in [Submitters -> Submit] /\ SubmitInv' /\ DemandIsMet'
    BY <1>1, <1>3, IdleSubmitIs, SubmitMoves
  <2> QED
    BY <1>1, <1>2, <1>3, <2>1 DEF SubmissionInv, SubmissionTypeOK
<1>4. CASE /\ submit' = [submit EXCEPT ![q].pc = "evaluate", ![q].rows = rows]
           /\ floor' = [floor EXCEPT ![q] = Demand(rows, policy)]
  <2>1. submit[q] \in Submit
    BY DEF SubmissionInv, SubmissionTypeOK
  <2>2. /\ submit' \in [Submitters -> Submit]
        /\ submit'[q].pc = "evaluate" /\ submit'[q].rows = rows
        /\ \A t \in Submitters : t # q => submit'[t] = submit[t]
    BY <1>4, <2>1 DEF SubmissionInv, SubmissionTypeOK, Submit, SubmitPoints
  <2>3. Demand(rows, policy) \in Approvals
    BY RequiredMeetsDemand DEF SubmissionInv, SubmissionTypeOK
  <2>4. /\ floor' \in [Submitters -> Approvals] /\ floor'[q] = Demand(rows, policy)
        /\ \A t \in Submitters : t # q => floor'[t] = floor[t]
    BY <1>4, <2>3 DEF SubmissionInv, SubmissionTypeOK
  <2>5. SubmissionTypeOK'
    BY <1>1, <2>2, <2>4 DEF SubmissionInv, SubmissionTypeOK
  <2>6. SubmitInv'
    BY <1>1, <2>2, <2>3, <2>4 DEF SubmissionInv, SubmitInv, Approvals
  <2>7. DemandIsMet'
    BY <1>1, <2>2, <2>4 DEF SubmissionInv, DemandIsMet
  <2> QED
    BY <1>2, <2>5, <2>6, <2>7 DEF SubmissionInv
<1> QED
  BY <1>3, <1>4 DEF Count

LEMMA EvaluateKeeps ==
  ASSUME SubmissionInv, NEW q \in Submitters, Evaluate(q)
  PROVE  SubmissionInv'
<1> DEFINE required == Required(submit[q].rows, policy)
           new == [submit[q] EXCEPT !.pc = "insert", !.required = required]
<1>1. /\ UNCHANGED <<policy, edit, policyChanges>>
      /\ UNCHANGED <<review, logged, replies, floor, submits>>
      /\ submit[q].pc = "evaluate"
  BY DEF Evaluate, UnchangedPolicies
<1>2. submit[q] \in Submit /\ floor[q] \in Approvals
  BY DEF SubmissionInv, SubmissionTypeOK
<1>3. required \in Approvals /\ required >= floor[q]
  <2>1. /\ Demand(submit[q].rows, policy) \in Approvals /\ required \in Approvals
        /\ Demand(submit[q].rows, policy) <= required
    BY <1>2, RequiredMeetsDemand DEF SubmissionInv, SubmissionTypeOK, Submit
  <2>2. floor[q] <= Demand(submit[q].rows, policy)
    BY <1>1 DEF SubmissionInv, SubmitInv
  <2> QED
    BY <1>2, <2>1, <2>2 DEF Approvals
<1>4. submit' = [submit EXCEPT ![q] = new]
  BY DEF Evaluate, SubmissionInv, SubmissionTypeOK
<1> HIDE DEF required
<1>5. new \in Submit /\ new.pc = "insert" /\ new.required = required
  BY <1>2, <1>3 DEF Submit, SubmitPoints
<1> HIDE DEF new
<1>6. submit' \in [Submitters -> Submit] /\ SubmitInv' /\ DemandIsMet'
  BY <1>1, <1>3, <1>4, <1>5, SubmitMoves
<1> QED
  BY <1>1, <1>6 DEF SubmissionInv, SubmissionTypeOK, ReplyInv

LEMMA InsertKeeps ==
  ASSUME SubmissionInv, NEW q \in Submitters, NEW r \in Reviews, Insert(q, r)
  PROVE  SubmissionInv'
<1>1. /\ UNCHANGED <<policy, edit, policyChanges>>
      /\ UNCHANGED <<logged, replies, floor, submits>>
      /\ submit[q].pc = "insert"
  BY DEF Insert, UnchangedPolicies
<1>2. submit[q] \in Submit
  BY DEF SubmissionInv, SubmissionTypeOK
<1>3. CASE submit' = [submit EXCEPT ![q].pc = "winner"] /\ UNCHANGED review
  <2> DEFINE new == [submit[q] EXCEPT !.pc = "winner"]
  <2>1. new \in Submit /\ new.pc = "winner"
    BY <1>2 DEF Submit, SubmitPoints
  <2>2. submit' = [submit EXCEPT ![q] = new]
    BY <1>3
  <2> HIDE DEF new
  <2>3. submit' \in [Submitters -> Submit] /\ SubmitInv' /\ DemandIsMet'
    BY <1>1, <1>3, <2>1, <2>2, SubmitMoves
  <2> QED
    BY <1>1, <1>3, <2>3 DEF SubmissionInv, SubmissionTypeOK, ReplyInv
<1>4. CASE /\ Under(submit[q].key) = {}
           /\ ~review[r].used
           /\ review' = [review EXCEPT ![r] =
                           [used |-> TRUE, statement |-> submit[q].statement,
                            key |-> submit[q].key, required |-> submit[q].required]]
           /\ submit' = [submit EXCEPT ![q].pc = "log", ![q].review = r]
  <2> DEFINE row == [used |-> TRUE, statement |-> submit[q].statement,
                     key |-> submit[q].key, required |-> submit[q].required]
  <2>1. row \in Review
    BY <1>2 DEF Submit, Review
  <2>2. /\ review' \in [Reviews -> Review] /\ review'[r] = row
        /\ \A t \in Reviews : t # r => review'[t] = review[t]
        /\ \A t \in Reviews : review[t].used => t # r
    BY <1>4, <2>1 DEF SubmissionInv, SubmissionTypeOK
  <2>3. /\ submit' \in [Submitters -> Submit]
        /\ submit'[q].pc = "log" /\ submit'[q].review = r
        /\ submit'[q].statement = submit[q].statement /\ submit'[q].key = submit[q].key
        /\ \A t \in Submitters : t # q => submit'[t] = submit[t]
    BY <1>2, <1>4 DEF SubmissionInv, SubmissionTypeOK, Submit, SubmitPoints
  <2>4. /\ row.used /\ row.statement = submit[q].statement /\ row.key = submit[q].key
        /\ row.required = submit[q].required
    OBVIOUS
  <2> HIDE DEF row
  <2>5. SubmissionTypeOK'
    <3>1. logged' \in SUBSET {t \in Reviews : review'[t].used}
      BY <1>1, <2>2 DEF SubmissionInv, SubmissionTypeOK
    <3> QED
      BY <1>1, <2>2, <2>3, <3>1 DEF SubmissionInv, SubmissionTypeOK
  <2>6. ReplyInv'
    <3>1. \A t \in Reviews : review[t].used => review[t].key # submit[q].key \/ submit[q].key = NoReviewKey
      BY <1>4 DEF Under
    <3>2. \A t, u \in Reviews : review'[t].used /\ review'[u].used /\ review'[t].key = review'[u].key
                                  /\ review'[t].key # NoReviewKey => t = u
      BY <2>2, <2>4, <3>1 DEF SubmissionInv, ReplyInv
    <3>3. \A a \in replies : a.review \in Reviews /\ review'[a.review] = review[a.review]
      BY <2>2 DEF SubmissionInv, ReplyInv
    <3> QED
      BY <1>1, <3>2, <3>3 DEF SubmissionInv, ReplyInv
  <2>7. ASSUME NEW t \in Submitters, t # q, submit[t].pc = "log"
        PROVE  submit[t].review \in Reviews /\ review'[submit[t].review] = review[submit[t].review]
    BY <2>2, <2>7 DEF SubmissionInv, SubmitInv
  <2>8. SubmitInv'
    BY <1>1, <2>2, <2>3, <2>4, <2>7 DEF SubmissionInv, SubmitInv
  <2>9. DemandIsMet'
    BY <1>1, <2>2, <2>3, <2>4, <2>7 DEF SubmissionInv, DemandIsMet
  <2> QED
    BY <2>5, <2>6, <2>8, <2>9 DEF SubmissionInv
<1> QED
  BY <1>3, <1>4 DEF Insert

LEMMA AnswerSubmitKeeps ==
  ASSUME SubmissionInv, NEW q \in Submitters, Winner(q) \/ LogSubmission(q)
  PROVE  SubmissionInv'
<1>1. /\ UNCHANGED <<policy, edit, policyChanges>> /\ UNCHANGED <<review, floor, submits>>
      /\ submit' = [submit EXCEPT ![q] = IdleSubmit]
  BY DEF Winner, LogSubmission, UnchangedPolicies
<1>2. submit' \in [Submitters -> Submit] /\ SubmitInv' /\ DemandIsMet'
  BY <1>1, IdleSubmitIs, SubmitMoves
<1>3. CASE Winner(q)
  <2>1. ReplyInv'
    BY <1>1, <1>3, FoundKeeps DEF Winner
  <2> QED
    BY <1>1, <1>2, <1>3, <2>1 DEF SubmissionInv, SubmissionTypeOK, Winner
<1>4. CASE LogSubmission(q)
  <2>1. /\ submit[q].review \in Reviews /\ review[submit[q].review].used
        /\ review[submit[q].review].statement = submit[q].statement
        /\ review[submit[q].review].key = submit[q].key
    BY <1>4 DEF LogSubmission, SubmissionInv, SubmitInv
  <2>2. logged' \in SUBSET {r \in Reviews : review[r].used}
    BY <1>4, <2>1 DEF LogSubmission, SubmissionInv, SubmissionTypeOK
  <2>3. ASSUME NEW a \in replies'
        PROVE  /\ a.review \in Reviews /\ review[a.review].used
               /\ review[a.review].statement = a.statement /\ review[a.review].key = a.key
    <3>1. CASE a \in replies
      BY <3>1 DEF SubmissionInv, ReplyInv
    <3>2. CASE a = [key |-> submit[q].key, statement |-> submit[q].statement,
                    review |-> submit[q].review]
      BY <2>1, <3>2
    <3> QED
      BY <1>4, <3>1, <3>2 DEF LogSubmission
  <2>4. ReplyInv'
    BY <1>1, <2>3 DEF SubmissionInv, ReplyInv
  <2> QED
    BY <1>1, <1>2, <2>2, <2>4 DEF SubmissionInv, SubmissionTypeOK
<1> QED
  BY <1>3, <1>4

\* An edit of the policies lowers the floor of a request that will read them to
\* what they demand then.
LEMMA SetPoliciesKeeps ==
  ASSUME SubmissionInv, NEW ps \in [Policies -> Policy], SetPolicies(ps),
         edit' \in [Admins -> [policy : Policies \cup {NoPolicy}, enabled : BOOLEAN]],
         policyChanges' \in 0..MaxPolicyChanges
  PROVE  SubmissionInv'
<1>1. policy' = ps /\ UNCHANGED <<review, logged, submit, replies, submits>>
  BY DEF SetPolicies
<1>2. ASSUME NEW q \in Submitters
      PROVE  /\ floor'[q] \in Approvals
             /\ submit[q].pc = "evaluate" => floor'[q] <= Demand(submit[q].rows, ps)
             /\ submit[q].pc # "evaluate" => floor'[q] = floor[q]
  <2>1. floor[q] \in Approvals /\ submit[q].rows \in RowCounts
    BY DEF SubmissionInv, SubmissionTypeOK, Submit
  <2>2. Demand(submit[q].rows, ps) \in Approvals
    BY <2>1, RequiredMeetsDemand
  <2>3. /\ Min({floor[q], Demand(submit[q].rows, ps)}) \in Approvals
        /\ Min({floor[q], Demand(submit[q].rows, ps)}) <= Demand(submit[q].rows, ps)
    BY <2>1, <2>2, LeastOfTwo
  <2> QED
    BY <2>1, <2>3 DEF SetPolicies
<1>3. floor' \in [Submitters -> Approvals]
  BY <1>2 DEF SetPolicies
<1>4. SubmissionTypeOK'
  BY <1>1, <1>3 DEF SubmissionInv, SubmissionTypeOK
<1>5. ReplyInv'
  BY <1>1 DEF SubmissionInv, ReplyInv
<1>6. SubmitInv'
  BY <1>1, <1>2 DEF SubmissionInv, SubmitInv
<1>7. DemandIsMet'
  BY <1>1, <1>2 DEF SubmissionInv, DemandIsMet
<1> QED
  BY <1>4, <1>5, <1>6, <1>7 DEF SubmissionInv

LEMMA VersionedPolicies ==
  ASSUME NEW ps \in [Policies -> Policy], NEW new \in Policies, NEW body \in Policy,
         NEW old \in Policies, NEW on
  PROVE  [ps EXCEPT ![new] = body, ![old].enabled = IF on THEN FALSE ELSE @]
           \in [Policies -> Policy]
BY DEF Policy

LEMMA PoliciesKeep ==
  ASSUME SubmissionInv
  PROVE  /\ \A p \in Policies, body \in Bodies : CreatePolicy(p, body) => SubmissionInv'
         /\ \A a \in Admins :
              /\ \A p \in Policies : ReadPolicy(a, p) => SubmissionInv'
              /\ \A p \in Policies, body \in Bodies : VersionPolicy(a, p, body) => SubmissionInv'
              /\ TogglePolicy(a) => SubmissionInv'
<1> DEFINE Edits == [Admins -> [policy : Policies \cup {NoPolicy}, enabled : BOOLEAN]]
<1>1. Bodies \subseteq Policy /\ policy \in [Policies -> Policy] /\ edit \in Edits
      /\ policyChanges \in 0..MaxPolicyChanges
  BY SubmissionAssumption DEF Policy, Approvals, SubmissionInv, SubmissionTypeOK
<1>2. \A x \in [Policies -> Policy], o \in Policies, on \in BOOLEAN :
        [x EXCEPT ![o].enabled = on] \in [Policies -> Policy]
  BY DEF Policy
<1>3. \A p \in Policies, body \in Bodies : [policy EXCEPT ![p] = body] \in [Policies -> Policy]
  BY <1>1
<1>4. \A a \in Admins : [edit EXCEPT ![a] = NoEdit] \in Edits
  BY <1>1 DEF NoEdit
<1>5. ASSUME NEW p \in Policies, NEW body \in Bodies, CreatePolicy(p, body)
      PROVE  SubmissionInv'
  <2>1. SetPolicies([policy EXCEPT ![p] = body]) /\ edit' \in Edits
        /\ policyChanges' \in 0..MaxPolicyChanges
    BY <1>1, <1>5, SubmissionAssumption DEF CreatePolicy
  <2> QED
    BY <1>3, <2>1, SetPoliciesKeeps
<1>6. ASSUME NEW a \in Admins, NEW p \in Policies, ReadPolicy(a, p)
      PROVE  SubmissionInv'
  <2>1. policyChanges' \in 0..MaxPolicyChanges
    BY <1>1, <1>6, SubmissionAssumption DEF ReadPolicy
  <2>2. edit' \in Edits
    BY <1>1, <1>6 DEF ReadPolicy, Policy
  <2>3. UNCHANGED <<review, logged, policy, submit, replies, floor, submits>>
    BY <1>6 DEF ReadPolicy
  <2> QED
    BY <2>1, <2>2, <2>3 DEF SubmissionInv, SubmissionTypeOK, ReplyInv, SubmitInv, DemandIsMet
<1>7. ASSUME NEW a \in Admins, NEW p \in Policies, NEW body \in Bodies,
             VersionPolicy(a, p, body)
      PROVE  SubmissionInv'
  <2> DEFINE old == edit[a].policy
             ps == [policy EXCEPT ![p] = body, ![old].enabled = IF edit[a].enabled THEN FALSE ELSE @]
  <2>1. /\ old \in Policies /\ SetPolicies(ps)
        /\ edit' \in Edits /\ policyChanges' \in 0..MaxPolicyChanges
    BY <1>1, <1>4, <1>7 DEF VersionPolicy
  <2>2. ps \in [Policies -> Policy]
    <3>1. policy \in [Policies -> Policy] /\ body \in Policy /\ old \in Policies
      BY <1>1, <2>1
    <3> HIDE DEF old
    <3> QED
      BY <3>1, VersionedPolicies
  <2> HIDE DEF ps
  <2> QED
    BY <2>1, <2>2, SetPoliciesKeeps
<1>8. ASSUME NEW a \in Admins, TogglePolicy(a)
      PROVE  SubmissionInv'
  <2> DEFINE ps == [policy EXCEPT ![edit[a].policy].enabled = ~edit[a].enabled]
  <2>1. /\ edit[a].policy \in Policies /\ SetPolicies(ps)
        /\ edit' \in Edits /\ policyChanges' \in 0..MaxPolicyChanges
    BY <1>1, <1>4, <1>8 DEF TogglePolicy
  <2>2. ps \in [Policies -> Policy]
    BY <1>1, <1>2, <2>1
  <2> HIDE DEF ps
  <2> QED
    BY <2>1, <2>2, SetPoliciesKeeps
<1> QED
  BY <1>5, <1>6, <1>7, <1>8

LEMMA SubmissionKeeps == SubmissionInv /\ [SubmissionNext]_submissionVars => SubmissionInv'
<1> SUFFICES ASSUME SubmissionInv, [SubmissionNext]_submissionVars PROVE SubmissionInv'
  OBVIOUS
<1>1. CASE UNCHANGED submissionVars
  BY <1>1 DEF SubmissionInv, SubmissionTypeOK, ReplyInv, SubmitInv, DemandIsMet, submissionVars
<1>2. ASSUME NEW q \in Submitters,
             \/ \E k \in ReviewKeys \cup {NoReviewKey}, s \in Statements : BeginSubmit(q, k, s)
             \/ \E rows \in RowCounts : Count(q, rows)
             \/ Evaluate(q) \/ Winner(q) \/ LogSubmission(q)
             \/ \E r \in Reviews : Insert(q, r)
      PROVE  SubmissionInv'
  BY <1>2, BeginSubmitKeeps, CountKeeps, EvaluateKeeps, InsertKeeps, AnswerSubmitKeeps
<1>3. ASSUME \/ \E p \in Policies, body \in Bodies : CreatePolicy(p, body)
             \/ \E a \in Admins :
                  \/ \E p \in Policies : ReadPolicy(a, p)
                  \/ \E new \in Policies, body \in Bodies : VersionPolicy(a, new, body)
                  \/ TogglePolicy(a)
      PROVE  SubmissionInv'
  BY <1>3, PoliciesKeep
<1> QED
  BY <1>1, <1>2, <1>3 DEF SubmissionNext

LEMMA SubmissionInvariance == SubmissionSpec => []SubmissionInv
BY SubmissionStarts, SubmissionKeeps, PTL DEF SubmissionSpec

\* submit_review: for any number of requests, keys, reviews and policies, requests
\* under one key are answered one review that holds what they asked, and no review
\* requires less than the policies demanded between the count and their evaluation,
\* however administrators replace and toggle them meanwhile.
THEOREM SubmissionsStaySound == SubmissionSpec => []SubmissionsAreSound
<1>1. SubmissionInv => OneReviewPerKey
  BY DEF SubmissionInv, ReplyInv, OneReviewPerKey
<1>2. SubmissionInv => SubmissionsAreSound
  BY <1>1 DEF SubmissionInv, SubmissionsAreSound
<1> QED
  BY <1>2, SubmissionInvariance, PTL
=============================================================================
