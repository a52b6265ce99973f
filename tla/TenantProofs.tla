---------------------------- MODULE TenantProofs ----------------------------
(***************************************************************************)
(* Proofs about what one organization has of its own: the token budget of  *)
(* its users (ChatQuota), and its units, memberships and contexts          *)
(* (Organization).                                                         *)
(***************************************************************************)
EXTENDS Organization, ChatQuota, FiniteSetTheorems, SequenceTheorems, TLAPS

-----------------------------------------------------------------------------
(* The token budget                                                        *)

AliveIds == {i \in Ids : Alive(i)}

\* The tokens that reservations still hold: one pair for each token of a share
\* whose request has not logged it yet.
Room ==
  {p \in Ids \X (1..Share) :
     /\ Alive(p[1])
     /\ \E q \in Requests : /\ req[q].own /\ req[q].limited /\ req[q].id = p[1]
                            /\ req[q].logged < p[2]}

\* The reservation of a request is its own as long as it counts, or until another
\* request has come with the same id.
Owns(q) ==
  /\ req[q].id \in Ids
  /\ reservation[req[q].id].status # "none"
  /\ \/ Alive(req[q].id)
     \/ reservation[req[q].id].overdue
     \/ \E p \in Requests \ {q} : req[p].id = req[q].id

OwnInv ==
  /\ \A q \in Requests : req[q].own => Owns(q)
  /\ \A p, q \in Requests : req[p].own /\ req[q].own /\ req[p].id = req[q].id => p = q

IdleInv == \A q \in Requests : req[q].pc = "idle" => req[q] = IdleReq

\* What is used and what is still held are within the limit: this is what the
\* check of reserve_user_quota leaves true, and every step keeps.
QuotaInv ==
  /\ TypeOK /\ IdleInv /\ OwnInv
  /\ IsFiniteSet(AliveIds)
  /\ used + Cardinality(Room) <= granted + loose

LEMMA IdleReqShape ==
  /\ IdleReq \in RequestState /\ IdleReq.pc = "idle" /\ IdleReq.id = NoId
  /\ ~IdleReq.own /\ IdleReq.logged = 0
<1>1. <<>> \in Seq(Tokens)
  OBVIOUS
<1> QED
  BY <1>1 DEF IdleReq, RequestState, Points

LEMMA QuotaStarts == Init => QuotaInv
<1> SUFFICES ASSUME Init PROVE QuotaInv
  OBVIOUS
<1>1. TypeOK
  BY IdleReqShape DEF Init, TypeOK, NoReservation, Reservation
<1>2. IdleInv /\ OwnInv
  BY IdleReqShape DEF Init, IdleInv, OwnInv
<1>3. AliveIds = {} /\ Room = {}
  BY IdleReqShape DEF Init, AliveIds, Alive, NoReservation, Room
<1>4. IsFiniteSet(AliveIds) /\ Cardinality(Room) = 0
  BY <1>3, FS_EmptySet
<1>5. used = 0 /\ granted = 0 /\ loose = 0
  BY DEF Init
<1> QED
  BY <1>1, <1>2, <1>4, <1>5 DEF QuotaInv

\* What is held is a part of the shares of the reservations that count.
LEMMA RoomIsBounded ==
  ASSUME QuotaInv
  PROVE  /\ IsFiniteSet(Room) /\ Cardinality(Room) \in Nat
         /\ Cardinality(AliveIds) \in Nat /\ Share \in Nat
         /\ IsFiniteSet(1..Share) /\ Cardinality(1..Share) = Share
         /\ IsFiniteSet(AliveIds \X (1..Share))
         /\ Cardinality(AliveIds \X (1..Share)) = Cardinality(AliveIds) * Share
<1>1. Share \in Nat
  BY QuotaAssumption
<1>2. IsFiniteSet(1..Share) /\ Cardinality(1..Share) = Share
  BY <1>1, FS_Interval
<1>3. IsFiniteSet(AliveIds) /\ Cardinality(AliveIds) \in Nat
  BY FS_CardinalityType DEF QuotaInv
<1>4. /\ IsFiniteSet(AliveIds \X (1..Share))
      /\ Cardinality(AliveIds \X (1..Share)) = Cardinality(AliveIds) * Share
  BY <1>2, <1>3, FS_Product
<1>5. Room \subseteq AliveIds \X (1..Share)
  BY DEF Room, AliveIds
<1>6. IsFiniteSet(Room) /\ Cardinality(Room) \in Nat
  BY <1>4, <1>5, FS_Subset, FS_CardinalityType
<1> QED
  BY <1>1, <1>2, <1>3, <1>4, <1>6

\* Where no more is held than before, the budget stays kept.
LEMMA BudgetStays ==
  ASSUME QuotaInv, Room' \subseteq Room, AliveIds' \subseteq AliveIds,
         NEW t \in Nat, used' = used + t, loose' = loose + t,
         granted' \in Nat, granted <= granted'
  PROVE  IsFiniteSet(AliveIds') /\ used' + Cardinality(Room') <= granted' + loose'
<1>1. IsFiniteSet(AliveIds')
  BY FS_Subset DEF QuotaInv
<1>2. Cardinality(Room') <= Cardinality(Room) /\ Cardinality(Room') \in Nat
  BY RoomIsBounded, FS_Subset, FS_CardinalityType
<1>3. used + Cardinality(Room) <= granted + loose
  BY DEF QuotaInv
<1>4. used \in Nat /\ loose \in Nat /\ granted \in Nat /\ Cardinality(Room) \in Nat
  BY RoomIsBounded DEF QuotaInv, TypeOK
<1> QED
  BY <1>1, <1>2, <1>3, <1>4

\* What an ordinary step of a request does to the reservations.
ReservationsWane(q) ==
  \A i \in Ids :
    /\ reservation[i].status # "none" => reservation'[i].status # "none"
    /\ Alive(i)' => Alive(i)
    /\ reservation[i].overdue => reservation'[i].overdue
    /\ Alive(i) => \/ Alive(i)' \/ reservation'[i].overdue
                   \/ i = req[q].id /\ ~req'[q].own

\* A request that goes on under its id keeps what is said of owners.
LEMMA OwnersStay ==
  ASSUME QuotaInv, NEW q \in Requests, ReservationsWane(q),
         \A p \in Requests : p # q => req'[p] = req[p],
         req'[q].pc # "idle", req'[q].id = req[q].id, req'[q].own => req[q].own
  PROVE  IdleInv' /\ OwnInv' /\ AliveIds' \subseteq AliveIds
<1>1. IdleInv'
  BY DEF QuotaInv, IdleInv
<1>2. \A p \in Requests : req'[p].id = req[p].id /\ (req'[p].own => req[p].own)
  OBVIOUS
<1>3. ASSUME NEW p \in Requests, req'[p].own PROVE Owns(p)'
  <2> DEFINE i == req[p].id
  <2>1. req[p].own /\ Owns(p) /\ req'[p].id = i /\ i \in Ids
    BY <1>2, <1>3 DEF QuotaInv, OwnInv, Owns
  <2>2. reservation'[i].status # "none"
    BY <2>1 DEF Owns, ReservationsWane
  <2>3. \/ Alive(i)' \/ reservation'[i].overdue
        \/ \E r \in Requests \ {p} : req'[r].id = i
    <3>1. CASE Alive(i)
      <4>1. Alive(i)' \/ reservation'[i].overdue \/ (i = req[q].id /\ ~req'[q].own)
        BY <2>1, <3>1 DEF ReservationsWane
      <4>2. CASE i = req[q].id /\ ~req'[q].own
        <5>1. q # p /\ req'[q].id = i
          BY <1>2, <1>3, <4>2
        <5> QED
          BY <5>1
      <4> QED
        BY <4>1, <4>2
    <3>2. CASE reservation[i].overdue
      BY <2>1, <3>2 DEF ReservationsWane
    <3>3. CASE \E r \in Requests \ {p} : req[r].id = i
      BY <1>2, <3>3
    <3> QED
      BY <2>1, <3>1, <3>2, <3>3 DEF Owns
  <2> QED
    BY <2>1, <2>2, <2>3 DEF Owns, Alive
<1>4. OwnInv'
  BY <1>2, <1>3 DEF QuotaInv, OwnInv
<1>5. AliveIds' \subseteq AliveIds
  BY DEF AliveIds, ReservationsWane
<1> QED
  BY <1>1, <1>4, <1>5

\* A request that logs nothing, or goes beyond what is held for it.
LEMMA RoomWanes ==
  ASSUME QuotaInv, NEW q \in Requests, ReservationsWane(q), TypeOK',
         \A p \in Requests : p # q => req'[p] = req[p],
         req'[q].id = req[q].id,
         req'[q].own => /\ req[q].own /\ req'[q].limited = req[q].limited
                        /\ req[q].logged <= req'[q].logged
  PROVE  Room' \subseteq Room
<1> SUFFICES ASSUME NEW x \in Room' PROVE x \in Room
  OBVIOUS
<1>1. x \in Ids \X (1..Share) /\ Alive(x[1])'
  BY DEF Room
<1>2. Alive(x[1])
  BY <1>1 DEF ReservationsWane
<1>3. PICK p \in Requests : /\ req'[p].own /\ req'[p].limited /\ req'[p].id = x[1]
                            /\ req'[p].logged < x[2]
  BY DEF Room
<1>4. CASE p # q
  BY <1>1, <1>2, <1>3, <1>4 DEF Room
<1>5. CASE p = q
  <2>1. req[q].logged \in Nat /\ req'[q].logged \in Nat /\ x[2] \in Nat
    <3>1. req \in [Requests -> RequestState] /\ req' \in [Requests -> RequestState]
      BY DEF QuotaInv, TypeOK
    <3>2. req[q].logged \in Nat /\ req'[q].logged \in Nat
      BY <3>1 DEF RequestState
    <3>3. x[2] \in 1..Share /\ Share \in Nat
      BY <1>1, QuotaAssumption
    <3> QED
      BY <3>2, <3>3
  <2>2. req[q].logged < x[2]
    BY <1>3, <1>5, <2>1
  <2>3. req[q].own /\ req[q].limited /\ req[q].id = x[1]
    BY <1>3, <1>5
  <2> QED
    BY <1>1, <1>2, <2>2, <2>3 DEF Room
<1> QED
  BY <1>4, <1>5

\* A step of one request that is not its admission, with t tokens for which no
\* reservation answers.
LEMMA RequestGoesOn ==
  ASSUME QuotaInv, NEW q \in Requests, ReservationsWane(q), TypeOK',
         \A p \in Requests : p # q => req'[p] = req[p],
         req'[q].pc # "idle", req'[q].id = req[q].id,
         req'[q].own => /\ req[q].own /\ req'[q].limited = req[q].limited
                        /\ req[q].logged <= req'[q].logged,
         NEW t \in Nat, used' = used + t, loose' = loose + t, granted' = granted
  PROVE  QuotaInv'
<1>1. IdleInv' /\ OwnInv' /\ AliveIds' \subseteq AliveIds
  BY OwnersStay
<1>2. Room' \subseteq Room
  BY RoomWanes
<1>3. granted' \in Nat /\ granted <= granted'
  BY DEF QuotaInv, TypeOK
<1>4. IsFiniteSet(AliveIds') /\ used' + Cardinality(Room') <= granted' + loose'
  BY <1>1, <1>2, <1>3, BudgetStays
<1> QED
  BY <1>1, <1>4 DEF QuotaInv

LEMMA RequestShape ==
  ASSUME QuotaInv, NEW q \in Requests
  PROVE  /\ req \in [Requests -> RequestState] /\ req[q] \in RequestState
         /\ req[q].logged \in Nat /\ req[q].logged <= req[q].logged
         /\ used \in Nat /\ loose \in Nat /\ granted \in Nat
         /\ used = used + 0 /\ loose = loose + 0 /\ 0 \in Nat
         /\ reservation \in [Ids -> Reservation]
<1>1. req \in [Requests -> RequestState] /\ req[q] \in RequestState
  BY DEF QuotaInv, TypeOK
<1>2. req[q].logged \in Nat /\ used \in Nat /\ loose \in Nat /\ granted \in Nat
  BY <1>1 DEF QuotaInv, TypeOK, RequestState
<1> QED
  BY <1>1, <1>2 DEF QuotaInv, TypeOK

\* Overdue reservations that expire, or one that is settled, count no more.
LEMMA ExpiredWanes ==
  ASSUME QuotaInv, NEW q \in Requests, reservation' = Expired
  PROVE  ReservationsWane(q) /\ reservation' \in [Ids -> Reservation]
<1>1. reservation' \in [Ids -> Reservation]
  BY RequestShape DEF Expired, Reservation
<1>2. ASSUME NEW i \in Ids
      PROVE  /\ reservation'[i].overdue = reservation[i].overdue
             /\ reservation'[i].status = IF reservation[i].status = "active" /\ reservation[i].overdue
                                         THEN "expired" ELSE reservation[i].status
  <2>1. reservation[i] \in Reservation
    BY RequestShape
  <2> QED
    BY <2>1 DEF Expired, Reservation
<1> QED
  BY <1>1, <1>2 DEF ReservationsWane, Alive

LEMMA SameReservationsWane ==
  ASSUME NEW q \in Requests, UNCHANGED reservation
  PROVE  ReservationsWane(q)
BY DEF ReservationsWane, Alive

\* The end of a request: its id stays.
LEMMA EndShape ==
  ASSUME QuotaInv, NEW q \in Requests, End(q)
  PROVE  /\ req' \in [Requests -> RequestState]
         /\ req'[q].pc = "done" /\ req'[q].id = req[q].id /\ ~req'[q].own
         /\ \A p \in Requests : p # q => req'[p] = req[p]
<1> DEFINE new == [IdleReq EXCEPT !.pc = "done", !.id = req[q].id]
<1>1. new \in RequestState /\ new.pc = "done" /\ new.id = req[q].id /\ ~new.own
  <2>1. req[q].id \in Ids \cup {NoId} /\ <<>> \in Seq(Tokens)
    BY RequestShape DEF RequestState
  <2> QED
    BY <2>1 DEF IdleReq, RequestState, Points
<1> HIDE DEF new
<1>2. req' = [req EXCEPT ![q] = new]
  BY DEF End, new
<1> QED
  BY <1>1, <1>2, RequestShape

LEMMA GotoShape ==
  ASSUME QuotaInv, NEW q \in Requests, NEW pc \in Points, Goto(q, pc)
  PROVE  /\ req' \in [Requests -> RequestState]
         /\ req'[q].pc = pc /\ req'[q].id = req[q].id /\ req'[q].own = req[q].own
         /\ req'[q].limited = req[q].limited /\ req'[q].logged = req[q].logged
         /\ \A p \in Requests : p # q => req'[p] = req[p]
BY RequestShape DEF Goto, RequestState

LEMMA EndsKeep ==
  ASSUME QuotaInv, NEW q \in Requests, End(q), ReservationsWane(q),
         reservation' \in [Ids -> Reservation], quota' = quota, UNCHANGED <<used, granted, loose>>
  PROVE  QuotaInv'
<1>1. TypeOK'
  BY EndShape DEF QuotaInv, TypeOK
<1>2. used' = used + 0 /\ loose' = loose + 0 /\ granted' = granted
  BY RequestShape
<1> QED
  BY <1>1, <1>2, EndShape, RequestShape, RequestGoesOn

LEMMA MovesKeep ==
  ASSUME QuotaInv, NEW q \in Requests, NEW pc \in Points \ {"idle"}, Goto(q, pc),
         ReservationsWane(q), reservation' \in [Ids -> Reservation],
         quota' = quota, UNCHANGED <<used, granted, loose>>
  PROVE  QuotaInv'
<1>1. TypeOK'
  BY GotoShape DEF QuotaInv, TypeOK
<1>2. used' = used + 0 /\ loose' = loose + 0 /\ granted' = granted
  BY RequestShape
<1> QED
  BY <1>1, <1>2, GotoShape, RequestShape, RequestGoesOn

LEMMA SettleKeeps ==
  ASSUME QuotaInv, NEW q \in Requests, Settle(q)
  PROVE  QuotaInv'
<1>1. End(q) /\ quota' = quota /\ UNCHANGED <<used, granted, loose>>
  BY DEF Settle
<1>2. ASSUME NEW i \in Ids
      PROVE  /\ reservation'[i] \in Reservation
             /\ reservation'[i].overdue = reservation[i].overdue
             /\ reservation'[i].status = IF i = req[q].id /\ reservation[i].status = "active"
                                         THEN "settled" ELSE reservation[i].status
  <2>1. reservation[i] \in Reservation
    BY RequestShape
  <2> QED
    BY <2>1 DEF Settle, Reservation
<1>3. reservation' \in [Ids -> Reservation]
  BY <1>2 DEF Settle
<1>4. ReservationsWane(q)
  BY <1>1, <1>2, EndShape DEF ReservationsWane, Alive
<1> QED
  BY <1>1, <1>3, <1>4, EndsKeep

LEMMA StreamKeeps ==
  ASSUME QuotaInv, NEW q \in Requests,
         OpenStream(q) \/ EndStream(q) \/ Stop(q) \/ ReserveWithoutQuota(q)
  PROVE  QuotaInv'
<1> USE DEF Points
<1>1. reservation \in [Ids -> Reservation]
  BY RequestShape
<1>2. CASE OpenStream(q)
  BY <1>1, <1>2, MovesKeep, EndsKeep, SameReservationsWane DEF OpenStream
<1>3. CASE EndStream(q)
  BY <1>1, <1>3, MovesKeep, SameReservationsWane DEF EndStream
<1>4. CASE Stop(q)
  BY <1>1, <1>4, EndsKeep, SameReservationsWane DEF Stop
<1>5. CASE ReserveWithoutQuota(q)
  BY <1>5, MovesKeep, ExpiredWanes DEF ReserveWithoutQuota
<1> QED
  BY <1>2, <1>3, <1>4, <1>5

LEMMA ModelCallKeeps ==
  ASSUME QuotaInv, NEW q \in Requests, NEW t \in Tokens, ModelCall(q, t)
  PROVE  QuotaInv'
<1>1. /\ req[q].pc = "stream" /\ req' = [req EXCEPT ![q].reports = Append(@, t)]
      /\ UNCHANGED <<quota, reservation, used, granted, loose>>
  BY DEF ModelCall
<1>2. Append(req[q].reports, t) \in Seq(Tokens)
  BY RequestShape DEF RequestState
<1>3. /\ req' \in [Requests -> RequestState]
      /\ req'[q].pc = "stream" /\ req'[q].id = req[q].id /\ req'[q].own = req[q].own
      /\ req'[q].limited = req[q].limited /\ req'[q].logged = req[q].logged
      /\ \A p \in Requests : p # q => req'[p] = req[p]
  BY <1>1, <1>2, RequestShape DEF RequestState
<1>4. TypeOK'
  BY <1>1, <1>3 DEF QuotaInv, TypeOK
<1> QED
  BY <1>1, <1>3, <1>4, RequestShape, SameReservationsWane, RequestGoesOn

\* The tokens of a share that a record takes, and that were held until then.
LEMMA RoomIsTaken ==
  ASSUME QuotaInv, NEW q \in Requests, NEW m \in 0..Share,
         req[q].own, req[q].limited, Alive(req[q].id), req[q].logged <= m,
         Room' \subseteq Room,
         \A x \in Room' : x[1] = req[q].id => m < x[2]
  PROVE  Cardinality(Room') <= Cardinality(Room) - (m - req[q].logged)
<1> DEFINE i == req[q].id
           span == (req[q].logged + 1)..m
           taken == {i} \X span
<1>1. req[q].logged \in Nat /\ m \in Nat /\ Share \in Nat /\ m <= Share /\ i \in Ids
  <2>1. i \in Ids
    BY DEF QuotaInv, OwnInv, Owns
  <2> QED
    BY <2>1, RequestShape, QuotaAssumption
<1>2. IsFiniteSet(taken) /\ Cardinality(taken) = m - req[q].logged
  <2>1. IsFiniteSet(span) /\ Cardinality(span) = m - req[q].logged
    <3>1. req[q].logged + 1 \in Int /\ m \in Int
      BY <1>1
    <3>2. /\ IsFiniteSet(span)
          /\ Cardinality(span) =
               IF req[q].logged + 1 > m THEN 0 ELSE m - (req[q].logged + 1) + 1
      BY <3>1, FS_Interval
    <3> QED
      BY <1>1, <3>2
  <2>2. IsFiniteSet({i}) /\ Cardinality({i}) = 1
    BY FS_Singleton
  <2> HIDE DEF span
  <2>3. IsFiniteSet(taken) /\ Cardinality(taken) = Cardinality({i}) * Cardinality(span)
    BY <2>1, <2>2, FS_Product
  <2> QED
    BY <1>1, <2>1, <2>2, <2>3
<1>3. taken \subseteq Room
  <2> SUFFICES ASSUME NEW k \in (req[q].logged + 1)..m PROVE <<i, k>> \in Room
    OBVIOUS
  <2>1. k \in 1..Share /\ req[q].logged < k
    BY <1>1
  <2> QED
    BY <1>1, <2>1 DEF Room
<1>4. taken \cap Room' = {}
  <2> SUFFICES ASSUME NEW x \in Room', x \in taken PROVE FALSE
    OBVIOUS
  <2>1. x[1] = i /\ x[2] \in (req[q].logged + 1)..m
    OBVIOUS
  <2> QED
    BY <1>1, <2>1
<1> HIDE DEF taken
<1>5. Room' \subseteq Room \ taken /\ Room \cap taken = taken
  BY <1>3, <1>4
<1>6. /\ IsFiniteSet(Room \ taken)
      /\ Cardinality(Room \ taken) = Cardinality(Room) - Cardinality(taken)
  <2>1. /\ IsFiniteSet(Room \ taken)
        /\ Cardinality(Room \ taken) = Cardinality(Room) - Cardinality(Room \cap taken)
    BY RoomIsBounded, FS_Difference
  <2> QED
    BY <1>5, <2>1
<1>7. Cardinality(Room') <= Cardinality(Room \ taken)
  BY <1>5, <1>6, FS_Subset
<1> QED
  BY <1>2, <1>6, <1>7

\* A record that is saved takes from what is held for its request, and is counted
\* as loose beyond that.
LEMMA RecordKeeps ==
  ASSUME QuotaInv, NEW q \in Requests, NEW t \in Tokens, TypeOK',
         UNCHANGED <<quota, reservation, granted>>,
         used' = used + t, loose' = loose + Uncovered(q, t),
         \A p \in Requests : p # q => req'[p] = req[p],
         req'[q].pc # "idle", req'[q].id = req[q].id, req'[q].own = req[q].own,
         req'[q].limited = req[q].limited, req'[q].logged = req[q].logged + t
  PROVE  QuotaInv'
<1>1. /\ t \in Nat /\ req[q].logged \in Nat /\ Share \in Nat /\ granted \in Nat
      /\ used \in Nat /\ loose \in Nat
  BY RequestShape, QuotaAssumption
<1>2. ReservationsWane(q)
  BY SameReservationsWane
<1>3. IdleInv' /\ OwnInv' /\ AliveIds' \subseteq AliveIds
  BY <1>2, OwnersStay
<1>4. Room' \subseteq Room
  <2>1. req[q].logged <= req'[q].logged
    BY <1>1
  <2> QED
    BY <1>2, <2>1, RoomWanes
<1>5. granted' \in Nat /\ granted <= granted'
  BY <1>1
<1>6. CASE Uncovered(q, t) = t
  <2>1. IsFiniteSet(AliveIds') /\ used' + Cardinality(Room') <= granted' + loose'
    BY <1>1, <1>3, <1>4, <1>5, <1>6, BudgetStays
  <2> QED
    BY <1>3, <2>1 DEF QuotaInv
<1>7. CASE Uncovered(q, t) # t
  <2> DEFINE i == req[q].id
             m == IF req[q].logged + t <= Share THEN req[q].logged + t ELSE Share
  <2>1. /\ req[q].own /\ req[q].limited /\ ~reservation[i].overdue
        /\ ~ \E p \in Requests \ {q} : req[p].id = i
        /\ ~ (req[q].logged + t > Share /\ req[q].logged >= Share)
    BY <1>1, <1>7 DEF Uncovered
  <2>2. Alive(i)
    BY <2>1 DEF QuotaInv, OwnInv, Owns
  <2>3. /\ m \in 0..Share /\ req[q].logged <= m
        /\ Uncovered(q, t) = t - (m - req[q].logged)
    <3>1. Uncovered(q, t) = IF req[q].logged + t <= Share THEN 0
                            ELSE IF req[q].logged >= Share THEN t
                            ELSE req[q].logged + t - Share
      BY <2>1 DEF Uncovered
    <3>2. CASE req[q].logged + t <= Share
      BY <1>1, <3>1, <3>2
    <3>3. CASE ~ (req[q].logged + t <= Share)
      <4>1. req[q].logged < Share
        BY <1>1, <2>1, <3>3
      <4> QED
        BY <1>1, <3>1, <3>3, <4>1
    <3> QED
      BY <3>2, <3>3
  <2>4. \A x \in Room' : x[1] = i => m < x[2]
    <3> SUFFICES ASSUME NEW x \in Room', x[1] = i PROVE m < x[2]
      OBVIOUS
    <3>1. PICK p \in Requests : req'[p].own /\ req'[p].id = i /\ req'[p].logged < x[2]
      BY DEF Room
    <3>2. p = q
      BY <2>1, <3>1
    <3>3. x[2] \in 1..Share
      BY DEF Room
    <3>4. req[q].logged + t < x[2]
      BY <3>1, <3>2
    <3> QED
      BY <1>1, <3>3, <3>4
  <2> HIDE DEF m
  <2>5. Cardinality(Room') <= Cardinality(Room) - (m - req[q].logged)
    BY <1>4, <2>1, <2>2, <2>3, <2>4, RoomIsTaken
  <2>6. IsFiniteSet(AliveIds') /\ Cardinality(Room') \in Nat
    BY <1>3, <1>4, RoomIsBounded, FS_Subset, FS_CardinalityType DEF QuotaInv
  <2>7. used + Cardinality(Room) <= granted + loose /\ Cardinality(Room) \in Nat
    BY RoomIsBounded DEF QuotaInv
  <2>8. used' + Cardinality(Room') <= granted' + loose'
    BY <1>1, <2>3, <2>5, <2>6, <2>7
  <2> QED
    BY <1>3, <2>6, <2>8 DEF QuotaInv
<1> QED
  BY <1>6, <1>7

LEMMA SaveUsageKeeps ==
  ASSUME QuotaInv, NEW q \in Requests, SaveUsage(q)
  PROVE  QuotaInv'
<1> DEFINE t == Head(req[q].reports)
           rest == [req EXCEPT ![q].reports = Tail(@)]
<1>1. /\ req[q].pc = "save" /\ req[q].reports # <<>>
      /\ UNCHANGED <<quota, reservation, granted>>
      /\ \/ /\ used' = used + t /\ loose' = loose + Uncovered(q, t)
            /\ req' = [rest EXCEPT ![q].logged = @ + t]
         \/ req' = rest /\ UNCHANGED <<used, loose>>
  BY DEF SaveUsage
<1>2. t \in Tokens /\ t \in Nat /\ Tail(req[q].reports) \in Seq(Tokens)
  BY <1>1, RequestShape, QuotaAssumption DEF RequestState
<1>3. /\ rest \in [Requests -> RequestState] /\ rest[q].pc = "save" /\ rest[q].id = req[q].id
      /\ rest[q].own = req[q].own /\ rest[q].limited = req[q].limited
      /\ rest[q].logged = req[q].logged
      /\ \A p \in Requests : p # q => rest[p] = req[p]
  BY <1>1, <1>2, RequestShape DEF RequestState
<1> HIDE DEF t, rest
<1>4. CASE req' = rest /\ UNCHANGED <<used, loose>>
  <2>1. TypeOK'
    BY <1>1, <1>3, <1>4 DEF QuotaInv, TypeOK
  <2> QED
    BY <1>1, <1>3, <1>4, <2>1, RequestShape, SameReservationsWane, RequestGoesOn
<1>5. CASE /\ used' = used + t /\ loose' = loose + Uncovered(q, t)
           /\ req' = [rest EXCEPT ![q].logged = @ + t]
  <2>1. req[q].logged + t \in Nat /\ used' \in Nat
    BY <1>2, <1>5, RequestShape
  <2>2. Uncovered(q, t) \in Nat
    BY <1>2, RequestShape, QuotaAssumption DEF Uncovered
  <2>3. /\ req' \in [Requests -> RequestState] /\ req'[q].pc = "save" /\ req'[q].id = req[q].id
        /\ req'[q].own = req[q].own /\ req'[q].limited = req[q].limited
        /\ req'[q].logged = req[q].logged + t
        /\ \A p \in Requests : p # q => req'[p] = req[p]
    BY <1>3, <1>5, <2>1 DEF RequestState
  <2>4. loose' \in Nat
    BY <1>5, <2>2, RequestShape
  <2>5. TypeOK'
    BY <1>1, <2>1, <2>3, <2>4 DEF QuotaInv, TypeOK
  <2> QED
    BY <1>1, <1>2, <1>5, <2>3, <2>5, RecordKeeps
<1> QED
  BY <1>1, <1>4, <1>5

\* A request that is admitted, for a reservation of its own or for one that its
\* id already had.
LEMMA AdmitShape ==
  ASSUME QuotaInv, NEW q \in Requests, NEW i \in Ids, NEW own \in BOOLEAN, Admit(q, i, own)
  PROVE  /\ req' \in [Requests -> RequestState]
         /\ req'[q].pc = "open" /\ req'[q].id = i /\ req'[q].own = own
         /\ req'[q].limited = (quota # 0)
         /\ \A p \in Requests : p # q => req'[p] = req[p]
<1> DEFINE new == [IdleReq EXCEPT !.pc = "open", !.id = i, !.own = own, !.limited = quota # 0]
<1>1. /\ new \in RequestState /\ new.pc = "open" /\ new.id = i /\ new.own = own
      /\ new.limited = (quota # 0)
  <2>1. <<>> \in Seq(Tokens)
    OBVIOUS
  <2> QED
    BY <2>1 DEF IdleReq, RequestState, Points
<1> HIDE DEF new
<1>2. req' = [req EXCEPT ![q] = new]
  BY DEF Admit, new
<1> QED
  BY <1>1, <1>2, RequestShape

LEMMA IdleHasNoId ==
  ASSUME QuotaInv, NEW q \in Requests, req[q].pc = "idle"
  PROVE  req[q].id \notin Ids /\ ~req[q].own
BY IdleReqShape, QuotaAssumption DEF QuotaInv, IdleInv

LEMMA ReserveAgainKeeps ==
  ASSUME QuotaInv, NEW q \in Requests, NEW i \in Ids, ReserveAgain(q, i)
  PROVE  QuotaInv'
<1>1. /\ req[q].pc = "idle" /\ Admit(q, i, FALSE)
      /\ UNCHANGED <<quota, reservation, used, granted, loose>>
  BY DEF ReserveAgain
<1>2. /\ req' \in [Requests -> RequestState] /\ req'[q].pc = "open" /\ ~req'[q].own
      /\ \A p \in Requests : p # q => req'[p] = req[p]
  BY <1>1, AdmitShape
<1>3. TypeOK'
  BY <1>1, <1>2 DEF QuotaInv, TypeOK
<1>4. IdleInv'
  BY <1>2 DEF QuotaInv, IdleInv
<1>5. OwnInv'
  <2>1. ASSUME NEW p \in Requests, req'[p].own PROVE Owns(p)'
    <3>1. p # q /\ req'[p] = req[p] /\ Owns(p)
      BY <1>2, <2>1 DEF QuotaInv, OwnInv
    <3>2. \A r \in Requests : req[r].id = req[p].id => req'[r].id = req[p].id
      BY <1>1, <1>2, <3>1, IdleHasNoId DEF Owns
    <3> QED
      BY <1>1, <3>1, <3>2 DEF Owns, Alive
  <2> QED
    BY <1>2, <2>1 DEF QuotaInv, OwnInv
<1>6. AliveIds' \subseteq AliveIds /\ Room' \subseteq Room
  BY <1>1, <1>2 DEF AliveIds, Alive, Room
<1>7. IsFiniteSet(AliveIds') /\ used' + Cardinality(Room') <= granted' + loose'
  <2>1. /\ used' = used + 0 /\ loose' = loose + 0 /\ 0 \in Nat
        /\ granted' \in Nat /\ granted <= granted'
    BY <1>1, RequestShape
  <2> QED
    BY <1>6, <2>1, BudgetStays
<1> QED
  BY <1>3, <1>4, <1>5, <1>7 DEF QuotaInv

\* The rows after a new reservation: the overdue ones have expired.
LEMMA ReservedShape ==
  ASSUME QuotaInv, NEW i \in Ids, reservation' = [Expired EXCEPT ![i].status = "active"]
  PROVE  /\ reservation' \in [Ids -> Reservation] /\ reservation'[i].status = "active"
         /\ \A k \in Ids :
              /\ reservation'[k].overdue = reservation[k].overdue
              /\ reservation[k].status # "none" => reservation'[k].status # "none"
              /\ k # i => (Alive(k)' <=> Alive(k))
<1>1. ASSUME NEW k \in Ids
      PROVE  /\ Expired[k] \in Reservation /\ Expired[k].overdue = reservation[k].overdue
             /\ Expired[k].status = IF reservation[k].status = "active" /\ reservation[k].overdue
                                    THEN "expired" ELSE reservation[k].status
  <2>1. reservation[k] \in Reservation
    BY DEF QuotaInv, TypeOK
  <2> QED
    BY <2>1 DEF Expired, Reservation
<1>2. Expired \in [Ids -> Reservation]
  BY <1>1 DEF Expired
<1>3. /\ reservation' \in [Ids -> Reservation] /\ reservation'[i].status = "active"
      /\ reservation'[i].overdue = Expired[i].overdue
      /\ \A k \in Ids : k # i => reservation'[k] = Expired[k]
  BY <1>2 DEF Reservation
<1> QED
  BY <1>1, <1>3 DEF Alive

LEMMA ReserveKeeps ==
  ASSUME QuotaInv, NEW q \in Requests, NEW i \in Ids, Reserve(q, i)
  PROVE  QuotaInv'
<1>1. /\ req[q].pc = "idle" /\ quota # NoQuota /\ Fits /\ reservation[i].status = "none"
      /\ reservation' = [Expired EXCEPT ![i].status = "active"]
      /\ granted' = IF quota > granted THEN quota ELSE granted
      /\ Admit(q, i, TRUE) /\ UNCHANGED <<quota, used, loose>>
  BY DEF Reserve
<1>2. /\ req' \in [Requests -> RequestState] /\ req'[q].pc = "open" /\ req'[q].id = i
      /\ req'[q].own /\ req'[q].limited = (quota # 0)
      /\ \A p \in Requests : p # q => req'[p] = req[p]
  BY <1>1, AdmitShape
<1>3. /\ quota \in Nat /\ granted \in Nat /\ granted' \in Nat /\ used \in Nat /\ loose \in Nat
      /\ granted <= granted' /\ quota <= granted'
  <2>1. quota \in Nat /\ granted \in Nat
    BY <1>1, QuotaAssumption DEF QuotaInv, TypeOK
  <2> QED
    BY <1>1, <2>1 DEF QuotaInv, TypeOK
<1>4. /\ reservation' \in [Ids -> Reservation] /\ reservation'[i].status = "active"
      /\ \A k \in Ids :
           /\ reservation'[k].overdue = reservation[k].overdue
           /\ reservation[k].status # "none" => reservation'[k].status # "none"
           /\ k # i => (Alive(k)' <=> Alive(k))
  BY <1>1, ReservedShape
<1>5. TypeOK'
  BY <1>1, <1>2, <1>3, <1>4 DEF QuotaInv, TypeOK
<1>6. IdleInv'
  BY <1>2 DEF QuotaInv, IdleInv
<1>7. \A p \in Requests : p # q /\ req'[p].own => Owns(p) /\ req[p].own /\ req[p].id # i
  BY <1>1, <1>2 DEF QuotaInv, OwnInv, Owns
<1>8. OwnInv'
  <2>1. ASSUME NEW p \in Requests, req'[p].own, p # q PROVE Owns(p)'
    <3>1. req'[p] = req[p] /\ Owns(p) /\ req[p].id # i
      BY <1>2, <1>7, <2>1
    <3>2. \A r \in Requests : req[r].id = req[p].id => req'[r].id = req[p].id
      BY <1>1, <1>2, <3>1, IdleHasNoId DEF Owns
    <3> QED
      BY <1>4, <3>1, <3>2 DEF Owns
  <2>2. Owns(q)'
    BY <1>2, <1>4 DEF Owns, Alive
  <2>3. ASSUME NEW p \in Requests, NEW r \in Requests, req'[p].own, req'[r].own,
               req'[p].id = req'[r].id
        PROVE  p = r
    BY <1>2, <1>7, <2>3 DEF QuotaInv, OwnInv
  <2> QED
    BY <2>1, <2>2, <2>3 DEF OwnInv
<1>9. AliveIds' \subseteq AliveIds \cup {i}
  BY <1>4 DEF AliveIds
<1>10. IsFiniteSet(AliveIds')
  <2>1. IsFiniteSet(AliveIds \cup {i})
    BY FS_AddElement DEF QuotaInv
  <2> QED
    BY <1>9, <2>1, FS_Subset
<1>11. used' + Cardinality(Room') <= granted' + loose'
  <2>1. CASE quota # 0
    <3> DEFINE shares == AliveIds \X (1..Share)
               mine == {i} \X (1..Share)
    <3>1. Room' \subseteq shares \cup mine
      BY <1>9 DEF Room, AliveIds
    <3>2. IsFiniteSet(mine) /\ Cardinality(mine) = Share
      <4>1. /\ IsFiniteSet(mine)
            /\ Cardinality(mine) = Cardinality({i}) * Cardinality(1..Share)
        BY RoomIsBounded, FS_Singleton, FS_Product
      <4>2. Cardinality({i}) = 1
        BY FS_Singleton
      <4> QED
        BY <4>1, <4>2, RoomIsBounded
    <3>3. IsFiniteSet(shares) /\ Cardinality(shares) = Cardinality(AliveIds) * Share
      BY RoomIsBounded
    <3>4. Cardinality(shares) \in Nat
      BY <3>3, FS_CardinalityType
    <3> HIDE DEF shares, mine
    <3>5. /\ IsFiniteSet(shares \cup mine)
          /\ Cardinality(shares \cup mine) =
               Cardinality(shares) + Cardinality(mine) - Cardinality(shares \cap mine)
      BY <3>2, <3>3, FS_Union
    <3>6. Cardinality(shares \cap mine) \in Nat
      BY <3>2, <3>3, FS_Intersection, FS_CardinalityType
    <3>7. Cardinality(Room') <= Cardinality(shares \cup mine) /\ Cardinality(Room') \in Nat
      BY <3>1, <3>5, FS_Subset, FS_CardinalityType
    <3>8. used + Cardinality(AliveIds) * Share + Share <= quota
      <4>1. used + Share * Cardinality(AliveIds) + Share <= quota
        BY <1>1, <2>1 DEF Fits, Committed, AliveIds
      <4> QED
        BY <4>1, RoomIsBounded
    <3>9. Cardinality(Room') <= Cardinality(shares) + Share
      BY <3>2, <3>4, <3>5, <3>6, <3>7, RoomIsBounded
    <3>10. used + Cardinality(shares) + Share <= quota
      BY <3>3, <3>8
    <3>11. used \in Nat /\ quota \in Nat /\ Share \in Nat
      BY <1>1, QuotaAssumption DEF QuotaInv, TypeOK
    <3> QED
      BY <1>1, <1>3, <3>4, <3>7, <3>9, <3>10, <3>11
  <2>2. CASE quota = 0
    <3>1. Room' \subseteq Room
      <4> SUFFICES ASSUME NEW x \in Room' PROVE x \in Room
        OBVIOUS
      <4>1. x \in Ids \X (1..Share) /\ Alive(x[1])'
        BY DEF Room
      <4>2. PICK p \in Requests : /\ req'[p].own /\ req'[p].limited /\ req'[p].id = x[1]
                                  /\ req'[p].logged < x[2]
        BY DEF Room
      <4>3. p # q
        BY <1>2, <2>2, <4>2
      <4>4. x[1] # i /\ req'[p] = req[p]
        BY <1>2, <1>7, <4>2, <4>3
      <4>5. Alive(x[1])
        BY <1>4, <4>1, <4>4
      <4> QED
        BY <4>1, <4>2, <4>4, <4>5 DEF Room
    <3>2. Cardinality(Room') <= Cardinality(Room) /\ Cardinality(Room') \in Nat
      BY <3>1, RoomIsBounded, FS_Subset, FS_CardinalityType
    <3>3. used + Cardinality(Room) <= granted + loose
      BY DEF QuotaInv
    <3> QED
      BY <1>1, <1>3, <3>2, <3>3, RoomIsBounded
  <2> QED
    BY <2>1, <2>2
<1> QED
  BY <1>5, <1>6, <1>8, <1>10, <1>11 DEF QuotaInv

LEMMA SetQuotaKeeps ==
  ASSUME QuotaInv, NEW limit \in Limits \cup {NoQuota}, SetQuota(limit)
  PROVE  QuotaInv'
BY DEF SetQuota, QuotaInv, TypeOK, IdleInv, OwnInv, Owns, AliveIds, Alive, Room

LEMMA LeaseEndsKeeps ==
  ASSUME QuotaInv, NEW i \in Ids, LeaseEnds(i)
  PROVE  QuotaInv'
<1>1. /\ Alive(i) /\ reservation' = [reservation EXCEPT ![i].overdue = TRUE]
      /\ UNCHANGED <<quota, used, req, granted, loose>>
  BY DEF LeaseEnds
<1>2. /\ reservation' \in [Ids -> Reservation] /\ reservation'[i].overdue
      /\ reservation'[i].status = reservation[i].status
      /\ \A k \in Ids : k # i => reservation'[k] = reservation[k]
  BY <1>1 DEF QuotaInv, TypeOK, Reservation
<1>3. TypeOK' /\ IdleInv'
  BY <1>1, <1>2 DEF QuotaInv, TypeOK, IdleInv
<1>4. OwnInv'
  <2>1. ASSUME NEW p \in Requests, req[p].own PROVE Owns(p)'
    <3>1. Owns(p)
      BY <2>1 DEF QuotaInv, OwnInv
    <3>2. CASE req[p].id = i
      BY <1>1, <1>2, <3>1, <3>2 DEF Owns
    <3>3. CASE req[p].id # i
      BY <1>1, <1>2, <3>1, <3>3 DEF Owns, Alive
    <3> QED
      BY <3>2, <3>3
  <2> QED
    BY <1>1, <2>1 DEF QuotaInv, OwnInv
<1>5. AliveIds' \subseteq AliveIds /\ Room' \subseteq Room
  BY <1>1, <1>2 DEF AliveIds, Alive, Room
<1>6. IsFiniteSet(AliveIds') /\ used' + Cardinality(Room') <= granted' + loose'
  <2>1. /\ used' = used + 0 /\ loose' = loose + 0 /\ 0 \in Nat
        /\ granted' \in Nat /\ granted <= granted'
    BY <1>1 DEF QuotaInv, TypeOK
  <2> QED
    BY <1>5, <2>1, BudgetStays
<1> QED
  BY <1>3, <1>4, <1>6 DEF QuotaInv

LEMMA QuotaKeeps == QuotaInv /\ [Next]_vars => QuotaInv'
<1> SUFFICES ASSUME QuotaInv, [Next]_vars PROVE QuotaInv'
  OBVIOUS
<1>1. CASE UNCHANGED vars
  BY <1>1 DEF QuotaInv, TypeOK, IdleInv, OwnInv, Owns, AliveIds, Alive, Room, vars
<1> QED
  BY <1>1, StreamKeeps, ReserveKeeps, ReserveAgainKeeps, SaveUsageKeeps, SettleKeeps,
     ModelCallKeeps, SetQuotaKeeps, LeaseEndsKeeps DEF Next

LEMMA QuotaInvariance == Spec => []QuotaInv
BY QuotaStarts, QuotaKeeps, PTL DEF Spec

\* Every variable of ChatQuota keeps the shape of its rows, for any number of
\* requests, ids and limits.
THEOREM QuotaTypeCorrect == Spec => []TypeOK
<1>1. QuotaInv => TypeOK
  BY DEF QuotaInv
<1> QED
  BY <1>1, QuotaInvariance, PTL

\* reserve_user_quota: however many requests run at once, and in whatever order
\* they log and settle, the tokens logged stay within the greatest limit under
\* which one was admitted; only tokens that no reservation had to cover come on top.
THEOREM BudgetIsHard == Spec => []BudgetIsKept
<1>1. ASSUME QuotaInv PROVE used <= granted + loose
  <2>1. used + Cardinality(Room) <= granted + loose
    BY <1>1 DEF QuotaInv
  <2>2. used \in Nat /\ granted \in Nat /\ loose \in Nat /\ Cardinality(Room) \in Nat
    BY <1>1, RoomIsBounded DEF QuotaInv, TypeOK
  <2> QED
    BY <2>1, <2>2
<1>2. QuotaInv => BudgetIsKept
  BY <1>1 DEF BudgetIsKept
<1> QED
  BY <1>2, QuotaInvariance, PTL

-----------------------------------------------------------------------------
(* Units, memberships and contexts                                         *)

\* Rows that name a unit of each level from the company down.
RowsFit(us) == \A u \in Units : us[u].state # "none" => Shaped(u, us[u])
MembersFit(ms) == \A m \in Members : ms[m].active => ms[m].unit \in Units

\* A parent has a row: the foreign key.
ParentsExist ==
  \A u \in Units : units[u].state # "none" /\ units[u].parent # NoUnit =>
    units[units[u].parent].state # "none"

\* What a session has read was so once: rows stay, and so does their company.
SeenInv ==
  \A h \in Sessions :
    /\ RowsFit(seen[h].units) /\ MembersFit(seen[h].members)
    /\ \A u \in Units : seen[h].units[u].state # "none" =>
         units[u].state # "none" /\ units[u].company = seen[h].units[u].company

\* The tree, as long as nobody has written over an unread change.
PathsFollowParents(us) ==
  \A u \in Units : us[u].state # "none" /\ us[u].parent # NoUnit =>
    us[u].path = Append(us[us[u].parent].path, u)
ActiveUnderActive(us) ==
  \A u \in Units : us[u].state = "active" /\ us[u].parent # NoUnit =>
    us[us[u].parent].state = "active"
MembersInActive(us, ms) == \A m \in Members : ms[m].active => us[ms[m].unit].state = "active"
TreeInv ==
  PathsFollowParents(units) /\ ActiveUnderActive(units) /\ MembersInActive(units, members)

\* A token's unit has not had an older version than the token's, and as long as it
\* has that one it has that path.
TokenUnitsExist ==
  \A t \in tokens : /\ members[t.member].unit \in Units
                    /\ units[members[t.member].unit].state # "none"
TokenInv ==
  \A t \in tokens :
    /\ t.ver <= units[members[t.member].unit].ver
    /\ t.ver = units[members[t.member].unit].ver =>
         t.path = units[members[t.member].unit].path

OrganizationInv ==
  /\ OrgTypeOK
  /\ RowsFit(units) /\ MembersFit(members) /\ ParentsExist
  /\ SeenInv /\ TokenUnitsExist
  /\ ~raced => TreeInv /\ TokenInv

\* A path begins with another one where it has the same units at the same levels.
LEMMA BeginsMeans ==
  ASSUME NEW p \in Seq(Units), NEW q \in Seq(Units)
  PROVE  Begins(p, q) <=> Len(p) <= Len(q) /\ \A i \in 1..Len(p) : q[i] = p[i]
<1>1. Len(p) \in Nat /\ Len(q) \in Nat
  BY LenProperties
<1>2. CASE Len(p) <= Len(q)
  <2> DEFINE front == SubSeq(q, 1, Len(p))
  <2>1. \A i \in 1..Len(p) : q[i] \in Units
    BY <1>1, <1>2, ElementOfSeq
  <2>2. /\ front \in Seq(Units) /\ Len(front) = Len(p)
        /\ \A i \in 1..Len(p) : front[i] = q[i]
    <3>1. 1 \in Int /\ Len(p) \in Int
      BY <1>1
    <3>2. /\ front \in Seq(Units)
          /\ Len(front) = IF 1 <= Len(p) THEN Len(p) - 1 + 1 ELSE 0
          /\ \A i \in 1..(Len(p) - 1 + 1) : front[i] = q[1 + i - 1]
      BY <2>1, <3>1, SubSeqProperties
    <3> QED
      BY <1>1, <3>2
  <2> HIDE DEF front
  <2>3. front = p <=> \A i \in 1..Len(p) : q[i] = p[i]
    BY <2>2, SeqEqual
  <2>4. Begins(p, q) <=> front = p
    BY <1>2 DEF Begins, front
  <2> QED
    BY <1>2, <2>3, <2>4
<1>3. CASE ~ (Len(p) <= Len(q))
  BY <1>3 DEF Begins
<1> QED
  BY <1>2, <1>3

\* The path below a unit that is given a new path of the same length.
RebasedPath(path, old, new) == new \o SubSeq(path, Len(old) + 1, Len(path))

LEMMA RebasedShape ==
  ASSUME NEW path \in Seq(Units), NEW old \in Seq(Units), NEW new \in Seq(Units),
         Begins(old, path), Len(new) = Len(old)
  PROVE  /\ RebasedPath(path, old, new) \in Seq(Units)
         /\ Len(RebasedPath(path, old, new)) = Len(path)
         /\ \A i \in 1..Len(path) :
              RebasedPath(path, old, new)[i] = IF i <= Len(old) THEN new[i] ELSE path[i]
<1> DEFINE rest == SubSeq(path, Len(old) + 1, Len(path))
<1>1. Len(old) \in Nat /\ Len(path) \in Nat /\ Len(old) <= Len(path)
  BY BeginsMeans, LenProperties
<1>2. /\ rest \in Seq(Units) /\ Len(rest) = Len(path) - Len(old)
      /\ \A i \in 1..(Len(path) - Len(old)) : rest[i] = path[Len(old) + i]
  <2>1. Len(old) + 1 \in Int /\ Len(path) \in Int
    BY <1>1
  <2>2. \A i \in (Len(old) + 1)..Len(path) : path[i] \in Units
    BY <1>1, ElementOfSeq
  <2>3. /\ rest \in Seq(Units)
        /\ Len(rest) = IF Len(old) + 1 <= Len(path) THEN Len(path) - (Len(old) + 1) + 1 ELSE 0
        /\ \A i \in 1..(Len(path) - (Len(old) + 1) + 1) : rest[i] = path[Len(old) + 1 + i - 1]
    BY <2>1, <2>2, SubSeqProperties
  <2> QED
    BY <1>1, <2>3
<1> HIDE DEF rest
<1>3. /\ new \o rest \in Seq(Units) /\ Len(new \o rest) = Len(new) + Len(rest)
      /\ \A i \in 1..(Len(new) + Len(rest)) :
           (new \o rest)[i] = IF i <= Len(new) THEN new[i] ELSE rest[i - Len(new)]
  BY <1>2, ConcatProperties
<1>4. Len(new \o rest) = Len(path)
  BY <1>1, <1>2, <1>3
<1>5. ASSUME NEW i \in 1..Len(path)
      PROVE  (new \o rest)[i] = IF i <= Len(old) THEN new[i] ELSE path[i]
  <2>1. i \in 1..(Len(new) + Len(rest))
    BY <1>1, <1>2
  <2>2. CASE i <= Len(old)
    BY <1>3, <2>1, <2>2
  <2>3. CASE ~ (i <= Len(old))
    <3>1. i - Len(new) \in 1..(Len(path) - Len(old)) /\ Len(old) + (i - Len(new)) = i
      BY <1>1, <2>3
    <3> QED
      BY <1>2, <1>3, <2>1, <2>3, <3>1
  <2> QED
    BY <2>2, <2>3
<1> QED
  BY <1>3, <1>4, <1>5 DEF RebasedPath, rest

LEMMA AppendShape ==
  ASSUME NEW p \in Seq(Units), NEW u \in Units
  PROVE  /\ Append(p, u) \in Seq(Units) /\ Len(p) \in Nat /\ Len(Append(p, u)) = Len(p) + 1
         /\ Append(p, u)[Len(p) + 1] = u
         /\ \A i \in 1..Len(p) : Append(p, u)[i] = p[i]
BY AppendProperties, LenProperties

\* A unit under a unit of the level above has a path of the shape of a path.
LEMMA ChildIsShaped ==
  ASSUME NEW p \in Units, NEW parent \in Unit, Shaped(p, parent), NEW u \in Units,
         Level[u] = Level[p] + 1, NEW row, row.path = Append(parent.path, u),
         row.company = parent.company
  PROVE  Shaped(u, row)
<1>1. parent.path \in Seq(Units) /\ Level[p] \in 1..4 /\ Level[u] \in 1..4
  BY OrganizationAssumption DEF Unit
<1>2. /\ Len(parent.path) = Level[p] /\ parent.path[1] = parent.company
      /\ \A i \in 1..Len(parent.path) : Level[parent.path[i]] = i
  BY DEF Shaped
<1>3. /\ row.path \in Seq(Units) /\ Len(row.path) = Level[u] /\ row.path[Level[u]] = u
      /\ \A i \in 1..Level[p] : row.path[i] = parent.path[i]
  BY <1>1, <1>2, AppendShape
<1>4. row.path[1] = row.company
  BY <1>1, <1>2, <1>3
<1>5. \A i \in 1..Len(row.path) : Level[row.path[i]] = i
  BY <1>1, <1>2, <1>3
<1> QED
  BY <1>3, <1>4, <1>5 DEF Shaped

\* The initial paths: PathTo is defined level by level, and there are four.
OfLevel(lvl) == {v \in InitialUnits : Level[v] = lvl}

LEMMA PathToIsDefined ==
  PathTo = [lvl \in 1..4 |-> [u \in OfLevel(lvl) |->
              IF lvl = 1 THEN <<u>> ELSE Append(PathTo[lvl - 1][Home[u]], u)]]
<1> DEFINE Grown(f, lvl) == [u \in OfLevel(lvl) |-> IF lvl = 1 THEN <<u>> ELSE Append(f[lvl - 1][Home[u]], u)]
           one == [u \in OfLevel(1) |-> <<u>>]
           two == [u \in OfLevel(2) |-> Append(one[Home[u]], u)]
           three == [u \in OfLevel(3) |-> Append(two[Home[u]], u)]
           four == [u \in OfLevel(4) |-> Append(three[Home[u]], u)]
           all == [lvl \in 1..4 |-> IF lvl = 1 THEN one ELSE IF lvl = 2 THEN two
                                    ELSE IF lvl = 3 THEN three ELSE four]
<1>1. all = [lvl \in 1..4 |-> Grown(all, lvl)]
  <2> HIDE DEF one, two, three, four
  <2>1. all[1] = one /\ all[2] = two /\ all[3] = three /\ all[4] = four
    OBVIOUS
  <2> HIDE DEF all
  <2>2. Grown(all, 1) = one
    BY DEF one
  <2>3. Grown(all, 2) = two
    BY <2>1 DEF two
  <2>4. Grown(all, 3) = three
    BY <2>1 DEF three
  <2>5. Grown(all, 4) = four
    BY <2>1 DEF four
  <2> HIDE DEF Grown
  <2>6. \A lvl \in 1..4 : lvl = 1 \/ lvl = 2 \/ lvl = 3 \/ lvl = 4
    OBVIOUS
  <2>7. \A lvl \in 1..4 : all[lvl] = Grown(all, lvl)
    BY <2>1, <2>2, <2>3, <2>4, <2>5, <2>6
  <2>8. all = [lvl \in 1..4 |-> all[lvl]]
    BY DEF all
  <2> QED
    BY <2>7, <2>8
<1> HIDE DEF all, one, two, three, four
<1>2. \E f : f = [lvl \in 1..4 |-> Grown(f, lvl)]
  BY <1>1
<1>3. PathTo = CHOOSE f : f = [lvl \in 1..4 |-> Grown(f, lvl)]
  BY DEF PathTo, OfLevel
<1> HIDE DEF Grown
<1>4. PathTo = [lvl \in 1..4 |-> Grown(PathTo, lvl)]
  BY <1>2, <1>3
<1> QED
  BY <1>4 DEF Grown

\* Every initial path has the shape of a path, and is its parent's with the unit.
LEMMA InitialPaths ==
  ASSUME NEW u \in InitialUnits
  PROVE  /\ PathTo[Level[u]][u] \in Seq(Units) /\ Len(PathTo[Level[u]][u]) = Level[u]
         /\ PathTo[Level[u]][u][Level[u]] = u
         /\ \A i \in 1..Level[u] : Level[PathTo[Level[u]][u][i]] = i
         /\ Home[u] = NoUnit <=> Level[u] = 1
         /\ Home[u] # NoUnit =>
              /\ Home[u] \in InitialUnits /\ Level[u] = Level[Home[u]] + 1
              /\ PathTo[Level[u]][u] = Append(PathTo[Level[Home[u]]][Home[u]], u)
<1> DEFINE PathFits(v) ==
      /\ PathTo[Level[v]][v] \in Seq(Units) /\ Len(PathTo[Level[v]][v]) = Level[v]
      /\ PathTo[Level[v]][v][Level[v]] = v
      /\ \A i \in 1..Level[v] : Level[PathTo[Level[v]][v][i]] = i
<1>1. \A v \in InitialUnits : v \in Units /\ Level[v] \in 1..4
  BY OrganizationAssumption
<1>2. \A v \in InitialUnits : Home[v] = NoUnit <=> Level[v] = 1
  BY <1>1, OrganizationAssumption
<1>3. \A v \in InitialUnits : Level[v] # 1 => Home[v] \in InitialUnits /\ Level[v] = Level[Home[v]] + 1
  BY <1>1, OrganizationAssumption
<1>4. \A v \in InitialUnits : Level[v] = 1 => PathTo[Level[v]][v] = <<v>>
  BY <1>1, PathToIsDefined DEF OfLevel
<1>5. \A v \in InitialUnits : Level[v] # 1 =>
        PathTo[Level[v]][v] = Append(PathTo[Level[Home[v]]][Home[v]], v)
  <2> SUFFICES ASSUME NEW v \in InitialUnits, Level[v] # 1
               PROVE  PathTo[Level[v]][v] = Append(PathTo[Level[Home[v]]][Home[v]], v)
    OBVIOUS
  <2>1. /\ Level[v] \in 1..4 /\ v \in OfLevel(Level[v]) /\ Home[v] \in InitialUnits
        /\ Level[Home[v]] \in 1..4 /\ Level[v] = Level[Home[v]] + 1
    BY <1>1, <1>3 DEF OfLevel
  <2>2. Level[v] - 1 = Level[Home[v]]
    BY <2>1
  <2>3. PathTo[Level[v]] = [w \in OfLevel(Level[v]) |->
          IF Level[v] = 1 THEN <<w>> ELSE Append(PathTo[Level[v] - 1][Home[w]], w)]
    BY <2>1, PathToIsDefined, Zenon
  <2> QED
    BY <2>1, <2>2, <2>3
<1>6. ASSUME NEW v \in InitialUnits, Level[v] = 1 PROVE PathFits(v)
  <2>1. PathTo[1][v] = <<v>> /\ v \in Units
    BY <1>1, <1>4, <1>6
  <2>2. <<v>> \in Seq(Units) /\ Len(<<v>>) = 1 /\ <<v>>[1] = v
    BY <2>1
  <2>3. \A i \in 1..1 : i = 1
    OBVIOUS
  <2> QED
    BY <1>6, <2>1, <2>2, <2>3
<1>7. ASSUME NEW v \in InitialUnits, Level[v] # 1, PathFits(Home[v]) PROVE PathFits(v)
  <2> DEFINE p == PathTo[Level[Home[v]]][Home[v]]
  <2>1. /\ p \in Seq(Units) /\ Len(p) = Level[Home[v]] /\ Level[v] = Level[Home[v]] + 1
        /\ \A i \in 1..Level[Home[v]] : Level[p[i]] = i
        /\ PathTo[Level[v]][v] = Append(p, v) /\ v \in Units
        /\ Level[Home[v]] \in 1..4
    BY <1>1, <1>3, <1>5, <1>7
  <2> HIDE DEF p
  <2>2. /\ Append(p, v) \in Seq(Units) /\ Len(Append(p, v)) = Level[v] /\ Append(p, v)[Level[v]] = v
        /\ \A i \in 1..Level[Home[v]] : Append(p, v)[i] = p[i]
    BY <2>1, AppendShape
  <2>3. \A i \in 1..Level[v] : Level[Append(p, v)[i]] = i
    BY <2>1, <2>2
  <2> QED
    BY <2>1, <2>2, <2>3
<1> HIDE DEF PathFits
<1>8. ASSUME NEW v \in InitialUnits, Level[v] = 2 PROVE PathFits(v)
  <2>1. Home[v] \in InitialUnits /\ Level[Home[v]] \in 1..4 /\ 2 = Level[Home[v]] + 1
    BY <1>1, <1>3, <1>8
  <2> QED
    BY <1>6, <1>7, <1>8, <2>1
<1>9. ASSUME NEW v \in InitialUnits, Level[v] = 3 PROVE PathFits(v)
  <2>1. Home[v] \in InitialUnits /\ Level[Home[v]] \in 1..4 /\ 3 = Level[Home[v]] + 1
    BY <1>1, <1>3, <1>9
  <2> QED
    BY <1>7, <1>8, <1>9, <2>1
<1>10. ASSUME NEW v \in InitialUnits, Level[v] = 4 PROVE PathFits(v)
  <2>1. Home[v] \in InitialUnits /\ Level[Home[v]] \in 1..4 /\ 4 = Level[Home[v]] + 1
    BY <1>1, <1>3, <1>10
  <2> QED
    BY <1>7, <1>9, <1>10, <2>1
<1>11. PathFits(u)
  BY <1>1, <1>6, <1>8, <1>9, <1>10
<1> QED
  BY <1>2, <1>3, <1>5, <1>11 DEF PathFits

LEMMA FreshShape ==
  /\ FreshUnit \in Unit /\ FreshUnit.state = "none"
  /\ FreshMember \in Member /\ ~FreshMember.active /\ FreshMember.unit = NoUnit
  /\ Nothing \in Read /\ ~Nothing.live
  /\ RowsFit(Nothing.units) /\ MembersFit(Nothing.members)
  /\ \A u \in Units : Nothing.units[u].state = "none"
<1>1. <<>> \in Seq(Units)
  OBVIOUS
<1>2. FreshUnit \in Unit /\ FreshUnit.state = "none"
  BY <1>1 DEF FreshUnit, Unit
<1>3. FreshMember \in Member /\ ~FreshMember.active /\ FreshMember.unit = NoUnit
  BY DEF FreshMember, Member, Validity
<1>4. /\ Nothing.units = [u \in Units |-> FreshUnit]
      /\ Nothing.members = [m \in Members |-> FreshMember] /\ Nothing.live = FALSE
  BY DEF Nothing
<1>5. Nothing \in Read
  BY <1>2, <1>3 DEF Nothing, Read
<1> HIDE DEF Nothing
<1>6. RowsFit(Nothing.units) /\ MembersFit(Nothing.members)
  BY <1>2, <1>3, <1>4 DEF RowsFit, MembersFit
<1> QED
  BY <1>2, <1>3, <1>4, <1>5, <1>6

\* The company is the first unit of a path.
LEMMA FirstOfPath ==
  ASSUME NEW u \in InitialUnits
  PROVE  /\ Head(PathTo[Level[u]][u]) = PathTo[Level[u]][u][1]
         /\ Head(PathTo[Level[u]][u]) \in Units
<1> DEFINE p == PathTo[Level[u]][u]
<1>1. p \in Seq(Units) /\ Len(p) = Level[u] /\ Level[u] \in 1..4
  BY InitialPaths, OrganizationAssumption
<1> HIDE DEF p
<1>2. Head(p) = p[1]
  BY <1>1
<1>3. 1 \in 1..Len(p)
  BY <1>1
<1>4. p[1] \in Units
  BY <1>1, <1>3, ElementOfSeq
<1> QED
  BY <1>2, <1>4 DEF p

LEMMA OrganizationStarts == OrgInit => OrganizationInv
<1> SUFFICES ASSUME OrgInit PROVE OrganizationInv
  OBVIOUS
<1>1. ASSUME NEW u \in Units, u \notin InitialUnits PROVE units[u] = FreshUnit
  BY <1>1 DEF OrgInit
<1>2. ASSUME NEW u \in InitialUnits
      PROVE  /\ u \in Units /\ units[u] \in Unit /\ units[u].state = "active"
             /\ units[u].parent = Home[u] /\ units[u].path = PathTo[Level[u]][u]
             /\ units[u].company = Head(PathTo[Level[u]][u])
  <2>1. u \in Units /\ Home[u] \in Units \cup {NoUnit}
    BY OrganizationAssumption
  <2>2. units[u] = [state |-> "active", parent |-> Home[u],
                    company |-> Head(PathTo[Level[u]][u]), path |-> PathTo[Level[u]][u], ver |-> 1]
    BY <2>1 DEF OrgInit
  <2>3. Head(PathTo[Level[u]][u]) \in Units /\ PathTo[Level[u]][u] \in Seq(Units)
    BY FirstOfPath, InitialPaths
  <2> QED
    BY <2>1, <2>2, <2>3 DEF Unit
<1>3. \A u \in Units : units[u] \in Unit
  BY <1>1, <1>2, FreshShape
<1>4. /\ members = [m \in Members |-> FreshMember] /\ seen = [h \in Sessions |-> Nothing]
      /\ tokens = {} /\ raced = FALSE /\ writes = 0
  BY DEF OrgInit
<1>5. OrgTypeOK
  <2>1. units \in [Units -> Unit]
    BY <1>3 DEF OrgInit
  <2>2. members \in [Members -> Member] /\ seen \in [Sessions -> Read]
    BY <1>4, FreshShape
  <2>3. writes \in 0..MaxWrites
    BY <1>4, OrganizationAssumption
  <2> QED
    BY <1>4, <2>1, <2>2, <2>3 DEF OrgTypeOK
<1>6. RowsFit(units)
  <2> SUFFICES ASSUME NEW u \in Units, units[u].state # "none" PROVE Shaped(u, units[u])
    BY DEF RowsFit
  <2>1. u \in InitialUnits
    BY <1>1, FreshShape
  <2>2. Level[u] \in 1..4
    BY OrganizationAssumption
  <2> QED
    <3> DEFINE p == PathTo[Level[u]][u]
    <3>1. /\ Len(p) = Level[u] /\ p[Level[u]] = u /\ Head(p) = p[1]
          /\ \A i \in 1..Level[u] : Level[p[i]] = i
      BY <2>1, InitialPaths, FirstOfPath
    <3>2. units[u].path = p /\ units[u].company = Head(p)
      BY <1>2, <2>1
    <3> HIDE DEF p
    <3> QED
      BY <2>2, <3>1, <3>2 DEF Shaped
<1>7. MembersFit(members) /\ SeenInv /\ TokenUnitsExist /\ TokenInv
  BY <1>4, FreshShape DEF MembersFit, SeenInv, TokenUnitsExist, TokenInv
<1>8. \A u \in Units : units[u].state # "none" => u \in InitialUnits
  BY <1>1, FreshShape
<1>9. ParentsExist /\ PathsFollowParents(units) /\ ActiveUnderActive(units)
  <2> SUFFICES ASSUME NEW u \in Units, units[u].state # "none", units[u].parent # NoUnit
               PROVE  /\ units[units[u].parent].state = "active"
                      /\ units[u].path = Append(units[units[u].parent].path, u)
    BY DEF ParentsExist, PathsFollowParents, ActiveUnderActive
  <2>1. u \in InitialUnits /\ Home[u] # NoUnit /\ units[u].parent = Home[u]
    BY <1>2, <1>8
  <2>2. /\ Home[u] \in InitialUnits
        /\ PathTo[Level[u]][u] = Append(PathTo[Level[Home[u]]][Home[u]], u)
    BY <2>1, InitialPaths
  <2> QED
    BY <1>2, <2>1, <2>2
<1>10. MembersInActive(units, members)
  BY <1>4, FreshShape DEF MembersInActive
<1> QED
  BY <1>5, <1>6, <1>7, <1>9, <1>10 DEF OrganizationInv, TreeInv

\* What a session may know, and what its commit does apart from the tables.
LEMMA SessionShape ==
  ASSUME OrganizationInv, NEW h \in Sessions
  PROVE  /\ seen[h] \in Read
         /\ seen[h].units \in [Units -> Unit] /\ seen[h].members \in [Members -> Member]
         /\ units \in [Units -> Unit] /\ members \in [Members -> Member]
         /\ RowsFit(seen[h].units) /\ MembersFit(seen[h].members)
         /\ \A u \in Units : seen[h].units[u].state # "none" =>
              units[u].state # "none" /\ units[u].company = seen[h].units[u].company
<1>1. seen[h] \in Read /\ units \in [Units -> Unit] /\ members \in [Members -> Member]
  BY DEF OrganizationInv, OrgTypeOK
<1>2. seen[h].units \in [Units -> Unit] /\ seen[h].members \in [Members -> Member]
  BY <1>1 DEF Read
<1> QED
  BY <1>1, <1>2 DEF OrganizationInv, SeenInv

LEMMA OneMoreWrite ==
  ASSUME NEW limit \in Nat, NEW n \in 0..limit, n < limit
  PROVE  n + 1 \in 0..limit
OBVIOUS

LEMMA CommitShape ==
  ASSUME OrganizationInv, NEW h \in Sessions, Commit(h)
  PROVE  /\ seen' \in [Sessions -> Read] /\ \A g \in Sessions : seen'[g] \in {seen[g], Nothing}
         /\ writes' \in 0..MaxWrites /\ raced' \in BOOLEAN /\ tokens' = tokens
         /\ ~raced' => ~raced /\ seen[h].units = units /\ seen[h].members = members
<1>1. seen' \in [Sessions -> Read] /\ \A g \in Sessions : seen'[g] \in {seen[g], Nothing}
  BY FreshShape DEF Commit, OrganizationInv, OrgTypeOK
<1>2. writes' \in 0..MaxWrites
  <2>1. writes < MaxWrites /\ writes' = writes + 1
    BY DEF Commit
  <2>2. writes \in 0..MaxWrites /\ MaxWrites \in Nat
    BY OrganizationAssumption DEF OrganizationInv, OrgTypeOK
  <2> QED
    BY <2>1, <2>2, OneMoreWrite
<1>3. raced' \in BOOLEAN /\ tokens' = tokens
  BY DEF Commit, OrganizationInv, OrgTypeOK
<1>4. ~raced' => ~raced /\ seen[h].units = units /\ seen[h].members = members
  BY DEF Commit
<1> QED
  BY <1>1, <1>2, <1>3, <1>4

\* Rows stay, with their company.
RowsStay == \A u \in Units : units[u].state # "none" =>
              units'[u].state # "none" /\ units'[u].company = units[u].company

\* A row that gets another path gets a higher version.
VersionsGrow == \A u \in Units : units[u].state # "none" =>
                  \/ units'[u].ver = units[u].ver /\ units'[u].path = units[u].path
                  \/ units[u].ver < units'[u].ver

LEMMA SeenStays ==
  ASSUME OrganizationInv, RowsStay, \A g \in Sessions : seen'[g] \in {seen[g], Nothing}
  PROVE  SeenInv'
<1> SUFFICES ASSUME NEW g \in Sessions
             PROVE  /\ RowsFit(seen'[g].units) /\ MembersFit(seen'[g].members)
                    /\ \A u \in Units : seen'[g].units[u].state # "none" =>
                         /\ units'[u].state # "none"
                         /\ units'[u].company = seen'[g].units[u].company
  BY DEF SeenInv, RowsFit, MembersFit, Shaped
<1>1. CASE seen'[g] = seen[g]
  BY <1>1, SessionShape DEF RowsStay
<1>2. CASE seen'[g] = Nothing
  BY <1>2, FreshShape
<1> QED
  BY <1>1, <1>2

\* A commit that writes units.
LEMMA UnitCommit ==
  ASSUME OrganizationInv, NEW h \in Sessions, Commit(h), UNCHANGED members,
         units' \in [Units -> Unit], RowsFit(units'), RowsStay, ParentsExist',
         ~raced /\ seen[h].units = units /\ seen[h].members = members =>
           TreeInv' /\ VersionsGrow
  PROVE  OrganizationInv'
<1>1. OrgTypeOK'
  BY CommitShape DEF OrganizationInv, OrgTypeOK
<1>2. MembersFit(members') /\ SeenInv'
  BY CommitShape, SeenStays DEF OrganizationInv
<1>3. TokenUnitsExist'
  BY CommitShape DEF OrganizationInv, TokenUnitsExist, RowsStay
<1>4. ASSUME ~raced' PROVE TreeInv' /\ TokenInv'
  <2>1. TreeInv' /\ VersionsGrow /\ TokenInv /\ tokens' = tokens
    BY <1>4, CommitShape DEF OrganizationInv
  <2>2. ASSUME NEW t \in tokens
        PROVE  /\ t.ver <= units'[members[t.member].unit].ver
               /\ t.ver = units'[members[t.member].unit].ver =>
                    t.path = units'[members[t.member].unit].path
    <3> DEFINE u == members[t.member].unit
    <3>1. /\ u \in Units /\ units[u].state # "none" /\ t.ver <= units[u].ver
          /\ t.ver = units[u].ver => t.path = units[u].path
      BY <2>1 DEF OrganizationInv, TokenUnitsExist, TokenInv
    <3>2. \/ units'[u].ver = units[u].ver /\ units'[u].path = units[u].path
          \/ units[u].ver < units'[u].ver
      BY <2>1, <3>1 DEF VersionsGrow
    <3>3. t.ver \in Nat /\ units[u].ver \in Nat /\ units'[u].ver \in Nat
      <4>1. t \in [member : Members, path : Seq(Units), ver : Nat]
        BY DEF OrganizationInv, OrgTypeOK
      <4>2. units[u] \in Unit /\ units'[u] \in Unit
        BY <3>1 DEF OrganizationInv, OrgTypeOK
      <4> QED
        BY <4>1, <4>2 DEF Unit
    <3> HIDE DEF u
    <3>4. t.ver <= units'[u].ver /\ (t.ver = units'[u].ver => t.path = units'[u].path)
      BY <3>1, <3>2, <3>3
    <3> QED
      BY <3>4 DEF u
  <2> QED
    BY <2>1, <2>2 DEF TokenInv
<1> QED
  BY <1>1, <1>2, <1>3, <1>4 DEF OrganizationInv

\* A commit that writes memberships.
LEMMA MemberCommit ==
  ASSUME OrganizationInv, NEW h \in Sessions, Commit(h), UNCHANGED units,
         members' \in [Members -> Member], MembersFit(members'),
         \A m \in Members : members[m].unit \in Units => members'[m].unit = members[m].unit,
         ~raced /\ seen[h].units = units /\ seen[h].members = members =>
           MembersInActive(units, members')
  PROVE  OrganizationInv'
<1>1. OrgTypeOK'
  BY CommitShape DEF OrganizationInv, OrgTypeOK
<1>2. RowsStay /\ RowsFit(units') /\ ParentsExist'
  BY DEF RowsStay, OrganizationInv, ParentsExist
<1>3. SeenInv'
  BY <1>2, CommitShape, SeenStays
<1>4. \A t \in tokens : /\ members'[t.member].unit = members[t.member].unit
                        /\ members[t.member].unit \in Units
  <2>1. \A t \in tokens : t.member \in Members
    BY DEF OrganizationInv, OrgTypeOK
  <2> QED
    BY <2>1 DEF OrganizationInv, TokenUnitsExist
<1>5. TokenUnitsExist'
  BY <1>4, CommitShape DEF OrganizationInv, TokenUnitsExist
<1>6. ASSUME ~raced' PROVE TreeInv' /\ TokenInv'
  BY <1>4, <1>6, CommitShape DEF OrganizationInv, TreeInv, TokenInv,
     PathsFollowParents, ActiveUnderActive
<1> QED
  BY <1>1, <1>2, <1>3, <1>5, <1>6 DEF OrganizationInv

\* What a context can see is active.
LEMMA VisibleActive ==
  ASSUME NEW us \in [Units -> Unit], NEW u \in Units
  PROVE  /\ Visible(us, u) => us[u].state = "active"
         /\ VisibleFromAbove(us, u) => us[u].state = "active"
<1>1. ASSUME NEW x \in Units, us[x].state = "active", u \in Scope(us, x)
      PROVE  us[u].state = "active"
  <2>1. CASE Level[x] = 4
    BY <1>1, <2>1 DEF Scope
  <2>2. CASE Level[x] # 4
    BY <1>1, <2>2 DEF Scope
  <2> QED
    BY <2>1, <2>2
<1> QED
  BY <1>1 DEF Visible, VisibleFromAbove

LEMMA SameShape ==
  ASSUME NEW u, NEW r, NEW q, Shaped(u, r), q.path = r.path, q.company = r.company
  PROVE  Shaped(u, q)
BY DEF Shaped

\* create_unit gives a free id a row under a parent that has one.
LEMMA CreateUnitKeeps ==
  ASSUME OrganizationInv, NEW h \in Sessions, NEW u \in Units, NEW p \in Units \cup {NoUnit},
         CreateUnit(h, u, p)
  PROVE  OrganizationInv'
<1> DEFINE us == seen[h].units
           row == NewUnit(us, u, p)
<1>1. /\ Commit(h) /\ UNCHANGED members /\ units[u].state = "none"
      /\ units' = [units EXCEPT ![u] = row]
      /\ Level[u] = 1 => p = NoUnit
      /\ Level[u] # 1 => /\ p # NoUnit /\ us[p].state = "active" /\ Level[u] = Level[p] + 1
                         /\ units[p].state # "none" /\ units[p].company = us[p].company
  BY DEF CreateUnit, ParentFits
<1>2. us \in [Units -> Unit] /\ units \in [Units -> Unit] /\ RowsFit(us)
  BY SessionShape
<1> HIDE DEF us
<1>3. row \in Unit /\ Shaped(u, row) /\ row.state = "active" /\ row.parent = p
  <2>1. CASE Level[u] = 1
    <3>1. row = [state |-> "active", parent |-> NoUnit, company |-> u, path |-> <<u>>, ver |-> 1]
      BY <1>1, <2>1 DEF NewUnit
    <3>2. <<u>> \in Seq(Units) /\ Len(<<u>>) = 1 /\ <<u>>[1] = u /\ \A i \in 1..1 : i = 1
      OBVIOUS
    <3> QED
      BY <1>1, <2>1, <3>1, <3>2 DEF Unit, Shaped
  <2>2. CASE Level[u] # 1
    <3>1. /\ p \in Units /\ us[p] \in Unit /\ us[p].state = "active"
          /\ row = [state |-> "active", parent |-> p, company |-> us[p].company,
                    path |-> Append(us[p].path, u), ver |-> 1]
      BY <1>1, <1>2, <2>2, OrganizationAssumption DEF NewUnit
    <3>2. Shaped(p, us[p]) /\ us[p].path \in Seq(Units) /\ us[p].company \in Units \cup {NoUnit}
      BY <1>2, <3>1 DEF RowsFit, Unit
    <3>3. Append(us[p].path, u) \in Seq(Units)
      BY <3>2, AppendShape
    <3>4. row \in Unit /\ row.path = Append(us[p].path, u) /\ row.company = us[p].company
      BY <3>1, <3>2, <3>3 DEF Unit
    <3>5. row.state = "active" /\ row.parent = p
      BY <3>1
    <3> HIDE DEF row
    <3>6. Shaped(u, row)
      BY <1>1, <2>2, <3>1, <3>2, <3>4, ChildIsShaped
    <3> QED
      BY <3>4, <3>5, <3>6
  <2> QED
    BY <2>1, <2>2
<1> HIDE DEF row
<1>4. /\ units' \in [Units -> Unit] /\ units'[u] = row
      /\ \A v \in Units : v # u => units'[v] = units[v]
  BY <1>1, <1>2, <1>3
<1>5. RowsFit(units') /\ RowsStay
  BY <1>1, <1>3, <1>4 DEF RowsFit, RowsStay, OrganizationInv
<1>6. p # NoUnit => p \in Units /\ p # u /\ units[p].state # "none" /\ us[p].state = "active"
  BY <1>1
<1>7. \A v \in Units : units[v].state # "none" /\ units[v].parent # NoUnit =>
        units[v].parent \in Units /\ units[v].parent # u /\ units[units[v].parent].state # "none"
  BY <1>1, <1>2 DEF Unit, ParentsExist, OrganizationInv
<1>8. ParentsExist'
  BY <1>3, <1>4, <1>6, <1>7 DEF ParentsExist
<1>9. ASSUME ~raced, us = units PROVE TreeInv' /\ VersionsGrow
  <2>1. TreeInv
    BY <1>9 DEF OrganizationInv
  <2>2. row.parent # NoUnit => row.path = Append(units[p].path, u)
    BY <1>3, <1>6, <1>9 DEF row, NewUnit
  <2>3. PathsFollowParents(units')
    <3> SUFFICES ASSUME NEW v \in Units, units'[v].state # "none", units'[v].parent # NoUnit
                 PROVE  units'[v].path = Append(units'[units'[v].parent].path, v)
      BY DEF PathsFollowParents
    <3>1. CASE v = u
      BY <1>3, <1>4, <1>6, <2>2, <3>1
    <3>2. CASE v # u
      <4>1. units'[v] = units[v] /\ units'[units[v].parent] = units[units[v].parent]
        BY <1>4, <1>7, <3>2
      <4> QED
        BY <2>1, <4>1 DEF PathsFollowParents, TreeInv
    <3> QED
      BY <3>1, <3>2
  <2>4. ActiveUnderActive(units')
    BY <1>3, <1>4, <1>6, <1>7, <1>9, <2>1 DEF ActiveUnderActive, TreeInv
  <2>5. MembersInActive(units', members')
    BY <1>1, <1>4, <2>1 DEF MembersInActive, TreeInv, OrganizationInv, MembersFit
  <2>6. VersionsGrow
    BY <1>1, <1>4 DEF VersionsGrow
  <2> QED
    BY <2>3, <2>4, <2>5, <2>6 DEF TreeInv
<1> QED
  BY <1>1, <1>4, <1>5, <1>8, <1>9, UnitCommit DEF us

\* A commit that writes one row, and leaves its place in the tree.
LEMMA OneRowCommit ==
  ASSUME OrganizationInv, NEW h \in Sessions, NEW u \in Units, Commit(h), UNCHANGED members,
         units' \in [Units -> Unit], \A v \in Units : v # u => units'[v] = units[v],
         seen[h].units[u].state = "active",
         units'[u].state \in {units[u].state, "disabled"},
         units'[u].parent = units[u].parent, units'[u].company = units[u].company,
         units'[u].path = units[u].path, units'[u].ver = seen[h].units[u].ver + 1,
         \/ units'[u].state = units[u].state
         \/ /\ \A v \in Units : ~ (seen[h].units[v].parent = u /\ seen[h].units[v].state = "active")
            /\ \A m \in Members : ~ (seen[h].members[m].unit = u /\ seen[h].members[m].active)
  PROVE  OrganizationInv'
<1>1. units[u].state # "none" /\ units \in [Units -> Unit]
  BY SessionShape
<1>2. \A v \in Units : /\ units'[v].parent = units[v].parent /\ units'[v].path = units[v].path
                       /\ units'[v].company = units[v].company
                       /\ units'[v].state # "none" <=> units[v].state # "none"
                       /\ units'[v].state = "active" => units[v].state = "active"
  BY <1>1
<1>3. RowsFit(units')
  BY <1>2, SameShape DEF RowsFit, OrganizationInv
<1>4. RowsStay
  BY <1>2 DEF RowsStay
<1>5. \A v \in Units : units[v].state # "none" /\ units[v].parent # NoUnit =>
        units[v].parent \in Units /\ units[units[v].parent].state # "none"
  BY <1>1 DEF Unit, ParentsExist, OrganizationInv
<1>6. ParentsExist'
  BY <1>2, <1>5 DEF ParentsExist
<1>7. ASSUME ~raced, seen[h].units = units, seen[h].members = members
      PROVE  TreeInv' /\ VersionsGrow
  <2>1. TreeInv
    BY <1>7 DEF OrganizationInv
  <2>2. PathsFollowParents(units')
    <3> SUFFICES ASSUME NEW v \in Units, units'[v].state # "none", units'[v].parent # NoUnit
                 PROVE  units'[v].path = Append(units'[units'[v].parent].path, v)
      BY DEF PathsFollowParents
    <3>1. /\ units[v].state # "none" /\ units'[v].parent = units[v].parent
          /\ units[v].parent \in Units /\ units'[v].path = units[v].path
          /\ units'[units[v].parent].path = units[units[v].parent].path
      BY <1>2, <1>5
    <3> QED
      BY <2>1, <3>1 DEF PathsFollowParents, TreeInv
  <2>3. ActiveUnderActive(units')
    <3> SUFFICES ASSUME NEW v \in Units, units'[v].state = "active", units'[v].parent # NoUnit
                 PROVE  units'[units'[v].parent].state = "active"
      BY DEF ActiveUnderActive
    <3>1. /\ units[v].state = "active" /\ units'[v].parent = units[v].parent
          /\ units[v].parent \in Units /\ units[units[v].parent].state = "active"
      BY <1>2, <1>5, <2>1 DEF ActiveUnderActive, TreeInv
    <3> QED
      BY <1>7, <3>1
  <2>4. MembersInActive(units', members')
    BY <1>7, <2>1 DEF MembersInActive, TreeInv, OrganizationInv, MembersFit
  <2>5. VersionsGrow
    <3>1. units[u].ver \in Nat /\ units'[u].ver = units[u].ver + 1
      BY <1>1, <1>7 DEF Unit
    <3>2. units[u].ver < units'[u].ver
      BY <3>1
    <3> QED
      BY <3>2 DEF VersionsGrow
  <2> QED
    BY <2>2, <2>3, <2>4, <2>5 DEF TreeInv
<1> QED
  BY <1>3, <1>4, <1>6, <1>7, UnitCommit

LEMMA UpdateUnitKeeps ==
  ASSUME OrganizationInv, NEW h \in Sessions, NEW u \in Units, UpdateUnit(h, u)
  PROVE  OrganizationInv'
<1> DEFINE us == seen[h].units
<1>1. /\ us \in [Units -> Unit] /\ units \in [Units -> Unit]
      /\ us[u].ver + 1 \in Nat
  BY SessionShape DEF Unit
<1>2. /\ Commit(h) /\ UNCHANGED members /\ Visible(us, u)
      /\ units' = [units EXCEPT ![u].ver = us[u].ver + 1]
  BY DEF UpdateUnit
<1> HIDE DEF us
<1>3. us[u].state = "active"
  BY <1>1, <1>2, VisibleActive
<1>4. /\ units' \in [Units -> Unit] /\ \A v \in Units : v # u => units'[v] = units[v]
      /\ units'[u].state = units[u].state /\ units'[u].parent = units[u].parent
      /\ units'[u].company = units[u].company /\ units'[u].path = units[u].path
      /\ units'[u].ver = us[u].ver + 1
  BY <1>1, <1>2 DEF Unit
<1> QED
  BY <1>2, <1>3, <1>4, OneRowCommit DEF us

LEMMA DisableUnitKeeps ==
  ASSUME OrganizationInv, NEW h \in Sessions, NEW u \in Units, DisableUnit(h, u)
  PROVE  OrganizationInv'
<1> DEFINE us == seen[h].units
           state == Put(units[u].state, us[u].state, "disabled")
<1>1. /\ us \in [Units -> Unit] /\ units \in [Units -> Unit]
      /\ us[u].ver + 1 \in Nat
  BY SessionShape DEF Unit
<1>2. /\ Commit(h) /\ UNCHANGED members /\ VisibleFromAbove(us, u)
      /\ \A v \in Units : ~ (us[v].parent = u /\ us[v].state = "active")
      /\ \A m \in Members : ~ (seen[h].members[m].unit = u /\ seen[h].members[m].active)
      /\ units' = [units EXCEPT ![u].state = Put(@, us[u].state, "disabled"),
                                ![u].ver = us[u].ver + 1]
  BY DEF DisableUnit
<1> HIDE DEF us
<1>3. us[u].state = "active"
  BY <1>1, <1>2, VisibleActive
<1>4. state \in {units[u].state, "disabled"} /\ state \in {"none", "active", "disabled"}
  BY <1>1 DEF Put, Unit
<1>5. units' = [units EXCEPT ![u] = [units[u] EXCEPT !.state = state, !.ver = us[u].ver + 1]]
  BY <1>1, <1>2
<1> HIDE DEF state
<1>6. /\ units' \in [Units -> Unit] /\ \A v \in Units : v # u => units'[v] = units[v]
      /\ units'[u].state = state /\ units'[u].parent = units[u].parent
      /\ units'[u].company = units[u].company /\ units'[u].path = units[u].path
      /\ units'[u].ver = us[u].ver + 1
  BY <1>1, <1>4, <1>5 DEF Unit
<1> QED
  BY <1>2, <1>3, <1>4, <1>6, OneRowCommit DEF us

\* The path of a unit below the moved one, and of a child of such a unit.
LEMMA RebasedIsShaped ==
  ASSUME NEW u \in Units, NEW v \in Units, v # u,
         NEW old \in Seq(Units), NEW new \in Seq(Units), NEW path \in Seq(Units),
         Len(old) = Level[u], old[Level[u]] = u, Len(new) = Level[u],
         \A i \in 1..Level[u] : Level[new[i]] = i,
         Begins(old, path), NEW read, Shaped(v, read), read.path = path,
         new[1] = read.company,
         NEW row, row.path = RebasedPath(path, old, new), row.company = read.company
  PROVE  Shaped(v, row)
<1> DEFINE rebased == RebasedPath(path, old, new)
<1>1. Level[u] \in 1..4 /\ Level[v] \in 1..4
  BY OrganizationAssumption
<1>2. /\ Len(path) = Level[v] /\ path[Level[v]] = v
      /\ \A i \in 1..Level[v] : Level[path[i]] = i
  BY DEF Shaped
<1>3. /\ Len(old) <= Len(path) /\ \A i \in 1..Len(old) : path[i] = old[i]
  BY BeginsMeans
<1>4. Level[u] < Level[v]
  <2>1. Level[u] # Level[v]
    BY <1>1, <1>2, <1>3
  <2> QED
    BY <1>1, <1>2, <1>3, <2>1
<1>5. /\ Len(rebased) = Level[v]
      /\ \A i \in 1..Level[v] : rebased[i] = IF i <= Level[u] THEN new[i] ELSE path[i]
  BY <1>2, RebasedShape
<1> HIDE DEF rebased
<1>6. rebased[Level[v]] = v /\ rebased[1] = new[1]
  <2>1. Level[v] \in 1..Level[v] /\ 1 \in 1..Level[v]
    BY <1>1
  <2>2. ~(Level[v] <= Level[u]) /\ 1 <= Level[u]
    BY <1>1, <1>4
  <2> QED
    BY <1>2, <1>5, <2>1, <2>2
<1>7. \A i \in 1..Level[v] : Level[rebased[i]] = i
  BY <1>1, <1>2, <1>5
<1>8. row.path = rebased /\ row.company = new[1]
  BY DEF rebased
<1> QED
  BY <1>5, <1>6, <1>7, <1>8 DEF Shaped

LEMMA RebasedChild ==
  ASSUME NEW above \in Seq(Units), NEW v \in Units, NEW old \in Seq(Units),
         NEW new \in Seq(Units), Len(new) = Len(old), Begins(old, above)
  PROVE  /\ Begins(old, Append(above, v)) /\ Append(above, v) # old
         /\ RebasedPath(Append(above, v), old, new) = Append(RebasedPath(above, old, new), v)
<1> DEFINE below == Append(above, v)
           left == RebasedPath(below, old, new)
           rebased == RebasedPath(above, old, new)
           right == Append(rebased, v)
<1>1. Len(old) \in Nat /\ Len(above) \in Nat
  BY LenProperties
<1>2. Len(old) <= Len(above) /\ \A i \in 1..Len(old) : above[i] = old[i]
  BY BeginsMeans
<1>3. /\ below \in Seq(Units) /\ Len(below) = Len(above) + 1 /\ below[Len(above) + 1] = v
      /\ \A i \in 1..Len(above) : below[i] = above[i]
  BY AppendShape
<1> HIDE DEF below
<1>4. Begins(old, below) /\ below # old
  <2>1. Len(old) <= Len(below) /\ \A i \in 1..Len(old) : below[i] = old[i]
    BY <1>1, <1>2, <1>3
  <2>2. Len(below) # Len(old)
    BY <1>1, <1>2, <1>3
  <2> QED
    BY <1>3, <2>1, <2>2, BeginsMeans
<1>5. /\ left \in Seq(Units) /\ Len(left) = Len(below)
      /\ \A i \in 1..Len(below) : left[i] = IF i <= Len(old) THEN new[i] ELSE below[i]
  BY <1>3, <1>4, RebasedShape
<1>6. /\ rebased \in Seq(Units) /\ Len(rebased) = Len(above)
      /\ \A i \in 1..Len(above) : rebased[i] = IF i <= Len(old) THEN new[i] ELSE above[i]
  BY RebasedShape
<1> HIDE DEF left, rebased
<1>7. /\ right \in Seq(Units) /\ Len(right) = Len(above) + 1 /\ right[Len(above) + 1] = v
      /\ \A i \in 1..Len(above) : right[i] = rebased[i]
  <2>1. rebased \in Seq(Units)
    BY <1>6
  <2>2. /\ right \in Seq(Units) /\ Len(right) = Len(rebased) + 1 /\ right[Len(rebased) + 1] = v
        /\ \A i \in 1..Len(rebased) : right[i] = rebased[i]
    BY <2>1, AppendShape
  <2> QED
    BY <1>6, <2>2
<1> HIDE DEF right
<1>8. ASSUME NEW i \in 1..Len(left) PROVE left[i] = right[i]
  <2>1. CASE i \in 1..Len(above)
    BY <1>1, <1>3, <1>5, <1>6, <1>7, <2>1
  <2>2. CASE i = Len(above) + 1
    BY <1>1, <1>2, <1>3, <1>5, <1>7, <2>2
  <2>3. i \in 1..Len(above) \/ i = Len(above) + 1
    BY <1>1, <1>3, <1>5
  <2> QED
    BY <2>1, <2>2, <2>3
<1>9. left = right
  BY <1>3, <1>5, <1>7, <1>8, SeqEqual
<1> QED
  BY <1>4, <1>9 DEF below, left, rebased, right

LEMMA RebasedItself ==
  ASSUME NEW old \in Seq(Units), NEW new \in Seq(Units), Len(new) = Len(old)
  PROVE  Begins(old, old) /\ RebasedPath(old, old, new) = new
<1> DEFINE left == RebasedPath(old, old, new)
<1>1. Len(old) \in Nat
  BY LenProperties
<1>2. Begins(old, old)
  BY <1>1, BeginsMeans
<1>3. /\ left \in Seq(Units) /\ Len(left) = Len(old)
      /\ \A i \in 1..Len(old) : left[i] = IF i <= Len(old) THEN new[i] ELSE old[i]
  BY <1>2, RebasedShape
<1> HIDE DEF left
<1>4. left = new
  BY <1>1, <1>3, SeqEqual
<1> QED
  BY <1>2, <1>4 DEF left

LEMMA ChildOfOther ==
  ASSUME NEW above \in Seq(Units), NEW u \in Units, NEW v \in Units, v # u,
         NEW old \in Seq(Units), Len(old) > 0, old[Len(old)] = u,
         Begins(old, Append(above, v))
  PROVE  Begins(old, above)
<1>1. Len(old) \in Nat /\ Len(above) \in Nat
  BY LenProperties
<1> DEFINE below == Append(above, v)
<1>2. /\ below \in Seq(Units) /\ Len(below) = Len(above) + 1 /\ below[Len(above) + 1] = v
      /\ \A i \in 1..Len(above) : below[i] = above[i]
  BY AppendShape
<1>3. Begins(old, below)
  OBVIOUS
<1> HIDE DEF below
<1>4. Len(old) <= Len(below) /\ \A i \in 1..Len(old) : below[i] = old[i]
  BY <1>2, <1>3, BeginsMeans
<1>5. Len(old) # Len(above) + 1
  BY <1>1, <1>2, <1>4
<1>6. Len(old) <= Len(above) /\ \A i \in 1..Len(old) : above[i] = old[i]
  BY <1>1, <1>2, <1>4, <1>5
<1> QED
  BY <1>6, BeginsMeans

\* The units that a move of u rewrites besides u, and what it writes.
Carried(us, u) == {v \in Below(us, us[u].path) : v # u /\ us[v].company = us[u].company}

LEMMA MovedShape ==
  ASSUME OrganizationInv, NEW h \in Sessions, NEW u \in Units, NEW p \in Units,
         MoveUnit(h, u, p)
  PROVE  LET us == seen[h].units
             new == Append(us[p].path, u)
         IN /\ units' \in [Units -> Unit]
            /\ us[u].state = "active" /\ us[p].state = "active"
            /\ \A v \in Units : /\ units'[v].state = units[v].state
                                /\ units'[v].company = units[v].company
                                /\ v # u => units'[v].parent = units[v].parent
            /\ units'[u].parent = Put(units[u].parent, us[u].parent, p)
            /\ units'[u].path = Put(units[u].path, us[u].path, new)
            /\ units'[u].ver = us[u].ver + 1
            /\ \A v \in Carried(us, u) :
                 /\ units'[v].path = Put(units[v].path, us[v].path,
                                         RebasedPath(us[v].path, us[u].path, new))
                 /\ units'[v].ver = us[v].ver + 1
            /\ \A v \in Units : v # u /\ v \notin Carried(us, u) => units'[v] = units[v]
<1> DEFINE us == seen[h].units
           old == us[u].path
           new == Append(us[p].path, u)
           parent == Put(units[u].parent, us[u].parent, p)
           path == Put(units[u].path, old, new)
           below(v) == RebasedPath(us[v].path, old, new)
           below2(v) == Put(units[v].path, us[v].path, below(v))
<1>1. us \in [Units -> Unit] /\ units \in [Units -> Unit] /\ RowsFit(us)
  BY SessionShape
<1>2. us[u].state = "active" /\ us[p].state = "active"
  BY <1>1, VisibleActive DEF MoveUnit
<1>3. \A v \in Units : us[v] \in Unit /\ units[v] \in Unit
  BY <1>1
<1>5. Level[u] = Level[p] + 1 /\ units' = Moved(us, u, p)
  BY DEF MoveUnit, Movable
<1>6. Shaped(u, us[u]) /\ Shaped(p, us[p])
  BY <1>1, <1>2 DEF RowsFit
<1> HIDE DEF us
<1>4. \A v \in Units : us[v].path \in Seq(Units) /\ units[v].path \in Seq(Units)
                       /\ us[v].ver + 1 \in Nat
  <2> SUFFICES ASSUME NEW v \in Units
               PROVE  /\ us[v].path \in Seq(Units) /\ units[v].path \in Seq(Units)
                      /\ us[v].ver + 1 \in Nat
    OBVIOUS
  <2>1. us[v] \in Unit /\ units[v] \in Unit
    BY <1>3
  <2>2. us[v].ver \in Nat
    BY <2>1 DEF Unit
  <2>3. us[v].ver + 1 \in Nat
    BY <2>2
  <2> QED
    BY <2>1, <2>3 DEF Unit
<1>7. /\ new \in Seq(Units) /\ Len(new) = Len(old)
      /\ parent \in Units \cup {NoUnit} /\ path \in Seq(Units)
  <2>1. new \in Seq(Units) /\ Len(new) = Len(us[p].path) + 1
    BY <1>4, AppendShape
  <2>2. Len(us[p].path) = Level[p] /\ Len(old) = Level[u]
    BY <1>6 DEF Shaped
  <2>3. units[u].parent \in Units \cup {NoUnit}
    BY <1>3 DEF Unit
  <2> QED
    BY <1>4, <1>5, <2>1, <2>2, <2>3 DEF Put
<1>8. \A v \in Carried(us, u) : v \in Units /\ below2(v) \in Seq(Units)
  <2> SUFFICES ASSUME NEW v \in Carried(us, u) PROVE v \in Units /\ below2(v) \in Seq(Units)
    OBVIOUS
  <2>1. v \in Units /\ Begins(old, us[v].path)
    BY DEF Carried, Below
  <2>2. us[v].path \in Seq(Units) /\ old \in Seq(Units) /\ new \in Seq(Units) /\ Len(new) = Len(old)
    BY <1>4, <1>7, <2>1
  <2> HIDE DEF old, new
  <2>3. below(v) \in Seq(Units)
    BY <2>1, <2>2, RebasedShape
  <2> HIDE DEF below
  <2> QED
    BY <1>4, <2>1, <2>3 DEF Put
<1> DEFINE first == [units[u] EXCEPT !.parent = parent, !.path = path, !.ver = us[u].ver + 1]
           lower(v) == [units[v] EXCEPT !.path = below2(v), !.ver = us[v].ver + 1]
<1>9. units' = [v \in Units |-> IF v = u THEN first
                                ELSE IF v \in Below(us, old) /\ us[v].company = us[u].company
                                     THEN lower(v) ELSE units[v]]
  BY <1>5 DEF Moved, Rebased, RebasedPath
<1>10. units' = [v \in Units |-> IF v = u THEN first
                                 ELSE IF v \in Carried(us, u) THEN lower(v) ELSE units[v]]
  <2> HIDE DEF first, lower, old
  <2>1. \A v \in Units : v # u =>
          (v \in Carried(us, u) <=> v \in Below(us, old) /\ us[v].company = us[u].company)
    BY DEF Carried, old
  <2> QED
    BY <1>9, <2>1
<1> HIDE DEF parent, path, below2
<1>11. /\ first \in Unit /\ first.state = units[u].state /\ first.company = units[u].company
       /\ first.parent = parent /\ first.path = path /\ first.ver = us[u].ver + 1
  BY <1>3, <1>4, <1>7 DEF Unit
<1>12. ASSUME NEW v \in Carried(us, u)
       PROVE  /\ lower(v) \in Unit /\ lower(v).state = units[v].state
              /\ lower(v).company = units[v].company /\ lower(v).parent = units[v].parent
              /\ lower(v).path = below2(v) /\ lower(v).ver = us[v].ver + 1
  BY <1>3, <1>4, <1>8 DEF Unit
<1> HIDE DEF first, lower
<1>13. units'[u] = first
  BY <1>10
<1>14. \A v \in Carried(us, u) : units'[v] = lower(v) /\ v # u
  <2>1. \A v \in Carried(us, u) : v # u
    BY DEF Carried
  <2> QED
    BY <1>8, <1>10, <2>1
<1>15. \A v \in Units : v # u /\ v \notin Carried(us, u) => units'[v] = units[v]
  BY <1>10
<1>16. \A v \in Units : units'[v] \in Unit
  BY <1>3, <1>11, <1>12, <1>13, <1>14, <1>15
<1>17. units' \in [Units -> Unit]
  BY <1>10, <1>16
<1>18. \A v \in Units : /\ units'[v].state = units[v].state
                        /\ units'[v].company = units[v].company
                        /\ v # u => units'[v].parent = units[v].parent
  BY <1>11, <1>12, <1>13, <1>14, <1>15
<1>19. \A v \in Carried(us, u) : units'[v].path = below2(v) /\ units'[v].ver = us[v].ver + 1
  BY <1>12, <1>14
<1>20. /\ units'[u].parent = parent /\ units'[u].path = path /\ units'[u].ver = us[u].ver + 1
  BY <1>11, <1>13
<1> QED
  BY <1>2, <1>15, <1>17, <1>18, <1>19, <1>20 DEF us, parent, path, below2

\* Whatever was read, a move leaves every path one unit of each level, and in
\* its company.
LEMMA MoveKeepsShapes ==
  ASSUME OrganizationInv, NEW h \in Sessions, NEW u \in Units, NEW p \in Units,
         MoveUnit(h, u, p)
  PROVE  RowsFit(units')
<1> DEFINE us == seen[h].units
           old == us[u].path
           new == Append(us[p].path, u)
<1>1. /\ us \in [Units -> Unit] /\ units \in [Units -> Unit] /\ RowsFit(us) /\ RowsFit(units)
      /\ \A v \in Units : us[v].state # "none" =>
           units[v].state # "none" /\ units[v].company = us[v].company
  BY SessionShape DEF OrganizationInv
<1>2. /\ units' \in [Units -> Unit]
      /\ us[u].state = "active" /\ us[p].state = "active"
      /\ \A v \in Units : /\ units'[v].state = units[v].state
                          /\ units'[v].company = units[v].company
      /\ units'[u].path = Put(units[u].path, old, new)
      /\ \A v \in Carried(us, u) :
           units'[v].path = Put(units[v].path, us[v].path, RebasedPath(us[v].path, old, new))
      /\ \A v \in Units : v # u /\ v \notin Carried(us, u) => units'[v] = units[v]
  BY MovedShape
<1>3. Level[u] = Level[p] + 1 /\ us[p].company = us[u].company
  BY DEF MoveUnit, Movable
<1> HIDE DEF us
<1>4. Shaped(u, us[u]) /\ Shaped(p, us[p]) /\ us[p] \in Unit
  BY <1>1, <1>2 DEF RowsFit
<1>5. old \in Seq(Units) /\ us[p].path \in Seq(Units) /\ new \in Seq(Units)
  <2>1. us[u] \in Unit
    BY <1>1
  <2>2. old \in Seq(Units) /\ us[p].path \in Seq(Units)
    BY <1>4, <2>1 DEF Unit
  <2> QED
    BY <2>2, AppendShape
<1> DEFINE target == [path |-> new, company |-> us[p].company]
<1>6. target.path = Append(us[p].path, u) /\ target.company = us[p].company
  OBVIOUS
<1> HIDE DEF target
<1>7. Shaped(u, target)
  BY <1>3, <1>4, <1>6, ChildIsShaped
<1>8. /\ Len(new) = Level[u] /\ \A i \in 1..Level[u] : Level[new[i]] = i
      /\ new[1] = us[u].company /\ Len(old) = Level[u] /\ old[Level[u]] = u
  BY <1>3, <1>4, <1>6, <1>7 DEF Shaped
<1> HIDE DEF old, new
<1>9. ASSUME NEW v \in Units, units'[v].state # "none", v = u PROVE Shaped(v, units'[v])
  <2>1. units[u].state # "none" /\ units'[u].company = us[u].company
    BY <1>1, <1>2
  <2>2. units'[u].path = new \/ units'[u].path = units[u].path
    BY <1>2 DEF Put
  <2>3. CASE units'[u].path = new
    BY <1>3, <1>6, <1>7, <1>9, <2>1, <2>3, SameShape DEF new
  <2>4. CASE units'[u].path = units[u].path
    BY <1>1, <1>2, <1>9, <2>1, <2>4, SameShape DEF RowsFit
  <2> QED
    BY <2>2, <2>3, <2>4
<1>10. ASSUME NEW v \in Carried(us, u) PROVE Shaped(v, units'[v])
  <2>1. /\ v \in Units /\ v # u /\ us[v].state # "none" /\ Begins(old, us[v].path)
        /\ us[v].company = us[u].company
    BY DEF Carried, Below, old
  <2>2. /\ units[v].state # "none" /\ units'[v].company = us[v].company
        /\ us[v] \in Unit /\ Shaped(v, us[v]) /\ Shaped(v, units[v])
    BY <1>1, <1>2, <2>1 DEF RowsFit
  <2>3. us[v].path \in Seq(Units)
    BY <2>2 DEF Unit
  <2>4. \/ units'[v].path = RebasedPath(us[v].path, old, new)
        \/ units'[v].path = units[v].path
    BY <1>2 DEF Put
  <2>5. CASE units'[v].path = RebasedPath(us[v].path, old, new)
    <3>1. new[1] = us[v].company /\ units'[v].company = us[v].company
      BY <1>8, <2>1, <2>2
    <3>2. /\ v \in Units /\ v # u /\ Begins(old, us[v].path) /\ Shaped(v, us[v])
          /\ old \in Seq(Units) /\ new \in Seq(Units)
      BY <1>5, <2>1, <2>2
    <3>3. /\ Len(old) = Level[u] /\ old[Level[u]] = u /\ Len(new) = Level[u]
          /\ \A i \in 1..Level[u] : Level[new[i]] = i
      BY <1>8
    <3> QED
      BY <2>3, <2>5, <3>1, <3>2, <3>3, RebasedIsShaped
  <2>6. CASE units'[v].path = units[v].path
    <3>1. units'[v].company = units[v].company
      BY <1>2, <2>1
    <3> QED
      BY <2>2, <2>6, <3>1, SameShape
  <2> QED
    BY <2>4, <2>5, <2>6
<1>11. ASSUME NEW v \in Units, units'[v].state # "none", v # u, v \notin Carried(us, u)
       PROVE  Shaped(v, units'[v])
  <2>1. units'[v] = units[v]
    BY <1>2, <1>11
  <2> QED
    BY <1>1, <1>11, <2>1 DEF RowsFit
<1> QED
  BY <1>9, <1>10, <1>11 DEF RowsFit

\* On rows nobody has changed since, a move leaves every path its parent's
\* with the unit.
LEMMA MoveKeepsPaths ==
  ASSUME OrganizationInv, NEW h \in Sessions, NEW u \in Units, NEW p \in Units,
         MoveUnit(h, u, p), seen[h].units = units, PathsFollowParents(units)
  PROVE  PathsFollowParents(units')
<1> DEFINE old == units[u].path
           new == Append(units[p].path, u)
           moved(v) == RebasedPath(units[v].path, old, new)
<1>1. units \in [Units -> Unit] /\ RowsFit(units)
  BY SessionShape
<1>2. /\ units[u].state = "active" /\ units[p].state = "active"
      /\ \A v \in Units : /\ units'[v].state = units[v].state
                          /\ v # u => units'[v].parent = units[v].parent
      /\ units'[u].parent = Put(units[u].parent, units[u].parent, p)
      /\ units'[u].path = Put(units[u].path, old, new)
      /\ \A v \in Carried(units, u) :
           units'[v].path = Put(units[v].path, units[v].path, moved(v))
      /\ \A v \in Units : v # u /\ v \notin Carried(units, u) => units'[v] = units[v]
  BY MovedShape
<1>3. /\ Level[u] = Level[p] + 1 /\ units[p].company = units[u].company
      /\ ~ Begins(old, units[p].path)
  BY DEF MoveUnit, Movable
<1>4. Level[u] \in 1..4 /\ Level[p] \in 1..4 /\ p # u
  BY <1>3, OrganizationAssumption
<1>5. Shaped(u, units[u]) /\ Shaped(p, units[p])
  BY <1>1, <1>2 DEF RowsFit
<1>6. \A v \in Units : units[v].path \in Seq(Units)
  <2>1. \A v \in Units : units[v] \in Unit
    BY <1>1
  <2> QED
    BY <2>1 DEF Unit
<1>7. /\ old \in Seq(Units) /\ new \in Seq(Units) /\ Len(old) = Level[u] /\ Len(new) = Level[u]
      /\ old[Len(old)] = u
  <2>1. Len(old) = Level[u] /\ old[Len(old)] = u /\ Len(units[p].path) = Level[p]
    BY <1>5 DEF Shaped
  <2>2. units[p].path \in Seq(Units) /\ old \in Seq(Units)
    BY <1>6
  <2>3. new \in Seq(Units) /\ Len(new) = Len(units[p].path) + 1
    BY <2>2, AppendShape
  <2> QED
    BY <1>3, <2>1, <2>2, <2>3
<1> HIDE DEF old, new
<1>8. units'[u].path = new /\ units'[u].parent = p
  BY <1>2 DEF Put, old
<1>9. \A v \in Carried(units, u) : units'[v].path = moved(v)
  BY <1>2 DEF Put
<1> HIDE DEF moved
<1>10. moved(u) = new /\ Begins(old, units[u].path)
  BY <1>7, RebasedItself DEF moved, old
<1>11. \A v \in Carried(units, u) \cup {u} : units'[v].path = moved(v) /\ Begins(old, units[v].path)
  <2>1. \A v \in Carried(units, u) : Begins(old, units[v].path)
    BY DEF Carried, Below, old
  <2> QED
    BY <1>8, <1>9, <1>10, <2>1
<1>12. units'[p] = units[p]
  <2>1. p \notin Carried(units, u)
    BY <1>3 DEF Carried, Below, old
  <2> QED
    BY <1>2, <1>4, <2>1
<1>13. ASSUME NEW v \in Units, v # u, units[v].state # "none", units[v].parent # NoUnit
       PROVE  units'[v].path = Append(units'[units[v].parent].path, v)
  <2> DEFINE w == units[v].parent
             above == units[w].path
  <2>1. /\ w \in Units /\ units[w].state # "none" /\ units[v].path = Append(above, v)
    <3>1. units[v] \in Unit
      BY <1>1
    <3>2. w \in Units
      BY <1>13, <3>1 DEF Unit
    <3> QED
      BY <1>13, <3>2 DEF PathsFollowParents, OrganizationInv, ParentsExist
  <2> HIDE DEF w
  <2>2. above \in Seq(Units)
    BY <1>6, <2>1
  <2>3. units[v].company = units[w].company
    <3>1. /\ Shaped(v, units[v]) /\ Shaped(w, units[w]) /\ Level[w] \in 1..4
      BY <1>1, <1>13, <2>1, OrganizationAssumption DEF RowsFit
    <3>2. 1 \in 1..Len(above) /\ above[1] = units[w].company
      BY <3>1 DEF Shaped
    <3>3. Append(above, v)[1] = above[1]
      BY <2>2, <3>2, AppendShape
    <3> QED
      BY <2>1, <3>1, <3>2, <3>3 DEF Shaped
  <2> HIDE DEF above
  <2>4. CASE w \in Carried(units, u) \cup {u}
    <3>1. Begins(old, above) /\ units'[w].path = moved(w)
      BY <1>11, <2>4 DEF above
    <3>2. /\ Begins(old, units[v].path) /\ units[v].path # old
          /\ moved(v) = Append(moved(w), v)
      <4>1. /\ Begins(old, Append(above, v)) /\ Append(above, v) # old
            /\ RebasedPath(Append(above, v), old, new) = Append(RebasedPath(above, old, new), v)
        BY <1>7, <2>2, <3>1, RebasedChild
      <4> QED
        BY <2>1, <4>1 DEF moved, above
    <3>3. units[v].company = units[u].company
      BY <2>3, <2>4 DEF Carried
    <3>4. v \in Carried(units, u)
      BY <1>13, <3>2, <3>3 DEF Carried, Below, old
    <3> QED
      BY <1>9, <3>1, <3>2, <3>4 DEF w
  <2>5. CASE w \notin Carried(units, u) \cup {u}
    <3>1. v \notin Carried(units, u)
      <4> SUFFICES ASSUME v \in Carried(units, u) PROVE FALSE
        OBVIOUS
      <4>1. Begins(old, Append(above, v)) /\ units[v].company = units[u].company
        BY <2>1 DEF Carried, Below, old
      <4>2. Len(old) > 0 /\ old[Len(old)] = u
        BY <1>4, <1>7
      <4>3. Begins(old, above)
        BY <1>7, <1>13, <2>2, <4>1, <4>2, ChildOfOther
      <4>4. above # old
        <5>1. Shaped(w, units[w])
          BY <1>1, <2>1 DEF RowsFit
        <5>2. above[Len(above)] = w
          BY <5>1 DEF Shaped, above
        <5> QED
          BY <1>7, <2>5, <5>2
      <4>5. w \in Carried(units, u)
        BY <2>1, <2>3, <2>5, <4>1, <4>3, <4>4 DEF Carried, Below, old, above
      <4> QED
        BY <2>5, <4>5
    <3>2. units'[v] = units[v] /\ units'[w] = units[w]
      BY <1>2, <1>13, <2>1, <2>5, <3>1
    <3> QED
      BY <2>1, <3>2 DEF w, above
  <2> QED
    BY <2>4, <2>5
<1>14. units'[u].path = Append(units'[units'[u].parent].path, u)
  BY <1>8, <1>12 DEF new
<1> QED
  BY <1>2, <1>13, <1>14 DEF PathsFollowParents

\* move_organization_unit
LEMMA MoveUnitKeeps ==
  ASSUME OrganizationInv, NEW h \in Sessions, NEW u \in Units, NEW p \in Units,
         MoveUnit(h, u, p)
  PROVE  OrganizationInv'
<1> DEFINE us == seen[h].units
<1>1. /\ us \in [Units -> Unit] /\ units \in [Units -> Unit]
      /\ \A v \in Units : us[v].state # "none" =>
           units[v].state # "none" /\ units[v].company = us[v].company
  BY SessionShape
<1>2. /\ units' \in [Units -> Unit]
      /\ us[u].state = "active" /\ us[p].state = "active"
      /\ \A v \in Units : /\ units'[v].state = units[v].state
                          /\ units'[v].company = units[v].company
                          /\ v # u => units'[v].parent = units[v].parent
      /\ units'[u].parent = Put(units[u].parent, us[u].parent, p)
      /\ units'[u].ver = us[u].ver + 1
      /\ \A v \in Carried(us, u) : units'[v].ver = us[v].ver + 1
      /\ \A v \in Units : v # u /\ v \notin Carried(us, u) => units'[v] = units[v]
  BY MovedShape
<1>3. Commit(h) /\ UNCHANGED members
  BY DEF MoveUnit
<1> HIDE DEF us
<1>4. units'[u].parent = units[u].parent \/ units'[u].parent = p
  BY <1>2 DEF Put
<1>5. RowsFit(units') /\ RowsStay
  BY <1>2, MoveKeepsShapes DEF RowsStay
<1>6. \A v \in Units : units[v].state # "none" /\ units[v].parent # NoUnit =>
        units[v].parent \in Units /\ units[units[v].parent].state # "none"
  BY <1>1 DEF Unit, ParentsExist, OrganizationInv
<1>7. ParentsExist'
  BY <1>1, <1>2, <1>4, <1>6 DEF ParentsExist
<1>8. ASSUME ~raced, us = units PROVE TreeInv' /\ VersionsGrow
  <2>1. TreeInv
    BY <1>8 DEF OrganizationInv
  <2>2. PathsFollowParents(units')
    BY <1>8, <2>1, MoveKeepsPaths DEF TreeInv, us
  <2>3. ActiveUnderActive(units')
    <3> SUFFICES ASSUME NEW v \in Units, units'[v].state = "active", units'[v].parent # NoUnit
                 PROVE  units'[units'[v].parent].state = "active"
      BY DEF ActiveUnderActive
    <3>1. CASE units'[v].parent = p
      BY <1>2, <1>8, <3>1
    <3>2. CASE units'[v].parent = units[v].parent
      <4>1. units[v].state = "active" /\ units[v].parent \in Units
        BY <1>2, <1>6, <3>2
      <4> QED
        BY <1>2, <2>1, <3>2, <4>1 DEF ActiveUnderActive, TreeInv
    <3> QED
      BY <1>2, <1>4, <3>1, <3>2
  <2>4. MembersInActive(units', members')
    BY <1>2, <1>3, <2>1 DEF MembersInActive, TreeInv, OrganizationInv, MembersFit
  <2>5. VersionsGrow
    <3>1. \A v \in Units : units[v].ver < units[v].ver + 1
      <4>1. \A v \in Units : units[v].ver \in Nat
        BY <1>1 DEF Unit
      <4>2. \A n \in Nat : n < n + 1
        OBVIOUS
      <4> QED
        BY <4>1, <4>2
    <3>2. \A v \in Units : \/ units'[v].ver = units[v].ver + 1
                           \/ units'[v] = units[v]
      BY <1>2, <1>8
    <3> QED
      BY <3>1, <3>2 DEF VersionsGrow
  <2> QED
    BY <2>2, <2>3, <2>4, <2>5 DEF TreeInv
<1> QED
  BY <1>2, <1>3, <1>5, <1>7, <1>8, UnitCommit DEF us

\* Members of a set of rows that keep their unit, and become active only when they were.
LEMMA MembersStay ==
  ASSUME OrganizationInv, NEW h \in Sessions, Commit(h), UNCHANGED units,
         members' \in [Members -> Member],
         \A m \in Members : /\ members'[m].unit = members[m].unit
                            /\ members'[m].active => members[m].active
  PROVE  OrganizationInv'
<1>1. MembersFit(members')
  BY DEF MembersFit, OrganizationInv
<1>2. ~raced => MembersInActive(units, members')
  BY DEF MembersInActive, OrganizationInv, TreeInv
<1> QED
  BY <1>1, <1>2, MemberCommit

\* create_organization_membership
LEMMA AddMembershipKeeps ==
  ASSUME OrganizationInv, NEW h \in Sessions, NEW m \in Members, NEW x \in Users,
         NEW u \in Units, NEW w \in Validity, AddMembership(h, m, x, u, w)
  PROVE  OrganizationInv'
<1> DEFINE row == NewMember(seen[h].members, x, u, w)
<1>1. /\ Commit(h) /\ UNCHANGED units /\ members[m] = FreshMember
      /\ seen[h].units[u].state = "active" /\ members' = [members EXCEPT ![m] = row]
  BY DEF AddMembership, StoreMembers
<1>2. members \in [Members -> Member]
  BY SessionShape
<1>3. row \in Member /\ row.unit = u
  BY DEF NewMember, Member
<1> HIDE DEF row
<1>4. /\ members' \in [Members -> Member] /\ members'[m] = row
      /\ \A n \in Members : n # m => members'[n] = members[n]
  BY <1>1, <1>2, <1>3
<1>5. MembersFit(members')
  BY <1>3, <1>4 DEF MembersFit, OrganizationInv
<1>6. \A n \in Members : members[n].unit \in Units => members'[n].unit = members[n].unit
  BY <1>1, <1>4, FreshShape, OrganizationAssumption
<1>7. ~raced /\ seen[h].units = units => MembersInActive(units, members')
  BY <1>1, <1>3, <1>4 DEF MembersInActive, OrganizationInv, TreeInv
<1> QED
  BY <1>1, <1>4, <1>5, <1>6, <1>7, MemberCommit

LEMMA UpdateMembershipKeeps ==
  ASSUME OrganizationInv, NEW h \in Sessions, NEW m \in Members, NEW w \in Validity,
         UpdateMembership(h, m, w)
  PROVE  OrganizationInv'
<1> DEFINE when == Put(members[m].when, seen[h].members[m].when, w)
<1>1. /\ Commit(h) /\ UNCHANGED units /\ members' = [members EXCEPT ![m].when = when]
  BY DEF UpdateMembership, StoreMembers
<1>2. members \in [Members -> Member]
  BY SessionShape
<1>3. when \in Validity
  BY <1>2 DEF Put, Member
<1> HIDE DEF when
<1>4. /\ members' \in [Members -> Member]
      /\ \A n \in Members : /\ members'[n].unit = members[n].unit
                            /\ members'[n].active = members[n].active
  BY <1>1, <1>2, <1>3 DEF Member
<1> QED
  BY <1>1, <1>4, MembersStay

\* The flag moves, and nothing else does.
LEMMA PromotedShape ==
  ASSUME NEW ms \in [Members -> Member], NEW cur \in SUBSET Members, NEW m \in Members, NEW read \in BOOLEAN
  PROVE  /\ Promoted(ms, cur, m, read) \in [Members -> Member]
         /\ \A n \in Members : /\ Promoted(ms, cur, m, read)[n].unit = ms[n].unit
                               /\ Promoted(ms, cur, m, read)[n].active = ms[n].active
<1>1. ASSUME NEW n \in Members
      PROVE  /\ Promoted(ms, cur, m, read)[n] \in Member
             /\ Promoted(ms, cur, m, read)[n].unit = ms[n].unit
             /\ Promoted(ms, cur, m, read)[n].active = ms[n].active
  <2>1. ms[n] \in Member
    OBVIOUS
  <2>2. CASE n = m
    <3> DEFINE flag == Put(ms[m].primary, read, TRUE)
    <3>1. flag \in BOOLEAN
      BY <2>1, <2>2 DEF Put, Member
    <3>2. Promoted(ms, cur, m, read)[n] = [ms[n] EXCEPT !.primary = flag]
      BY <2>2 DEF Promoted
    <3> HIDE DEF flag
    <3> QED
      BY <2>1, <3>1, <3>2 DEF Member
  <2>3. CASE n # m /\ n \in cur
    BY <2>1, <2>3 DEF Promoted, Member
  <2>4. CASE n # m /\ n \notin cur
    BY <2>1, <2>4 DEF Promoted
  <2> QED
    BY <2>2, <2>3, <2>4
<1>2. Promoted(ms, cur, m, read) = [n \in Members |-> Promoted(ms, cur, m, read)[n]]
  BY DEF Promoted
<1> QED
  BY <1>1, <1>2

LEMMA DisabledShape ==
  ASSUME NEW ms \in [Members -> Member], NEW m \in Members, NEW read \in BOOLEAN
  PROVE  /\ Disabled(ms, m, read) \in [Members -> Member]
         /\ \A n \in Members : /\ Disabled(ms, m, read)[n].unit = ms[n].unit
                               /\ Disabled(ms, m, read)[n].active => ms[n].active
<1> DEFINE flag == Put(ms[m].primary, read, FALSE)
           row == [ms[m] EXCEPT !.active = FALSE, !.primary = flag]
<1>1. ms[m] \in Member
  OBVIOUS
<1>2. flag \in BOOLEAN
  BY <1>1 DEF Put, Member
<1>3. Disabled(ms, m, read) = [ms EXCEPT ![m] = row]
  BY <1>1 DEF Disabled
<1> HIDE DEF flag
<1>4. row \in Member /\ row.unit = ms[m].unit /\ ~row.active
  BY <1>1, <1>2 DEF Member
<1> HIDE DEF row
<1> QED
  BY <1>3, <1>4

LEMMA SetPrimaryKeeps ==
  ASSUME OrganizationInv, NEW h \in Sessions, NEW m \in Members, SetPrimary(h, m)
  PROVE  OrganizationInv'
<1> DEFINE ms == seen[h].members
           cur == Primaries(ms, m)
<1>1. /\ Commit(h) /\ UNCHANGED units
      /\ members' = Promoted(members, cur, m, ms[m].primary)
  BY DEF SetPrimary, StoreMembers
<1>2. members \in [Members -> Member] /\ ms \in [Members -> Member]
  BY SessionShape
<1>3. cur \in SUBSET Members
  BY DEF Primaries, Peers
<1> HIDE DEF ms, cur
<1>4. ms[m].primary \in BOOLEAN
  BY <1>2 DEF Member
<1>5. /\ members' \in [Members -> Member]
      /\ \A n \in Members : /\ members'[n].unit = members[n].unit
                            /\ members'[n].active = members[n].active
  BY <1>1, <1>2, <1>3, <1>4, PromotedShape
<1> QED
  BY <1>1, <1>5, MembersStay

LEMMA DisableMemberKeeps ==
  ASSUME OrganizationInv, NEW h \in Sessions, NEW m \in Members, DisableMember(h, m)
  PROVE  OrganizationInv'
<1> DEFINE ms == seen[h].members
<1>1. /\ Commit(h) /\ UNCHANGED units
      /\ members' = Disabled(members, m, ms[m].primary)
  BY DEF DisableMember, StoreMembers
<1>2. members \in [Members -> Member] /\ ms \in [Members -> Member]
  BY SessionShape
<1> HIDE DEF ms
<1>3. ms[m].primary \in BOOLEAN
  BY <1>2 DEF Member
<1> QED
  BY <1>1, <1>2, <1>3, DisabledShape, MembersStay

LEMMA ReplacePrimaryKeeps ==
  ASSUME OrganizationInv, NEW h \in Sessions, NEW m \in Members, NEW r \in Members,
         ReplacePrimary(h, m, r)
  PROVE  OrganizationInv'
<1> DEFINE freed == [members EXCEPT ![m].primary = FALSE]
           cur == Primaries(freed, r)
           swapped == Promoted(freed, cur, r, FALSE)
<1>1. Commit(h) /\ UNCHANGED units /\ members' = Disabled(swapped, m, TRUE)
  BY DEF ReplacePrimary, StoreMembers
<1>2. members \in [Members -> Member]
  BY SessionShape
<1>3. /\ freed \in [Members -> Member]
      /\ \A n \in Members : /\ freed[n].unit = members[n].unit
                            /\ freed[n].active = members[n].active
  BY <1>2 DEF Member
<1>4. cur \in SUBSET Members
  BY DEF Primaries, Peers
<1> HIDE DEF freed, cur
<1>5. /\ swapped \in [Members -> Member]
      /\ \A n \in Members : /\ swapped[n].unit = freed[n].unit
                            /\ swapped[n].active = freed[n].active
  BY <1>3, <1>4, PromotedShape
<1> HIDE DEF swapped
<1>6. /\ members' \in [Members -> Member]
      /\ \A n \in Members : /\ members'[n].unit = swapped[n].unit
                            /\ members'[n].active => swapped[n].active
  <2>1. /\ Disabled(swapped, m, TRUE) \in [Members -> Member]
        /\ \A n \in Members : /\ Disabled(swapped, m, TRUE)[n].unit = swapped[n].unit
                              /\ Disabled(swapped, m, TRUE)[n].active => swapped[n].active
    BY <1>5, DisabledShape
  <2> QED
    BY <1>1, <2>1
<1> QED
  BY <1>1, <1>3, <1>5, <1>6, MembersStay

LEMMA LoadKeeps ==
  ASSUME OrganizationInv, NEW h \in Sessions, Load(h)
  PROVE  OrganizationInv'
<1> DEFINE row == [live |-> TRUE, units |-> units, members |-> members]
<1>1. seen' = [seen EXCEPT ![h] = row] /\ UNCHANGED <<units, members, tokens, raced, writes>>
  BY DEF Load
<1>2. row \in Read /\ row.units = units /\ row.members = members
  BY SessionShape DEF Read
<1> HIDE DEF row
<1>3. /\ seen' \in [Sessions -> Read] /\ seen'[h] = row
      /\ \A g \in Sessions : g # h => seen'[g] = seen[g]
  BY <1>1, <1>2 DEF OrganizationInv, OrgTypeOK
<1>4. OrgTypeOK'
  BY <1>1, <1>3 DEF OrganizationInv, OrgTypeOK
<1>5. SeenInv'
  <2> SUFFICES ASSUME NEW g \in Sessions
               PROVE  /\ RowsFit(seen'[g].units) /\ MembersFit(seen'[g].members)
                      /\ \A u \in Units : seen'[g].units[u].state # "none" =>
                           /\ units[u].state # "none"
                           /\ units[u].company = seen'[g].units[u].company
    BY <1>1 DEF SeenInv, RowsFit, MembersFit, Shaped
  <2>1. CASE g = h
    BY <1>2, <1>3, <2>1 DEF OrganizationInv
  <2>2. CASE g # h
    BY <1>3, <2>2 DEF OrganizationInv, SeenInv
  <2> QED
    BY <2>1, <2>2
<1> QED
  BY <1>1, <1>4, <1>5 DEF OrganizationInv, ParentsExist, TokenUnitsExist, TreeInv, TokenInv

LEMMA GiveUpKeeps ==
  ASSUME OrganizationInv, NEW h \in Sessions, GiveUp(h)
  PROVE  OrganizationInv'
<1>1. seen' = [seen EXCEPT ![h] = Nothing] /\ UNCHANGED <<units, members, tokens, raced, writes>>
  BY DEF GiveUp
<1>2. seen' \in [Sessions -> Read] /\ \A g \in Sessions : seen'[g] \in {seen[g], Nothing}
  BY <1>1, FreshShape DEF OrganizationInv, OrgTypeOK
<1>3. OrgTypeOK'
  BY <1>1, <1>2 DEF OrganizationInv, OrgTypeOK
<1>4. RowsStay
  BY <1>1 DEF RowsStay
<1>5. SeenInv'
  BY <1>2, <1>4, SeenStays
<1> QED
  BY <1>1, <1>3, <1>5 DEF OrganizationInv, ParentsExist, TokenUnitsExist, TreeInv, TokenInv

LEMMA ElapseKeeps ==
  ASSUME OrganizationInv, NEW m \in Members, Elapse(m)
  PROVE  OrganizationInv'
<1> DEFINE when == IF members[m].when = "later" THEN "now" ELSE "past"
<1>1. /\ members' = [members EXCEPT ![m].when = when]
      /\ UNCHANGED <<units, seen, tokens, raced, writes>>
  BY DEF Elapse
<1>2. members \in [Members -> Member]
  BY DEF OrganizationInv, OrgTypeOK
<1>3. when \in Validity
  BY DEF Validity
<1> HIDE DEF when
<1>4. /\ members' \in [Members -> Member]
      /\ \A n \in Members : /\ members'[n].unit = members[n].unit
                            /\ members'[n].active = members[n].active
  BY <1>1, <1>2, <1>3 DEF Member
<1>5. OrgTypeOK'
  BY <1>1, <1>4 DEF OrganizationInv, OrgTypeOK
<1>6. MembersFit(members') /\ SeenInv'
  BY <1>1, <1>4 DEF OrganizationInv, MembersFit, SeenInv, RowsFit
<1>7. \A t \in tokens : members'[t.member].unit = members[t.member].unit
  <2>1. \A t \in tokens : t.member \in Members
    BY DEF OrganizationInv, OrgTypeOK
  <2> QED
    BY <1>4, <2>1
<1>8. TokenUnitsExist' /\ (TokenInv => TokenInv')
  BY <1>1, <1>7 DEF OrganizationInv, TokenUnitsExist, TokenInv
<1>9. TreeInv => TreeInv'
  BY <1>1, <1>4 DEF TreeInv, PathsFollowParents, ActiveUnderActive, MembersInActive
<1>10. RowsFit(units') /\ ParentsExist'
  BY <1>1 DEF OrganizationInv, ParentsExist
<1> QED
  BY <1>1, <1>5, <1>6, <1>8, <1>9, <1>10 DEF OrganizationInv

\* switch_context: the context resolves, so its unit has a row.
LEMMA SwitchContextKeeps ==
  ASSUME OrganizationInv, NEW m \in Members, SwitchContext(m)
  PROVE  OrganizationInv'
<1> DEFINE u == members[m].unit
           token == [member |-> m, path |-> units[u].path, ver |-> units[u].ver]
<1>1. /\ tokens' = {token} /\ UNCHANGED <<units, members, seen, raced, writes>>
      /\ members[m].active /\ units[u].state = "active"
  BY DEF SwitchContext, Resolves
<1>2. u \in Units
  BY <1>1 DEF OrganizationInv, MembersFit
<1> HIDE DEF u
<1>3. units[u] \in Unit
  BY <1>2 DEF OrganizationInv, OrgTypeOK
<1>4. units[u].ver \in Nat /\ units[u].path \in Seq(Units)
  BY <1>3 DEF Unit
<1>5. /\ token \in [member : Members, path : Seq(Units), ver : Nat]
      /\ token.member = m /\ token.path = units[u].path /\ token.ver = units[u].ver
  BY <1>4
<1> HIDE DEF token
<1>6. OrgTypeOK'
  BY <1>1, <1>5 DEF OrganizationInv, OrgTypeOK
<1>7. TokenUnitsExist'
  BY <1>1, <1>2, <1>5 DEF TokenUnitsExist, u
<1>8. TokenInv'
  <2>1. units[u].ver <= units[u].ver
    BY <1>4
  <2> QED
    BY <1>1, <1>5, <2>1 DEF TokenInv, u
<1> QED
  BY <1>1, <1>6, <1>7, <1>8
     DEF OrganizationInv, SeenInv, ParentsExist, TreeInv, RowsFit, MembersFit

LEMMA OrganizationKeeps == OrganizationInv /\ [OrgNext]_orgVars => OrganizationInv'
<1> SUFFICES ASSUME OrganizationInv, [OrgNext]_orgVars PROVE OrganizationInv'
  OBVIOUS
<1>1. CASE UNCHANGED orgVars
  BY <1>1 DEF OrganizationInv, OrgTypeOK, RowsFit, MembersFit, ParentsExist, SeenInv,
     TokenUnitsExist, TreeInv, TokenInv, PathsFollowParents, ActiveUnderActive,
     MembersInActive, orgVars
<1>2. ASSUME NEW h \in Sessions, Load(h) \/ GiveUp(h) PROVE OrganizationInv'
  BY <1>2, LoadKeeps, GiveUpKeeps
<1>3. ASSUME NEW h \in Sessions, NEW u \in Units,
             \/ \E p \in Units \cup {NoUnit} : CreateUnit(h, u, p)
             \/ UpdateUnit(h, u)
             \/ \E p \in Units : MoveUnit(h, u, p)
             \/ DisableUnit(h, u)
      PROVE  OrganizationInv'
  BY <1>3, CreateUnitKeeps, UpdateUnitKeeps, MoveUnitKeeps, DisableUnitKeeps
<1>4. ASSUME NEW h \in Sessions, NEW m \in Members,
             \/ \E x \in Users, u \in Units, w \in Validity : AddMembership(h, m, x, u, w)
             \/ \E w \in Validity : UpdateMembership(h, m, w)
             \/ SetPrimary(h, m)
             \/ DisableMember(h, m)
             \/ \E r \in Members : ReplacePrimary(h, m, r)
      PROVE  OrganizationInv'
  BY <1>4, AddMembershipKeeps, UpdateMembershipKeeps, SetPrimaryKeeps, DisableMemberKeeps,
     ReplacePrimaryKeeps
<1>5. ASSUME NEW m \in Members, Elapse(m) \/ SwitchContext(m) PROVE OrganizationInv'
  BY <1>5, ElapseKeeps, SwitchContextKeeps
<1> QED
  BY <1>1, <1>2, <1>3, <1>4, <1>5 DEF OrgNext

LEMMA OrganizationInvariance == OrgSpec => []OrganizationInv
BY OrganizationStarts, OrganizationKeeps, PTL DEF OrgSpec

\* create_unit, move_organization_unit: however handlers overlap and whatever they
\* had read, every row keeps its shape and every path names one unit of each level,
\* from the unit's company down to the unit.
THEOREM PathsNameEveryLevel == OrgSpec => []OrgIsWellFormed
<1>1. OrganizationInv => OrgIsWellFormed
  BY DEF OrganizationInv, OrgIsWellFormed, RowsFit, PathsFollowLevels
<1> QED
  BY <1>1, OrganizationInvariance, PTL

\* As long as no handler has written over a change it had not read, create, move and
\* disable leave paths that follow the parents, active units under active ones, and
\* active memberships in active units.
THEOREM TheTreeHolds == OrgSpec => []TreeIsSound
<1>1. OrganizationInv => TreeIsSound
  <2> SUFFICES ASSUME OrganizationInv, ~raced
               PROVE  /\ \A u \in Units : units[u].state # "none" /\ units[u].parent # NoUnit =>
                           /\ units[u].path = Append(units[units[u].parent].path, u)
                           /\ units[u].state = "active" =>
                                units[units[u].parent].state = "active"
                      /\ \A m \in Members : members[m].active =>
                           units[members[m].unit].state = "active"
    BY DEF TreeIsSound
  <2> QED
    BY DEF OrganizationInv, TreeInv, PathsFollowParents, ActiveUnderActive, MembersInActive
<1> QED
  BY <1>1, OrganizationInvariance, PTL

\* get_current_user: until then a context token that is still accepted stands for the
\* path it was issued for, and every unit of that path is active.
THEOREM AcceptedContextIsFresh == OrgSpec => []ContextIsFresh
<1>1. OrganizationInv => ContextIsFresh
  <2> SUFFICES ASSUME OrganizationInv, ~raced, NEW t \in tokens, Accepts(t)
               PROVE  /\ units[members[t.member].unit].path = t.path
                      /\ \A i \in 1..Len(t.path) : units[t.path[i]].state = "active"
    BY DEF ContextIsFresh
  <2> DEFINE u == members[t.member].unit
  <2>1. /\ units[u].ver = t.ver
        /\ \A i \in 1..Len(units[u].path) : units[units[u].path[i]].state = "active"
    BY Zenon DEF Accepts, Resolves
  <2>2. t.ver = units[u].ver => t.path = units[u].path
    BY DEF OrganizationInv, TokenInv
  <2> HIDE DEF u
  <2>3. t.path = units[u].path
    BY <2>1, <2>2
  <2>4. \A i \in 1..Len(t.path) : units[t.path[i]].state = "active"
    BY <2>1, <2>3
  <2> QED
    BY <2>3, <2>4, Zenon DEF u
<1> QED
  BY <1>1, OrganizationInvariance, PTL
=============================================================================
