---------------------------- MODULE BudgetsProofs ----------------------------
(***************************************************************************)
(* Theorems about Budgets, for any sets of replicas, apps, members and     *)
(* days and any profiles ProfilesAssumption allows.                        *)
(***************************************************************************)
EXTENDS Budgets, FiniteSetTheorems, TLAPS

-----------------------------------------------------------------------------
(* The counters of a request. *)

LEMMA ReservationsShape ==
  ASSUME NEW r \in Replicas, NEW q \in Requests
  PROVE  /\ Len(Reservations(r, q)) =
                IF q.endpoint \in DOMAIN Profile[r].endpoint THEN 3 ELSE 2
         /\ DOMAIN Reservations(r, q) = 1..Len(Reservations(r, q))
         /\ Reservations(r, q)[1] = AppKey(q)
         /\ Reservations(r, q)[2] = MemberKey(q)
         /\ Len(Reservations(r, q)) = 3 => Reservations(r, q)[3] = EndpointKey(q)
<1>1. CASE q.endpoint \in DOMAIN Profile[r].endpoint
  <2>1. Reservations(r, q) = <<AppKey(q), MemberKey(q), EndpointKey(q)>>
    BY <1>1 DEF Reservations
  <2> QED
    BY <1>1, <2>1
<1>2. CASE q.endpoint \notin DOMAIN Profile[r].endpoint
  <2>1. Reservations(r, q) = <<AppKey(q), MemberKey(q)>>
    BY <1>2 DEF Reservations
  <2> QED
    BY <1>2, <2>1
<1> QED
  BY <1>1, <1>2

LEMMA KeysOfARequest ==
  ASSUME NEW q \in Requests
  PROVE  /\ AppKey(q) \in BudgetKeys /\ AppKey(q)[1] = "app"
         /\ MemberKey(q) \in BudgetKeys /\ MemberKey(q)[1] = "member"
         /\ EndpointKey(q) \in BudgetKeys /\ EndpointKey(q)[1] = "endpoint"
         /\ EndpointKey(q)[2][2] = q.endpoint
  BY DEF Requests, AppKey, MemberKey, EndpointKey, BudgetKeys

LEMMA ChargedKeys ==
  ASSUME NEW r \in Replicas, NEW q \in Requests
  PROVE  Charged(r, q) =
           IF q.endpoint \in DOMAIN Profile[r].endpoint
           THEN {AppKey(q), MemberKey(q), EndpointKey(q)}
           ELSE {AppKey(q), MemberKey(q)}
<1>1. CASE q.endpoint \in DOMAIN Profile[r].endpoint
  <2>1. DOMAIN Reservations(r, q) = {1, 2, 3}
    BY <1>1, ReservationsShape
  <2> QED
    BY <1>1, <2>1, ReservationsShape DEF Charged
<1>2. CASE q.endpoint \notin DOMAIN Profile[r].endpoint
  <2>1. DOMAIN Reservations(r, q) = {1, 2}
    BY <1>2, ReservationsShape
  <2> QED
    BY <1>2, <2>1, ReservationsShape DEF Charged
<1> QED
  BY <1>1, <1>2

LEMMA LimitsOfCharged ==
  ASSUME NEW r \in Replicas, NEW q \in Requests, NEW key \in Charged(r, q)
  PROVE  key \in BudgetKeys /\ Bounds(r, key) /\ LimitOf(r, key) \in Nat
  BY ChargedKeys, KeysOfARequest, ProfilesAssumption DEF Bounds, LimitOf

\* What a transaction holds, spelt out.
LEMMA HeldKeys ==
  ASSUME NEW r \in Replicas, request[r] \in Requests, locked[r] \in 0..3,
         locked[r] <= Len(Mine(r)), NEW key
  PROVE  Holds(r, key) <=>
           \/ locked[r] >= 1 /\ key = AppKey(request[r])
           \/ locked[r] >= 2 /\ key = MemberKey(request[r])
           \/ locked[r] >= 3 /\ key = EndpointKey(request[r])
<1>1. CASE locked[r] = 0
  BY <1>1 DEF Holds
<1>2. CASE locked[r] = 1
  BY <1>2, ReservationsShape DEF Holds, Mine
<1>3. CASE locked[r] = 2
  BY <1>3, ReservationsShape DEF Holds, Mine
<1>4. CASE locked[r] = 3
  BY <1>4, ReservationsShape DEF Holds, Mine
<1> QED
  BY <1>1, <1>2, <1>3, <1>4

\* A replica without a transaction holds nothing.
LEMMA NothingHeld ==
  ASSUME NEW r \in Replicas, locked[r] = 0, NEW key
  PROVE  ~Holds(r, key)
  BY DEF Holds

\* The next counter of a transaction is one its request is charged to.
LEMMA WantedKey ==
  ASSUME NEW r \in Replicas, request[r] \in Requests, locked[r] \in 0..3,
         locked[r] <= Len(Mine(r)), ~Complete(r)
  PROVE  /\ locked[r] < Len(Mine(r))
         /\ locked[r] + 1 \in DOMAIN Mine(r)
         /\ Wanted(r) \in Charged(r, request[r])
         /\ Wanted(r) \in BudgetKeys
<1>1. locked[r] < Len(Mine(r)) /\ locked[r] + 1 \in DOMAIN Mine(r)
  BY ReservationsShape DEF Complete, Mine
<1>2. Wanted(r) \in Charged(r, request[r])
  BY <1>1 DEF Wanted, Mine, Charged
<1> QED
  BY <1>1, <1>2, LimitsOfCharged

LEMMA SpendTyped ==
  ASSUME NEW counts \in [BudgetKeys -> Nat], NEW keys
  PROVE  Spend(counts, keys) \in [BudgetKeys -> Nat]
  BY DEF Spend

LEMMA NoRequestIsNone == NoRequest \notin Requests
  BY DEF NoRequest, Requests, Endpoints

-----------------------------------------------------------------------------
(* Types. *)

LEMMA InitTypes == Init => TypeOK
  BY DEF Init, TypeOK, Zero, NoKey, NoRequest

LEMMA FinishTypes ==
  ASSUME TypeOK, NEW r \in Replicas, Finish(r)
  PROVE  /\ pc' \in [Replicas -> {"idle", "reserve", "send"}]
         /\ request' \in [Replicas -> Requests \cup {NoRequest}]
         /\ pc'[r] = "idle" /\ request'[r] = NoRequest
         /\ \A s \in Replicas \ {r} : pc'[s] = pc[s] /\ request'[s] = request[s]
  BY DEF TypeOK, Finish

\* From one request of a publication to another, or on with the same one.
Follows(r, e) ==
  e = request[r].endpoint \/ {e, request[r].endpoint} \subseteq {"register", "upload", "create"}

LEMMA FollowingRequest ==
  ASSUME NEW q \in Requests, NEW e \in Endpoints,
         e = q.endpoint \/ {e, q.endpoint} \subseteq {"register", "upload", "create"}
  PROVE  [q EXCEPT !.endpoint = e] \in Requests
<1>1. [q EXCEPT !.endpoint = e]
        \in [app : Apps, member : Identities, day : Days, endpoint : Endpoints]
  BY DEF Requests
<1>2. [q EXCEPT !.endpoint = e].member = q.member /\ [q EXCEPT !.endpoint = e].endpoint = e
  BY DEF Requests
<1> QED
  BY <1>1, <1>2 DEF Requests

LEMMA ProceedTypes ==
  ASSUME TypeOK, NEW r \in Replicas, request[r] \in Requests,
         NEW place \in {"reserve", "send"}, NEW e \in Endpoints, Follows(r, e),
         Proceed(r, place, e)
  PROVE  /\ pc' \in [Replicas -> {"idle", "reserve", "send"}]
         /\ request' \in [Replicas -> Requests \cup {NoRequest}]
         /\ pc'[r] = place /\ request'[r] \in Requests
         /\ \A s \in Replicas \ {r} : pc'[s] = pc[s] /\ request'[s] = request[s]
<1>1. [request[r] EXCEPT !.endpoint = e] \in Requests
  BY FollowingRequest DEF Follows
<1> QED
  BY <1>1 DEF TypeOK, Proceed

\* A busy replica has a request.
LEMMA BusyHasRequest ==
  ASSUME TypeOK, NEW r \in Replicas, pc[r] # "idle"
  PROVE  request[r] \in Requests
  BY DEF TypeOK

LEMMA TypeStep ==
  ASSUME TypeOK, LockedHasRoom, [Next]_vars
  PROVE  TypeOK'
<1>1. CASE UNCHANGED vars
  BY <1>1 DEF vars, TypeOK
<1>2. ASSUME NEW r \in Replicas, Begin(r)
      PROVE  TypeOK'
  BY <1>2, NoRequestIsNone DEF Begin, TypeOK
<1>3. ASSUME NEW r \in Replicas, TakeCounter(r)
      PROVE  TypeOK'
  <2>1. request[r] \in Requests /\ locked[r] \in 0..3 /\ locked[r] <= Len(Mine(r))
    BY <1>3, BusyHasRequest, ReservationsShape
    DEF TakeCounter, TypeOK, LockedHasRoom, Mine
  <2>2. Len(Mine(r)) \in {2, 3}
    BY <2>1, ReservationsShape DEF Mine
  <2>3. locked[r] + 1 \in 0..3
    BY <1>3, <2>1, <2>2, WantedKey DEF TakeCounter
  <2> QED
    BY <1>3, <2>3 DEF TakeCounter, TypeOK
<1>4. ASSUME NEW r \in Replicas, Exhaust(r)
      PROVE  TypeOK'
  <2>1. request[r] \in Requests /\ locked[r] \in 0..3 /\ locked[r] <= Len(Mine(r))
    BY <1>4, BusyHasRequest, ReservationsShape
    DEF Exhaust, RefusedAt, TypeOK, LockedHasRoom, Mine
  <2>2. Wanted(r) \in BudgetKeys
    BY <1>4, <2>1, WantedKey DEF Exhaust, RefusedAt
  <2> QED
    BY <1>4, <2>2, FinishTypes DEF Exhaust, RefusedAt, TypeOK
<1>5. ASSUME NEW r \in Replicas, Commit(r)
      PROVE  TypeOK'
  <2>1. request[r] \in Requests /\ request[r].endpoint \in Endpoints
    BY <1>5, BusyHasRequest DEF Commit, CommitThen, Requests
  <2>2. \E place \in {"reserve", "send"}, e \in Endpoints :
           Follows(r, e) /\ Proceed(r, place, e)
    BY <1>5, <2>1 DEF Commit, CommitThen, Endpoints, Follows
  <2>3. used' \in [BudgetKeys -> Nat]
    BY <1>5, SpendTyped DEF Commit, CommitThen, TypeOK
  <2> QED
    BY <1>5, <2>1, <2>2, <2>3, ProceedTypes, NoRequestIsNone
    DEF Commit, CommitThen, TypeOK
<1>6. ASSUME NEW r \in Replicas, Send(r)
      PROVE  TypeOK'
  <2>1. request[r] \in Requests
    BY <1>6, BusyHasRequest DEF Send
  <2>2. sent' \in [BudgetKeys -> Nat]
    BY <1>6, SpendTyped DEF Send, TypeOK
  <2>3. locked[r] = 0
    BY <1>6 DEF Send, TypeOK
  <2>4. CASE Finish(r)
    BY <1>6, <2>2, <2>3, <2>4, FinishTypes DEF Send, TypeOK
  <2>5. CASE \E place \in {"reserve", "send"}, e \in Endpoints :
                Follows(r, e) /\ Proceed(r, place, e)
    BY <1>6, <2>1, <2>2, <2>3, <2>5, ProceedTypes, NoRequestIsNone DEF Send, TypeOK
  <2> QED
    BY <1>6, <2>4, <2>5 DEF Send, Endpoints, Follows
<1>7. ASSUME NEW r \in Replicas, Abandon(r)
      PROVE  TypeOK'
  BY <1>7, FinishTypes DEF Abandon, TypeOK
<1>8. ASSUME NEW r \in Replicas, Crash(r)
      PROVE  TypeOK'
  BY <1>8, FinishTypes DEF Crash, TypeOK
<1> QED
  BY <1>1, <1>2, <1>3, <1>4, <1>5, <1>6, <1>7, <1>8 DEF Next

-----------------------------------------------------------------------------
(* Locks. *)

LEMMA SameHold ==
  ASSUME NEW r \in Replicas, locked'[r] = locked[r], request'[r] = request[r]
  PROVE  /\ Mine(r)' = Mine(r)
         /\ \A key : Holds(r, key)' <=> Holds(r, key)
  BY DEF Holds, Mine

LEMMA NoHoldNext ==
  ASSUME NEW r \in Replicas, locked'[r] = 0
  PROVE  \A key : ~Holds(r, key)'
  BY DEF Holds

\* A replica that holds a counter is in its transaction.
LEMMA HolderReserves ==
  ASSUME TypeOK, LockedHasRoom, NEW r \in Replicas, NEW key, Holds(r, key)
  PROVE  /\ pc[r] = "reserve" /\ locked[r] # 0 /\ locked[r] <= Len(Mine(r))
         /\ request[r] \in Requests /\ locked[r] \in 0..3
<1>1. locked[r] # 0
  BY NothingHeld
<1> QED
  BY <1>1, BusyHasRequest DEF TypeOK, LockedHasRoom

LEMMA ReservingShape ==
  ASSUME TypeOK, LockedHasRoom, NEW r \in Replicas, pc[r] = "reserve"
  PROVE  /\ request[r] \in Requests /\ locked[r] \in 0..3
         /\ Len(Mine(r)) \in {2, 3} /\ locked[r] <= Len(Mine(r))
<1>1. request[r] \in Requests /\ locked[r] \in 0..3
  BY BusyHasRequest DEF TypeOK
<1>2. Len(Mine(r)) \in {2, 3}
  BY <1>1, ReservationsShape DEF Mine
<1> QED
  BY <1>1, <1>2 DEF LockedHasRoom

\* At the commit a transaction holds all its counters.
LEMMA CompleteHoldsAll ==
  ASSUME TypeOK, LockedHasRoom, NEW r \in Replicas, pc[r] = "reserve", Complete(r),
         NEW key \in Charged(r, request[r])
  PROVE  Holds(r, key)
<1>1. /\ request[r] \in Requests /\ locked[r] \in 0..3
      /\ locked[r] <= Len(Mine(r)) /\ locked[r] = Len(Mine(r))
  BY ReservingShape DEF Complete
<1>2. Len(Mine(r)) = IF request[r].endpoint \in DOMAIN Profile[r].endpoint THEN 3 ELSE 2
  BY <1>1, ReservationsShape DEF Mine
<1> QED
  BY <1>1, <1>2, HeldKeys, ChargedKeys

\* Steps that take no counter keep the invariant, as long as the counters they
\* change are held by nobody afterwards.
LEMMA ReleaseKeepsRoom ==
  ASSUME TypeOK, LockedHasRoom,
         \A s \in Replicas : \/ locked'[s] = 0
                             \/ locked'[s] = locked[s] /\ request'[s] = request[s],
         \A key \in BudgetKeys :
            \/ used'[key] = used[key]
            \/ \A s \in Replicas : ~Holds(s, key)'
  PROVE  LockedHasRoom'
<1>1. \A s \in Replicas : \A key : Holds(s, key)' => Holds(s, key)
  BY SameHold, NoHoldNext
<1>2. ASSUME NEW s \in Replicas, locked'[s] # 0
      PROVE  locked'[s] <= Len(Mine(s)')
  BY <1>2, SameHold DEF LockedHasRoom
<1>3. ASSUME NEW s \in Replicas, NEW key \in BudgetKeys, Holds(s, key)'
      PROVE  Free(s, key)' /\ Grants(s, key)'
  <2>1. Holds(s, key) /\ used'[key] = used[key]
    BY <1>1, <1>3
  <2>2. Free(s, key) /\ Grants(s, key)
    BY <2>1 DEF LockedHasRoom
  <2> QED
    BY <1>1, <2>1, <2>2 DEF Free, Grants
<1> QED
  BY <1>2, <1>3 DEF LockedHasRoom

LEMMA CommitKeepsRoom ==
  ASSUME TypeOK, LockedHasRoom, NEW r \in Replicas, Commit(r)
  PROVE  LockedHasRoom'
<1>1. pc[r] = "reserve" /\ Complete(r) /\ locked'[r] = 0
  BY DEF Commit, CommitThen, TypeOK
<1>2. \A s \in Replicas \ {r} : locked'[s] = locked[s] /\ request'[s] = request[s]
  BY DEF Commit, CommitThen, Proceed, TypeOK
<1>3. ASSUME NEW key \in BudgetKeys, used'[key] # used[key], NEW s \in Replicas
      PROVE  ~Holds(s, key)'
  <2>1. key \in Charged(r, request[r])
    BY <1>3 DEF Commit, CommitThen, Spend
  <2>2. Free(r, key)
    BY <1>1, <2>1, CompleteHoldsAll DEF LockedHasRoom
  <2> QED
    BY <1>1, <1>2, <2>2, SameHold, NoHoldNext DEF Free
<1> QED
  BY <1>1, <1>2, <1>3, ReleaseKeepsRoom

LEMMA TakeKeepsRoom ==
  ASSUME TypeOK, LockedHasRoom, NEW r \in Replicas, TakeCounter(r)
  PROVE  LockedHasRoom'
<1>1. /\ pc[r] = "reserve" /\ ~Complete(r)
      /\ Free(r, Wanted(r)) /\ Grants(r, Wanted(r))
      /\ locked'[r] = locked[r] + 1
      /\ \A s \in Replicas \ {r} : locked'[s] = locked[s]
      /\ UNCHANGED <<used, request>>
  BY DEF TakeCounter, TypeOK
<1>2. /\ request[r] \in Requests /\ locked[r] \in 0..3
      /\ locked[r] < Len(Mine(r)) /\ Mine(r)' = Mine(r)
  BY <1>1, ReservingShape, WantedKey DEF Mine
<1>3. \A key : Holds(r, key)' <=> Holds(r, key) \/ key = Wanted(r)
  <2>1. 1..(locked[r] + 1) = 1..locked[r] \cup {locked[r] + 1}
    BY <1>2
  <2> QED
    BY <1>1, <1>2, <2>1 DEF Holds, Wanted
<1>4. \A s \in Replicas \ {r} : \A key : Holds(s, key)' <=> Holds(s, key)
  BY <1>1, SameHold
<1>5. ASSUME NEW s \in Replicas, locked'[s] # 0
      PROVE  locked'[s] <= Len(Mine(s)')
  BY <1>1, <1>2, <1>5 DEF LockedHasRoom, Mine
<1>6. ASSUME NEW s \in Replicas, NEW key \in BudgetKeys, Holds(s, key)'
      PROVE  Free(s, key)' /\ Grants(s, key)'
  <2>1. CASE s = r
    <3>1. Free(r, key) /\ Grants(r, key)
      BY <1>1, <1>3, <1>6, <2>1 DEF LockedHasRoom
    <3> QED
      BY <1>1, <1>4, <2>1, <3>1 DEF Free, Grants
  <2>2. CASE s # r
    <3>1. Holds(s, key) /\ Free(s, key) /\ Grants(s, key)
      BY <1>4, <1>6, <2>2 DEF LockedHasRoom
    <3>2. key # Wanted(r)
      BY <1>1, <2>2, <3>1 DEF Free
    <3> QED
      BY <1>1, <1>3, <1>4, <3>1, <3>2 DEF Free, Grants
  <2> QED
    BY <2>1, <2>2
<1> QED
  BY <1>5, <1>6 DEF LockedHasRoom

LEMMA RoomStep ==
  ASSUME TypeOK, LockedHasRoom, [Next]_vars
  PROVE  LockedHasRoom'
<1>1. CASE UNCHANGED vars
  BY <1>1, ReleaseKeepsRoom DEF vars
<1>2. ASSUME NEW r \in Replicas, Begin(r)
      PROVE  LockedHasRoom'
  BY <1>2, ReleaseKeepsRoom DEF Begin, TypeOK
<1>3. ASSUME NEW r \in Replicas, Exhaust(r)
      PROVE  LockedHasRoom'
  BY <1>3, ReleaseKeepsRoom DEF Exhaust, RefusedAt, Finish, TypeOK
<1>4. ASSUME NEW r \in Replicas, Send(r)
      PROVE  LockedHasRoom'
  <2>1. locked'[r] = 0
    BY <1>4 DEF Send, TypeOK
  <2>2. \A s \in Replicas \ {r} : locked'[s] = locked[s] /\ request'[s] = request[s]
    BY <1>4 DEF Send, Finish, Proceed, TypeOK
  <2> QED
    BY <1>4, <2>1, <2>2, ReleaseKeepsRoom DEF Send
<1>5. ASSUME NEW r \in Replicas, Abandon(r)
      PROVE  LockedHasRoom'
  BY <1>5, ReleaseKeepsRoom DEF Abandon, Finish, TypeOK
<1>6. ASSUME NEW r \in Replicas, Crash(r)
      PROVE  LockedHasRoom'
  BY <1>6, ReleaseKeepsRoom DEF Crash, Finish, TypeOK
<1> QED
  BY <1>1, <1>2, <1>3, <1>4, <1>5, <1>6, CommitKeepsRoom, TakeKeepsRoom DEF Next

LEMMA InitRoom == Init => LockedHasRoom
  BY DEF Init, LockedHasRoom, Holds

-----------------------------------------------------------------------------
(* Theorems. *)

\* The types of Budgets, and what a transaction that has rows can rely on:
\* the UPDATE's row lock in PostgresBudgetStore.reserve.
THEOREM Locking == Spec => [](TypeOK /\ LockedHasRoom)
<1>1. Init => TypeOK /\ LockedHasRoom
  BY InitTypes, InitRoom
<1>2. TypeOK /\ LockedHasRoom /\ [Next]_vars => (TypeOK /\ LockedHasRoom)'
  BY TypeStep, RoomStep
<1> QED
  BY <1>1, <1>2, PTL DEF Spec

\* The type invariant of Budgets.
THEOREM BudgetTypes == Spec => []TypeOK
  BY Locking, PTL

LEMMA IncompleteShape ==
  ASSUME TypeOK, LockedHasRoom, NEW r \in Replicas, pc[r] = "reserve", ~Complete(r)
  PROVE  locked[r] \in {0, 1, 2} /\ (locked[r] = 2 => Len(Mine(r)) = 3)
<1>1. /\ request[r] \in Requests /\ locked[r] \in 0..3 /\ Len(Mine(r)) \in {2, 3}
      /\ locked[r] <= Len(Mine(r)) /\ locked[r] # Len(Mine(r))
  BY ReservingShape DEF Complete
<1>2. CASE Len(Mine(r)) = 2
  BY <1>1, <1>2
<1>3. CASE Len(Mine(r)) = 3
  BY <1>1, <1>3
<1> QED
  BY <1>1, <1>2, <1>3

\* A replica waits for a row only while it has rows of an earlier scope, and
\* whoever has the row of an endpoint has all it wants.
LEMMA LocksAreOrdered ==
  ASSUME TypeOK, LockedHasRoom
  PROVE  NoDeadlock
<1> SUFFICES ASSUME NEW r \in Replicas, pc[r] = "reserve",
                    \A s \in Replicas : pc[s] = "reserve" => Waiting(s)
             PROVE  FALSE
  BY DEF NoDeadlock
<1>1. ASSUME NEW s \in Replicas, pc[s] = "reserve"
      PROVE  /\ request[s] \in Requests /\ locked[s] \in 0..3
             /\ locked[s] \in {0, 1, 2} /\ (locked[s] = 2 => Len(Mine(s)) = 3)
             /\ locked[s] <= Len(Mine(s))
  BY <1>1, ReservingShape, IncompleteShape DEF Waiting
<1>2. ASSUME NEW s \in Replicas, pc[s] = "reserve"
      PROVE  \E t \in Replicas : pc[t] = "reserve" /\ Holds(t, Wanted(s))
  <2>1. PICK t \in Replicas : Holds(t, Wanted(s))
    BY <1>2 DEF Waiting, Free
  <2> QED
    BY <2>1, HolderReserves
<1>3. ASSUME NEW s \in Replicas, pc[s] = "reserve", locked[s] = 2
      PROVE  FALSE
  <2>1. request[s] \in Requests /\ Len(Mine(s)) = 3
    BY <1>1, <1>3
  <2>2. Wanted(s) = EndpointKey(request[s])
    BY <1>3, <2>1, ReservationsShape DEF Wanted, Mine
  <2>3. PICK t \in Replicas : pc[t] = "reserve" /\ Holds(t, EndpointKey(request[s]))
    BY <1>2, <1>3, <2>2
  <2>4. /\ request[t] \in Requests /\ locked[t] \in 0..3
        /\ locked[t] \in {0, 1, 2} /\ locked[t] <= Len(Mine(t))
    BY <1>1, <2>3
  <2>5. locked[t] >= 3
    BY <2>1, <2>3, <2>4, HeldKeys, KeysOfARequest
  <2> QED
    BY <2>4, <2>5
<1>4. ASSUME NEW s \in Replicas, pc[s] = "reserve", locked[s] = 1
      PROVE  FALSE
  <2>1. request[s] \in Requests
    BY <1>1, <1>4
  <2>2. Wanted(s) = MemberKey(request[s])
    BY <1>4, <2>1, ReservationsShape DEF Wanted, Mine
  <2>3. PICK t \in Replicas : pc[t] = "reserve" /\ Holds(t, MemberKey(request[s]))
    BY <1>2, <1>4, <2>2
  <2>4. /\ request[t] \in Requests /\ locked[t] \in 0..3
        /\ locked[t] \in {0, 1, 2} /\ locked[t] <= Len(Mine(t))
    BY <1>1, <2>3
  <2>5. locked[t] >= 2
    BY <2>1, <2>3, <2>4, HeldKeys, KeysOfARequest
  <2>6. locked[t] = 2
    BY <2>4, <2>5
  <2> QED
    BY <1>3, <2>3, <2>6
<1>5. PICK t \in Replicas : pc[t] = "reserve" /\ Holds(t, Wanted(r))
  BY <1>2
<1>6. locked[t] # 0 /\ locked[t] \in {0, 1, 2}
  BY <1>1, <1>5, HolderReserves
<1>7. locked[t] = 1 \/ locked[t] = 2
  BY <1>6
<1> QED
  BY <1>3, <1>4, <1>5, <1>7

\* Replicas that reserve never wait for each other in a circle: rows are taken
\* app, member, endpoint (postgres.py:534).
THEOREM NoCircularWait == Spec => []NoDeadlock
<1>1. TypeOK /\ LockedHasRoom => NoDeadlock
  BY LocksAreOrdered
<1> QED
  BY <1>1, Locking, PTL

LEMMA LimitStep ==
  ASSUME LimitsArePositive, TypeOK, LockedHasRoom, LimitHolds, [Next]_vars
  PROVE  LimitHolds'
<1>1. CASE UNCHANGED used
  BY <1>1 DEF LimitHolds
<1>2. ASSUME NEW r \in Replicas, Commit(r)
      PROVE  LimitHolds'
  <2>1. pc[r] = "reserve" /\ Complete(r) /\ used' = Spend(used, Charged(r, request[r]))
    BY <1>2 DEF Commit, CommitThen
  <2>2. request[r] \in Requests
    BY <2>1, ReservingShape
  <2>3. ASSUME NEW key \in BudgetKeys, used'[key] # 0
        PROVE  \E s \in Replicas : Bounds(s, key) /\ used'[key] <= LimitOf(s, key)
    <3>1. CASE key \in Charged(r, request[r])
      <4>1. Grants(r, key)
        BY <2>1, <3>1, CompleteHoldsAll DEF LockedHasRoom
      <4>2. used[key] \in Nat /\ used'[key] = used[key] + 1
        BY <2>1, <3>1 DEF Spend, TypeOK
      <4>3. Bounds(r, key) /\ LimitOf(r, key) \in Nat /\ LimitOf(r, key) >= 1
        BY <2>2, <3>1, LimitsOfCharged DEF LimitsArePositive
      <4> QED
        BY <4>1, <4>2, <4>3 DEF Grants
    <3>2. CASE key \notin Charged(r, request[r])
      BY <2>1, <2>3, <3>2 DEF Spend, LimitHolds
    <3> QED
      BY <3>1, <3>2
  <2> QED
    BY <2>3 DEF LimitHolds
<1> QED
  BY <1>1, <1>2
  DEF Next, vars, Begin, TakeCounter, Exhaust, RefusedAt, Send, Abandon, Crash

\* Where every limit allows one request, no counter passes a limit that some
\* replica holds it to, whatever the replicas do and wherever they die.
THEOREM BudgetsHold == LimitsArePositive /\ Spec => []LimitHolds
<1> SUFFICES ASSUME LimitsArePositive PROVE Spec => []LimitHolds
  OBVIOUS
<1>1. Init => LimitHolds
  BY DEF Init, Zero, LimitHolds
<1>2. TypeOK /\ LockedHasRoom /\ LimitHolds /\ [Next]_vars => LimitHolds'
  BY LimitStep
<1> QED
  BY <1>1, <1>2, Locking, PTL DEF Spec

-----------------------------------------------------------------------------
(* Every request that leaves was reserved. *)

\* Reserved and request are those of a replica that keeps its place.
LEMMA SameReserved ==
  ASSUME NEW s \in Replicas, pc'[s] = pc[s], request'[s] = request[s]
  PROVE  Reserved(s)' = Reserved(s)
  BY DEF Reserved

\* A step of one replica changes what that replica has outstanding, as long as
\* what it has reserved stays with the same app, identity and day.
LEMMA OutstandingOfOne ==
  ASSUME NEW r \in Replicas, NEW key,
         \A s \in Replicas \ {r} : pc'[s] = pc[s] /\ request'[s] = request[s],
         \A e \in Reserved(r)' :
            [request'[r] EXCEPT !.endpoint = e] = [request[r] EXCEPT !.endpoint = e]
  PROVE  \A o \in Replicas \X Endpoints :
            o \in Outstanding(key)' <=>
               /\ o[2] \in IF o[1] = r THEN Reserved(r)' ELSE Reserved(o[1])
               /\ key \in Charged(o[1], [request[o[1]] EXCEPT !.endpoint = o[2]])
<1> SUFFICES ASSUME NEW s \in Replicas, NEW e \in Endpoints
             PROVE  <<s, e>> \in Outstanding(key)' <=>
                       /\ e \in IF s = r THEN Reserved(r)' ELSE Reserved(s)
                       /\ key \in Charged(s, [request[s] EXCEPT !.endpoint = e])
  OBVIOUS
<1>1. <<s, e>> \in Outstanding(key)' <=>
         e \in Reserved(s)' /\ key \in Charged(s, [request'[s] EXCEPT !.endpoint = e])
  BY DEF Outstanding, Charged, Reservations, AppKey, MemberKey, EndpointKey
<1>2. CASE s = r
  BY <1>1, <1>2
<1>3. CASE s # r
  BY <1>1, <1>3, SameReserved
<1> QED
  BY <1>2, <1>3

\* Fewer requests outstanding, with nothing spent and nothing sent.
LEMMA NothingMoreIsOwed ==
  ASSUME TypeOK, OutstandingIsPaid, UNCHANGED <<used, sent>>,
         NEW r \in Replicas,
         \A s \in Replicas \ {r} : pc'[s] = pc[s] /\ request'[s] = request[s],
         Reserved(r)' \subseteq Reserved(r),
         \A e \in Reserved(r)' :
            [request'[r] EXCEPT !.endpoint = e] = [request[r] EXCEPT !.endpoint = e]
  PROVE  OutstandingIsPaid'
<1> SUFFICES ASSUME NEW key \in BudgetKeys
             PROVE  /\ IsFiniteSet(Outstanding(key)')
                    /\ sent[key] + Cardinality(Outstanding(key)') <= used[key]
  BY DEF OutstandingIsPaid
<1>1. IsFiniteSet(Outstanding(key)) /\ sent[key] + Cardinality(Outstanding(key)) <= used[key]
  BY DEF OutstandingIsPaid
<1>2. Outstanding(key)' \subseteq Outstanding(key)
  <2> SUFFICES ASSUME NEW o \in Replicas \X Endpoints, o \in Outstanding(key)'
               PROVE  o \in Outstanding(key)
    BY DEF Outstanding
  <2>1. /\ o[2] \in Reserved(o[1])
        /\ key \in Charged(o[1], [request[o[1]] EXCEPT !.endpoint = o[2]])
    BY OutstandingOfOne
  <2> QED
    BY <2>1 DEF Outstanding
<1>3. /\ IsFiniteSet(Outstanding(key)')
      /\ Cardinality(Outstanding(key)') <= Cardinality(Outstanding(key))
  BY <1>1, <1>2, FS_Subset
<1>4. /\ Cardinality(Outstanding(key)') \in Nat /\ Cardinality(Outstanding(key)) \in Nat
      /\ sent[key] \in Nat /\ used[key] \in Nat
  BY <1>1, <1>3, FS_CardinalityType DEF TypeOK
<1> QED
  BY <1>1, <1>3, <1>4

\* The commit adds one outstanding request to each counter it spends on.
LEMMA CommitIsOwed ==
  ASSUME TypeOK, LockedHasRoom, OutstandingIsPaid, NEW r \in Replicas, Commit(r)
  PROVE  OutstandingIsPaid'
<1> DEFINE e == request[r].endpoint
<1>1. /\ pc[r] = "reserve" /\ request[r] \in Requests /\ e \in Endpoints
      /\ used' = Spend(used, Charged(r, request[r])) /\ UNCHANGED sent
  BY ReservingShape DEF Commit, CommitThen, Requests
<1>2. \A s \in Replicas \ {r} : pc'[s] = pc[s] /\ request'[s] = request[s]
  BY DEF Commit, CommitThen, Proceed, TypeOK
<1>3. /\ \/ e = "register" /\ pc'[r] = "reserve" /\ request'[r].endpoint = "upload"
         \/ e = "upload" /\ pc'[r] = "send" /\ request'[r].endpoint = "register"
         \/ e \notin {"register", "upload"} /\ pc'[r] = "send" /\ request'[r].endpoint = e
      /\ request'[r] = [request[r] EXCEPT !.endpoint = request'[r].endpoint]
  BY <1>1 DEF Commit, CommitThen, Proceed, TypeOK, Requests
<1>4. Reserved(r)' = Reserved(r) \cup {e}
  <2>1. CASE e = "register"
    BY <1>1, <1>3, <2>1 DEF Reserved
  <2>2. CASE e = "upload"
    BY <1>1, <1>3, <2>2 DEF Reserved
  <2>3. CASE e \notin {"register", "upload"}
    BY <1>1, <1>3, <2>3 DEF Reserved
  <2> QED
    BY <2>1, <2>2, <2>3
<1>5. \A d : [request'[r] EXCEPT !.endpoint = d] = [request[r] EXCEPT !.endpoint = d]
  BY <1>1, <1>3 DEF Requests
<1>6. [request[r] EXCEPT !.endpoint = e] = request[r]
  BY <1>1 DEF Requests
<1> SUFFICES ASSUME NEW key \in BudgetKeys
             PROVE  /\ IsFiniteSet(Outstanding(key)')
                    /\ sent[key] + Cardinality(Outstanding(key)') <= used'[key]
  BY <1>1 DEF OutstandingIsPaid
<1>7. \A o \in Replicas \X Endpoints :
         o \in Outstanding(key)' <=>
            \/ o \in Outstanding(key)
            \/ o = <<r, e>> /\ key \in Charged(r, request[r])
  <2> SUFFICES ASSUME NEW s \in Replicas, NEW d \in Endpoints
               PROVE  <<s, d>> \in Outstanding(key)' <=>
                         \/ <<s, d>> \in Outstanding(key)
                         \/ s = r /\ d = e /\ key \in Charged(r, request[r])
    OBVIOUS
  <2>1. <<s, d>> \in Outstanding(key)' <=>
           /\ d \in IF s = r THEN Reserved(r)' ELSE Reserved(s)
           /\ key \in Charged(s, [request[s] EXCEPT !.endpoint = d])
    <3> HIDE DEF e
    <3> QED
      BY <1>2, <1>5, OutstandingOfOne
  <2>2. <<s, d>> \in Outstanding(key) <=>
           d \in Reserved(s) /\ key \in Charged(s, [request[s] EXCEPT !.endpoint = d])
    BY DEF Outstanding
  <2>3. CASE s = r
    BY <1>4, <1>6, <2>1, <2>2, <2>3
  <2>4. CASE s # r
    BY <2>1, <2>2, <2>4
  <2> QED
    BY <2>3, <2>4
<1>8. /\ IsFiniteSet(Outstanding(key)) /\ Cardinality(Outstanding(key)) \in Nat
      /\ sent[key] + Cardinality(Outstanding(key)) <= used[key]
      /\ sent[key] \in Nat /\ used[key] \in Nat
  BY FS_CardinalityType DEF OutstandingIsPaid, TypeOK
<1>9. CASE key \in Charged(r, request[r])
  <2> DEFINE More == Outstanding(key) \cup {<<r, e>>}
  <2>1. Outstanding(key)' = More
    BY <1>1, <1>7, <1>9 DEF Outstanding
  <2>2. /\ IsFiniteSet(More)
        /\ Cardinality(More) = IF <<r, e>> \in Outstanding(key)
                               THEN Cardinality(Outstanding(key))
                               ELSE Cardinality(Outstanding(key)) + 1
    BY <1>8, FS_AddElement
  <2>3. /\ IsFiniteSet(Outstanding(key)') /\ Cardinality(Outstanding(key)') \in Nat
        /\ Cardinality(Outstanding(key)') <= Cardinality(Outstanding(key)) + 1
    <3> HIDE DEF More
    <3> QED
      BY <1>8, <2>1, <2>2
  <2>4. used'[key] = used[key] + 1
    BY <1>1, <1>9 DEF Spend
  <2> QED
    BY <1>8, <2>3, <2>4
<1>10. CASE key \notin Charged(r, request[r])
  <2>1. Outstanding(key)' = Outstanding(key)
    BY <1>7, <1>10 DEF Outstanding
  <2>2. used'[key] = used[key]
    BY <1>1, <1>10 DEF Spend
  <2> QED
    BY <1>8, <2>1, <2>2
<1> QED
  BY <1>9, <1>10

\* What leaves was outstanding on each of its counters.
LEMMA SendWasOwed ==
  ASSUME TypeOK, OutstandingIsPaid, NEW r \in Replicas, Send(r)
  PROVE  OutstandingIsPaid'
<1> DEFINE e == request[r].endpoint
<1>1. /\ pc[r] = "send" /\ request[r] \in Requests /\ e \in Endpoints
      /\ sent' = Spend(sent, Charged(r, request[r])) /\ UNCHANGED used
  BY BusyHasRequest DEF Send, Requests
<1>2. \A s \in Replicas \ {r} : pc'[s] = pc[s] /\ request'[s] = request[s]
  BY DEF Send, Finish, Proceed, TypeOK
<1>3. \/ pc'[r] = "idle"
      \/ /\ e = "register" /\ pc'[r] = "send" /\ request'[r].endpoint = "upload"
         /\ request'[r] = [request[r] EXCEPT !.endpoint = "upload"]
      \/ /\ e = "upload" /\ pc'[r] = "reserve" /\ request'[r].endpoint = "create"
  BY <1>1 DEF Send, Finish, Proceed, TypeOK, Requests
<1>4. /\ e \in Reserved(r) /\ Reserved(r)' \subseteq Reserved(r) \ {e}
      /\ \A d \in Reserved(r)' :
            [request'[r] EXCEPT !.endpoint = d] = [request[r] EXCEPT !.endpoint = d]
  <2>1. e \in Reserved(r)
    BY <1>1 DEF Reserved
  <2>2. CASE pc'[r] = "idle"
    BY <2>1, <2>2 DEF Reserved
  <2>3. CASE /\ e = "register" /\ pc'[r] = "send" /\ request'[r].endpoint = "upload"
             /\ request'[r] = [request[r] EXCEPT !.endpoint = "upload"]
    <3>1. Reserved(r) = {"register", "upload"} /\ Reserved(r)' = {"upload"}
      BY <1>1, <2>3 DEF Reserved
    <3> QED
      BY <1>1, <2>3, <3>1 DEF Requests
  <2>4. CASE e = "upload" /\ pc'[r] = "reserve" /\ request'[r].endpoint = "create"
    <3>1. Reserved(r)' = {}
      BY <2>4 DEF Reserved
    <3> QED
      BY <2>1, <3>1
  <2> QED
    BY <1>3, <2>2, <2>3, <2>4
<1>5. [request[r] EXCEPT !.endpoint = e] = request[r]
  BY <1>1 DEF Requests
<1> SUFFICES ASSUME NEW key \in BudgetKeys
             PROVE  /\ IsFiniteSet(Outstanding(key)')
                    /\ sent'[key] + Cardinality(Outstanding(key)') <= used[key]
  BY <1>1 DEF OutstandingIsPaid
<1>6. Outstanding(key)' \subseteq Outstanding(key) \ {<<r, e>>}
  <2> SUFFICES ASSUME NEW s \in Replicas, NEW d \in Endpoints, <<s, d>> \in Outstanding(key)'
               PROVE  <<s, d>> \in Outstanding(key) /\ ~(s = r /\ d = e)
    BY DEF Outstanding
  <2>1. /\ d \in IF s = r THEN Reserved(r)' ELSE Reserved(s)
        /\ key \in Charged(s, [request[s] EXCEPT !.endpoint = d])
    <3> HIDE DEF e
    <3> QED
      BY <1>2, <1>4, OutstandingOfOne
  <2> QED
    BY <1>4, <2>1 DEF Outstanding
<1>7. /\ IsFiniteSet(Outstanding(key)) /\ Cardinality(Outstanding(key)) \in Nat
      /\ sent[key] + Cardinality(Outstanding(key)) <= used[key]
      /\ sent[key] \in Nat /\ used[key] \in Nat
  BY FS_CardinalityType DEF OutstandingIsPaid, TypeOK
<1> DEFINE Left == Outstanding(key) \ {<<r, e>>}
<1>8. /\ IsFiniteSet(Left)
      /\ Cardinality(Left) = IF <<r, e>> \in Outstanding(key)
                             THEN Cardinality(Outstanding(key)) - 1
                             ELSE Cardinality(Outstanding(key))
  BY <1>7, FS_RemoveElement
<1>9. /\ IsFiniteSet(Outstanding(key)') /\ Cardinality(Outstanding(key)') \in Nat
      /\ Cardinality(Outstanding(key)') <= Cardinality(Left) /\ Cardinality(Left) \in Nat
  <2> HIDE DEF Left
  <2>1. Outstanding(key)' \subseteq Left
    BY <1>6 DEF Left
  <2> QED
    BY <1>8, <2>1, FS_Subset, FS_CardinalityType
<1>10. CASE key \in Charged(r, request[r])
  <2>1. <<r, e>> \in Outstanding(key)
    BY <1>1, <1>4, <1>5, <1>10 DEF Outstanding
  <2>2. sent'[key] = sent[key] + 1
    BY <1>1, <1>10 DEF Spend
  <2> HIDE DEF Left, e
  <2> QED
    BY <1>7, <1>8, <1>9, <2>1, <2>2
<1>11. CASE key \notin Charged(r, request[r])
  <2>1. sent'[key] = sent[key]
    BY <1>1, <1>11 DEF Spend
  <2> HIDE DEF Left, e
  <2> QED
    BY <1>7, <1>8, <1>9, <2>1
<1> QED
  BY <1>10, <1>11

LEMMA PaidStep ==
  ASSUME TypeOK, LockedHasRoom, OutstandingIsPaid, [Next]_vars
  PROVE  OutstandingIsPaid'
<1>1. CASE UNCHANGED <<used, sent, pc, request>>
  <2>1. \A key : Outstanding(key)' = Outstanding(key)
    BY <1>1 DEF Outstanding, Reserved
  <2> QED
    BY <1>1, <2>1 DEF OutstandingIsPaid
<1>2. ASSUME NEW r \in Replicas, Begin(r)
      PROVE  OutstandingIsPaid'
  <2>1. /\ pc'[r] = "reserve" /\ request'[r].endpoint # "upload"
        /\ \A s \in Replicas \ {r} : pc'[s] = pc[s] /\ request'[s] = request[s]
    BY <1>2 DEF Begin, TypeOK
  <2>2. Reserved(r)' = {}
    BY <2>1 DEF Reserved
  <2> QED
    BY <1>2, <2>1, <2>2, NothingMoreIsOwed DEF Begin
<1>3. ASSUME NEW r \in Replicas, Finish(r), UNCHANGED <<used, sent>>
      PROVE  OutstandingIsPaid'
  <2>1. /\ pc'[r] = "idle"
        /\ \A s \in Replicas \ {r} : pc'[s] = pc[s] /\ request'[s] = request[s]
    BY <1>3 DEF Finish, TypeOK
  <2>2. Reserved(r)' = {}
    BY <2>1 DEF Reserved
  <2> QED
    BY <1>3, <2>1, <2>2, NothingMoreIsOwed
<1> QED
  BY <1>1, <1>2, <1>3, CommitIsOwed, SendWasOwed
  DEF Next, vars, TakeCounter, Exhaust, RefusedAt, Abandon, Crash

\* What left and what is still to leave never exceeds what was reserved, on any
\* counter, whoever died in between (QuotaLimiter.reserve, client.publish).
THEOREM ReservationsArePaid == Spec => []OutstandingIsPaid
<1>1. Init => OutstandingIsPaid
  <2> SUFFICES ASSUME Init, NEW key \in BudgetKeys
               PROVE  /\ IsFiniteSet(Outstanding(key))
                      /\ sent[key] + Cardinality(Outstanding(key)) <= used[key]
    BY DEF OutstandingIsPaid
  <2>1. \A r \in Replicas : Reserved(r) = {}
    BY DEF Init, Reserved
  <2>2. Outstanding(key) = {}
    BY <2>1 DEF Outstanding
  <2>3. sent[key] = 0 /\ used[key] = 0
    BY DEF Init, Zero
  <2> QED
    BY <2>2, <2>3, FS_EmptySet
<1>2. TypeOK /\ LockedHasRoom /\ OutstandingIsPaid /\ [Next]_vars => OutstandingIsPaid'
  BY PaidStep
<1> QED
  BY <1>1, <1>2, Locking, PTL DEF Spec

\* No request leaves that was not reserved on each of its counters (limits.py:5):
\* a publication with media is three requests, and each of them was paid for.
THEOREM RequestsArePaid == Spec => []RequestsAreCounted
<1>1. TypeOK /\ OutstandingIsPaid => RequestsAreCounted
  <2> SUFFICES ASSUME TypeOK, OutstandingIsPaid, NEW key \in BudgetKeys
               PROVE  sent[key] <= used[key]
    BY DEF RequestsAreCounted
  <2>1. /\ Cardinality(Outstanding(key)) \in Nat /\ sent[key] \in Nat /\ used[key] \in Nat
        /\ sent[key] + Cardinality(Outstanding(key)) <= used[key]
    BY FS_CardinalityType DEF TypeOK, OutstandingIsPaid
  <2> QED
    BY <2>1
<1> QED
  BY <1>1, BudgetTypes, ReservationsArePaid, PTL

-----------------------------------------------------------------------------
(* Reservations are indivisible. *)

\* Quota counts what Budgets counts.
LEMMA SameCounters ==
  /\ Promise!BudgetKeys = BudgetKeys
  /\ Promise!NoKey = NoKey
  /\ Promise!Requests = Requests
  /\ \A r \in Replicas, q \in Requests : /\ Promise!Reservations(r, q) = Reservations(r, q)
                                         /\ Promise!Charged(r, q) = Charged(r, q)
  /\ \A r \in Replicas : \A key : Promise!LimitOf(r, key) = LimitOf(r, key)
  /\ \A counts, keys : Promise!Spend(counts, keys) = Spend(counts, keys)
<1>1. Promise!BudgetKeys = BudgetKeys
  BY DEF Promise!BudgetKeys, BudgetKeys, Promise!Endpoints, Endpoints,
         Promise!Identities, Identities
<1>2. Promise!NoKey = NoKey
  BY DEF Promise!NoKey, NoKey
<1>3. Promise!Requests = Requests
  BY DEF Promise!Requests, Requests, Promise!Endpoints, Endpoints,
         Promise!Identities, Identities
<1>4. \A r, q : Promise!Reservations(r, q) = Reservations(r, q)
  BY DEF Promise!Reservations, Reservations, Promise!AppKey, AppKey,
         Promise!MemberKey, MemberKey, Promise!EndpointKey, EndpointKey
<1>5. \A r, q : Promise!Charged(r, q) = Charged(r, q)
  BY <1>4 DEF Promise!Charged, Charged
<1>6. \A r, key : Promise!LimitOf(r, key) = LimitOf(r, key)
  BY DEF Promise!LimitOf, LimitOf
<1>7. \A counts, keys : Promise!Spend(counts, keys) = Spend(counts, keys)
  BY <1>1 DEF Promise!Spend, Spend
<1> QED
  BY <1>1, <1>2, <1>3, <1>4, <1>5, <1>6, <1>7

\* A counter that grants has room, where limits are positive.
LEMMA GrantsFit ==
  ASSUME LimitsArePositive, TypeOK, NEW r \in Replicas, NEW q \in Requests,
         NEW key \in Charged(r, q)
  PROVE  Grants(r, key) <=> Promise!Fits(r, key)
<1>1. key \in BudgetKeys /\ LimitOf(r, key) \in Nat /\ LimitOf(r, key) >= 1
  BY LimitsOfCharged DEF LimitsArePositive
<1>2. used[key] \in Nat
  BY <1>1 DEF TypeOK
<1> QED
  BY <1>1, <1>2, SameCounters DEF Grants, Promise!Fits

LEMMA CommitReserves ==
  ASSUME LimitsArePositive, TypeOK, LockedHasRoom, NEW r \in Replicas, Commit(r)
  PROVE  Promise!QuotaNext
<1>1. /\ pc[r] = "reserve" /\ Complete(r)
      /\ used' = Spend(used, Charged(r, request[r])) /\ UNCHANGED exhausted
  BY DEF Commit, CommitThen
<1>2. request[r] \in Requests
  BY <1>1, ReservingShape
<1>3. \A key \in Charged(r, request[r]) : Promise!Fits(r, key)
  BY <1>1, <1>2, CompleteHoldsAll, GrantsFit, LimitsOfCharged DEF LockedHasRoom
<1>4. Promise!Reserve(r, request[r])
  BY <1>1, <1>2, <1>3, SameCounters DEF Promise!Reserve
<1> QED
  BY <1>2, <1>4, SameCounters DEF Promise!QuotaNext

LEMMA ExhaustRefuses ==
  ASSUME LimitsArePositive, TypeOK, LockedHasRoom, NEW r \in Replicas, Exhaust(r)
  PROVE  Promise!QuotaNext
<1>1. /\ pc[r] = "reserve" /\ ~Complete(r) /\ ~Grants(r, Wanted(r))
      /\ exhausted' = [exhausted EXCEPT ![r] = Wanted(r)] /\ UNCHANGED used
  BY DEF Exhaust, RefusedAt
<1>2. /\ request[r] \in Requests /\ locked[r] \in 0..3 /\ locked[r] <= Len(Mine(r))
      /\ Len(Mine(r)) \in {2, 3}
  BY <1>1, ReservingShape
<1>3. /\ locked[r] + 1 \in DOMAIN Mine(r) /\ locked[r] < Len(Mine(r))
      /\ Wanted(r) \in Charged(r, request[r])
  BY <1>1, <1>2, WantedKey
<1>4. ~Promise!Fits(r, Wanted(r))
  BY <1>1, <1>2, <1>3, GrantsFit
<1>5. ASSUME NEW j \in 1..locked[r]
      PROVE  Promise!Fits(r, Mine(r)[j])
  <2>1. Mine(r)[j] \in Charged(r, request[r])
    BY <1>2, ReservationsShape DEF Mine, Charged
  <2>2. Holds(r, Mine(r)[j])
    BY DEF Holds
  <2> QED
    BY <1>2, <2>1, <2>2, GrantsFit, LimitsOfCharged DEF LockedHasRoom
<1>6. Promise!Refuse(r, request[r])
  <2> DEFINE i == locked[r] + 1
  <2>1. Promise!Reservations(r, request[r]) = Mine(r)
    BY <1>2, SameCounters DEF Mine
  <2>2. i \in DOMAIN Mine(r) /\ Mine(r)[i] = Wanted(r)
    BY <1>3 DEF Wanted
  <2>3. i - 1 = locked[r]
    BY <1>2
  <2>4. \A j \in 1..(i - 1) : Promise!Fits(r, Mine(r)[j])
    BY <1>5, <2>3
  <2> HIDE DEF i
  <2> QED
    BY <1>1, <1>4, <2>1, <2>2, <2>4 DEF Promise!Refuse
<1> QED
  BY <1>2, <1>6, SameCounters DEF Promise!QuotaNext

\* Where every limit allows one request, the transactions of Postgres have the
\* effect of indivisible reservations, all or nothing, and a refusal names the
\* first counter without room, as in InMemoryBudgetStore.reserve.
THEOREM ReservationsAreIndivisible == LimitsArePositive /\ Spec => ReservesAtOnce
<1> SUFFICES ASSUME LimitsArePositive PROVE Spec => ReservesAtOnce
  OBVIOUS
<1>1. Init => Promise!QuotaInit
  BY SameCounters DEF Init, Zero, Promise!QuotaInit
<1>2. TypeOK /\ LockedHasRoom /\ [Next]_vars => [Promise!QuotaNext]_(Promise!quotaVars)
  <2> SUFFICES ASSUME TypeOK, LockedHasRoom, [Next]_vars
               PROVE  Promise!QuotaNext \/ UNCHANGED <<used, exhausted>>
    BY DEF Promise!quotaVars
  <2>1. ASSUME NEW r \in Replicas, Begin(r)
        PROVE  Promise!QuotaNext
    BY <2>1, SameCounters DEF Begin, Promise!Forget, Promise!QuotaNext
  <2> QED
    BY <2>1, CommitReserves, ExhaustRefuses
    DEF Next, vars, TakeCounter, Send, Abandon, Crash
<1> QED
  BY <1>1, <1>2, Locking, PTL DEF Spec, ReservesAtOnce, Promise!QuotaSpec
=============================================================================
