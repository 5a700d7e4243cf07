------------------------------ MODULE Budgets -------------------------------
(***************************************************************************)
(* Request budgets as Postgres keeps them (PostgresBudgetStore.reserve)    *)
(* and as the client spends them (client.publish, get_post, delete_post).  *)
(* A reservation is one transaction that takes its counters one by one and *)
(* holds each row until it ends. Replicas, whose profiles may differ, do   *)
(* this at once and may die anywhere.                                      *)
(***************************************************************************)
EXTENDS Counters, FiniteSets

VARIABLES
    used,       \* request_budgets.used, committed; 0: no row
    locked,     \* how many of its counters the transaction of a replica has
    pc,         \* "idle", "reserve" (in the transaction) or "send"
    request,    \* the counted request a replica is at
    exhausted,  \* the counter its last reservation was refused by
    sent        \* requests that left, by what they are charged to

vars == <<used, locked, pc, request, exhausted, sent>>

NoRequest == [endpoint |-> "none"]

TypeOK ==
    /\ used \in [BudgetKeys -> Nat]
    /\ locked \in [Replicas -> 0..3]
    /\ pc \in [Replicas -> {"idle", "reserve", "send"}]
    /\ request \in [Replicas -> Requests \cup {NoRequest}]
    /\ exhausted \in [Replicas -> BudgetKeys \cup {NoKey}]
    /\ sent \in [BudgetKeys -> Nat]
    /\ \A r \in Replicas :
          /\ request[r] = NoRequest <=> pc[r] = "idle"
          /\ locked[r] # 0 => pc[r] = "reserve"

Zero == [key \in BudgetKeys |-> 0]

Init ==
    /\ used = Zero
    /\ locked = [r \in Replicas |-> 0]
    /\ pc = [r \in Replicas |-> "idle"]
    /\ request = [r \in Replicas |-> NoRequest]
    /\ exhausted = [r \in Replicas |-> NoKey]
    /\ sent = Zero

-----------------------------------------------------------------------------
\* The reservations of the request a replica is at, and its place in them.
Mine(r)    == Reservations(r, request[r])
Wanted(r)  == Mine(r)[locked[r] + 1]
Holds(r, key) == \E i \in 1..locked[r] : Mine(r)[i] = key
Complete(r) == locked[r] = Len(Mine(r))

Free(r, key) == \A s \in Replicas \ {r} : ~Holds(s, key)

\* On to reserve, or to send, a request of the same publication; or be done.
Proceed(r, place, endpoint) ==
    /\ pc' = [pc EXCEPT ![r] = place]
    /\ request' = [request EXCEPT ![r].endpoint = endpoint]

Finish(r) ==
    /\ pc' = [pc EXCEPT ![r] = "idle"]
    /\ request' = [request EXCEPT ![r] = NoRequest]

\* A publication with or without media, a read or a delete, under the `now` of
\* its tick. Media is registered and uploaded before the post is created.
Begin(r) ==
    /\ pc[r] = "idle"
    /\ \E q \in Requests :
          /\ q.endpoint # "upload"
          /\ request' = [request EXCEPT ![r] = q]
    /\ pc' = [pc EXCEPT ![r] = "reserve"]
    /\ exhausted' = [exhausted EXCEPT ![r] = NoKey]
    /\ UNCHANGED <<used, locked, sent>>

\* Mutant: the counter is read, and compared with the limit inclusively.
GrantsOneMore(r, key) == used[key] <= LimitOf(r, key)

\* The upsert answers a row: the INSERT of a first reservation, which looks at
\* no limit, or the UPDATE of a later one.
Grants(r, key) == used[key] = 0 \/ used[key] < LimitOf(r, key)

\* Mutant: a plain SELECT before the write, that waits for nobody.
TakeUnlocked(r) ==
    /\ pc[r] = "reserve"
    /\ ~Complete(r)
    /\ Grants(r, Wanted(r))
    /\ locked' = [locked EXCEPT ![r] = @ + 1]
    /\ UNCHANGED <<used, pc, request, exhausted, sent>>

\* The upsert of the next counter waits for the transaction that has its row.
TakeCounter(r) ==
    /\ pc[r] = "reserve"
    /\ ~Complete(r)
    /\ Free(r, Wanted(r))
    /\ Grants(r, Wanted(r))
    /\ locked' = [locked EXCEPT ![r] = @ + 1]
    /\ UNCHANGED <<used, pc, request, exhausted, sent>>

RefusedAt(r) ==
    /\ pc[r] = "reserve"
    /\ ~Complete(r)
    /\ Free(r, Wanted(r))
    /\ ~Grants(r, Wanted(r))
    /\ exhausted' = [exhausted EXCEPT ![r] = Wanted(r)]
    /\ Finish(r)

\* Mutant: no transaction, so that a refusal leaves what it has spent.
ExhaustSpent(r) ==
    /\ RefusedAt(r)
    /\ used' = Spend(used, {key \in BudgetKeys : Holds(r, key)})
    /\ locked' = [locked EXCEPT ![r] = 0]
    /\ UNCHANGED sent

\* Mutant: the job waits for the budget to refill.
ExhaustAndWait(r) ==
    /\ pc[r] = "reserve"
    /\ ~Complete(r)
    /\ Free(r, Wanted(r))
    /\ ~Grants(r, Wanted(r))
    /\ exhausted' = [exhausted EXCEPT ![r] = Wanted(r)]
    /\ locked' = [locked EXCEPT ![r] = 0]
    /\ UNCHANGED <<used, pc, request, sent>>

\* QuotaExhausted: the transaction rolls back and the caller gets QuotaDeferred.
Exhaust(r) ==
    /\ RefusedAt(r)
    /\ locked' = [locked EXCEPT ![r] = 0]
    /\ UNCHANGED <<used, sent>>

CommitThen(r, afterRegister) ==
    /\ pc[r] = "reserve"
    /\ Complete(r)
    /\ used' = Spend(used, Charged(r, request[r]))
    /\ locked' = [locked EXCEPT ![r] = 0]
    /\ CASE request[r].endpoint = "register" -> Proceed(r, afterRegister, "upload")
         [] request[r].endpoint = "upload"   -> Proceed(r, "send", "register")
         [] OTHER                            -> Proceed(r, "send", request[r].endpoint)
    /\ UNCHANGED <<exhausted, sent>>

\* Mutant: a publication with media is counted as one request.
CommitOnce(r) == CommitThen(r, "send")

\* The transaction commits. Both media requests are reserved before either
\* leaves, the create request only after them.
Commit(r) == CommitThen(r, "reserve")

\* A counted request leaves, whatever becomes of it; a success goes on.
Send(r) ==
    /\ pc[r] = "send"
    /\ sent' = Spend(sent, Charged(r, request[r]))
    /\ \/ Finish(r)
       \/ request[r].endpoint = "register" /\ Proceed(r, "send", "upload")
       \/ request[r].endpoint = "upload" /\ Proceed(r, "reserve", "create")
    /\ UNCHANGED <<used, locked, exhausted>>

\* The upload address is refused, or the asset cannot be read: no PUT.
Abandon(r) ==
    /\ pc[r] = "send"
    /\ request[r].endpoint = "upload"
    /\ Finish(r)
    /\ UNCHANGED <<used, locked, exhausted, sent>>

\* Mutant: the rows of a dead connection stay locked.
CrashKeepsLocks(r) ==
    /\ pc[r] # "idle"
    /\ Finish(r)
    /\ UNCHANGED <<used, locked, exhausted, sent>>

\* The process or its connection dies, and Postgres rolls back. What was
\* reserved before stays spent.
Crash(r) ==
    /\ pc[r] # "idle"
    /\ locked' = [locked EXCEPT ![r] = 0]
    /\ Finish(r)
    /\ UNCHANGED <<used, exhausted, sent>>

Next ==
    \E r \in Replicas :
        \/ Begin(r)
        \/ TakeCounter(r)
        \/ Exhaust(r)
        \/ Commit(r)
        \/ Send(r)
        \/ Abandon(r)
        \/ Crash(r)

Spec == Init /\ [][Next]_vars

\* A replica that has begun goes on, and Postgres hands a row to those that
\* wait for it in turn. Nobody has to begin.
Fairness ==
    \A r \in Replicas :
        /\ SF_vars(TakeCounter(r) \/ Exhaust(r))
        /\ WF_vars(Commit(r))

FairSpec == Spec /\ Fairness

-----------------------------------------------------------------------------
\* Every profile allows at least one request.
LimitsArePositive ==
    \A r \in Replicas, key \in BudgetKeys : Bounds(r, key) => LimitOf(r, key) >= 1

\* No counter passes the limit that some replica holds it to, however their
\* transactions interleave and whoever dies (limits.py:11: "Restarting a job
\* grants no new quota").
LimitHolds ==
    \A key \in BudgetKeys :
        used[key] # 0 => \E r \in Replicas : Bounds(r, key) /\ used[key] <= LimitOf(r, key)

\* Every request that leaves was reserved on each of its counters (limits.py:5:
\* "It never counts a publication as one request").
RequestsAreCounted == \A key \in BudgetKeys : sent[key] <= used[key]

\* The inductive invariant: a transaction has no more rows than its request has
\* counters, no two have the same row, and a row it has still has the room it
\* saw, as long as it has it (postgres.py:534).
LockedHasRoom ==
    /\ \A r \in Replicas : locked[r] # 0 => locked[r] <= Len(Mine(r))
    /\ \A r \in Replicas, key \in BudgetKeys :
          Holds(r, key) => Free(r, key) /\ Grants(r, key)

\* The requests of a replica that are reserved and have not left: media is
\* reserved before any of it leaves (client.py:198).
Reserved(r) ==
    CASE pc[r] = "send" /\ request[r].endpoint = "register"  -> {"register", "upload"}
      [] pc[r] = "send" /\ request[r].endpoint # "register"  -> {request[r].endpoint}
      [] pc[r] = "reserve" /\ request[r].endpoint = "upload" -> {"register"}
      [] OTHER -> {}

\* What is still to leave against a counter.
Outstanding(key) ==
    {o \in Replicas \X Endpoints :
        /\ o[2] \in Reserved(o[1])
        /\ key \in Charged(o[1], [request[o[1]] EXCEPT !.endpoint = o[2]])}

\* A counter pays for what left and for what is still to leave, whoever died.
OutstandingIsPaid ==
    \A key \in BudgetKeys :
        /\ IsFiniteSet(Outstanding(key))
        /\ sent[key] + Cardinality(Outstanding(key)) <= used[key]

\* Replicas never wait for each other in a circle (postgres.py:534).
Waiting(r) == pc[r] = "reserve" /\ ~Complete(r) /\ ~Free(r, Wanted(r))

NoDeadlock ==
    (\E r \in Replicas : pc[r] = "reserve") =>
        \E r \in Replicas : pc[r] = "reserve" /\ ~Waiting(r)

\* A reservation that has begun is granted or refused (limits.py:173: "A job
\* never blocks on a daily window").
ReservationEnds == \A r \in Replicas : pc[r] = "reserve" ~> pc[r] # "reserve"

\* The transactions have the effect of indivisible reservations, all or nothing,
\* and a refusal names the first counter without room (limits.py:101).
Promise == INSTANCE Quota
ReservesAtOnce == Promise!QuotaSpec
=============================================================================
