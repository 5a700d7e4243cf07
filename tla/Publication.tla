----------------------------- MODULE Publication -----------------------------
(***************************************************************************)
(* The durable publishing path: PublicationService over the Postgres       *)
(* ledger. Any number of workers run live ticks of publish_due against one *)
(* binding, while operators approve, revoke, commission, cancel, reconcile *)
(* and use the kill switch, LinkedIn answers late, badly or not at all,    *)
(* workers crash at any await, and the clock advances.                     *)
(*                                                                         *)
(* One action is the code between two awaits that touch shared state. An   *)
(* audit row is appended by an await of its own; as nothing reads it, its  *)
(* append is taken together with the await that follows it.                *)
(*                                                                         *)
(* A payload and its digest are immutable in the ledger (0002_roles.sql)   *)
(* and an approval or a grant is only written for the stored digest and    *)
(* binding (_require_match), so digests and bindings are not modelled.     *)
(***************************************************************************)
EXTENDS Naturals, FiniteSets

CONSTANTS
    Publications,   \* publication ids of the binding
    NoPub,          \* not a publication
    Workers,        \* processes that run ticks
    Attempts,       \* attempt tokens
    NoToken,        \* a NULL attempt_token
    ScheduledAt,    \* scheduled_at of each publication
    ExpiresAt,      \* expires_at of each publication
    Capable,        \* the publications whose draft passes client.check
    Limit,          \* the largest page a tick takes from find_due
    Lease,          \* how long a claim may be held
    Delays,         \* how far a deferral can move a publication
    GrantTTL,       \* life of a commissioning grant
    MaxTime,        \* bound: the clock stops here
    SwitchValues,   \* bound: what operators set publish_enabled to
    MaxGrants,      \* bound: grants issued per publication
    MaxCrashes      \* bound: crashes of workers

NoTime == 0
Never  == MaxTime + 1       \* revoked_at of an approval that stands

ASSUME NamesAssumption ==
    /\ NoPub \notin Publications
    /\ NoToken \notin Attempts
    /\ Capable \subseteq Publications
    /\ SwitchValues \subseteq BOOLEAN

ASSUME TimesAssumption ==
    /\ ScheduledAt \in [Publications -> Nat]
    /\ ExpiresAt \in [Publications -> Nat]
    /\ \A p \in Publications : ScheduledAt[p] < ExpiresAt[p]
    /\ Lease \in Nat \ {0} /\ GrantTTL \in Nat \ {0} /\ Delays \subseteq Nat
    /\ {Limit, MaxTime, MaxGrants, MaxCrashes} \subseteq Nat

VARIABLES
    clock,          \* the time of day everywhere
    enabled,        \* publish_enabled of the binding row
    approval,       \* the approvals table
    grant,          \* the commissioning_grants table
    ledger,         \* the publications table
    audit,          \* kinds of rows in publication_events, per publication
    announced,      \* attempts whose `sending` row is there: it names the token
    request,        \* the create requests and what LinkedIn made of each
    licensed,       \* history: grants a request has left under
    pc,             \* where each worker is in its tick
    moment,         \* the time its tick began, used for every check in it
    armed,          \* publish_enabled as the tick was given it
    todo,           \* rows of the snapshot it still has to handle
    cur,            \* the publication it is handling
    attempt,        \* its attempt token
    licence,        \* the grant that licenses its send, 0 when none does
    outcome,        \* what became of its send, with the new not_before
    crashes

tables == <<approval, grant, enabled>>
local  == <<moment, armed, todo, cur, attempt, licence, outcome>>
vars   == <<clock, approval, grant, enabled, ledger, audit, announced, request,
            licensed, pc, moment, armed, todo, cur, attempt, licence, outcome, crashes>>

States == {"pending", "claimed", "sending", "published", "failed", "unknown",
           "expired", "cancelled"}
TerminalOrHeld == {"published", "failed", "unknown", "expired", "cancelled"}

Codes == {"none", "deferred", "unknown", "refused", "operator"}

Row == [state     : States,
        token     : Attempts \cup {NoToken},
        lease     : Nat,                       \* NoTime when NULL
        notBefore : Nat,                       \* NoTime when NULL
        urn       : Attempts \cup {NoToken},   \* the post, named by its request
        code      : Codes]

Request == [pub    : Publications \cup {NoPub},
            status : {"none", "inflight", "accepted", "refused", "throttled"}]
NoRequest == [pub |-> NoPub, status |-> "none"]

Outcome == [state : {"published", "pending", "failed", "unknown"},
            notBefore : Nat]
NoOutcome == [state |-> "unknown", notBefore |-> NoTime]

Kinds == {"claimed", "published", "pending", "failed", "unknown",
          "expired", "lease_recovered", "lease_expired_unknown", "cancelled",
          "reconciled_published", "reconciled_failed"}

Places == {"idle", "overdue", "expiring", "expired", "leases", "recovering",
           "recovered", "due", "batch", "gate", "grant", "release", "commit",
           "consume", "credentials", "client", "await", "settle", "record"}

TypeOK ==
    /\ clock \in Nat
    /\ enabled \in BOOLEAN
    /\ approval \in [Publications -> [given : BOOLEAN, revokedAt : Nat]]
    /\ grant \in [Publications -> [serial : Nat, open : BOOLEAN, expires : Nat]]
    /\ ledger \in [Publications -> Row]
    /\ audit \in [Publications -> SUBSET Kinds]
    /\ announced \subseteq Attempts
    /\ request \in [Attempts -> Request]
    /\ licensed \subseteq Publications \X Nat
    /\ pc \in [Workers -> Places]
    /\ moment \in [Workers -> Nat]
    /\ armed \in [Workers -> BOOLEAN]
    /\ todo \in [Workers -> SUBSET (Publications \X {"pending", "claimed", "sending"})]
    /\ cur \in [Workers -> Publications \cup {NoPub}]
    /\ attempt \in [Workers -> Attempts \cup {NoToken}]
    /\ licence \in [Workers -> Nat]
    /\ outcome \in [Workers -> Outcome]
    /\ crashes \in Nat

Init ==
    /\ clock = 0
    /\ enabled = FALSE
    /\ approval = [p \in Publications |-> [given |-> FALSE, revokedAt |-> Never]]
    /\ grant = [p \in Publications |-> [serial |-> 0, open |-> FALSE, expires |-> NoTime]]
    /\ ledger = [p \in Publications |->
                   [state |-> "pending", token |-> NoToken, lease |-> NoTime,
                    notBefore |-> NoTime, urn |-> NoToken, code |-> "none"]]
    /\ audit = [p \in Publications |-> {}]
    /\ announced = {}
    /\ request = [a \in Attempts |-> NoRequest]
    /\ licensed = {}
    /\ pc = [w \in Workers |-> "idle"]
    /\ moment = [w \in Workers |-> NoTime]
    /\ armed = [w \in Workers |-> FALSE]
    /\ todo = [w \in Workers |-> {}]
    /\ cur = [w \in Workers |-> NoPub]
    /\ attempt = [w \in Workers |-> NoToken]
    /\ licence = [w \in Workers |-> 0]
    /\ outcome = [w \in Workers |-> NoOutcome]
    /\ crashes = 0

-----------------------------------------------------------------------------
(***************************************************************************)
(* The ledger's compare-and-set: one UPDATE, whose WHERE clause is Holds.  *)
(***************************************************************************)
Holds(p, state, token) ==
    /\ ledger[p].state = state
    /\ token \in {NoToken, ledger[p].token}

Put(p, row) == ledger' = [ledger EXCEPT ![p] = row]

\* Mutant: the new state is written and the claim forgotten on the row.
FreedKeepsClaim(p, state) == [ledger[p] EXCEPT !.state = state]

\* The row in a new state with its claim given up.
Freed(p, state) ==
    [ledger[p] EXCEPT !.state = state, !.token = NoToken, !.lease = NoTime]

\* Any row but `sending`.
AppendEvent(p, kind) ==
    audit' = [audit EXCEPT ![p] = @ \cup {kind}] /\ UNCHANGED announced

\* The row `sending`, whose payload is the attempt token.
AnnounceSending(w) == announced' = announced \cup {attempt[w]} /\ UNCHANGED audit

\* Mutant: a deferral is written and never looked at.
IsDueDespiteDeferral(p, now) == ScheduledAt[p] <= now /\ now < ExpiresAt[p]

\* is_due: inside the window and past any deferral.
IsDue(p, now) ==
    /\ ledger[p].notBefore <= now
    /\ ScheduledAt[p] <= now
    /\ now < ExpiresAt[p]

IsExpired(p, now) == ExpiresAt[p] <= now

\* Mutant: a revocation is not looked at.
ApprovalGiven(p, now) == approval[p].given

ApprovalActive(p, now) == approval[p].given /\ now < approval[p].revokedAt

\* Mutant: a publication that was never commissioned passes the switch too.
GrantUsableOrNone(p, now) == grant[p].serial = 0 \/ (grant[p].open /\ now < grant[p].expires)

GrantUsable(p, now) == grant[p].open /\ now < grant[p].expires

\* A fresh token: secrets.token_urlsafe never returns one that is in use.
Fresh(a) ==
    /\ request[a].status = "none"
    /\ \A p \in Publications : a \notin {ledger[p].token, ledger[p].urn}
    /\ \A w \in Workers : attempt[w] # a

Goto(w, place) == pc' = [pc EXCEPT ![w] = place]

\* Back to the loop over the batch.
NextRecord(w) ==
    /\ Goto(w, "batch")
    /\ cur' = [cur EXCEPT ![w] = NoPub]
    /\ attempt' = [attempt EXCEPT ![w] = NoToken]
    /\ licence' = [licence EXCEPT ![w] = 0]
    /\ outcome' = [outcome EXCEPT ![w] = NoOutcome]
    /\ UNCHANGED <<moment, armed, todo>>

\* The tick is over, or its process died: nothing of it is left in memory.
Forget(w) ==
    /\ Goto(w, "idle")
    /\ moment' = [moment EXCEPT ![w] = NoTime]
    /\ armed' = [armed EXCEPT ![w] = FALSE]
    /\ todo' = [todo EXCEPT ![w] = {}]
    /\ cur' = [cur EXCEPT ![w] = NoPub]
    /\ attempt' = [attempt EXCEPT ![w] = NoToken]
    /\ licence' = [licence EXCEPT ![w] = 0]
    /\ outcome' = [outcome EXCEPT ![w] = NoOutcome]

-----------------------------------------------------------------------------
(***************************************************************************)
(* The tick: publish_due.                                                  *)
(***************************************************************************)

\* The caller loads the binding and calls publish_due, which fixes `moment`.
BeginTick(w) ==
    /\ pc[w] = "idle"
    /\ Goto(w, "overdue")
    /\ moment' = [moment EXCEPT ![w] = clock]
    /\ armed' = [armed EXCEPT ![w] = enabled]
    /\ UNCHANGED <<clock, tables, ledger, audit, announced, request, licensed, todo, cur,
                   attempt, licence, outcome, crashes>>

\* _expire_overdue reads every row and keeps the pending ones whose window is over.
ReadOverdue(w) ==
    /\ pc[w] = "overdue"
    /\ Goto(w, "expiring")
    /\ todo' = [todo EXCEPT ![w] =
          {<<p, "pending">> : p \in {q \in Publications :
              ledger[q].state = "pending" /\ IsExpired(q, moment[w])}}]
    /\ UNCHANGED <<clock, tables, ledger, audit, announced, request, licensed, moment, armed,
                   cur, attempt, licence, outcome, crashes>>

Dead(p, state, now) ==
    /\ ledger[p].state = state
    /\ ledger[p].lease # NoTime
    /\ ledger[p].lease <= now

\* Mutant: only claims are looked for.
DeadClaims(now) == {r \in Publications \X {"claimed"} : Dead(r[1], r[2], now)}

\* _recover_leases reads every row again and keeps the dead claims and sends.
DeadLeases(now) ==
    {r \in Publications \X {"claimed", "sending"} : Dead(r[1], r[2], now)}

ReadLeases(w) ==
    /\ pc[w] = "leases"
    /\ Goto(w, "recovering")
    /\ todo' = [todo EXCEPT ![w] = DeadLeases(moment[w])]
    /\ UNCHANGED <<clock, tables, ledger, audit, announced, request, licensed, moment, armed,
                   cur, attempt, licence, outcome, crashes>>

\* Mutant: a dead send goes back to pending, as a dead claim does.
SweptForRetry(p, state) ==
    IF state = "pending" THEN [ledger[p] EXCEPT !.state = "expired"]
    ELSE Freed(p, "pending")

\* Mutant: the kind of the audit row is written as the failure code.
SweptWithKind(p, state) ==
    CASE state = "pending" -> [ledger[p] EXCEPT !.state = "expired"]
      [] state = "claimed" -> Freed(p, "pending")
      [] state = "sending" -> [Freed(p, "unknown") EXCEPT !.code = "lease_expired_unknown"]

\* What a sweep makes of a row it read in the given state.
Swept(p, state) ==
    CASE state = "pending" -> [ledger[p] EXCEPT !.state = "expired"]
      [] state = "claimed" -> Freed(p, "pending")
      [] state = "sending" -> [Freed(p, "unknown") EXCEPT !.code = "unknown"]

\* _safe_cas on one row of either sweep: it names no token, and swallows a conflict.
Sweep(w) ==
    /\ pc[w] \in {"expiring", "recovering"}
    /\ \E r \in todo[w] :
          \/ /\ Holds(r[1], r[2], NoToken)
             /\ Put(r[1], Swept(r[1], r[2]))
             /\ cur' = [cur EXCEPT ![w] = r[1]]
             /\ Goto(w, IF pc[w] = "expiring" THEN "expired" ELSE "recovered")
             /\ UNCHANGED todo
          \/ /\ ~Holds(r[1], r[2], NoToken)
             /\ todo' = [todo EXCEPT ![w] = @ \ {r}]
             /\ UNCHANGED <<ledger, cur, pc>>
    /\ UNCHANGED <<clock, tables, audit, announced, request, licensed, moment, armed,
                   attempt, licence, outcome, crashes>>

SweepEvent(state) ==
    CASE state = "pending" -> "expired"
      [] state = "claimed" -> "lease_recovered"
      [] state = "sending" -> "lease_expired_unknown"

RecordSweep(w) ==
    /\ pc[w] \in {"expired", "recovered"}
    /\ \E r \in todo[w] :
          /\ r[1] = cur[w]
          /\ AppendEvent(r[1], SweepEvent(r[2]))
          /\ todo' = [todo EXCEPT ![w] = @ \ {r}]
    /\ cur' = [cur EXCEPT ![w] = NoPub]
    /\ Goto(w, IF pc[w] = "expired" THEN "expiring" ELSE "recovering")
    /\ UNCHANGED <<clock, tables, ledger, request, licensed, moment, armed,
                   attempt, licence, outcome, crashes>>

EndSweep(w) ==
    /\ pc[w] \in {"expiring", "recovering"}
    /\ todo[w] = {}
    /\ Goto(w, IF pc[w] = "expiring" THEN "leases" ELSE "due")
    /\ UNCHANGED <<clock, ledger, audit, announced, request, licensed, tables, local, crashes>>

\* find_due: pending and due, the earliest slots first, at most Limit of them.
Due(now) == {p \in Publications : ledger[p].state = "pending" /\ IsDue(p, now)}

Pages(now) ==
    {page \in SUBSET Due(now) :
        /\ Cardinality(page) <= Limit
        /\ page # Due(now) => Cardinality(page) = Limit
        /\ \A p \in page, q \in Due(now) \ page : ScheduledAt[p] <= ScheduledAt[q]}

\* The whole page is checked before anything is sent; one refusal ends the tick.
FindDue(w) ==
    /\ pc[w] = "due"
    /\ \E page \in Pages(moment[w]) :
          \/ /\ page \subseteq Capable
             /\ Goto(w, "batch")
             /\ todo' = [todo EXCEPT ![w] = page \X {"pending"}]
             /\ UNCHANGED <<moment, armed, cur, attempt, licence, outcome>>
          \/ /\ ~(page \subseteq Capable)
             /\ Forget(w)
    /\ UNCHANGED <<clock, tables, ledger, audit, announced, request, licensed, crashes>>

EndTick(w) ==
    /\ pc[w] = "batch"
    /\ todo[w] = {}
    /\ Forget(w)
    /\ UNCHANGED <<clock, tables, ledger, audit, announced, request, licensed, crashes>>

-----------------------------------------------------------------------------
(***************************************************************************)
(* One post: publish_one.                                                  *)
(***************************************************************************)

\* Claim the next record in order of its slot; one that is no longer pending
\* belongs to another worker or is never replayed, and the loop goes on. The
\* names of tokens are used again here: a new token has no row yet.
Claim(w) ==
    /\ pc[w] = "batch"
    /\ \E r \in todo[w] :
          /\ \A s \in todo[w] : ScheduledAt[r[1]] <= ScheduledAt[s[1]]
          /\ todo' = [todo EXCEPT ![w] = @ \ {r}]
          /\ \/ /\ Holds(r[1], "pending", NoToken)
                /\ \E a \in Attempts :
                      /\ Fresh(a)
                      /\ Put(r[1], [ledger[r[1]] EXCEPT !.state = "claimed", !.token = a,
                                                        !.lease = moment[w] + Lease])
                      /\ attempt' = [attempt EXCEPT ![w] = a]
                      /\ announced' = announced \ {a}
                /\ cur' = [cur EXCEPT ![w] = r[1]]
                /\ Goto(w, "gate")
             \/ /\ ~Holds(r[1], "pending", NoToken)
                /\ UNCHANGED <<ledger, announced, attempt, cur, pc>>
    /\ UNCHANGED <<clock, tables, audit, request, licensed, moment, armed, licence,
                   outcome, crashes>>

\* _authorize_send up to the kill switch: the approval, then the window. A row
\* that changed hands since the claim is judged as it is now; whatever the
\* verdict, the next compare-and-set then fails on the token.
Gate(w) ==
    /\ pc[w] = "gate"
    /\ AppendEvent(cur[w], "claimed")
    /\ \/ /\ ApprovalActive(cur[w], moment[w])
          /\ IsDue(cur[w], moment[w])
          /\ Goto(w, IF armed[w] THEN "commit" ELSE "grant")
       \/ /\ ~(ApprovalActive(cur[w], moment[w]) /\ IsDue(cur[w], moment[w]))
          /\ Goto(w, "release")
    /\ UNCHANGED <<clock, tables, ledger, request, licensed, local, crashes>>

\* Publishing is disabled: only an unconsumed, unexpired grant lets it pass.
CheckGrant(w) ==
    /\ pc[w] = "grant"
    /\ \/ /\ GrantUsable(cur[w], moment[w])
          /\ licence' = [licence EXCEPT ![w] = grant[cur[w]].serial]
          /\ Goto(w, "commit")
       \/ /\ ~GrantUsable(cur[w], moment[w])
          /\ Goto(w, "release")
          /\ UNCHANGED licence
    /\ UNCHANGED <<clock, tables, ledger, audit, announced, request, licensed, moment, armed,
                   todo, cur, attempt, outcome, crashes>>

\* A gate refused: give the claim back, if it is still ours.
Release(w) ==
    /\ pc[w] = "release"
    /\ \/ Holds(cur[w], "claimed", attempt[w]) /\ Put(cur[w], Freed(cur[w], "pending"))
       \/ ~Holds(cur[w], "claimed", attempt[w]) /\ UNCHANGED ledger
    /\ NextRecord(w)
    /\ UNCHANGED <<clock, tables, audit, announced, request, licensed, crashes>>

CommitUnder(w, token) ==
    /\ pc[w] = "commit"
    /\ \/ /\ Holds(cur[w], "claimed", token)
          /\ Put(cur[w], [ledger[cur[w]] EXCEPT !.state = "sending"])
          /\ Goto(w, IF licence[w] # 0 THEN "consume" ELSE "credentials")
          /\ UNCHANGED local
       \/ /\ ~Holds(cur[w], "claimed", token)
          /\ NextRecord(w)
          /\ UNCHANGED ledger
    /\ UNCHANGED <<clock, tables, audit, announced, request, licensed, crashes>>

\* Mutant: the compare-and-set does not name the attempt token.
CommitAnyClaim(w) == CommitUnder(w, NoToken)

\* The durable `sending`, before the request.
CommitSending(w) == CommitUnder(w, attempt[w])

\* Mutant: the grant is checked and not consumed.
KeepGrant(w) ==
    /\ pc[w] = "consume"
    /\ Goto(w, "credentials")
    /\ UNCHANGED <<clock, tables, ledger, audit, announced, request, licensed, local, crashes>>

\* consume_grant: its WHERE clause is the guard, and its answer is not looked at.
ConsumeGrant(w) ==
    /\ pc[w] = "consume"
    /\ grant' = [grant EXCEPT ![cur[w]].open =
                             @ /\ (grant[cur[w]].serial # licence[w])]
    /\ Goto(w, "credentials")
    /\ UNCHANGED <<clock, enabled, approval, ledger, audit, announced, request, licensed, local,
                   crashes>>

\* Mutant: only the first send of all is audited.
GetCredentialsAuditedOnce(w) ==
    /\ pc[w] = "credentials"
    /\ IF announced = {} THEN AnnounceSending(w) ELSE UNCHANGED <<audit, announced>>
    /\ \/ Goto(w, "client") /\ UNCHANGED local
       \/ NextRecord(w)
    /\ UNCHANGED <<clock, tables, ledger, request, licensed, crashes>>

\* Audit `sending`, then ask for the credentials: outside the try, so that a
\* missing one leaves the row in `sending` and the loop goes on.
GetCredentials(w) ==
    /\ pc[w] = "credentials"
    /\ AnnounceSending(w)
    /\ \/ Goto(w, "client") /\ UNCHANGED local
       \/ NextRecord(w)
    /\ UNCHANGED <<clock, tables, ledger, request, licensed, crashes>>

\* A deferral is put in the tick's own clock frame (_rebase_deferral).
Deferrals(w) == {[state |-> "pending", notBefore |-> moment[w] + d] : d \in Delays}
Ended(state) == [state |-> state, notBefore |-> NoTime]

Conclude(w, result) ==
    /\ outcome' = [outcome EXCEPT ![w] = result]
    /\ Goto(w, "settle")

\* client.publish ends before its create request: the asset is bad, a budget is
\* exhausted, or the upload is throttled, rejected or cut off.
Withhold(w) ==
    /\ pc[w] = "client"
    /\ \E result \in Deferrals(w) \cup {Ended("failed"), Ended("unknown")} :
          Conclude(w, result)
    /\ UNCHANGED <<clock, tables, ledger, audit, announced, request, licensed, moment, armed,
                   todo, cur, attempt, licence, crashes>>

\* The create request leaves.
Transmit(w) ==
    /\ pc[w] = "client"
    /\ request' = [request EXCEPT ![attempt[w]] = [pub |-> cur[w], status |-> "inflight"]]
    /\ licensed' = IF licence[w] = 0 THEN licensed
                   ELSE licensed \cup {<<cur[w], licence[w]>>}
    /\ Goto(w, "await")
    /\ UNCHANGED <<clock, tables, ledger, audit, announced, local, crashes>>

\* The answer arrives and is classified. A 429 closes the exchange for good.
Receive(w) ==
    /\ pc[w] = "await"
    /\ \/ /\ request[attempt[w]].status = "accepted"
          /\ Conclude(w, Ended("published"))
          /\ UNCHANGED request
       \/ /\ request[attempt[w]].status = "refused"
          /\ Conclude(w, Ended("failed"))
          /\ UNCHANGED request
       \/ /\ request[attempt[w]].status = "throttled"
          /\ \E result \in Deferrals(w) : Conclude(w, result)
          /\ request' = [request EXCEPT ![attempt[w]] = NoRequest]
    /\ UNCHANGED <<clock, tables, ledger, audit, announced, licensed, moment, armed, todo, cur,
                   attempt, licence, crashes>>

LoseAnswerAs(w, results) ==
    /\ pc[w] = "await"
    /\ \E result \in results : Conclude(w, result)
    /\ UNCHANGED <<clock, tables, ledger, audit, announced, request, licensed, moment, armed,
                   todo, cur, attempt, licence, crashes>>

\* Mutants: a timeout is taken for a failure, for a throttle, or a receipt
\* without its URN for a post.
LoseAnswerAsFailed(w)    == LoseAnswerAs(w, {Ended("failed")})
LoseAnswerAsThrottle(w)  == LoseAnswerAs(w, Deferrals(w))
LoseAnswerAsPublished(w) == LoseAnswerAs(w, {Ended("published")})

\* A timeout, a 5xx, a receipt without its URN, any unclassified exception.
LoseAnswer(w) == LoseAnswerAs(w, {Ended("unknown")})

\* The row an outcome writes: the receipt, or _settle's payload.
Settled(w) ==
    LET p == cur[w] IN
    CASE outcome[w].state = "published" ->
           [Freed(p, "published") EXCEPT !.urn = attempt[w]]
      [] outcome[w].state = "pending" ->
           [Freed(p, "pending") EXCEPT !.notBefore = outcome[w].notBefore, !.code = "deferred"]
      [] outcome[w].state = "failed" -> [Freed(p, "failed") EXCEPT !.code = "refused"]
      [] outcome[w].state = "unknown" -> [Freed(p, "unknown") EXCEPT !.code = "unknown"]

\* Mutant: the end is audited although the compare-and-set failed.
SettleRegardless(w) ==
    /\ pc[w] = "settle"
    /\ IF Holds(cur[w], "sending", attempt[w]) THEN Put(cur[w], Settled(w))
       ELSE UNCHANGED ledger
    /\ Goto(w, "record")
    /\ UNCHANGED <<clock, tables, audit, announced, request, licensed, local, crashes>>

Settle(w) ==
    /\ pc[w] = "settle"
    /\ \/ /\ Holds(cur[w], "sending", attempt[w])
          /\ Put(cur[w], Settled(w))
          /\ Goto(w, "record")
          /\ UNCHANGED local
       \/ /\ ~Holds(cur[w], "sending", attempt[w])
          /\ NextRecord(w)
          /\ UNCHANGED ledger
    /\ UNCHANGED <<clock, tables, audit, announced, request, licensed, crashes>>

RecordOutcome(w) ==
    /\ pc[w] = "record"
    /\ AppendEvent(cur[w], outcome[w].state)
    /\ NextRecord(w)
    /\ UNCHANGED <<clock, tables, ledger, request, licensed, crashes>>

Crash(w) ==
    /\ pc[w] # "idle"
    /\ crashes < MaxCrashes
    /\ crashes' = crashes + 1
    /\ Forget(w)
    /\ UNCHANGED <<clock, tables, ledger, audit, announced, request, licensed>>

-----------------------------------------------------------------------------
(***************************************************************************)
(* LinkedIn, outside src/. It may take a request at any later time, or     *)
(* never; what it answers is in map_write_failure's terms.                 *)
(***************************************************************************)
Answer(a, status) ==
    /\ request[a].status = "inflight"
    /\ request' = [request EXCEPT ![a].status = status]
    /\ UNCHANGED <<clock, tables, ledger, audit, announced, licensed, pc, local, crashes>>

Accept(a)   == Answer(a, "accepted")
Refuse(a)   == Answer(a, "refused")
Throttle(a) == Answer(a, "throttled")

-----------------------------------------------------------------------------
(***************************************************************************)
(* Operators. Their processes may die between a write and its audit row.   *)
(***************************************************************************)
MaybeEvent(p, kind) == AppendEvent(p, kind) \/ UNCHANGED <<audit, announced>>

\* approval record: once per digest (a unique constraint), in any state.
Approve(p) ==
    /\ ~approval[p].given
    /\ approval' = [approval EXCEPT ![p].given = TRUE]
    /\ UNCHANGED <<clock, enabled, grant, ledger, audit, announced, request, licensed, pc,
                   local, crashes>>

\* The writer role sets revoked_at; no code in src/ does.
Revoke(p) ==
    /\ ApprovalActive(p, clock)
    /\ approval' = [approval EXCEPT ![p].revokedAt = clock]
    /\ UNCHANGED <<clock, enabled, grant, ledger, audit, announced, request, licensed, pc,
                   local, crashes>>

\* account commission: an active approval, and no grant left open (an index).
Commission(p) ==
    /\ ApprovalActive(p, clock)
    /\ ~grant[p].open
    /\ grant[p].serial < MaxGrants
    /\ grant' = [grant EXCEPT ![p] = [serial |-> grant[p].serial + 1, open |-> TRUE,
                                      expires |-> clock + GrantTTL]]
    /\ UNCHANGED <<clock, enabled, approval, ledger, audit, announced, request, licensed, pc,
                   local, crashes>>

\* publish_enabled is written on the binding row; a running tick keeps its copy.
SetSwitch ==
    /\ \E value \in SwitchValues : value # enabled /\ enabled' = value
    /\ UNCHANGED <<clock, approval, grant, ledger, audit, announced, request, licensed, pc,
                   local, crashes>>

CancelFrom(p, states) ==
    /\ ledger[p].state \in states
    /\ Put(p, Freed(p, "cancelled"))
    /\ MaybeEvent(p, "cancelled")
    /\ UNCHANGED <<clock, tables, request, licensed, pc, local, crashes>>

\* Mutant: a row whose send has begun can be cancelled too.
CancelMidSend(p) == CancelFrom(p, {"pending", "claimed", "sending"})

\* cancel: its compare-and-set names the state it read, so it fails if that
\* changed. Every other state is answered without a write.
Cancel(p) == CancelFrom(p, {"pending", "claimed"})

\* reconcile_publication, by an operator who looks at LinkedIn first and
\* reports what is there.
Reconcile(p) ==
    /\ ledger[p].state = "unknown"
    /\ \/ \E a \in Attempts :
             /\ request[a] = [pub |-> p, status |-> "accepted"]
             /\ Put(p, [ledger[p] EXCEPT !.state = "published", !.urn = a])
             /\ MaybeEvent(p, "reconciled_published")
       \/ /\ \A a \in Attempts : request[a] # [pub |-> p, status |-> "accepted"]
          /\ Put(p, [ledger[p] EXCEPT !.state = "failed", !.code = "operator"])
          /\ MaybeEvent(p, "reconciled_failed")
    /\ UNCHANGED <<clock, tables, request, licensed, pc, local, crashes>>

AdvanceClock ==
    /\ clock < MaxTime
    /\ clock' = clock + 1
    /\ UNCHANGED <<tables, ledger, audit, announced, request, licensed, pc, local, crashes>>

-----------------------------------------------------------------------------
Step(w) ==
    \/ BeginTick(w) \/ ReadOverdue(w) \/ ReadLeases(w) \/ Sweep(w) \/ RecordSweep(w)
    \/ EndSweep(w) \/ FindDue(w) \/ EndTick(w)
    \/ Claim(w) \/ Gate(w) \/ CheckGrant(w) \/ Release(w) \/ CommitSending(w)
    \/ ConsumeGrant(w) \/ GetCredentials(w) \/ Withhold(w) \/ Transmit(w)
    \/ Receive(w) \/ LoseAnswer(w) \/ Settle(w) \/ RecordOutcome(w)

Next ==
    \/ \E w \in Workers : Step(w) \/ Crash(w)
    \/ \E a \in Attempts : Accept(a) \/ Refuse(a) \/ Throttle(a)
    \/ \E p \in Publications :
          Approve(p) \/ Revoke(p) \/ Commission(p) \/ Cancel(p) \/ Reconcile(p)
    \/ SetSwitch
    \/ AdvanceClock

Spec == Init /\ [][Next]_vars

\* A worker that runs keeps running and is started again for the next tick, and
\* time passes. Nothing is asked of LinkedIn or of the operators.
Fairness == WF_vars(AdvanceClock) /\ \A w \in Workers : WF_vars(Step(w))
FairSpec == Spec /\ Fairness

-----------------------------------------------------------------------------
(***************************************************************************)
(* Properties.                                                             *)
(***************************************************************************)
\* A request that is, or may still become, a post.
MayBePost(a) == request[a].status \in {"inflight", "accepted"}

\* README "No automatic replay after an ambiguous send": of all the requests
\* that ever left for a publication, at most one was not throttled away.
NoReplay ==
    \A a, b \in Attempts :
        /\ request[a].status # "none" /\ request[b].status # "none"
        /\ request[a].pub = request[b].pub
        => a = b

\* A row that can still be sent, was withdrawn, or was refused on this side of
\* LinkedIn has no request that is or can become a post: "pending is a licence
\* to retry" (store.py:58), and a cancelled post was never sent (service.py:471).
LedgerNeverForgets ==
    \A a \in Attempts :
        MayBePost(a) =>
            LET row == ledger[request[a].pub] IN
            \/ row.state \in {"sending", "unknown", "published"}
            \/ row.state = "failed" /\ row.code = "operator"

\* A published row carries the URN of a post LinkedIn has, of this publication,
\* whether a receipt or an operator put it there (service.py:347, 641).
ReceiptIsReal ==
    \A p \in Publications :
        ledger[p].state = "published" =>
            /\ ledger[p].urn \in Attempts
            /\ request[ledger[p].urn] = [pub |-> p, status |-> "accepted"]

\* Only a live claim carries a token and a lease (service.py:275, 561), and a
\* token in the ledger is never one a finished row still answers to.
ClaimIsExclusive ==
    /\ \A p \in Publications :
          /\ ledger[p].token # NoToken <=> ledger[p].state \in {"claimed", "sending"}
          /\ ledger[p].lease # NoTime <=> ledger[p].state \in {"claimed", "sending"}
    /\ \A p, q \in Publications :
          ledger[p].token = ledger[q].token /\ ledger[p].token # NoToken => p = q

\* No row of the audit trail tells of a write that did not happen, and no
\* request leaves before the `sending` row of its own attempt is there
\* (service.py:310), whatever rows earlier attempts have left.
AuditIsTrue ==
    /\ \A p \in Publications :
          /\ audit[p] \cap {"published", "reconciled_published"} # {} =>
                ledger[p].state = "published"
          /\ audit[p] \cap {"failed", "reconciled_failed"} # {} =>
                ledger[p].state = "failed"
          /\ audit[p] \cap {"unknown", "lease_expired_unknown"} # {} =>
                ledger[p].state \in {"unknown", "published", "failed"}
          /\ "cancelled" \in audit[p] => ledger[p].state = "cancelled"
          /\ "expired" \in audit[p] => ledger[p].state = "expired"
    /\ \A a \in Attempts :
          request[a].status # "none" =>
              a \in announced /\ "claimed" \in audit[request[a].pub]

\* The table of allowed transitions (store.py:55), which the in-memory store
\* enforces and the Postgres compare-and-set does not.
AllowedTransitions ==
    [state \in States |->
       CASE state = "pending"  -> {"claimed", "expired", "cancelled"}
         [] state = "claimed"  -> {"pending", "sending", "cancelled"}
         [] state = "sending"  -> {"published", "pending", "failed", "unknown"}
         [] state = "unknown"  -> {"published", "failed"}
         [] OTHER -> {}]

\* Every write of the Postgres path obeys that table, so a settled row never
\* changes its state and only an operator moves an unknown one.
TransitionsAllowed ==
    [][\A p \in Publications :
          ledger'[p].state # ledger[p].state =>
              ledger'[p].state \in AllowedTransitions[ledger[p].state]]_ledger

\* A request leaves: the one step that can create a post.
Leaves(p) ==
    \E a \in Attempts : request[a].status = "none" /\ request'[a] = [pub |-> p, status |-> "inflight"]

\* No request leaves before the slot, or before the deferral its row carries at
\* that moment (store.py:126), whatever the clock of the tick that sends it.
NeverEarly ==
    [][\A p \in Publications :
          Leaves(p) => ScheduledAt[p] <= clock /\ ledger[p].notBefore <= clock]_vars

\* A grant is a one-shot licence (store.py:175): no second request leaves under
\* it, even when the first was throttled, its worker died, or a new one was issued.
GrantIsOneShot ==
    [][\A w \in Workers :
          pc[w] = "client" /\ pc'[w] = "await" /\ licence[w] # 0 =>
              /\ <<cur[w], licence[w]>> \notin licensed
              /\ ~(grant[cur[w]].open /\ grant[cur[w]].serial = licence[w])]_vars

\* No request leaves unauthorised (service.py:364): its publication is approved
\* and was not revoked when the tick began, its window was not over then, and
\* publishing was enabled or a grant that this worker holds lets it pass.
\* Between the gates and the request lie four awaits of everybody else's.
SendIsAuthorized ==
    [][\A w \in Workers :
          pc[w] = "client" /\ pc'[w] = "await" =>
              /\ approval[cur[w]].given /\ moment[w] <= approval[cur[w]].revokedAt
              /\ moment[w] < ExpiresAt[cur[w]]
              /\ armed[w] \/ licence[w] # 0]_vars

\* A claim or a send whose worker is dead is always recovered, and no
\* publication stays undecided past its window: every one ends settled or
\* held for a human (service.py:407, 439).
EverythingSettles ==
    \A p \in Publications : <>[](ledger[p].state \in TerminalOrHeld)

-----------------------------------------------------------------------------
(***************************************************************************)
(* The ledger keeps the promise of Delivery.                               *)
(***************************************************************************)
Phase(row) ==
    CASE row.state \in {"pending", "claimed"}   -> "waiting"
      [] row.state = "sending"                  -> "committed"
      [] row.state = "unknown"                  -> "held"
      [] row.state \in {"expired", "cancelled"} -> "withdrawn"
      [] row.state \in {"published", "failed"}  -> row.state

Promise == INSTANCE Delivery WITH
    URNs    <- Attempts,
    phase   <- [p \in Publications |-> Phase(ledger[p])],
    exposed <- {p \in Publications : \E a \in Attempts : request[a].pub = p /\ MayBePost(a)},
    posts   <- {r \in Publications \X Attempts :
                  request[r[2]] = [pub |-> r[1], status |-> "accepted"]}

\* README "The one guarantee": PublicationService implements Delivery.
KeepsPromise == Promise!DeliverySpec
=============================================================================
