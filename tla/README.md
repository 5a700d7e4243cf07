# TLA+ models of linkedin-publish

linkedin-publish publishes approved posts to LinkedIn from a durable ledger.
Its README states one guarantee: *no automatic replay after an ambiguous send*.
This directory models the parts of the program that have to keep it and the
parts around them (the client and its adapters, budgets, bindings, the
operators' commands, deletion, the manifest's times), checks them with TLC on
small instances and proves most of what they promise with TLAPS for all of them.

Paths below are relative to `src/linkedin_publish/` of the repository.

## 1. Inventory

| Component | State | Operations | Talks to |
|---|---|---|---|
| `service.py` PublicationService | none of its own: a tick keeps `moment`, the binding it was given, the batch, the current record, token and grant id in local variables | `publish_due`, `publish_one`, `_authorize_send`, `_recover_leases`, `_expire_overdue`, `cancel`, `reconcile`, `delete_publication` | ledger (every await), client, credential provider |
| `store.py` / `postgres.py` ledger | `publications`, `approvals`, `commissioning_grants`, `publication_events`, `account_bindings`, `media_uploads` | `compare_and_set`, `find_due`, `all_for_binding`, `upsert_publication`, `put_/get_approval`, `put_/get_/consume_grant`, `append_event` | Postgres |
| `client.py` LinkedInClient | HTTP pool | `check`, `prepare`, `publish`, `get_post`, `delete_post`, `_rebase_deferral` | limiter, adapter |
| `_http.py`, `errors.py` | none | `map_write_failure`, `write_transport_failure`, `parse_retry_after` | |
| `adapters/` (UGC, Posts API) | none | `upload_*`, `create_post`, `get_post`, `delete_post` | LinkedIn |
| `limits.py` + `postgres.py` budgets | `request_budgets` counters | `reserve` | Postgres |
| `cli.py` operator commands | none | `approval record`, `account commission`, `publication reconcile`, `account register`, `account inspect` | ledger |
| `bindings.py` | `account_bindings` | `register`, `record_observation` | Postgres |
| `media.py` | none | `sniff_and_validate`, `upload_bytes` | asset reader, LinkedIn |
| `auth.py` | a health cache for hosts | `introspect_token`, `verify_identity`, `inspect_credentials` | LinkedIn |
| `manifest.py` | none | wall times, windows, digests, keys of a batch | |
| `models.py`, `urns.py`, `pg_auth.py`, `analytics.py`, `_json.py` | none | validation, conversion, set-up | |

How they interact: a scheduler loads a binding and calls `publish_due` on it.
The tick expires overdue rows, recovers dead claims, takes one page of due rows,
checks the whole page offline, and sends the rows one by one with `publish_one`:
claim, gates, durable `sending`, grant, credentials, request, receipt. Any
number of replicas do this at once on one ledger; the only synchronisation is
the compare-and-set on a row (state and, where the caller names it, attempt
token) and the unique indexes. Operators write approvals, grants, revocations,
cancellations and dispositions at any time.

What is hard, and what would be wrong:

* **Concurrency.** Between any two awaits another replica, an operator or a
  sweep can change the row. A claim belongs to one worker; a commit, a receipt
  or a release by a worker that lost its claim must fail.
* **Ambiguity.** A request whose answer is lost may have been accepted, then or
  later. Nothing may make that row sendable again, withdraw it, or fail it on
  the sender's own word.
* **Crashes.** A worker dies at any await, in particular between the durable
  `sending` and the receipt, and between a write and its audit row.
* **Time.** Windows, deferrals, leases, grants and revocations are compared
  with the time the tick *began*.
* **Progress.** Dead claims, deferrals, refused pages and lost answers must not
  leave a publication undecided, or a call unended, for ever.
* **Partial failure.** A send is up to three reservations and three requests,
  and each may fail in ways that prove nothing.
* **Check, then act.** The commands read, wait for a person or for LinkedIn,
  and write: what they checked may have changed. The unique keys and the WHERE
  clauses of the writes are what holds.

`PROJECT.json` lists each hazard at its line with the properties that cover it,
and those not covered yet with the reason.

## 2. Modules

| Module | What it is |
|---|---|
| `Delivery` | The promise, abstractly: a publication waits, is committed, held, published, failed or withdrawn; requests leave only when committed; at most one post ever. No workers, tokens, leases or time. Also the proof that the promise is safe. |
| `Publication` | The publishing path as the code runs it: service, ledger, operators, LinkedIn, crashes, clock. Also its properties and the refinement mapping to `Delivery` (`Phase`, `Promise`). |
| `PublicationInvariant` | The two inductive invariants that carry the proofs: `Inductive` and, given it, `Bookkeeping`. |
| `PublicationProofs` | Theorems and proofs about the guarantee: `Inductive`, what follows from it, the refinement of `Delivery`. |
| `PublicationHistory` | Theorems and proofs about the records: `Bookkeeping`, and what follows for claims, trail, transitions, slots, grants and approvals. |
| `PublicationDocs` | Sentences of the repository's docs and comments that the code does not keep, each with a run that shows how. |
| `Counters` | What a request to LinkedIn is charged to: keys, limits, their order. |
| `Quota` | The promise of a budget store, as the in-memory store keeps it: indivisible reservations. |
| `Budgets` | The Postgres budget store under row locks, and the client that spends from it. Also its properties and the mapping to `Quota` (`Promise`). |
| `BudgetsProofs`, `BudgetsDocs` | Theorems and proofs; a sentence about the member ceiling. |
| `Exchange` | The promise of one `LinkedInClient.publish`: one create request at most, and the caller is told only what is so. |
| `Sending` | `publish` with its checks, reservations, uploads, answers and deferrals, through either adapter. Also its properties and the mapping to `Exchange` (`Contract`). |
| `SendingProofs` | Theorems and proofs. |
| `Registry` | A binding: registrations that race, tokens that are measured, secrets that are rotated. |
| `RegistryProofs` | Its inductive invariant, theorems and proofs. |
| `Desk` | Imports, approvals and commissions of one publication key. |
| `Aftercare` | `Desk` and the deletion of what went out. |
| `DeskProofs` | The inductive invariant of both, theorems and proofs. |
| `Manifest` | Wall times and windows as operators, with two theorems. No state. |
| `MCPublication`, `MCBudgets`, `MCSending`, `MCRegistry`, `MCDesk` | The instances TLC runs. `MCDesk` also has TLC evaluate `Manifest`'s first theorem over every zone with clock changes of up to four units. |

How they fit together. `Delivery` <- `Publication` is the spine. `Publication`
takes one `publish` as the three steps the ledger can tell apart and chooses
its outcome; `Sending` is that call in full, and `Exchange` what `Publication`
relies on: a verdict of `pending` or `failed` only where no post exists or can
appear, `published` only where one does. `Sending` counts what its calls have paid for;
`Budgets` has the rows and locks of those counts, and `Quota` is what `Sending`
relies on. `Desk` fills the ledger `Publication` starts from, and takes a
worker's whole send as one step; `Registry` writes the row the service loads its
binding from.

### How `Publication` corresponds to the code

An action is the code between two awaits that touch shared state. Appending an
audit row is an await of its own; nothing reads audit rows, so the append is
taken together with the await that follows it, and a crash may come before it.

| Actions | Code |
|---|---|
| `BeginTick` | `publish_due` entry: fixes `moment`; the caller's binding copy is `armed` |
| `ReadOverdue`, `Sweep`, `RecordSweep`, `EndSweep` | `_expire_overdue`: read all rows, then one `_safe_cas` and event per row |
| `ReadLeases`, `Sweep`, ... | `_recover_leases`, the same with dead claims and dead sends |
| `FindDue` | `find_due` (order and LIMIT are `Pages`) and the offline preflight of the page |
| `Claim` | the read and the claiming compare-and-set of `publish_one`; the read decides nothing the compare-and-set does not decide again |
| `Gate`, `CheckGrant`, `Release` | `_authorize_send`, and giving the claim back when it raises |
| `CommitSending`, `ConsumeGrant`, `GetCredentials` | durable `sending`; `consume_grant`; the `sending` event and the credentials, which are outside the `try` |
| `Withhold`, `Transmit`, `Receive`, `LoseAnswer` | `client.publish`: ends before its create request; the request leaves; the answer is classified; the answer is lost |
| `Settle`, `RecordOutcome` | the receipt or `_settle`, then its event |
| `Crash` | the process dies, or an exception leaves the tick |
| `Cancel`, `Reconcile`, `Approve`, `Commission` | `cancel`, `reconcile_publication`, `approval record`, `account commission` |
| `Revoke`, `SetSwitch` | updates by the writer role; no code in the repository makes them |
| `Accept`, `Refuse`, `Throttle` | LinkedIn, at any time after the request left, the sender alive or not |

State: `ledger`, `approval`, `grant`, `enabled` are the tables; of
`publication_events`, `audit` has the kinds of rows each publication has and
`announced` the attempts whose `sending` row, which names the token, is there.
`request` is, for each attempt, the create request and what LinkedIn made of
it; `licensed` is a history of grants a request left under. `pc`, `moment`,
`armed`, `todo`, `cur`, `attempt`, `licence`, `outcome` are the workers' local
variables. Numbers stand for instants; `NoTime` is NULL. `NoTime` is 0, and a
deferral or a lease of instant 0 never bites, so nothing confuses the two.

Abstracted: payloads, digests and bindings (immutable in the ledger, and every
approval and grant is written for the stored ones); `attempts` and permalinks;
the reasons behind a failure, up to the kinds in `Codes`; which of upload,
budget or asset ended a send early (`Withhold`). A token is fresh by assumption
(`secrets.token_urlsafe`); a name of `Attempts` that nothing refers to any more
stands for a new token, and `Claim` drops the rows of the old one. A 429 on the
create request is taken for a definite refusal, as the code takes it.

### How `Budgets` corresponds to the code

| Actions | Code |
|---|---|
| `Begin` | `client.publish` (with media: `register` first, else `create`), `get_post`, `share_statistics` (`read`), `delete_post`; the `now` they are given fixes the day |
| `TakeCounter` | one upsert of `PostgresBudgetStore.reserve`: it waits for whoever has the row, and answers a row |
| `Exhaust` | the upsert answers none: `QuotaExhausted`, rollback, `QuotaDeferred` |
| `Commit` | the transaction commits; `register` is followed by the reservation of `upload`, and both by their requests |
| `Send` | one counted request leaves; it fails, or the next one follows |
| `Abandon` | the upload is given up before its PUT (`check_upload_destination`, a reader that fails) |
| `Crash` | the process or its connection dies; Postgres rolls back |

State: `used` is `request_budgets` as committed, 0 where there is no row (a row
starts at 1 and none is deleted). `locked` says how many of its counters, in
their order, a transaction has; what it has added is seen when it commits. `sent` is a
history of the requests that left. Each replica has a profile of its own, as a
limiter is made per client and adapter and the app and member keys do not name
the profile. Reads and deletes of a post are charged to the post's URN where the
member's belongs (`Posts`, `Identities`), as the client does. A rollback is
taken together with the refusal that causes it. A client without a limiter
reserves nothing and is not modelled. What LinkedIn answers is `Sending`'s.

### How `Sending` corresponds to the code

| Actions | Code |
|---|---|
| `Begin` | `check`, `prepare` with `sniff_and_validate`, and `publish` up to its first await; the tick's `now` is `moment` |
| `PayRegister`, `PayUpload`, `PayCreate` | `_reserve`: room on the day of `moment`, or a deferral to the next UTC midnight; or the store fails, before its commit or after it, which is `unknown` |
| `Register` | `upload_image`, `upload_document`: the register request and its answer |
| `Upload` | `upload_bytes`: the PUT, which follows no redirect |
| `Create` | `create_post` up to its request, and what it puts into it (`Content`) |
| `Decide` | LinkedIn, at any time after the request left, the caller waiting or not |
| `Hear`, `LoseAnswer` | the answer is classified (`WriteFailure`, `Named`); a timeout or a broken connection |
| `Fail`, `Defer` | the `except` clauses of `publish_one`: the state and `not_before` the row is settled with |

A draft is its author, its kind of media and its asset (access, size, sniffed
and declared type). A status is a number; a 2xx has created the post, a 4xx has
not, a 3xx or 5xx may have. A `Retry-After` is absent, a number of
seconds or a date. Sniffing is the type the signature gives. Slots and bytes of
uploads that failed are not kept, as nothing refers to them again. A
call that crashes is `Publication`'s `Crash`. `Exchange` lets a caller be told
`unknown` at any time, which is why it is `unknown` and not a refusal.

### How `Registry` corresponds to the code

| Actions | Code |
|---|---|
| `Insert`, `Compare` | the two statements of `PostgresBindingStore.register` |
| `Load`, `Probe` | `account inspect` with a binding and without |
| `Introspect`, `Outage` | `introspect_token` and the app check of `inspect_credentials`; no usable answer |
| `Identify` | `verify_identity` |
| `Record`, `Report` | `record_observation`; `_verdict` |
| `Rotate`, `Die` | outside the program: a new version is named on the row; a token expires or is revoked |

Of `IDENTITY_FIELDS` the four the commands read are kept, the others are only
compared. `observed.version` is a history: which secret the stored scopes were
measured with. LinkedIn is assumed to answer introspection in its documented
shape, to leave out the app or a dead token's scopes at will, and to say of a
token what is so. Times of observation are left out, see section 6.

### How `Desk` and `Aftercare` correspond to the code

| Actions | Code |
|---|---|
| `Find`, `Insert` | the two statements of `upsert_publication` |
| `Load`, `Approve` | `approval record`: `_load_publication` and `_require_match`; the insert after the prompt |
| `Load`, `Approved`, `Commission` | `account commission`: the same, `get_approval`, and the insert after the prompt |
| `Deliver`, `Abandon`, `Revoke` | what workers, `cancel` and the writer role leave in the ledger |
| `Ask`, `Send` | `delete_publication` up to the request of `delete_post` |
| `Decide`, `TakeDown` | LinkedIn; the member on the site |
| `Answer`, `Lose`, `Record` | the answer of either adapter; a lost one; the event, on which the store may fail with or without having written it |

One key is enough: rows of different keys share nothing here. A run that is
killed or aborted at its prompt takes no further step, so a crash needs no
action. A write whose answer is lost ends in `error`, and so does a deletion whose
event cannot be written. The time of an approval
or a grant is left out; `Publication` has it.

## 3. Properties

* `NoReplay`, `LedgerNeverForgets`, `ReceiptIsReal`: the guarantee. They relate
  what was sent, what LinkedIn has and what the ledger says.
* `KeepsPromise`: `Publication` implements `Delivery` under `Promise`.
* `TransitionsAllowed`: the Postgres path keeps to the transition table that
  only the in-memory store enforces.
* `AuditIsTrue`: no audit row tells of a write that was not made; no request
  leaves before the `sending` row of its own attempt is there.
* `NeverEarly`: no request leaves before its slot or its deferral.
* `GrantIsOneShot`: no grant licenses two requests.
* `SendIsAuthorized`: when a request leaves, its publication is approved, was not
  revoked before the tick began and was inside its window then, and publishing
  was enabled or a grant is held. (That later revocations and switches are not
  seen is what `Gates` shows.)
* `ClaimIsExclusive`: tokens and leases exist exactly on live claims.
* `EverythingSettles`: every publication ends settled, or held for a human.
* `LimitHolds`, `RequestsAreCounted`: no counter passes a limit some replica
  holds it to; no request leaves that was not reserved, whoever dies.
* `OutstandingIsPaid`: a counter covers what left and what may still leave.
* `LockedHasRoom`: no two transactions have one row, and a row keeps the room
  its transaction saw.
* `NoDeadlock`, `ReservationEnds`: no circular wait; each reservation ends.
* `ReservesAtOnce`: `Budgets` implements `Quota` under `Promise`.
* `OnlyThumbnailsAreLost`: a create request carries all of its draft, but for the
  thumbnail of an article sent through the UGC adapter, which that adapter leaves
  out; and the bytes of whatever was to be uploaded, that thumbnail too, had
  landed before. `RefusalCostsNothing`: a refused capability
  has reserved and sent nothing, in whichever of three layers it is noticed.
* `WaitIsKept`: however a 429 words its delay and however late in the tick it
  comes, the row is due no earlier than it asked, seen from the tick's clock.
* `KeepsExchange`, `CallsEnd`: a caller is told only what is so; every call ends.
* `RegistrationIsKept`, `VerdictIsTrue`, `StaleProbeNeverOverwrites`: one
  identity per binding id; a verdict has its reasons, whatever failed in
  between; a probe of a rotated secret never reaches the row.
* `ImportIsOnce`, `WhatWasReviewed`: one payload per key, and everybody who was
  told of success finds theirs; what is licensed is what was reviewed and
  stored, and one grant at most is open.
* `DeletionIsTrue`: who is told "deleted" is right, and a deletion that may have
  happened, or may still, is told as unknown or hidden by an error of the store.
* `TypeOK`, `Inductive`, `Bookkeeping`: one type invariant per module, and the
  inductive invariants.

## 4. Runs

| Run | Instance | Shows |
|---|---|---|
| `Core` | 2 workers, 1 publication, 2 attempts, times 0..1, one crash | the guarantee, the refinement, the audit trail, authorised sends with the switch |
| `Window` | 2 workers, 1 publication, 2 attempts, times 0..2, two grants, one crash | the transition table, slots and deferrals, one-shot grants, sends authorised by a grant, the audit trail with expiry, `Bookkeeping` |
| `Pages` | 2 publications of which one fails preflight, pages of 1, 1 worker, 1 attempt, one crash, fairness | exclusive claims, everything settles |
| `Reservations` | 2 replicas with different profiles, 1 app, 1 member, 1 post, limits 1 to 3, fairness | limits, counted and paid requests, no deadlock, indivisible reservations that end |
| `Sending` | 2 calls, both adapters, ten drafts, five statuses, times 0..1, fairness | only UGC thumbnails are lost, refusals are free, waits are kept, the refinement of `Exchange`, calls end |
| `Registry` | 2 registrations, 1 inspection, three identities, six environments | one identity, true verdicts, no stale probe |
| `Desk` | 2 imports, 1 approval, 2 commissions, 2 deletions, 2 digests, 2 bindings | one payload, only what was reviewed, true deletions |
| `ZeroBudget` | 1 replica, an app limit of 0 | Postgres grants one request |
| `MemberCeiling` | 1 replica, 1 member, 1 post | reading one's own post back is not counted for the member |
| `Gates` | 1 worker | publishing is disabled during the tick and the send goes on |
| `Canary` | 1 worker, 1 grant, no capability enabled | an approved and granted canary is not taken |
| `Starvation` | 2 publications, page of 1 | an unapproved row takes the page |

`ZeroBudget` and the runs after it check one sentence of the repository
each and are expected to be violated; `findings` in `PROJECT.json` quotes the sentence.

**Seen without a run.** The code does the following, and the models but for the last;
each is against a remark or an expectation but breaks no promise above.

* Recovery decides on a snapshot and writes naming no token, so it can take a
  claim made after it looked (service.py:419, "Reclaim dead attempts").
* A deferral is not cut to the window (service.py:324), though store.py:103 says
  it is "always inside the approval window".
* A dry run recovers no lease, so it reports fewer rows than the live tick takes
  (service.py:192), though it is said to report "exactly what a live tick would attempt".
* An expired grant that was never consumed is open in the unique index: its
  publication cannot be commissioned again (postgres.py:392). An approval that
  was revoked cannot be given again in Postgres, while the in-memory store
  replaces it; and there is no command that revokes one (cli.py:592).
* A 429 of the upload PUT fails its publication (media.py:219).
* A lost deletion leaves no event, and when the event itself cannot be written
  the operator is told of the store and not that the post is gone (service.py:523).
* An article's thumbnail is uploaded and paid for through either adapter
  (client.py:197), and the UGC adapter then leaves it out (ugc.py:143), though a
  draft is "One post, exactly as it will be submitted." (models.py:133).
* An outage recorded by `account inspect --record` stores no scopes and no expiry,
  which on the row cannot be told from a dead token; an older observation of the
  same secret may overwrite a newer one (postgres.py:502).
* The second of two imports gets a raw constraint error (postgres.py:239).
* A wait is re-based on the start of the tick, so on the wall clock a row is due
  earlier than LinkedIn asked by as much as the tick had already taken
  (client.py:346); `WaitIsKept` is stated in the tick's clock for that reason.
* A batch that crosses midnight spends the budget of the day it began on
  (limits.py:176), and a deferred media post keeps the units it has paid for.
* A grant's capability is stored and compared with nothing (store.py:196).
* Entries of two bindings with one `post_id` make one manifest, and take one ledger
  key: `keys` puts one account into all of them (manifest.py:198, 219), though
  "a duplicate key inside one batch" is said to be refused "with the offending row
  named" (manifest.py:11).

**Bounds.** `MaxTime` stops the clock, `MaxCrashes` crashes, `MaxGrants`
grants, `SwitchValues` what the switch is set to, `Attempts` how many claims
there are in all. In `Core` the slot is open at 0 and 1 and the clock stops
before it is over: a claim made at 0 has lost its lease at 1, so it can be
recovered, and claimed again by the other worker, while its first worker still
runs. Elsewhere time 0 is before the slot; in `Window` 1 is inside the window
and 2 past it, in the others 1 and 2 are inside and 3 past it, so a row is
claimed, recovered, deferred, sent again and expires in one behaviour.
A deferral lasts one instant or none in `Window` and none in `Core`, where
the second send is what matters. Two workers are enough
for every hazard above: each is about a worker and one other actor. Two
attempts allow a first send and a second one, which is what a replay is, and a
name is used again once nothing refers to it. When none is left no claim can be
made, which is the end of a run and not of the program: the sweeps, the operators
and the clock go on. In `Pages` only one publication passes preflight, so one
name is enough for all of its claims.
Workers and attempts are symmetric in the runs without liveness.

`Budgets` needs no bound beside its sets: the limits bound the counters, and
`sent` never passes them. One day is enough, as counters of two days have
nothing in common; two replicas disagree on a limit, and each limit is reached,
by a plain post, within a media post, and by both at once.

**Fairness** (`Pages`): weak fairness of each worker's step and of the clock. A
worker that is scheduled keeps running and is started again by its scheduler
after a crash or a tick; time passes. Nothing is assumed of LinkedIn, of the
operators, or of any single action within a tick; an answer that never comes is
`LoseAnswer`, as the HTTP client has timeouts. Liveness is checked with one
worker only.

**Fairness** (`Reservations`): strong fairness of a replica's next upsert, as
Postgres hands a row to its waiters in turn and each transaction that has it
ends, and weak fairness of the commit. Nobody has to begin, to send or to live.

In `Sending` the counters are small enough that one call exhausts the register
budget of the other and both exhaust the app's, a day is one instant and there
are two, so that a call can be charged to the day before and an answer can be
late. There is one 3xx, one 5xx and each 4xx that is treated apart from the
rest, save 401 and 403, which only choose another code for the same verdict. In
`Registry` the environments hold the right secret and one of each fault. In
`Desk` runs of a kind are symmetric; two of each that race are enough as each
property is about two of them. There the next step of a run may never come, so
these three runs do not check for deadlock: they end when all runs have.

**Fairness** (`Sending`): weak fairness of each call's step. A coroutine that
can run does, and httpx gives every request a timeout (`LoseAnswer`). Nothing
is asked of LinkedIn, and no call has to begin.

Every property of a passing run has a mutant: a definition of the model
changed the way a plausible bug would (`SweptForRetry`, `LoseAnswerAsThrottle`,
`CommitAnyClaim`, ...), under which TLC finds the property violated. They stand
before the definition they replace, marked `Mutant`.

## 5. Proofs

`PublicationProofs` proves, for any sets of publications, workers and attempts
and any times and bounds that satisfy `NamesAssumption` and `TimesAssumption`:

| Theorem | Statement |
|---|---|
| `Invariance` | `Spec => [](TypeOK /\ Inductive)` |
| `TypeCorrect` | `Spec => []TypeOK` |
| `NoReplayAfterAmbiguity` | `Spec => []NoReplay` |
| `SendIsNeverForgotten` | `Spec => []LedgerNeverForgets` |
| `PublishedIsPosted` | `Spec => []ReceiptIsReal` |
| `PublicationKeepsPromise` | `Spec => KeepsPromise` |
| `PublicationIsSafe` | `Spec => [](Promise!AtMostOnePost /\ Promise!NothingOutstanding)` |

The assumptions say that the null values are not names, that windows are not
empty (the table's CHECK) and that times are numbers.

*Why the invariant.* None of the three properties is inductive: that no second
request leaves depends on who is about to send. `Inductive` adds that an
attempt belongs to one worker and is unspent until it transmits
(`AttemptsOwned`); that while a worker is between its commit and its settlement
its row is committed, and `sending` only under its own token
(`SendersHoldRow`); hence at most one such worker per publication, however long
it lingers after losing its lease (`OneSender`); that requests exist only for
committed rows (`SpentIsCommitted`), none before a sender transmits
(`SenderRequests`); and that the outcome a worker is about to write is what
became of its request (`OutcomeIsTrue`).

*The argument.* A row becomes sendable again only by settling a deferral, which
needs the row's own token and, by `OutcomeIsTrue`, happens when no request of
it is left; or by recovering or releasing a *claim*, for which nothing was ever
sent. A commit needs a claimed row, so no other sender holds it and no request
exists. Therefore a request that leaves is the only one. The proof groups the
actions by what the invariant can see of them: nothing (`StandingStill`), one
row rewritten while workers rest (`OneRowFits`, with `Fits` stating what a
row must agree with), a worker moving on (`MovingOn`), a sender concluding
(`ConcludeStep`); claiming, committing, transmitting, a throttled answer and
LinkedIn's answers are proved one by one.

*The refinement* needs nothing more: every step maps to one step of `Delivery`
or leaves `phase`, `exposed` and `posts` as they are. What has to be shown is that a
row put back, withdrawn or failed has nothing exposed, which is `OutcomeIsTrue` and
`LedgerNeverForgets`, and that a request or a post is the only one, which is
`OneSender` and `NoReplay`. `Delivery` proves of itself, by an invariant of
four conjuncts, that whatever keeps the promise is safe (`DeliveryIsSafe`), and
`PublicationIsSafe` is the two together.

`PublicationHistory` proves, under the same assumptions:

| Theorem | Statement |
|---|---|
| `BookkeepingHolds` | `Spec => []Bookkeeping` |
| `ClaimsAreExclusive`, `AuditIsNeverWrong` | `Spec => []` of `ClaimIsExclusive`, `AuditIsTrue` |
| `WritesObeyTheTable`, `NothingLeavesEarly`, `GrantsAreOneShot`, `SendsAreAuthorized` | `Spec =>` `TransitionsAllowed`, `NeverEarly`, `GrantIsOneShot`, `SendIsAuthorized` |

*Why a second invariant.* A worker checks at one await and acts some awaits
later, so each of these properties needs to say what is still so at the places
in between, while others write. `Bookkeeping` says it place by place, per worker
(`TickIsInOrder`): its clock is never ahead; a sweep's snapshot has one entry
per row, and the row it changed is still as it will audit it (`SweepAgrees`), as
is the one a sender settled (`EndAgrees`); what had to be audited is, a send
under its own token (`EventsPrecede`); past the gates the slot has come, and no
deferral lies ahead unless the row has changed hands, when the commit fails
(`SlotHasCome`); the approval and the window stood when the tick began
(`GatesWereOpen`); the grant carried has licensed nothing yet and is closed once
consumed (`LicenceIsOwn`). Of the tables it says that claims are exclusive, the
trail is true, and a grant that was used is closed for good.

*The argument.* The records move in few ways: a row is opened by a claim with a
fresh token, moved on under the same claim, or closed, and only its own sender
defers it (`LedgerMoves`); a grant is closed or replaced by a later one
(`GrantsMove`); an approval is given once and revoked as of the present
(`ApprovalsMove`); the trail grows, but for tokens that nothing refers to
(`TrailGrows`). Every step is shown to move them so. Then each worker is either
the one that steps (`ActorKeepsOrder`, action by action) or a bystander whose
memory is untouched and whom those four facts do not hurt
(`BystanderKeepsOrder`): a row that left its claim cannot come back under the
same token, a settled row does not move, and, by `OneSender` of the first
invariant, nobody else defers or transmits a publication that is on its way.

`BudgetsProofs` proves, for any sets and any profiles of natural numbers
(`ProfilesAssumption`):

| Theorem | Statement |
|---|---|
| `Locking` | `Spec => [](TypeOK /\ LockedHasRoom)` |
| `BudgetTypes` | `Spec => []TypeOK` |
| `NoCircularWait` | `Spec => []NoDeadlock` |
| `BudgetsHold` | `LimitsArePositive /\ Spec => []LimitHolds` |
| `ReservationsArePaid` | `Spec => []OutstandingIsPaid` |
| `RequestsArePaid` | `Spec => []RequestsAreCounted` |
| `ReservationsAreIndivisible` | `LimitsArePositive /\ Spec => ReservesAtOnce` |

`LockedHasRoom` is inductive with the types: a row a transaction has is changed
by nobody else, so the room it saw is there at the commit, which gives
`LimitHolds` and the refinement. There is no circle because a transaction that
has the row of an endpoint has all it wants, so nobody waits for an endpoint
row for ever, hence nobody for a member row, hence nobody for an app row; two
apps or members never matter. `LimitsArePositive` is needed: `ZeroBudget` shows
what happens without it. That no request leaves unpaid is not inductive: between
the reservations of a media post and its three requests the units are spent and
nothing has left. `OutstandingIsPaid` adds, per counter, what each replica may still
send; a commit adds one to both sides, a request moves one from outstanding to
sent, and a crash, a refusal or an upload given up only takes from what is
outstanding, so units are lost and never gained.

`SendingProofs` proves, for any calls, drafts, budgets, statuses and headers
(`DraftsAssumption`, `NumbersAssumption`):

| Theorem | Statement |
|---|---|
| `SendingInvariant` | `Spec => []Inductive` |
| `SendingTypes`, `SendingLosesOnlyThumbnails`, `SendingRefusesForFree`, `SendingKeepsWaits` | `Spec => []` of `TypeOK`, `OnlyThumbnailsAreLost`, `RefusalCostsNothing`, `WaitIsKept` |
| `SendingKeepsExchange` | `Spec => KeepsExchange` |
| `ExchangeStaysTrue` | `Contract!ExchangeSpec => []Contract!StaysTrue` |
| `SendingStaysTrue` | `Spec => []Contract!StaysTrue` |

`CallInvariant` ties the place in a call to what has left and to what is held:
whatever is to be uploaded has landed before the create request is paid for, and
nothing else is uploaded, a document never gets past `check` where the
product has none, an answer that waits to be heard is what LinkedIn decided. The
refinement is proved action by action: each maps to `Leave`, `Decide`, `Tell`
or a stutter. What `Exchange` is worth is proved of it: what a caller was told
stays true whatever LinkedIn does next, which is what lets `Publication` take the
call for its outcome.

`RegistryProofs` proves, for any commands, identities and environments:
`RegistryInvariant`, `RegistryTypes`, `RegistryKeepsRegistrations`,
`RegistryVerdicts` and `RegistryRefusesStaleProbes`. Its invariant says what each
finding, at each place of an inspection, may contain; a registration that was
confirmed pins the row but for its version.

`DeskProofs` proves, for any runs, digests and bindings: `DeskInvariant`,
`DeskTypes`, `DeskImportsOnce`, `DeskLicensesTheReviewed` and `DeskDeletesTruly`.
The heart is that a stored payload never changes: what a run matched it still
matches at its prompt, however long that lasts; and that a deletion's place
agrees with what LinkedIn made of its request.

`Manifest` proves that `_resolve_wall_time` accepts exactly the offsets a zone
has (`AcceptsWhatTheZoneHas`) and that no entry has an empty window
(`WindowIsNeverEmpty`). A zone is one transition, and the rules of `zoneinfo` for
a wall time near one are written down in `OffsetOfWall`: transitions are months
apart, offsets hours, so a wall time never sees two. The keys of a batch are not
modelled; section 4 says where they collide.

Every safety property that a passing run checks, invariant, action property or
refinement, is so stated by a theorem. Only model-checked are the liveness
properties `EverythingSettles`, `ReservationEnds` and `CallsEnd`, as TLAPS has no
rules for fairness here, and of course the sentences the last five runs refute.
The theorems rest on the named assumptions of the modules, which TLC evaluates on
every instance, and two of them on `LimitsArePositive`.

## 6. Not modelled, and the plan

* `get_post`, `map_read_failure`, share statistics: they read and change nothing;
  what they are charged is in `Budgets`.
* Dry runs and `manifest validate`: they only print.
* `HealthCache`, `require_fresh`: for hosts; no code of the repository calls them.
* A manifest's way into the ledger: hosts and tests call `upsert_publication`,
  nothing under `src/linkedin_publish` does.
* Migrations and roles: an operator applies them one after another under an
  advisory lock, each in a transaction with its record.
* Connection credentials, wire formats, URN and JSON helpers, the tooling of the
  repository: no state that interleaves.
* `token_observed_at` and the order of two observations; `attempts`.
* The table `media_uploads`: no code writes it.

Left to do: liveness of `Publication` with two workers on a smaller instance; a
proof that a `publish` call of `Sending` allows every outcome `Publication` chooses
and no other, which today is the common contract `Exchange` only.
