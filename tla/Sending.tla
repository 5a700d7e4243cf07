------------------------------ MODULE Sending -------------------------------
(***************************************************************************)
(* One LinkedInClient.publish per call: check and prepare, the three       *)
(* reservations, the register request, the upload, the create request, the *)
(* reading of its answer, and the end PublicationService settles the row   *)
(* with. The calls of one binding run side by side: they share its         *)
(* budgets, and LinkedIn may decide a request after its caller gave up.    *)
(*                                                                         *)
(* One action is the code between two awaits that touch shared state. The  *)
(* register request and the upload are one action each with their answer,  *)
(* as nothing else looks at a slot; the create request and its answer are  *)
(* not.                                                                    *)
(***************************************************************************)
EXTENDS Integers, FiniteSets

CONSTANTS
    Calls,          \* sends of one binding, a publication each
    Adapters,       \* the adapters the binding may be configured for
    Drafts,         \* the posts a call may carry
    Authors,        \* the URNs the binding may author as
    Enabled,        \* the capabilities commissioning has enabled
    PerEndpoint,    \* daily ceiling of each endpoint
    AllDaily,       \* daily ceiling of the app and of the member
    DayLength,
    Backoff,        \* DEFAULT_RATE_LIMIT_BACKOFF
    Statuses,       \* HTTP statuses LinkedIn answers with
    RetryAfters,    \* Retry-After headers of its 429s
    MaxTime         \* bound: the clock stops here

Endpoints == {"register", "upload", "create"}

NoAsset == [access |-> "none", size |-> 0, type |-> "none", declared |-> "none"]

ASSUME DraftsAssumption ==
    /\ Adapters \subseteq {"share_ugc", "rest_posts"}
    /\ \A d \in Drafts :
          /\ d.media \in {"none", "article", "image", "document"}
          /\ d.media \in {"image", "document"} => d.asset # NoAsset
          /\ d.media = "none" => d.asset = NoAsset

ASSUME NumbersAssumption ==
    /\ PerEndpoint \in [Endpoints -> Nat]
    /\ {AllDaily, Backoff, MaxTime} \subseteq Nat
    /\ DayLength \in Nat \ {0}
    /\ Statuses \subseteq 200..599
    /\ \A after \in RetryAfters :
          after.form \in {"absent", "delta", "date"} /\ after.n \in Int

VARIABLES
    clock,
    adapter,        \* the binding's adapter
    draft,          \* the post of each call
    moment,         \* the time its tick began, which it is given as `now`
    at,             \* where the call is
    paid,           \* the reservations it has made
    sent,           \* the requests that have left
    asset,          \* what LinkedIn holds at the slot the call refers to
    content,        \* what its create request carries
    wire,           \* what LinkedIn made of its create request
    reply,          \* the answer to it, when there is one
    verdict,        \* how the call ended, and what the row is settled with
    wait            \* history: how long a 429 asked to wait, and when it was read

vars == <<clock, adapter, draft, moment, at, paid, sent, asset, content, wire,
          reply, verdict, wait>>

Places == {"idle", "pay_register", "pay_upload", "register", "upload",
           "pay_create", "create", "await", "done"}

Codes == {"none", "validation", "credential_expired", "author_forbidden",
          "capability_unavailable", "quota_deferred", "transient_read_failure",
          "publish_outcome_unknown", "provider_rejected", "unclassified"}

Verdict == [state : {"none", "published", "pending", "failed", "unknown"},
            code : Codes, notBefore : Nat]
Undecided == [state |-> "none", code |-> "none", notBefore |-> 0]

NoHeader == [form |-> "absent", n |-> 0]
Reply == [status : 0..599, urn : {"none", "header", "body"},
          after : RetryAfters \cup {NoHeader}, until : Int]
NoReply == [status |-> 0, urn |-> "none", after |-> NoHeader, until |-> 0]

NoWait == [asked |-> FALSE, until |-> 0, heard |-> 0]

TypeOK ==
    /\ clock \in Nat
    /\ adapter \in Adapters
    /\ draft \in [Calls -> Drafts]
    /\ moment \in [Calls -> Nat]
    /\ at \in [Calls -> Places]
    /\ paid \in [Calls -> SUBSET Endpoints]
    /\ sent \in [Calls -> SUBSET Endpoints]
    /\ asset \in [Calls -> {"none", "registered", "landed"}]
    /\ content \in [Calls -> {"none", "text", "link", "link+thumbnail", "media"}]
    /\ wire \in [Calls -> {"none", "inflight", "accepted", "refused", "throttled"}]
    /\ reply \in [Calls -> Reply]
    /\ verdict \in [Calls -> Verdict]
    /\ wait \in [Calls -> [asked : BOOLEAN, until : Int, heard : Nat]]

Init ==
    /\ clock = 0
    /\ adapter \in Adapters
    /\ draft \in [Calls -> Drafts]
    /\ moment = [c \in Calls |-> 0]
    /\ at = [c \in Calls |-> "idle"]
    /\ paid = [c \in Calls |-> {}]
    /\ sent = [c \in Calls |-> {}]
    /\ asset = [c \in Calls |-> "none"]
    /\ content = [c \in Calls |-> "none"]
    /\ wire = [c \in Calls |-> "none"]
    /\ reply = [c \in Calls |-> NoReply]
    /\ verdict = [c \in Calls |-> Undecided]
    /\ wait = [c \in Calls |-> NoWait]

-----------------------------------------------------------------------------
(***************************************************************************)
(* Classification.                                                         *)
(***************************************************************************)

\* Mutant: an error of the gateway is taken for a refusal.
WriteFailureOfGateway(status) ==
    CASE status = 401 -> "credential_expired"
      [] status = 403 -> "author_forbidden"
      [] status = 429 -> "quota_deferred"
      [] OTHER -> "provider_rejected"

\* map_write_failure.
WriteFailure(status) ==
    CASE status = 401 -> "credential_expired"
      [] status = 403 -> "author_forbidden"
      [] status = 429 -> "quota_deferred"
      [] status \in 400..499 \ {401, 403, 429} -> "provider_rejected"
      [] OTHER -> "publish_outcome_unknown"

\* Mutant: a deferral is settled in a state the ledger does not have.
SettledAsDeferred(code) ==
    CASE code = "quota_deferred" -> "deferred"
      [] code = "publish_outcome_unknown" -> "unknown"
      [] OTHER -> "failed"

\* The except clauses of publish_one: the state a row is settled in.
SettledAs(code) ==
    CASE code = "quota_deferred" -> "pending"
      [] code \in {"provider_rejected", "validation", "author_forbidden",
                   "credential_expired"} -> "failed"
      [] OTHER -> "unknown"

\* Mutant: a Retry-After that is a date is not understood.
RetryAtDeltaOnly(after, now) ==
    CASE after.form = "delta" -> IF after.n < 0 THEN now ELSE now + after.n
      [] OTHER -> now + Backoff

\* parse_retry_after and the fallback of _deferral.
RetryAt(after, now) ==
    CASE after.form = "delta" -> IF after.n < 0 THEN now ELSE now + after.n
      [] after.form = "date"  -> IF after.n < now THEN now ELSE after.n
      [] OTHER -> now + Backoff

\* _rebase_deferral: what is left to wait, counted from the start of the tick.
Rebased(until, start) == start + (IF until < clock THEN 0 ELSE until - clock)

\* What the header itself asks for, were it obeyed to the letter.
Asked(after, now) ==
    CASE after.form = "delta" -> now + after.n
      [] after.form = "date"  -> after.n
      [] OTHER -> now

-----------------------------------------------------------------------------
(***************************************************************************)
(* Check and prepare: nothing is reserved and nothing leaves.              *)
(***************************************************************************)
Capability(d) == IF d.media = "none" THEN "text" ELSE d.media

AssetKind(d) == IF d.media = "article" THEN "thumbnail" ELSE d.media

NeedsAsset(d) == d.asset # NoAsset

Accepted(kind) ==
    IF kind = "document" THEN {"application/pdf"}
    ELSE {"image/png", "image/jpeg", "image/gif"}

MaxBytes(kind) == (IF kind = "document" THEN 100 ELSE 8) * 1024 * 1024

\* sniff_and_validate: the reader may also fail in a way it does not name.
Sniffed(a, kind) ==
    CASE a.access = "broken" -> "unclassified"
      [] a.access = "granted" /\ a.size \in 1..MaxBytes(kind)
             /\ a.type \in Accepted(kind) /\ a.declared \in {"none", a.type} -> "none"
      [] OTHER -> "validation"

\* Mutant: whether the product has documents is left to the adapter.
CheckedByCapability(d) ==
    CASE d.author \notin Authors      -> "author_forbidden"
      [] d.author \in Authors /\ Capability(d) \notin Enabled -> "capability_unavailable"
      [] OTHER -> "none"

\* LinkedInClient.check.
Checked(d) ==
    CASE d.author \notin Authors -> "author_forbidden"
      [] d.author \in Authors /\ Capability(d) \notin Enabled -> "capability_unavailable"
      [] d.author \in Authors /\ d.media = "document" /\ adapter = "share_ugc" ->
             "capability_unavailable"
      [] OTHER -> "none"

Goto(c, place) == at' = [at EXCEPT ![c] = place]

\* The call ends: publish returns or raises, and the row is settled.
End(c, state, code, notBefore) ==
    /\ verdict' = [verdict EXCEPT ![c] =
                     [state |-> state, code |-> code, notBefore |-> notBefore]]
    /\ Goto(c, "done")

Fail(c, code) == End(c, SettledAs(code), code, 0) /\ UNCHANGED wait

\* A 429 of this moment or of an answer read now.
Defer(c, after, asked) ==
    /\ End(c, SettledAs("quota_deferred"), "quota_deferred",
           Rebased(RetryAt(after, clock), moment[c]))
    /\ wait' = [wait EXCEPT ![c] = [asked |-> TRUE, until |-> asked, heard |-> clock]]

\* The tick the call belongs to began now or a while ago.
Begin(c) ==
    /\ at[c] = "idle"
    /\ \E start \in 0..clock : moment' = [moment EXCEPT ![c] = start]
    /\ LET refusal == IF Checked(draft[c]) # "none" THEN Checked(draft[c])
                      ELSE IF NeedsAsset(draft[c])
                           THEN Sniffed(draft[c].asset, AssetKind(draft[c]))
                           ELSE "none"
       IN  \/ refusal # "none" /\ Fail(c, refusal)
           \/ /\ refusal = "none"
              /\ Goto(c, IF NeedsAsset(draft[c]) THEN "pay_register" ELSE "pay_create")
              /\ UNCHANGED <<verdict, wait>>
    /\ UNCHANGED <<clock, adapter, draft, paid, sent, asset, content, wire, reply>>

-----------------------------------------------------------------------------
(***************************************************************************)
(* The reservations. Budgets has the counters and their locks; here they   *)
(* are what the calls have paid for on the day their ticks began.          *)
(***************************************************************************)
Day(time) == time \div DayLength

\* next_utc_midnight: when the budgets of that day refill.
Midnight(time) == (Day(time) + 1) * DayLength

Spent(e, day) == Cardinality({c \in Calls : e \in paid[c] /\ Day(moment[c]) = day})

HasRoom(e, day) ==
    /\ Spent(e, day) < PerEndpoint[e]
    /\ Spent("register", day) + Spent("upload", day) + Spent("create", day) < AllDaily

Pay(c, e) ==
    /\ HasRoom(e, Day(moment[c]))
    /\ paid' = [paid EXCEPT ![c] = @ \cup {e}]

\* The store may also fail, before the reservation commits or after it.
Reserve(c, from, e, next) ==
    /\ at[c] = from
    /\ \/ Pay(c, e) /\ Goto(c, next) /\ UNCHANGED <<verdict, wait>>
       \/ /\ ~HasRoom(e, Day(moment[c]))
          /\ End(c, SettledAs("quota_deferred"), "quota_deferred", Midnight(moment[c]))
          /\ UNCHANGED <<paid, wait>>
       \/ Fail(c, "unclassified") /\ (Pay(c, e) \/ UNCHANGED paid)
    /\ UNCHANGED <<clock, adapter, draft, moment, sent, asset, content, wire, reply>>

PayRegister(c) == Reserve(c, "pay_register", "register", "pay_upload")
PayUpload(c)   == Reserve(c, "pay_upload", "upload", "register")
PayCreate(c)   == Reserve(c, "pay_create", "create", "create")

-----------------------------------------------------------------------------
(***************************************************************************)
(* The media. A call that fails here forgets its slot: what LinkedIn keeps *)
(* of it is never referred to, by this call or by another.                 *)
(***************************************************************************)
Sends(c, e) == sent' = [sent EXCEPT ![c] = @ \cup {e}]

Holds(c, state) == asset' = [asset EXCEPT ![c] = state]

\* upload_image or upload_document, up to the answer of the register request.
\* What the UGC adapter says of a document, it says before any request.
Register(c) ==
    /\ at[c] = "register"
    /\ IF adapter = "share_ugc" /\ draft[c].media = "document"
       THEN Fail(c, "capability_unavailable") /\ UNCHANGED <<sent, asset>>
       ELSE /\ Sends(c, "register")
            /\ \/ /\ Fail(c, "publish_outcome_unknown")
                  /\ UNCHANGED asset
               \/ /\ \E status \in Statuses :
                        /\ status >= 400 /\ status # 429
                        /\ Fail(c, WriteFailure(status))
                  /\ UNCHANGED asset
               \/ /\ 429 \in Statuses
                  /\ \E after \in RetryAfters : Defer(c, after, Asked(after, clock))
                  /\ UNCHANGED asset
               \/ /\ \E code \in {"provider_rejected", "validation"} : Fail(c, code)
                  /\ UNCHANGED asset
               \/ /\ Goto(c, "upload")
                  /\ Holds(c, "registered")
                  /\ UNCHANGED <<verdict, wait>>
    /\ UNCHANGED <<clock, adapter, draft, moment, paid, content, wire, reply>>

\* A PUT of which a status up to `last` is taken for success.
UploadUpTo(c, last) ==
    /\ at[c] = "upload"
    /\ Sends(c, "upload")
    /\ \/ /\ \E code \in {"publish_outcome_unknown", "transient_read_failure", "unclassified"} :
                Fail(c, code)
          /\ UNCHANGED asset
       \/ \E status \in Statuses :
             /\ status > last
             /\ Fail(c, "provider_rejected")
             /\ UNCHANGED asset
       \/ \E status \in Statuses :
             /\ status <= last
             /\ Goto(c, "pay_create")
             /\ Holds(c, IF status < 300 THEN "landed" ELSE asset[c])
             /\ UNCHANGED <<verdict, wait>>
    /\ UNCHANGED <<clock, adapter, draft, moment, paid, content, wire, reply>>

\* Mutant: a redirected upload is taken for a finished one.
UploadDespiteRedirect(c) == UploadUpTo(c, 399)

\* upload_bytes: redirects are refused.
Upload(c) == UploadUpTo(c, 299)

-----------------------------------------------------------------------------
(***************************************************************************)
(* The create request and its answer.                                      *)
(***************************************************************************)

\* What publish passes on as media_urn.
Uploaded(c) == "upload" \in sent[c]

Content(c) ==
    CASE draft[c].media = "none" -> "text"
      [] draft[c].media = "article" ->
             IF adapter = "rest_posts" /\ Uploaded(c) THEN "link+thumbnail" ELSE "link"
      [] OTHER -> "media"

\* create_post, up to the request.
CreateRefusal(c) ==
    CASE adapter = "share_ugc" /\ draft[c].media = "document" -> "capability_unavailable"
      [] Content(c) = "media" /\ ~Uploaded(c) -> "provider_rejected"
      [] OTHER -> "none"

Create(c) ==
    /\ at[c] = "create"
    /\ IF CreateRefusal(c) # "none"
       THEN Fail(c, CreateRefusal(c)) /\ UNCHANGED <<sent, content, wire>>
       ELSE /\ Sends(c, "create")
            /\ content' = [content EXCEPT ![c] = Content(c)]
            /\ wire' = [wire EXCEPT ![c] = "inflight"]
            /\ Goto(c, "await")
            /\ UNCHANGED <<verdict, wait>>
    /\ UNCHANGED <<clock, adapter, draft, moment, paid, asset, reply>>

\* LinkedIn decides. A 2xx has created the post, a 4xx has not, anything else
\* may have; the URN of what it created is in a header, in the body, or lost.
Decide(c) ==
    /\ wire[c] = "inflight"
    /\ \E status \in Statuses, made \in BOOLEAN,
          urn \in {"none", "header", "body"}, after \in RetryAfters :
          /\ status < 300 => made
          /\ status \in 400..499 => ~made
          /\ urn # "none" => made /\ status < 400
          /\ wire' = [wire EXCEPT ![c] = CASE made -> "accepted"
                                           [] ~made /\ status = 429 -> "throttled"
                                           [] OTHER -> "refused"]
          /\ IF at[c] = "await"
             THEN reply' = [reply EXCEPT ![c] =
                     IF status = 429
                     THEN [status |-> 429, urn |-> "none", after |-> after,
                           until |-> Asked(after, clock)]
                     ELSE [NoReply EXCEPT !.status = status, !.urn = urn]]
             ELSE UNCHANGED reply
    /\ UNCHANGED <<clock, adapter, draft, moment, at, paid, sent, asset, content,
                   verdict, wait>>

\* restli_id, and _body_id of the UGC adapter.
Named(c) ==
    reply[c].urn = "header" \/ (adapter = "share_ugc" /\ reply[c].urn = "body")

Hear(c) ==
    /\ at[c] = "await" /\ reply[c] # NoReply
    /\ \/ reply[c].status < 400 /\ Named(c)
              /\ End(c, "published", "none", 0) /\ UNCHANGED wait
       \/ reply[c].status < 400 /\ ~Named(c) /\ Fail(c, "publish_outcome_unknown")
       \/ reply[c].status = 429 /\ Defer(c, reply[c].after, reply[c].until)
       \/ reply[c].status >= 400 /\ reply[c].status # 429
              /\ Fail(c, WriteFailure(reply[c].status))
    /\ reply' = [reply EXCEPT ![c] = NoReply]
    /\ UNCHANGED <<clock, adapter, draft, moment, paid, sent, asset, content, wire>>

\* Mutant: the client has no timeout.
NeverLoseAnswer(c) == FALSE /\ UNCHANGED vars

\* A timeout or a broken connection, whatever LinkedIn made of the request.
LoseAnswer(c) ==
    /\ at[c] = "await"
    /\ Fail(c, "publish_outcome_unknown")
    /\ reply' = [reply EXCEPT ![c] = NoReply]
    /\ UNCHANGED <<clock, adapter, draft, moment, paid, sent, asset, content, wire>>

AdvanceClock ==
    /\ clock < MaxTime
    /\ clock' = clock + 1
    /\ UNCHANGED <<adapter, draft, moment, at, paid, sent, asset, content, wire,
                   reply, verdict, wait>>

Step(c) ==
    \/ PayRegister(c) \/ PayUpload(c) \/ PayCreate(c)
    \/ Register(c) \/ Upload(c) \/ Create(c) \/ Hear(c) \/ LoseAnswer(c)

Next ==
    \/ \E c \in Calls : Begin(c) \/ Step(c) \/ Decide(c)
    \/ AdvanceClock

Spec == Init /\ [][Next]_vars

\* A call that runs keeps running, and httpx ends every request by a timeout.
\* Nothing is asked of LinkedIn, and no call has to begin.
FairSpec == Spec /\ \A c \in Calls : WF_vars(Step(c))

-----------------------------------------------------------------------------
(***************************************************************************)
(* Properties.                                                             *)
(***************************************************************************)

\* What the create request of a draft carries when nothing is left out.
Drafted(d) ==
    CASE d.media = "none" -> "text"
      [] d.media = "article" -> IF NeedsAsset(d) THEN "link+thumbnail" ELSE "link"
      [] OTHER -> "media"

\* The Share product has no thumbnails: publish uploads and pays for one, and
\* create_post leaves it out (ugc.py:143).
LosesThumbnail(c) ==
    adapter = "share_ugc" /\ draft[c].media = "article" /\ NeedsAsset(draft[c])

\* "One post, exactly as it will be submitted" (models.py:133) holds but for the
\* thumbnails the UGC adapter leaves out: every other create request carries all
\* of its draft, so no image or document degrades into a text and no thumbnail is
\* given up because its upload failed; and whenever a draft has an asset, its
\* bytes have reached LinkedIn before the request leaves, in that case too.
OnlyThumbnailsAreLost ==
    \A c \in Calls :
        wire[c] # "none" =>
            /\ \/ content[c] = Drafted(draft[c])
               \/ content[c] = "link" /\ LosesThumbnail(c)
            /\ NeedsAsset(draft[c]) => asset[c] = "landed"

\* "Raised before any network call" (errors.py:144), "so a refusal costs nothing"
\* (client.py:129): wherever in the three layers a missing capability is noticed,
\* the call has reserved nothing and sent nothing.
RefusalCostsNothing ==
    \A c \in Calls :
        verdict[c].code = "capability_unavailable" => paid[c] = {} /\ sent[c] = {}

\* However a 429 words its delay, and however long ago the tick began, the row is
\* not due earlier than LinkedIn asked by more than the time the tick had already
\* taken (client.py:346): the wait is shifted into the tick's clock, never cut.
WaitIsKept ==
    \A c \in Calls :
        wait[c].asked =>
            verdict[c].notBefore + (wait[c].heard - moment[c]) >= wait[c].until

\* Every call that begins tells its caller how it ended, although LinkedIn may
\* never answer: no row is left `sending` by a live worker (service.py:313).
CallsEnd == \A c \in Calls : at[c] # "idle" ~> at[c] = "done"

\* What the caller is told is what Exchange promises.
Contract == INSTANCE Exchange WITH told <- [c \in Calls |-> verdict[c].state]

KeepsExchange == Contract!ExchangeSpec

-----------------------------------------------------------------------------
(***************************************************************************)
(* The inductive invariant.                                                *)
(***************************************************************************)
CallInvariant(c) ==
    \* a call is done exactly when it has a verdict
    /\ at[c] = "done" <=> verdict[c].state # "none"
    /\ at[c] # "done" => verdict[c] = Undecided
    \* the place in the call says what has left
    /\ at[c] = "idle" => paid[c] = {} /\ sent[c] = {}
    /\ at[c] \in {"idle", "pay_register", "pay_upload", "register", "upload",
                  "pay_create", "create"} => wire[c] = "none"
    /\ at[c] = "await" => wire[c] # "none"
    /\ at[c] \in {"pay_create", "create"} /\ Uploaded(c) => asset[c] = "landed"
    /\ at[c] # "await" => reply[c] = NoReply
    \* a document never gets past the check of the product that has none
    /\ draft[c].media = "document" /\ adapter = "share_ugc" => at[c] \in {"idle", "done"}
    \* what has an asset, and nothing else, uploads it before paying for the create
    /\ at[c] \in {"pay_create", "create"} => (Uploaded(c) <=> NeedsAsset(draft[c]))
    /\ at[c] \in {"pay_register", "pay_upload", "register", "upload"} =>
           NeedsAsset(draft[c]) /\ ~Uploaded(c)
    \* what was heard is what LinkedIn decided
    /\ reply[c].status \in 200..299 => wire[c] = "accepted"
    /\ reply[c].urn # "none" => wire[c] = "accepted"
    /\ reply[c].status = 429 => wire[c] = "throttled"
    /\ reply[c].status \in 400..499 \ {429} => wire[c] = "refused"
    /\ wait[c].asked => at[c] = "done"
    /\ moment[c] <= clock
    /\ reply[c].status = 429 => reply[c].until <= Asked(reply[c].after, clock)

Inductive == TypeOK /\ (\A c \in Calls : CallInvariant(c)) /\ OnlyThumbnailsAreLost
                    /\ RefusalCostsNothing /\ WaitIsKept
=============================================================================
