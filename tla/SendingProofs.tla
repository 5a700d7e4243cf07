--------------------------- MODULE SendingProofs ----------------------------
(***************************************************************************)
(* Proofs about Sending, for any set of calls, drafts, statuses, headers   *)
(* and budgets: the inductive invariant, the properties it contains, and   *)
(* that a send keeps the promise of Exchange.                              *)
(***************************************************************************)
EXTENDS Sending, TLAPS

USE DraftsAssumption, NumbersAssumption

\* A row is settled in one of three states when a call raises.
LEMMA SettledStates ==
    ASSUME NEW code \in Codes
    PROVE  /\ SettledAs(code) \in {"pending", "failed", "unknown"}
           /\ SettledAs(code) = "pending" <=> code = "quota_deferred"
  BY DEF SettledAs, Codes

\* A refused write is never "capability unavailable", and only 429 defers.
LEMMA WriteFailureCodes ==
    ASSUME NEW status \in Int, status # 429
    PROVE  /\ WriteFailure(status) \in Codes
           /\ WriteFailure(status) \notin {"capability_unavailable", "quota_deferred"}
           /\ status \notin 400..499 => SettledAs(WriteFailure(status)) = "unknown"
  BY DEF WriteFailure, Codes, SettledAs

\* LinkedIn refuses a write with a 4xx, and the row fails with its reason.
LEMMA RefusedWrites ==
    ASSUME NEW status \in 400..499, status # 429
    PROVE  WriteFailure(status) \in
             {"credential_expired", "author_forbidden", "provider_rejected"}
  BY DEF WriteFailure

LEMMA CheckedCodes ==
    ASSUME NEW d
    PROVE  Checked(d) \in {"none", "author_forbidden", "capability_unavailable"}
  BY DEF Checked

LEMMA SniffedCodes ==
    ASSUME NEW a, NEW kind
    PROVE  Sniffed(a, kind) \in {"none", "unclassified", "validation"}
  BY DEF Sniffed

\* The refill of a budget is a time of day.
LEMMA MidnightIsTime ==
    ASSUME NEW time \in Nat
    PROVE  Midnight(time) \in Nat
<1>1. Day(time) \in Nat  BY DEF Day
<1>2. ASSUME NEW n \in Nat  PROVE (n + 1) * DayLength \in Nat
  BY <1>2
<1> QED  BY <1>1, <1>2 DEF Midnight

\* parse_retry_after never answers with a time that is past.
LEMMA RetryIsLater ==
    ASSUME NEW after \in RetryAfters \cup {NoHeader}, NEW now \in Nat
    PROVE  /\ RetryAt(after, now) \in Nat
           /\ RetryAt(after, now) >= now
           /\ RetryAt(after, now) >= Asked(after, now)
           /\ Asked(after, now) \in Int
<1>1. after.form \in {"absent", "delta", "date"} /\ after.n \in Int  BY DEF NoHeader
<1> QED  BY <1>1 DEF RetryAt, Asked

\* What a header asks for moves with the clock, or stays.
LEMMA AskedGrows ==
    ASSUME NEW after \in RetryAfters \cup {NoHeader}, NEW now \in Nat, NEW later \in Nat,
           now <= later
    PROVE  Asked(after, now) <= Asked(after, later)
<1>1. after.form \in {"absent", "delta", "date"} /\ after.n \in Int  BY DEF NoHeader
<1> QED  BY <1>1 DEF Asked

\* Rebasing loses the time since the tick began, and no more.
LEMMA RebasedKeeps ==
    ASSUME clock \in Nat, NEW start \in Nat, start <= clock, NEW until \in Nat, until >= clock
    PROVE  /\ Rebased(until, start) \in Nat
           /\ Rebased(until, start) + (clock - start) = until
  BY DEF Rebased

-----------------------------------------------------------------------------
\* A call that has not begun has nothing to be wrong about.
LEMMA InitInductive == Init => Inductive
<1> SUFFICES ASSUME Init PROVE Inductive  OBVIOUS
<1>1. TypeOK
  BY DEF Init, TypeOK, Places, Undecided, Verdict, Codes, NoReply, Reply, NoWait, NoHeader
<1>2. \A c \in Calls : CallInvariant(c)
  BY DEF Init, CallInvariant, Undecided, NoReply, NoWait, Uploaded
<1>3. OnlyThumbnailsAreLost /\ RefusalCostsNothing /\ WaitIsKept
  BY DEF Init, OnlyThumbnailsAreLost, RefusalCostsNothing, WaitIsKept, Undecided, NoWait
<1> QED  BY <1>1, <1>2, <1>3 DEF Inductive

\* How a call ends that raises: nothing but its own verdict and place change.
LEMMA FailTypes ==
    ASSUME TypeOK, NEW c \in Calls, NEW code \in Codes \ {"quota_deferred"}, Fail(c, code)
    PROVE  /\ verdict' \in [Calls -> Verdict] /\ at' \in [Calls -> Places]
           /\ verdict'[c].state \in {"failed", "unknown"}
           /\ verdict'[c].state = SettledAs(code)
           /\ verdict'[c].code = code
           /\ at'[c] = "done"
           /\ \A x \in Calls \ {c} : verdict'[x] = verdict[x] /\ at'[x] = at[x]
           /\ wait' = wait
<1>1. SettledAs(code) \in {"failed", "unknown"}  BY SettledStates
<1>2. End(c, SettledAs(code), code, 0) /\ wait' = wait  BY DEF Fail
<1>3. /\ verdict' \in [Calls -> Verdict] /\ at' \in [Calls -> Places]
      /\ verdict'[c] = [state |-> SettledAs(code), code |-> code, notBefore |-> 0]
      /\ at'[c] = "done"
      /\ \A x \in Calls \ {c} : verdict'[x] = verdict[x] /\ at'[x] = at[x]
  BY <1>1, <1>2 DEF TypeOK, End, Goto, Places, Verdict
<1> QED  BY <1>1, <1>2, <1>3

\* A deferral by LinkedIn, and the wait it keeps.
LEMMA DeferTypes ==
    ASSUME TypeOK, NEW c \in Calls, moment[c] <= clock,
           NEW after \in RetryAfters \cup {NoHeader}, NEW asked \in Int,
           asked <= Asked(after, clock), Defer(c, after, asked)
    PROVE  /\ verdict' \in [Calls -> Verdict] /\ at' \in [Calls -> Places]
           /\ wait' \in [Calls -> [asked : BOOLEAN, until : Int, heard : Nat]]
           /\ verdict'[c].state = "pending" /\ verdict'[c].code = "quota_deferred"
           /\ at'[c] = "done"
           /\ verdict'[c].notBefore + (wait'[c].heard - moment[c]) >= wait'[c].until
           /\ \A x \in Calls \ {c} :
                 verdict'[x] = verdict[x] /\ at'[x] = at[x] /\ wait'[x] = wait[x]
<1> DEFINE until == RetryAt(after, clock)
           notBefore == Rebased(until, moment[c])
<1>1. clock \in Nat /\ moment[c] \in Nat  BY DEF TypeOK
<1>2. until \in Nat /\ until >= clock /\ until >= asked
  BY <1>1, RetryIsLater
<1>3. notBefore \in Nat /\ notBefore + (clock - moment[c]) = until
  BY <1>1, <1>2, RebasedKeeps
<1>4. SettledAs("quota_deferred") = "pending"  BY DEF SettledAs
<1>5. End(c, "pending", "quota_deferred", notBefore)  BY <1>4 DEF Defer
<1>6. wait' = [wait EXCEPT ![c] = [asked |-> TRUE, until |-> asked, heard |-> clock]]
  BY DEF Defer
<1>7. /\ verdict' \in [Calls -> Verdict] /\ at' \in [Calls -> Places]
      /\ verdict'[c] = [state |-> "pending", code |-> "quota_deferred", notBefore |-> notBefore]
      /\ at'[c] = "done"
      /\ \A x \in Calls \ {c} : verdict'[x] = verdict[x] /\ at'[x] = at[x]
  BY <1>3, <1>5 DEF TypeOK, End, Goto, Places, Verdict, Codes
<1>8. /\ wait' \in [Calls -> [asked : BOOLEAN, until : Int, heard : Nat]]
      /\ wait'[c] = [asked |-> TRUE, until |-> asked, heard |-> clock]
      /\ \A x \in Calls \ {c} : wait'[x] = wait[x]
  BY <1>1, <1>6 DEF TypeOK
<1>9. wait'[c].heard = clock /\ wait'[c].until = asked /\ verdict'[c].notBefore = notBefore
      /\ verdict'[c].state = "pending" /\ verdict'[c].code = "quota_deferred"
  BY <1>7, <1>8
<1>10. notBefore + (clock - moment[c]) >= asked  BY <1>2, <1>3
<1> QED  BY <1>7, <1>8, <1>9, <1>10

-----------------------------------------------------------------------------
\* The invariant of one call, with the properties it contains.
Safe(c) ==
    /\ CallInvariant(c)
    /\ wire[c] # "none" =>
          /\ \/ content[c] = Drafted(draft[c])
             \/ content[c] = "link" /\ LosesThumbnail(c)
          /\ NeedsAsset(draft[c]) => asset[c] = "landed"
    /\ verdict[c].code = "capability_unavailable" => paid[c] = {} /\ sent[c] = {}
    /\ wait[c].asked =>
          verdict[c].notBefore + (wait[c].heard - moment[c]) >= wait[c].until

LEMMA InductiveIsSafe == Inductive <=> TypeOK /\ \A c \in Calls : Safe(c)
  BY DEF Inductive, Safe, OnlyThumbnailsAreLost, RefusalCostsNothing, WaitIsKept

LEMMA NextInductiveIsSafe == Inductive' <=> TypeOK' /\ \A c \in Calls : Safe(c)'
  BY DEF Inductive, Safe, OnlyThumbnailsAreLost, RefusalCostsNothing, WaitIsKept

\* A call that a step does not touch stays safe.
Untouched(x) ==
    /\ at'[x] = at[x] /\ moment'[x] = moment[x] /\ draft'[x] = draft[x]
    /\ paid'[x] = paid[x] /\ sent'[x] = sent[x] /\ asset'[x] = asset[x]
    /\ content'[x] = content[x] /\ wire'[x] = wire[x] /\ reply'[x] = reply[x]
    /\ verdict'[x] = verdict[x] /\ wait'[x] = wait[x]

LEMMA UntouchedStaysSafe ==
    ASSUME NEW x \in Calls, Safe(x), Untouched(x), UNCHANGED <<clock, adapter>>
    PROVE  Safe(x)'
  BY DEF Safe, LosesThumbnail, CallInvariant, Untouched, Uploaded

\* One call moves: it is enough that its own invariant and the types hold.
LEMMA OneCallMoves ==
    ASSUME Inductive, NEW c \in Calls, TypeOK', Safe(c)', UNCHANGED <<clock, adapter>>,
           \A x \in Calls \ {c} : Untouched(x)
    PROVE  Inductive'
<1>1. \A x \in Calls : Safe(x)'  BY InductiveIsSafe, UntouchedStaysSafe
<1> QED  BY <1>1, NextInductiveIsSafe

LEMMA BeginInductive ==
    ASSUME Inductive, NEW c \in Calls, Begin(c)
    PROVE  Inductive'
<1> DEFINE d == draft[c]
           refusal == IF Checked(d) # "none" THEN Checked(d)
                      ELSE IF NeedsAsset(d) THEN Sniffed(d.asset, AssetKind(d)) ELSE "none"
<1>1. TypeOK /\ Safe(c) /\ at[c] = "idle" /\ d \in Drafts
  BY InductiveIsSafe DEF Begin, TypeOK
<1>2. /\ moment' \in [Calls -> Nat] /\ moment'[c] <= clock /\ clock \in Nat
      /\ \A x \in Calls \ {c} : moment'[x] = moment[x]
      /\ UNCHANGED <<clock, adapter, draft, paid, sent, asset, content, wire, reply>>
  BY <1>1 DEF Begin, TypeOK
<1>3. paid[c] = {} /\ sent[c] = {} /\ wire[c] = "none" /\ verdict[c].state = "none"
      /\ reply[c] = NoReply /\ ~wait[c].asked
  BY <1>1 DEF Safe, CallInvariant, TypeOK
<1>4. CASE refusal # "none" /\ Fail(c, refusal)
  <2>1. refusal \in Codes \ {"quota_deferred"}
    BY CheckedCodes, SniffedCodes DEF Codes
  <2>2. /\ verdict' \in [Calls -> Verdict] /\ at' \in [Calls -> Places]
        /\ verdict'[c].state \in {"failed", "unknown"}
        /\ at'[c] = "done" /\ wait' = wait
        /\ \A x \in Calls \ {c} : verdict'[x] = verdict[x] /\ at'[x] = at[x]
    BY <1>1, <1>4, <2>1, FailTypes
  <2>3. TypeOK'  BY <1>1, <1>2, <2>2 DEF TypeOK
  <2>4. Safe(c)'
    BY <1>1, <1>2, <1>3, <2>2 DEF Safe, LosesThumbnail, CallInvariant, Uploaded, NoReply, TypeOK
  <2>5. \A x \in Calls \ {c} : Untouched(x)  BY <1>2, <2>2 DEF Untouched
  <2> QED  BY <1>2, <2>3, <2>4, <2>5, OneCallMoves
<1>5. CASE refusal = "none" /\ UNCHANGED <<verdict, wait>>
           /\ Goto(c, IF NeedsAsset(d) THEN "pay_register" ELSE "pay_create")
  <2>1. /\ at' \in [Calls -> Places]
        /\ at'[c] = IF NeedsAsset(d) THEN "pay_register" ELSE "pay_create"
        /\ \A x \in Calls \ {c} : at'[x] = at[x]
    BY <1>1, <1>5 DEF Goto, TypeOK, Places
  <2>2. TypeOK'  BY <1>1, <1>2, <1>5, <2>1 DEF TypeOK
  <2>3. ~(d.media = "document" /\ adapter = "share_ugc")
    BY <1>5 DEF Checked
  <2>4. Safe(c)'
    BY <1>1, <1>2, <1>3, <1>5, <2>1, <2>3
       DEF Safe, LosesThumbnail, CallInvariant, Uploaded, NoReply, TypeOK
  <2>5. \A x \in Calls \ {c} : Untouched(x)  BY <1>2, <1>5, <2>1 DEF Untouched
  <2> QED  BY <1>2, <2>2, <2>4, <2>5, OneCallMoves
<1> QED  BY <1>4, <1>5 DEF Begin

LEMMA ReserveInductive ==
    ASSUME Inductive, NEW c \in Calls,
           NEW from \in {"pay_register", "pay_upload", "pay_create"}, NEW e \in Endpoints,
           NEW next \in {"pay_upload", "register", "create"},
           from # "pay_create" => next # "create",
           from = "pay_create" => next = "create",
           Reserve(c, from, e, next)
    PROVE  Inductive'
<1>1. TypeOK /\ Safe(c) /\ at[c] = from
  BY InductiveIsSafe DEF Reserve
<1>2. UNCHANGED <<clock, adapter, draft, moment, sent, asset, content, wire, reply>>
  BY DEF Reserve
<1>3. CASE Pay(c, e) /\ Goto(c, next) /\ UNCHANGED <<verdict, wait>>
  <2>1. /\ at' \in [Calls -> Places] /\ at'[c] = next
        /\ paid' \in [Calls -> SUBSET Endpoints]
        /\ \A x \in Calls \ {c} : at'[x] = at[x] /\ paid'[x] = paid[x]
    BY <1>1, <1>3 DEF Pay, Goto, TypeOK, Places
  <2>2. TypeOK'  BY <1>1, <1>2, <1>3, <2>1 DEF TypeOK
  <2>3. verdict[c] = Undecided
    BY <1>1 DEF Safe, CallInvariant
  <2>4. Safe(c)'
    BY <1>1, <1>2, <1>3, <2>1, <2>3 DEF Safe, LosesThumbnail, CallInvariant, Uploaded, Undecided, TypeOK
  <2>5. \A x \in Calls \ {c} : Untouched(x)  BY <1>2, <1>3, <2>1 DEF Untouched
  <2> QED  BY <1>2, <2>2, <2>4, <2>5, OneCallMoves
<1>4. CASE /\ End(c, SettledAs("quota_deferred"), "quota_deferred", Midnight(moment[c]))
           /\ UNCHANGED <<paid, wait>>
  <2>1. Midnight(moment[c]) \in Nat  BY <1>1, MidnightIsTime DEF TypeOK
  <2>2. SettledAs("quota_deferred") = "pending"  BY DEF SettledAs
  <2>3. /\ verdict' \in [Calls -> Verdict] /\ at' \in [Calls -> Places]
        /\ verdict'[c].state = "pending" /\ verdict'[c].code = "quota_deferred"
        /\ at'[c] = "done"
        /\ \A x \in Calls \ {c} : verdict'[x] = verdict[x] /\ at'[x] = at[x]
    BY <1>1, <1>4, <2>1, <2>2 DEF End, Goto, TypeOK, Verdict, Places, Codes
  <2>4. TypeOK'  BY <1>1, <1>2, <1>4, <2>3 DEF TypeOK
  <2>5. Safe(c)'
    BY <1>1, <1>2, <1>4, <2>3 DEF Safe, LosesThumbnail, CallInvariant, Uploaded, TypeOK
  <2>6. \A x \in Calls \ {c} : Untouched(x)  BY <1>2, <1>4, <2>3 DEF Untouched
  <2> QED  BY <1>2, <2>4, <2>5, <2>6, OneCallMoves
<1>5. CASE Fail(c, "unclassified") /\ (Pay(c, e) \/ UNCHANGED paid)
  <2>1. "unclassified" \in Codes \ {"quota_deferred"}  BY DEF Codes
  <2>2. /\ verdict' \in [Calls -> Verdict] /\ at' \in [Calls -> Places]
        /\ verdict'[c].state \in {"failed", "unknown"} /\ verdict'[c].code = "unclassified"
        /\ at'[c] = "done" /\ wait' = wait
        /\ \A x \in Calls \ {c} : verdict'[x] = verdict[x] /\ at'[x] = at[x]
    BY <1>1, <1>5, <2>1, FailTypes
  <2>3. /\ paid' \in [Calls -> SUBSET Endpoints]
        /\ \A x \in Calls \ {c} : paid'[x] = paid[x]
    BY <1>1, <1>5 DEF Pay, TypeOK
  <2>4. TypeOK'  BY <1>1, <1>2, <2>2, <2>3 DEF TypeOK
  <2>5. Safe(c)'
    BY <1>1, <1>2, <2>2 DEF Safe, LosesThumbnail, CallInvariant, Uploaded, TypeOK
  <2>6. \A x \in Calls \ {c} : Untouched(x)  BY <1>2, <2>2, <2>3 DEF Untouched
  <2> QED  BY <1>2, <2>4, <2>5, <2>6, OneCallMoves
<1> QED  BY <1>3, <1>4, <1>5 DEF Reserve

\* A call that raises while its request stands at `state`: what its invariant asks
\* of it then. Only a call that sent nothing is told of a missing capability.
LEMMA FailingIsSafe ==
    ASSUME Inductive, NEW c \in Calls, NEW code \in Codes \ {"quota_deferred"},
           at[c] # "done", Fail(c, code),
           reply'[c] = NoReply, code # "capability_unavailable",
           UNCHANGED <<clock, adapter, draft, moment, paid, content, wire>>,
           sent'[c] \in SUBSET Endpoints,
           wire[c] # "none" => asset'[c] = asset[c]
    PROVE  Safe(c)'
<1>1. TypeOK /\ Safe(c)  BY InductiveIsSafe
<1>2. /\ verdict'[c].state \in {"failed", "unknown"} /\ verdict'[c].code = code
      /\ at'[c] = "done" /\ wait' = wait
  BY <1>1, FailTypes
<1>3. ~wait[c].asked  BY <1>1 DEF Safe, CallInvariant
<1> QED
  BY <1>1, <1>2, <1>3 DEF Safe, LosesThumbnail, CallInvariant, Uploaded, NoReply, NoHeader, TypeOK

LEMMA RegisterInductive ==
    ASSUME Inductive, NEW c \in Calls, Register(c)
    PROVE  Inductive'
<1>1. TypeOK /\ Safe(c) /\ at[c] = "register" /\ moment[c] <= clock /\ wire[c] = "none"
      /\ reply[c] = NoReply /\ verdict[c] = Undecided /\ ~wait[c].asked
  BY InductiveIsSafe DEF Register, Safe, CallInvariant
<1>2. UNCHANGED <<clock, adapter, draft, moment, paid, content, wire, reply>>
  BY DEF Register
<1>3. ~(adapter = "share_ugc" /\ draft[c].media = "document")
  BY <1>1 DEF Safe, CallInvariant
<1>4. Sends(c, "register")  BY <1>3 DEF Register
<1>5. /\ sent' \in [Calls -> SUBSET Endpoints]
      /\ "upload" \in sent'[c] <=> "upload" \in sent[c]
      /\ \A x \in Calls \ {c} : sent'[x] = sent[x]
  BY <1>1, <1>4 DEF Sends, TypeOK, Endpoints
<1>6. ASSUME NEW code \in Codes \ {"quota_deferred", "capability_unavailable"},
             Fail(c, code), UNCHANGED asset
      PROVE  Inductive'
  <2>1. /\ verdict' \in [Calls -> Verdict] /\ at' \in [Calls -> Places] /\ wait' = wait
        /\ \A x \in Calls \ {c} : verdict'[x] = verdict[x] /\ at'[x] = at[x]
    BY <1>1, <1>6, FailTypes
  <2>2. TypeOK'  BY <1>1, <1>2, <1>5, <1>6, <2>1 DEF TypeOK
  <2>3. Safe(c)'  BY <1>1, <1>2, <1>5, <1>6, FailingIsSafe DEF Safe
  <2>4. \A x \in Calls \ {c} : Untouched(x)  BY <1>2, <1>5, <1>6, <2>1 DEF Untouched
  <2> QED  BY <1>2, <2>2, <2>3, <2>4, OneCallMoves
<1>7. ASSUME NEW after \in RetryAfters, Defer(c, after, Asked(after, clock)), UNCHANGED asset
      PROVE  Inductive'
  <2>1. Asked(after, clock) \in Int  BY <1>1, RetryIsLater DEF TypeOK
  <2>2. /\ verdict' \in [Calls -> Verdict] /\ at' \in [Calls -> Places]
        /\ wait' \in [Calls -> [asked : BOOLEAN, until : Int, heard : Nat]]
        /\ verdict'[c].state = "pending" /\ verdict'[c].code = "quota_deferred"
        /\ at'[c] = "done"
        /\ verdict'[c].notBefore + (wait'[c].heard - moment[c]) >= wait'[c].until
        /\ \A x \in Calls \ {c} :
              verdict'[x] = verdict[x] /\ at'[x] = at[x] /\ wait'[x] = wait[x]
    BY <1>1, <1>7, <2>1, DeferTypes
  <2>3. TypeOK'  BY <1>1, <1>2, <1>5, <1>7, <2>2 DEF TypeOK
  <2>4. Safe(c)'
    BY <1>1, <1>2, <1>7, <2>2 DEF Safe, LosesThumbnail, CallInvariant, Uploaded, NoReply, NoHeader, TypeOK
  <2>5. \A x \in Calls \ {c} : Untouched(x)  BY <1>2, <1>5, <1>7, <2>2 DEF Untouched
  <2> QED  BY <1>2, <2>3, <2>4, <2>5, OneCallMoves
<1>8. CASE Goto(c, "upload") /\ Holds(c, "registered") /\ UNCHANGED <<verdict, wait>>
  <2>1. /\ at' \in [Calls -> Places] /\ at'[c] = "upload"
        /\ asset' \in [Calls -> {"none", "registered", "landed"}]
        /\ \A x \in Calls \ {c} : at'[x] = at[x] /\ asset'[x] = asset[x]
    BY <1>1, <1>8 DEF Goto, Holds, TypeOK, Places
  <2>2. TypeOK'  BY <1>1, <1>2, <1>5, <1>8, <2>1 DEF TypeOK
  <2>3. Safe(c)'
    BY <1>1, <1>2, <1>5, <1>8, <2>1
       DEF Safe, LosesThumbnail, CallInvariant, Uploaded, NoReply, NoHeader, Undecided, TypeOK
  <2>4. \A x \in Calls \ {c} : Untouched(x)  BY <1>2, <1>5, <1>8, <2>1 DEF Untouched
  <2> QED  BY <1>2, <2>2, <2>3, <2>4, OneCallMoves
<1>9. ASSUME NEW status \in Statuses, status # 429
      PROVE  WriteFailure(status) \in Codes \ {"quota_deferred", "capability_unavailable"}
  BY <1>9, WriteFailureCodes
<1>10. {"publish_outcome_unknown", "provider_rejected", "validation"}
         \subseteq Codes \ {"quota_deferred", "capability_unavailable"}
  BY DEF Codes
<1> QED
  <2>1. \/ Fail(c, "publish_outcome_unknown") /\ UNCHANGED asset
        \/ \E status \in Statuses :
              status # 429 /\ Fail(c, WriteFailure(status)) /\ UNCHANGED asset
        \/ \E after \in RetryAfters : Defer(c, after, Asked(after, clock)) /\ UNCHANGED asset
        \/ \E code \in {"provider_rejected", "validation"} : Fail(c, code) /\ UNCHANGED asset
        \/ Goto(c, "upload") /\ Holds(c, "registered") /\ UNCHANGED <<verdict, wait>>
    BY <1>3 DEF Register
  <2> QED  BY <2>1, <1>6, <1>7, <1>8, <1>9, <1>10

LEMMA UploadInductive ==
    ASSUME Inductive, NEW c \in Calls, Upload(c)
    PROVE  Inductive'
<1>1. TypeOK /\ Safe(c) /\ at[c] = "upload" /\ moment[c] <= clock /\ wire[c] = "none"
      /\ reply[c] = NoReply /\ verdict[c] = Undecided /\ ~wait[c].asked
  BY InductiveIsSafe DEF Upload, UploadUpTo, Safe, CallInvariant
<1>2. UNCHANGED <<clock, adapter, draft, moment, paid, content, wire, reply>>
      /\ sent' = [sent EXCEPT ![c] = @ \cup {"upload"}]
  BY DEF Upload, UploadUpTo, Sends
<1>3. /\ sent' \in [Calls -> SUBSET Endpoints] /\ "upload" \in sent'[c]
      /\ \A x \in Calls \ {c} : sent'[x] = sent[x]
  BY <1>1, <1>2 DEF TypeOK, Endpoints
<1>4. ASSUME NEW code \in Codes \ {"quota_deferred", "capability_unavailable"},
             Fail(c, code), UNCHANGED asset
      PROVE  Inductive'
  <2>1. /\ verdict' \in [Calls -> Verdict] /\ at' \in [Calls -> Places] /\ wait' = wait
        /\ \A x \in Calls \ {c} : verdict'[x] = verdict[x] /\ at'[x] = at[x]
    BY <1>1, <1>4, FailTypes
  <2>2. TypeOK'  BY <1>1, <1>2, <1>3, <1>4, <2>1 DEF TypeOK
  <2>3. Safe(c)'  BY <1>1, <1>2, <1>3, <1>4, FailingIsSafe DEF Safe
  <2>4. \A x \in Calls \ {c} : Untouched(x)  BY <1>2, <1>3, <1>4, <2>1 DEF Untouched
  <2> QED  BY <1>2, <2>2, <2>3, <2>4, OneCallMoves
<1>5. CASE Goto(c, "pay_create") /\ Holds(c, "landed") /\ UNCHANGED <<verdict, wait>>
  <2>1. /\ at' \in [Calls -> Places] /\ at'[c] = "pay_create"
        /\ asset' \in [Calls -> {"none", "registered", "landed"}] /\ asset'[c] = "landed"
        /\ \A x \in Calls \ {c} : at'[x] = at[x] /\ asset'[x] = asset[x]
    BY <1>1, <1>5 DEF Goto, Holds, TypeOK, Places
  <2>2. TypeOK'  BY <1>1, <1>2, <1>3, <1>5, <2>1 DEF TypeOK
  <2>3. Safe(c)'
    BY <1>1, <1>2, <1>3, <1>5, <2>1
       DEF Safe, LosesThumbnail, CallInvariant, Uploaded, NoReply, NoHeader, Undecided, TypeOK
  <2>4. \A x \in Calls \ {c} : Untouched(x)  BY <1>2, <1>3, <1>5, <2>1 DEF Untouched
  <2> QED  BY <1>2, <2>2, <2>3, <2>4, OneCallMoves
<1> QED
  <2>1. \/ \E code \in {"publish_outcome_unknown", "transient_read_failure",
                        "unclassified", "provider_rejected"} :
              Fail(c, code) /\ UNCHANGED asset
        \/ Goto(c, "pay_create") /\ Holds(c, "landed") /\ UNCHANGED <<verdict, wait>>
    BY DEF Upload, UploadUpTo
  <2>2. {"publish_outcome_unknown", "transient_read_failure", "unclassified",
         "provider_rejected"} \subseteq Codes \ {"quota_deferred", "capability_unavailable"}
    BY DEF Codes
  <2> QED  BY <2>1, <2>2, <1>4, <1>5
LEMMA CreateInductive ==
    ASSUME Inductive, NEW c \in Calls, Create(c)
    PROVE  Inductive'
<1>1. TypeOK /\ Safe(c) /\ at[c] = "create" /\ moment[c] <= clock /\ wire[c] = "none"
      /\ reply[c] = NoReply /\ verdict[c] = Undecided /\ ~wait[c].asked
  BY InductiveIsSafe DEF Create, Safe, CallInvariant
<1>2. UNCHANGED <<clock, adapter, draft, moment, paid, asset, reply>>
  BY DEF Create
<1>3. draft[c] \in Drafts /\ adapter \in Adapters /\ ~(draft[c].media = "document" /\ adapter = "share_ugc")
  BY <1>1 DEF Safe, CallInvariant, TypeOK
<1>4. NeedsAsset(draft[c]) => Uploaded(c)
  BY <1>1 DEF Safe, CallInvariant
<1>5. CreateRefusal(c) = "none"
  BY <1>3, <1>4 DEF CreateRefusal, Content, NeedsAsset
<1>6. /\ Sends(c, "create")
      /\ content' = [content EXCEPT ![c] = Content(c)]
      /\ wire' = [wire EXCEPT ![c] = "inflight"]
      /\ Goto(c, "await")
      /\ UNCHANGED <<verdict, wait>>
  BY <1>5 DEF Create
<1>7. Content(c) \in {"text", "link", "link+thumbnail", "media"}
  BY DEF Content
<1>8. /\ at' \in [Calls -> Places] /\ at'[c] = "await"
      /\ sent' \in [Calls -> SUBSET Endpoints]
      /\ content' \in [Calls -> {"none", "text", "link", "link+thumbnail", "media"}]
      /\ content'[c] = Content(c)
      /\ wire' \in [Calls -> {"none", "inflight", "accepted", "refused", "throttled"}]
      /\ wire'[c] = "inflight"
      /\ \A x \in Calls \ {c} : /\ at'[x] = at[x] /\ sent'[x] = sent[x]
                                /\ content'[x] = content[x] /\ wire'[x] = wire[x]
  BY <1>1, <1>6, <1>7 DEF Goto, Sends, TypeOK, Places, Endpoints
<1>9. TypeOK'  BY <1>1, <1>2, <1>6, <1>8 DEF TypeOK
<1>10. /\ \/ Content(c) = Drafted(draft[c])
          \/ Content(c) = "link" /\ LosesThumbnail(c)
       /\ NeedsAsset(draft[c]) => asset[c] = "landed"
  <2>1. draft[c].media \in {"none", "article", "image", "document"}
        /\ adapter \in {"share_ugc", "rest_posts"}
    BY <1>3
  <2>2. Uploaded(c) <=> NeedsAsset(draft[c])
    BY <1>1 DEF Safe, CallInvariant
  <2>3. Uploaded(c) => asset[c] = "landed"
    BY <1>1 DEF Safe, CallInvariant
  <2> QED  BY <2>1, <2>2, <2>3 DEF Content, Drafted, LosesThumbnail
<1>11. Safe(c)'
  BY <1>1, <1>2, <1>3, <1>6, <1>8, <1>10
     DEF Safe, LosesThumbnail, CallInvariant, Uploaded, NoReply, NoHeader, Undecided, TypeOK
<1>12. \A x \in Calls \ {c} : Untouched(x)  BY <1>2, <1>6, <1>8 DEF Untouched
<1> QED  BY <1>2, <1>9, <1>11, <1>12, OneCallMoves

LEMMA DecideInductive ==
    ASSUME Inductive, NEW c \in Calls, Decide(c)
    PROVE  Inductive'
<1>1. TypeOK /\ Safe(c) /\ wire[c] = "inflight" /\ moment[c] <= clock
  BY InductiveIsSafe DEF Decide, Safe, CallInvariant
<1>2. UNCHANGED <<clock, adapter, draft, moment, at, paid, sent, asset, content, verdict, wait>>
  BY DEF Decide
<1>3. PICK status \in Statuses, made \in BOOLEAN,
           urn \in {"none", "header", "body"}, after \in RetryAfters :
        /\ status < 300 => made
        /\ status \in 400..499 => ~made
        /\ urn # "none" => made /\ status < 400
        /\ wire' = [wire EXCEPT ![c] = CASE made -> "accepted"
                                         [] ~made /\ status = 429 -> "throttled"
                                         [] OTHER -> "refused"]
        /\ IF at[c] = "await"
           THEN reply' = [reply EXCEPT ![c] =
                   IF status = 429
                   THEN [status |-> 429, urn |-> "none", after |-> after,
                         until |-> Asked(after, clock)]
                   ELSE [NoReply EXCEPT !.status = status, !.urn = urn]]
           ELSE UNCHANGED reply
  BY DEF Decide
<1> DEFINE answer == IF status = 429
                     THEN [status |-> 429, urn |-> "none", after |-> after,
                           until |-> Asked(after, clock)]
                     ELSE [NoReply EXCEPT !.status = status, !.urn = urn]
           outcome == CASE made -> "accepted"
                        [] ~made /\ status = 429 -> "throttled"
                        [] OTHER -> "refused"
<1>4. status \in 200..599 /\ clock \in Nat
  BY <1>1 DEF TypeOK
<1>5. Asked(after, clock) \in Int
  BY <1>4, RetryIsLater
<1>6. answer \in Reply
  <2>1. CASE status = 429
    BY <1>4, <1>5, <2>1 DEF Reply
  <2>2. CASE status # 429
    <3>1. answer = [status |-> status, urn |-> urn, after |-> NoHeader, until |-> 0]
      BY <2>2 DEF NoReply
    <3>2. status \in 0..599 /\ urn \in {"none", "header", "body"} /\ 0 \in Int
      BY <1>3, <1>4
    <3> HIDE DEF answer
    <3> QED  BY <3>1, <3>2 DEF Reply
  <2> QED  BY <2>1, <2>2
<1>7. outcome \in {"accepted", "throttled", "refused"}
  OBVIOUS
<1>8. /\ wire' \in [Calls -> {"none", "inflight", "accepted", "refused", "throttled"}]
      /\ wire'[c] = outcome
      /\ \A x \in Calls \ {c} : wire'[x] = wire[x]
  BY <1>1, <1>3, <1>7 DEF TypeOK
<1>9. /\ reply' \in [Calls -> Reply]
      /\ reply'[c] = IF at[c] = "await" THEN answer ELSE reply[c]
      /\ \A x \in Calls \ {c} : reply'[x] = reply[x]
  <2>1. reply' = IF at[c] = "await" THEN [reply EXCEPT ![c] = answer] ELSE reply
    BY <1>3
  <2> HIDE DEF answer
  <2> QED  BY <1>1, <1>6, <2>1 DEF TypeOK
<1>10. TypeOK'  BY <1>1, <1>2, <1>8, <1>9 DEF TypeOK
<1>11. /\ answer.status \in 200..299 => outcome = "accepted"
       /\ answer.urn # "none" => outcome = "accepted"
       /\ answer.status = 429 => outcome = "throttled"
       /\ answer.status \in 400..499 \ {429} => outcome = "refused"
       /\ answer.status = 429 => answer.until <= Asked(answer.after, clock)
  <2>1. CASE status = 429
    <3>1. answer.status = 429 /\ answer.urn = "none" /\ answer.after = after
          /\ answer.until = Asked(after, clock) /\ ~made
      BY <1>3, <2>1
    <3> QED  BY <1>5, <2>1, <3>1
  <2>2. CASE status # 429
    <3>1. answer.status = status /\ answer.urn = urn
      BY <2>2 DEF NoReply
    <3> QED  BY <1>3, <1>4, <2>2, <3>1
  <2> QED  BY <2>1, <2>2
<1>12. at[c] \in {"await", "done"}
  BY <1>1 DEF Safe, CallInvariant, TypeOK, Places
<1>13. CASE at[c] = "await"
  <2>1. CallInvariant(c)'
    <3> HIDE DEF answer, outcome
    <3> QED  BY <1>1, <1>2, <1>7, <1>8, <1>9, <1>11, <1>13 DEF Safe, CallInvariant, Uploaded
  <2>2. Safe(c)'
    BY <1>1, <1>2, <1>8, <2>1 DEF Safe, LosesThumbnail
  <2>3. \A x \in Calls \ {c} : Untouched(x)  BY <1>2, <1>8, <1>9 DEF Untouched
  <2> QED  BY <1>2, <1>10, <2>2, <2>3, OneCallMoves
<1>14. CASE at[c] = "done"
  <2>1. reply'[c] = NoReply
    BY <1>1, <1>9, <1>14 DEF Safe, CallInvariant
  <2>2. CallInvariant(c)'
    <3> HIDE DEF answer, outcome
    <3> QED  BY <1>1, <1>2, <1>14, <2>1 DEF Safe, CallInvariant, Uploaded, NoReply
  <2>3. Safe(c)'
    BY <1>1, <1>2, <1>8, <2>2 DEF Safe, LosesThumbnail
  <2>4. \A x \in Calls \ {c} : Untouched(x)  BY <1>2, <1>8, <1>9 DEF Untouched
  <2> QED  BY <1>2, <1>10, <2>3, <2>4, OneCallMoves
<1> QED  BY <1>12, <1>13, <1>14

\* A call that awaits its answer ends, with what it has made of it.
LEMMA EndingIsSafe ==
    ASSUME Inductive, NEW c \in Calls, at[c] = "await", TypeOK',
           at' = [at EXCEPT ![c] = "done"],
           reply' = [reply EXCEPT ![c] = NoReply],
           verdict'[c].state # "none", verdict'[c].code # "capability_unavailable",
           wait'[c].asked =>
              verdict'[c].notBefore + (wait'[c].heard - moment[c]) >= wait'[c].until,
           UNCHANGED <<clock, adapter, draft, moment, paid, sent, asset, content, wire>>,
           \A x \in Calls \ {c} : verdict'[x] = verdict[x] /\ wait'[x] = wait[x]
    PROVE  Inductive'
<1>1. TypeOK /\ Safe(c)  BY InductiveIsSafe
<1>2. /\ at'[c] = "done" /\ reply'[c] = NoReply
      /\ \A x \in Calls \ {c} : at'[x] = at[x] /\ reply'[x] = reply[x]
  BY <1>1 DEF TypeOK
<1>3. Safe(c)'
  BY <1>1, <1>2 DEF Safe, LosesThumbnail, CallInvariant, Uploaded, NoReply, NoHeader, TypeOK
<1>4. \A x \in Calls \ {c} : Untouched(x)  BY <1>2 DEF Untouched
<1> QED  BY <1>3, <1>4, OneCallMoves

LEMMA HearInductive ==
    ASSUME Inductive, NEW c \in Calls, Hear(c)
    PROVE  Inductive'
<1>1. TypeOK /\ Safe(c) /\ at[c] = "await" /\ moment[c] <= clock /\ ~wait[c].asked
      /\ reply[c] \in Reply
  BY InductiveIsSafe DEF Hear, Safe, CallInvariant, TypeOK
<1>2. UNCHANGED <<clock, adapter, draft, moment, paid, sent, asset, content, wire>>
      /\ reply' = [reply EXCEPT ![c] = NoReply]
  BY DEF Hear
<1>3. reply' \in [Calls -> Reply]
  BY <1>1, <1>2 DEF TypeOK, Reply, NoReply, NoHeader
<1>4. ASSUME NEW code \in Codes \ {"quota_deferred", "capability_unavailable"}, Fail(c, code)
      PROVE  Inductive'
  <2>1. /\ verdict' \in [Calls -> Verdict] /\ at' \in [Calls -> Places] /\ wait' = wait
        /\ verdict'[c].state \in {"failed", "unknown"} /\ verdict'[c].code = code
        /\ \A x \in Calls \ {c} : verdict'[x] = verdict[x]
    BY <1>1, <1>4, FailTypes
  <2>2. at' = [at EXCEPT ![c] = "done"]  BY <1>4 DEF Fail, End, Goto
  <2>3. TypeOK'  BY <1>1, <1>2, <1>3, <2>1 DEF TypeOK
  <2> QED  BY <1>1, <1>2, <2>1, <2>2, <2>3, EndingIsSafe
<1>5. CASE reply[c].status = 429 /\ Defer(c, reply[c].after, reply[c].until)
  <2>1. /\ reply[c].after \in RetryAfters \cup {NoHeader} /\ reply[c].until \in Int
        /\ reply[c].until <= Asked(reply[c].after, clock)
    BY <1>1, <1>5 DEF Reply, Safe, CallInvariant
  <2>2. /\ verdict' \in [Calls -> Verdict] /\ at' \in [Calls -> Places]
        /\ wait' \in [Calls -> [asked : BOOLEAN, until : Int, heard : Nat]]
        /\ verdict'[c].state = "pending" /\ verdict'[c].code = "quota_deferred"
        /\ verdict'[c].notBefore + (wait'[c].heard - moment[c]) >= wait'[c].until
        /\ \A x \in Calls \ {c} : verdict'[x] = verdict[x] /\ wait'[x] = wait[x]
    BY <1>1, <1>5, <2>1, DeferTypes
  <2>3. at' = [at EXCEPT ![c] = "done"]  BY <1>5 DEF Defer, End, Goto
  <2>4. TypeOK'  BY <1>1, <1>2, <1>3, <2>2 DEF TypeOK
  <2> QED  BY <1>1, <1>2, <2>2, <2>3, <2>4, EndingIsSafe
<1>6. CASE End(c, "published", "none", 0) /\ UNCHANGED wait
  <2>1. at' = [at EXCEPT ![c] = "done"]  BY <1>6 DEF End, Goto
  <2>2. /\ verdict' \in [Calls -> Verdict] /\ at' \in [Calls -> Places]
        /\ verdict'[c].state = "published" /\ verdict'[c].code = "none"
        /\ \A x \in Calls \ {c} : verdict'[x] = verdict[x]
    BY <1>1, <1>6 DEF End, Goto, TypeOK, Verdict, Places, Codes
  <2>3. TypeOK'  BY <1>1, <1>2, <1>3, <1>6, <2>2 DEF TypeOK
  <2> QED  BY <1>1, <1>2, <1>6, <2>1, <2>2, <2>3, EndingIsSafe
<1> QED
  <2>1. \/ End(c, "published", "none", 0) /\ UNCHANGED wait
        \/ Fail(c, "publish_outcome_unknown")
        \/ reply[c].status = 429 /\ Defer(c, reply[c].after, reply[c].until)
        \/ reply[c].status # 429 /\ Fail(c, WriteFailure(reply[c].status))
    BY DEF Hear
  <2>2. reply[c].status \in Int  BY <1>1 DEF Reply
  <2>3. reply[c].status # 429 =>
          WriteFailure(reply[c].status) \in Codes \ {"quota_deferred", "capability_unavailable"}
    BY <2>2, WriteFailureCodes
  <2>4. "publish_outcome_unknown" \in Codes \ {"quota_deferred", "capability_unavailable"}
    BY DEF Codes
  <2> QED  BY <2>1, <2>3, <2>4, <1>4, <1>5, <1>6

LEMMA LoseAnswerInductive ==
    ASSUME Inductive, NEW c \in Calls, LoseAnswer(c)
    PROVE  Inductive'
<1>1. TypeOK /\ Safe(c) /\ at[c] = "await" /\ ~wait[c].asked
  BY InductiveIsSafe DEF LoseAnswer, Safe, CallInvariant
<1>2. UNCHANGED <<clock, adapter, draft, moment, paid, sent, asset, content, wire>>
      /\ reply' = [reply EXCEPT ![c] = NoReply] /\ Fail(c, "publish_outcome_unknown")
  BY DEF LoseAnswer
<1>3. "publish_outcome_unknown" \in Codes \ {"quota_deferred", "capability_unavailable"}
  BY DEF Codes
<1>4. reply' \in [Calls -> Reply]
  BY <1>1, <1>2 DEF TypeOK, Reply, NoReply, NoHeader
<1>5. /\ verdict' \in [Calls -> Verdict] /\ at' \in [Calls -> Places] /\ wait' = wait
      /\ verdict'[c].state \in {"failed", "unknown"}
      /\ verdict'[c].code = "publish_outcome_unknown"
      /\ \A x \in Calls \ {c} : verdict'[x] = verdict[x]
  BY <1>1, <1>2, <1>3, FailTypes
<1>6. at' = [at EXCEPT ![c] = "done"]  BY <1>2 DEF Fail, End, Goto
<1>7. TypeOK'  BY <1>1, <1>2, <1>4, <1>5 DEF TypeOK
<1> QED  BY <1>1, <1>2, <1>5, <1>6, <1>7, EndingIsSafe

LEMMA AdvanceClockInductive ==
    ASSUME Inductive, AdvanceClock
    PROVE  Inductive'
<1>1. TypeOK /\ \A c \in Calls : Safe(c)  BY InductiveIsSafe
<1>2. clock \in Nat /\ clock' = clock + 1
      /\ UNCHANGED <<adapter, draft, moment, at, paid, sent, asset, content, wire,
                     reply, verdict, wait>>
  BY <1>1 DEF AdvanceClock, TypeOK
<1>3. TypeOK'  BY <1>1, <1>2 DEF TypeOK
<1>4. ASSUME NEW c \in Calls  PROVE Safe(c)'
  <2>1. moment[c] \in Nat /\ reply[c] \in Reply  BY <1>1 DEF TypeOK
  <2>2. moment[c] <= clock'  BY <1>1, <1>2, <2>1 DEF Safe, CallInvariant
  <2>3. reply[c].status = 429 => reply[c].until <= Asked(reply[c].after, clock')
    <3>1. reply[c].after \in RetryAfters \cup {NoHeader} /\ reply[c].until \in Int
      BY <2>1 DEF Reply
    <3>2. /\ Asked(reply[c].after, clock) <= Asked(reply[c].after, clock')
          /\ Asked(reply[c].after, clock) \in Int /\ Asked(reply[c].after, clock') \in Int
      BY <1>2, <3>1, AskedGrows, RetryIsLater
    <3>3. reply[c].status = 429 => reply[c].until <= Asked(reply[c].after, clock)
      BY <1>1 DEF Safe, CallInvariant
    <3> QED  BY <3>1, <3>2, <3>3
  <2> QED  BY <1>1, <1>2, <2>2, <2>3 DEF Safe, LosesThumbnail, CallInvariant, Uploaded
<1> QED  BY <1>3, <1>4, NextInductiveIsSafe
-----------------------------------------------------------------------------
\* A step that changes nothing keeps the invariant.
LEMMA StutterInductive ==
    ASSUME Inductive, UNCHANGED vars
    PROVE  Inductive'
<1>1. TypeOK /\ (\A c \in Calls : Safe(c)) /\ UNCHANGED <<clock, adapter>>
  BY InductiveIsSafe DEF vars
<1>2. TypeOK'  BY <1>1 DEF TypeOK, vars
<1>3. \A c \in Calls : Untouched(c)  BY DEF Untouched, vars
<1> QED  BY <1>1, <1>2, <1>3, UntouchedStaysSafe, NextInductiveIsSafe

LEMMA NextInductive ==
    ASSUME Inductive, [Next]_vars
    PROVE  Inductive'
<1>1. ASSUME NEW c \in Calls, Begin(c)  PROVE Inductive'  BY <1>1, BeginInductive
<1>2. ASSUME NEW c \in Calls, PayRegister(c)  PROVE Inductive'
  BY <1>2, ReserveInductive DEF PayRegister, Endpoints
<1>3. ASSUME NEW c \in Calls, PayUpload(c)  PROVE Inductive'
  BY <1>3, ReserveInductive DEF PayUpload, Endpoints
<1>4. ASSUME NEW c \in Calls, PayCreate(c)  PROVE Inductive'
  BY <1>4, ReserveInductive DEF PayCreate, Endpoints
<1>5. ASSUME NEW c \in Calls, Register(c)  PROVE Inductive'  BY <1>5, RegisterInductive
<1>6. ASSUME NEW c \in Calls, Upload(c)  PROVE Inductive'  BY <1>6, UploadInductive
<1>7. ASSUME NEW c \in Calls, Create(c)  PROVE Inductive'  BY <1>7, CreateInductive
<1>8. ASSUME NEW c \in Calls, Decide(c)  PROVE Inductive'  BY <1>8, DecideInductive
<1>9. ASSUME NEW c \in Calls, Hear(c)  PROVE Inductive'  BY <1>9, HearInductive
<1>10. ASSUME NEW c \in Calls, LoseAnswer(c)  PROVE Inductive'  BY <1>10, LoseAnswerInductive
<1>11. CASE AdvanceClock  BY <1>11, AdvanceClockInductive
<1>12. CASE UNCHANGED vars  BY <1>12, StutterInductive
<1> QED
  BY <1>1, <1>2, <1>3, <1>4, <1>5, <1>6, <1>7, <1>8, <1>9, <1>10, <1>11, <1>12
     DEF Next, Step

\* What every call satisfies between any two of its steps, whatever the others do
\* and whatever LinkedIn answers: the strengthening the theorems below rest on.
THEOREM SendingInvariant == Spec => []Inductive
<1>1. Init => Inductive  BY InitInductive
<1>2. Inductive /\ [Next]_vars => Inductive'  BY NextInductive
<1> QED  BY <1>1, <1>2, PTL DEF Spec

\* The state of every call keeps its type (client.py:126, service.py:313): among
\* others, a row is settled only in one of the four states the ledger has.
THEOREM SendingTypes == Spec => []TypeOK
<1>1. Inductive => TypeOK  BY DEF Inductive
<1> QED  BY <1>1, SendingInvariant, PTL

\* A post goes out as it was drafted (models.py:133, client.py:196), however the
\* register request and the upload were answered; what may be missing is the
\* thumbnail of an article that goes through the UGC adapter (ugc.py:143), and
\* nothing else.
THEOREM SendingLosesOnlyThumbnails == Spec => []OnlyThumbnailsAreLost
<1>1. Inductive => OnlyThumbnailsAreLost  BY DEF Inductive
<1> QED  BY <1>1, SendingInvariant, PTL

\* A missing capability is noticed before a request is reserved or sent
\* (client.py:129, errors.py:144), for every adapter and draft.
THEOREM SendingRefusesForFree == Spec => []RefusalCostsNothing
<1>1. Inductive => RefusalCostsNothing  BY DEF Inductive
<1> QED  BY <1>1, SendingInvariant, PTL

\* A 429 is waited out, up to the time its tick had taken (client.py:346), for
\* every header, clock and backoff.
THEOREM SendingKeepsWaits == Spec => []WaitIsKept
<1>1. Inductive => WaitIsKept  BY DEF Inductive
<1> QED  BY <1>1, SendingInvariant, PTL

-----------------------------------------------------------------------------
(***************************************************************************)
(* Sending implements Exchange.                                            *)
(***************************************************************************)
told == [c \in Calls |-> verdict[c].state]

\* One call is told `end` and nothing else happens to requests.
LEMMA EndIsTell ==
    ASSUME TypeOK, NEW c \in Calls, NEW end, NEW code, NEW notBefore,
           End(c, end, code, notBefore), wire' = wire,
           verdict[c].state = "none", end \in Contract!Truthful(wire[c])
    PROVE  Contract!Tell(c)
<1>1. verdict' = [verdict EXCEPT ![c] =
                    [state |-> end, code |-> code, notBefore |-> notBefore]]
  BY DEF End
<1>2. verdict'[c].state = end /\ \A x \in Calls \ {c} : verdict'[x] = verdict[x]
  BY <1>1 DEF TypeOK
<1>3. told' = [told EXCEPT ![c] = end]
  BY <1>2 DEF told
<1>4. told[c] = "none"
  BY DEF told
<1> QED  BY <1>3, <1>4 DEF Contract!Tell, told

LEMMA NotSentYet ==
    ASSUME Inductive, NEW c \in Calls
    PROVE  /\ at[c] # "done" => verdict[c].state = "none"
           /\ at[c] \in {"idle", "pay_register", "pay_upload", "register", "upload",
                         "pay_create", "create"} => wire[c] = "none"
  BY InductiveIsSafe DEF Safe, LosesThumbnail, CallInvariant, Undecided

\* Before the request leaves, a call that raises may tell anything but "published".
LEMMA FailBeforeSending ==
    ASSUME Inductive, NEW c \in Calls, NEW code \in Codes \ {"quota_deferred"},
           Fail(c, code), wire' = wire, wire[c] = "none", at[c] # "done"
    PROVE  Contract!Tell(c)
<1>1. TypeOK /\ verdict[c].state = "none"  BY NotSentYet, InductiveIsSafe
<1>2. SettledAs(code) \in {"pending", "failed", "unknown"}  BY SettledStates
<1>3. SettledAs(code) \in Contract!Truthful(wire[c])
  BY <1>2 DEF Contract!Truthful
<1> QED  BY <1>1, <1>3, EndIsTell DEF Fail

LEMMA DeferBeforeSending ==
    ASSUME Inductive, NEW c \in Calls, NEW notBefore,
           End(c, SettledAs("quota_deferred"), "quota_deferred", notBefore),
           wire' = wire, wire[c] \in {"none", "throttled"}, at[c] # "done"
    PROVE  Contract!Tell(c)
<1>1. TypeOK /\ verdict[c].state = "none"  BY NotSentYet, InductiveIsSafe
<1>2. SettledAs("quota_deferred") = "pending"  BY DEF SettledAs
<1>3. "pending" \in Contract!Truthful(wire[c])
  BY DEF Contract!Truthful
<1> QED  BY <1>1, <1>2, <1>3, EndIsTell

LEMMA QuietStep ==
    ASSUME wire' = wire, verdict' = verdict
    PROVE  UNCHANGED <<wire, told>>
  BY DEF told

LEMMA BeginIsContract ==
    ASSUME Inductive, NEW c \in Calls, Begin(c)
    PROVE  Contract!Tell(c) \/ UNCHANGED <<wire, told>>
<1> DEFINE d == draft[c]
           refusal == IF Checked(d) # "none" THEN Checked(d)
                      ELSE IF NeedsAsset(d) THEN Sniffed(d.asset, AssetKind(d)) ELSE "none"
<1>1. wire' = wire /\ at[c] = "idle"  BY DEF Begin
<1>2. CASE refusal # "none" /\ Fail(c, refusal)
  <2>1. refusal \in Codes \ {"quota_deferred"}
    BY CheckedCodes, SniffedCodes DEF Codes
  <2> QED  BY <1>1, <1>2, <2>1, NotSentYet, FailBeforeSending
<1>3. CASE UNCHANGED <<verdict, wait>>
  BY <1>1, <1>3, QuietStep
<1> QED  BY <1>2, <1>3 DEF Begin

LEMMA ReserveIsContract ==
    ASSUME Inductive, NEW c \in Calls, NEW from \in {"pay_register", "pay_upload", "pay_create"},
           NEW e, NEW next, Reserve(c, from, e, next)
    PROVE  Contract!Tell(c) \/ UNCHANGED <<wire, told>>
<1>1. wire' = wire /\ at[c] = from  BY DEF Reserve
<1>2. CASE UNCHANGED verdict  BY <1>1, <1>2, QuietStep
<1>3. CASE End(c, SettledAs("quota_deferred"), "quota_deferred", Midnight(moment[c]))
  BY <1>1, <1>3, NotSentYet, DeferBeforeSending
<1>4. CASE Fail(c, "unclassified")
  <2>1. "unclassified" \in Codes \ {"quota_deferred"}  BY DEF Codes
  <2> QED  BY <1>1, <1>4, <2>1, NotSentYet, FailBeforeSending
<1> QED  BY <1>2, <1>3, <1>4 DEF Reserve

LEMMA RegisterIsContract ==
    ASSUME Inductive, NEW c \in Calls, Register(c)
    PROVE  Contract!Tell(c) \/ UNCHANGED <<wire, told>>
<1>1. wire' = wire /\ at[c] = "register" /\ wire[c] = "none"
  BY NotSentYet DEF Register
<1>2. ASSUME NEW code \in Codes \ {"quota_deferred"}, Fail(c, code)  PROVE Contract!Tell(c)
  BY <1>1, <1>2, FailBeforeSending
<1>3. ASSUME NEW after \in RetryAfters, Defer(c, after, Asked(after, clock))
      PROVE  Contract!Tell(c)
  BY <1>1, <1>3, DeferBeforeSending DEF Defer
<1>4. CASE UNCHANGED <<verdict, wait>>  BY <1>1, <1>4, QuietStep
<1>5. \A status \in Statuses : status # 429 =>
         WriteFailure(status) \in Codes \ {"quota_deferred"}
  BY WriteFailureCodes
<1>6. {"capability_unavailable", "publish_outcome_unknown", "provider_rejected", "validation"}
         \subseteq Codes \ {"quota_deferred"}
  BY DEF Codes
<1>7. \/ \E code \in {"capability_unavailable", "publish_outcome_unknown",
                      "provider_rejected", "validation"} : Fail(c, code)
      \/ \E status \in Statuses : status # 429 /\ Fail(c, WriteFailure(status))
      \/ \E after \in RetryAfters : Defer(c, after, Asked(after, clock))
      \/ UNCHANGED <<verdict, wait>>
  BY DEF Register
<1> QED  BY <1>2, <1>3, <1>4, <1>5, <1>6, <1>7

LEMMA UploadIsContract ==
    ASSUME Inductive, NEW c \in Calls, Upload(c)
    PROVE  Contract!Tell(c) \/ UNCHANGED <<wire, told>>
<1>1. wire' = wire /\ at[c] = "upload" /\ wire[c] = "none"
  BY NotSentYet DEF Upload, UploadUpTo
<1>2. ASSUME NEW code \in Codes \ {"quota_deferred"}, Fail(c, code)  PROVE Contract!Tell(c)
  BY <1>1, <1>2, FailBeforeSending
<1>3. CASE UNCHANGED <<verdict, wait>>  BY <1>1, <1>3, QuietStep
<1>4. {"publish_outcome_unknown", "transient_read_failure", "unclassified",
       "provider_rejected"} \subseteq Codes \ {"quota_deferred"}
  BY DEF Codes
<1> QED  BY <1>2, <1>3, <1>4 DEF Upload, UploadUpTo

LEMMA CreateIsContract ==
    ASSUME Inductive, NEW c \in Calls, Create(c)
    PROVE  Contract!Tell(c) \/ Contract!Leave(c)
<1>1. at[c] = "create" /\ wire[c] = "none" /\ verdict[c].state = "none"
  BY NotSentYet DEF Create
<1>2. CASE CreateRefusal(c) # "none"
  <2>1. Fail(c, CreateRefusal(c)) /\ wire' = wire  BY <1>2 DEF Create
  <2>2. CreateRefusal(c) \in Codes \ {"quota_deferred"}
    BY <1>2 DEF CreateRefusal, Codes
  <2> QED  BY <1>1, <2>1, <2>2, FailBeforeSending
<1>3. CASE CreateRefusal(c) = "none"
  <2>1. wire' = [wire EXCEPT ![c] = "inflight"] /\ verdict' = verdict
    BY <1>3 DEF Create
  <2> QED  BY <1>1, <2>1 DEF Contract!Leave, told
<1> QED  BY <1>2, <1>3

LEMMA DecideIsContract ==
    ASSUME NEW c \in Calls, Decide(c)
    PROVE  Contract!Decide(c)
<1>1. wire[c] = "inflight" /\ verdict' = verdict
  BY DEF Decide
<1>2. PICK status \in Statuses, made \in BOOLEAN,
           urn \in {"none", "header", "body"}, after \in RetryAfters :
        /\ status < 300 => made
        /\ status \in 400..499 => ~made
        /\ urn # "none" => made /\ status < 400
        /\ wire' = [wire EXCEPT ![c] = CASE made -> "accepted"
                                         [] ~made /\ status = 429 -> "throttled"
                                         [] OTHER -> "refused"]
        /\ IF at[c] = "await"
           THEN reply' = [reply EXCEPT ![c] =
                   IF status = 429
                   THEN [status |-> 429, urn |-> "none", after |-> after,
                         until |-> Asked(after, clock)]
                   ELSE [NoReply EXCEPT !.status = status, !.urn = urn]]
           ELSE UNCHANGED reply
  BY DEF Decide
<1> DEFINE outcome == CASE made -> "accepted"
                        [] ~made /\ status = 429 -> "throttled"
                        [] OTHER -> "refused"
<1>3. outcome \in {"accepted", "refused", "throttled"}  OBVIOUS
<1>4. \E state \in {"accepted", "refused", "throttled"} : wire' = [wire EXCEPT ![c] = state]
  <2>1. wire' = [wire EXCEPT ![c] = outcome]  BY <1>2
  <2> HIDE DEF outcome
  <2> QED  BY <1>3, <2>1
<1> QED  BY <1>1, <1>4 DEF Contract!Decide, told

\* The answer says what LinkedIn decided, so what the caller is told is true.
LEMMA HearIsContract ==
    ASSUME Inductive, NEW c \in Calls, Hear(c)
    PROVE  Contract!Tell(c)
<1>1. /\ TypeOK /\ Safe(c) /\ at[c] = "await" /\ wire' = wire
      /\ verdict[c].state = "none" /\ reply[c] \in Reply /\ reply[c] # NoReply
  BY InductiveIsSafe, NotSentYet DEF Hear, TypeOK
<1>2. wire[c] \in {"inflight", "accepted", "refused", "throttled"}
  BY <1>1 DEF Safe, CallInvariant, TypeOK
<1>3. "unknown" \in Contract!Truthful(wire[c])
  BY <1>2 DEF Contract!Truthful
<1>4. CASE reply[c].status < 400 /\ Named(c) /\ End(c, "published", "none", 0)
  <2>1. wire[c] = "accepted"
    BY <1>1, <1>4 DEF Named, Safe, CallInvariant
  <2>2. "published" \in Contract!Truthful(wire[c])
    BY <2>1 DEF Contract!Truthful
  <2> QED  BY <1>1, <1>4, <2>2, EndIsTell
<1>5. CASE Fail(c, "publish_outcome_unknown")
  <2>1. SettledAs("publish_outcome_unknown") = "unknown"  BY DEF SettledAs
  <2> QED  BY <1>1, <1>3, <1>5, <2>1, EndIsTell DEF Fail
<1>6. CASE reply[c].status = 429 /\ Defer(c, reply[c].after, reply[c].until)
  <2>1. wire[c] = "throttled"
    BY <1>1, <1>6 DEF Safe, CallInvariant
  <2> QED  BY <1>1, <1>6, <2>1, DeferBeforeSending DEF Defer
<1>7. CASE reply[c].status >= 400 /\ reply[c].status # 429
             /\ Fail(c, WriteFailure(reply[c].status))
  <2>1. reply[c].status \in Int  BY <1>1 DEF Reply
  <2>2. CASE reply[c].status \in 400..499
    <3>1. wire[c] = "refused"  BY <1>1, <1>7, <2>2 DEF Safe, CallInvariant
    <3>2. WriteFailure(reply[c].status) \in
             {"credential_expired", "author_forbidden", "provider_rejected"}
      BY <1>7, <2>2, RefusedWrites
    <3>3. SettledAs(WriteFailure(reply[c].status)) = "failed"
      BY <3>2 DEF SettledAs
    <3>4. "failed" \in Contract!Truthful(wire[c])  BY <3>1 DEF Contract!Truthful
    <3> QED  BY <1>1, <1>7, <3>3, <3>4, EndIsTell DEF Fail
  <2>3. CASE reply[c].status \notin 400..499
    <3>1. SettledAs(WriteFailure(reply[c].status)) = "unknown"
      BY <1>7, <2>1, <2>3, WriteFailureCodes
    <3> QED  BY <1>1, <1>3, <1>7, <3>1, EndIsTell DEF Fail
  <2> QED  BY <2>2, <2>3
<1> QED  BY <1>4, <1>5, <1>6, <1>7 DEF Hear

LEMMA LoseAnswerIsContract ==
    ASSUME Inductive, NEW c \in Calls, LoseAnswer(c)
    PROVE  Contract!Tell(c)
<1>1. /\ TypeOK /\ Safe(c) /\ at[c] = "await" /\ wire' = wire
      /\ verdict[c].state = "none" /\ Fail(c, "publish_outcome_unknown")
  BY InductiveIsSafe, NotSentYet DEF LoseAnswer
<1>2. wire[c] \in {"inflight", "accepted", "refused", "throttled"}
  BY <1>1 DEF Safe, CallInvariant, TypeOK
<1>3. "unknown" \in Contract!Truthful(wire[c])
  BY <1>2 DEF Contract!Truthful
<1>4. SettledAs("publish_outcome_unknown") = "unknown"  BY DEF SettledAs
<1> QED  BY <1>1, <1>3, <1>4, EndIsTell DEF Fail

\* Every step of a send is a step of Exchange or leaves what Exchange sees as it is.
LEMMA StepIsContract ==
    ASSUME Inductive, [Next]_vars
    PROVE  [Contract!ExchangeNext]_<<wire, told>>
<1>1. ASSUME NEW c \in Calls, Contract!Leave(c) \/ Contract!Decide(c) \/ Contract!Tell(c)
      PROVE  Contract!ExchangeNext
  BY <1>1 DEF Contract!ExchangeNext
<1>2. ASSUME NEW c \in Calls, Begin(c) \/ Step(c) \/ Decide(c)
      PROVE  [Contract!ExchangeNext]_<<wire, told>>
  <2>1. CASE Begin(c)  BY <1>1, <2>1, BeginIsContract
  <2>2. CASE PayRegister(c)  BY <1>1, <2>2, ReserveIsContract DEF PayRegister
  <2>3. CASE PayUpload(c)  BY <1>1, <2>3, ReserveIsContract DEF PayUpload
  <2>4. CASE PayCreate(c)  BY <1>1, <2>4, ReserveIsContract DEF PayCreate
  <2>5. CASE Register(c)  BY <1>1, <2>5, RegisterIsContract
  <2>6. CASE Upload(c)  BY <1>1, <2>6, UploadIsContract
  <2>7. CASE Create(c)  BY <1>1, <2>7, CreateIsContract
  <2>8. CASE Decide(c)  BY <1>1, <2>8, DecideIsContract
  <2>9. CASE Hear(c)  BY <1>1, <2>9, HearIsContract
  <2>10. CASE LoseAnswer(c)  BY <1>1, <2>10, LoseAnswerIsContract
  <2> QED  BY <1>2, <2>1, <2>2, <2>3, <2>4, <2>5, <2>6, <2>7, <2>8, <2>9, <2>10 DEF Step
<1>3. CASE AdvanceClock  BY <1>3, QuietStep DEF AdvanceClock
<1>4. CASE UNCHANGED vars  BY <1>4, QuietStep DEF vars
<1> QED  BY <1>2, <1>3, <1>4 DEF Next

\* A send keeps the promise of Exchange, for any number of calls side by side: at
\* most one create request each, and nothing told of it that is not so.
THEOREM SendingKeepsExchange == Spec => KeepsExchange
<1>1. Init => Contract!ExchangeInit
  BY DEF Init, Contract!ExchangeInit, Undecided
<1>2. Inductive /\ [Next]_vars => [Contract!ExchangeNext]_(Contract!exchangeVars)
  BY StepIsContract DEF Contract!exchangeVars, told
<1> QED  BY <1>1, <1>2, SendingInvariant, PTL DEF Spec, KeepsExchange, Contract!ExchangeSpec

-----------------------------------------------------------------------------
\* The truth of an end does not pass: the wire moves only under callers that are
\* not told yet, or were told that nothing is known.
LEMMA ContractStep ==
    ASSUME Contract!ExchangeTypeOK, Contract!StaysTrue,
           [Contract!ExchangeNext]_(Contract!exchangeVars)
    PROVE  Contract!ExchangeTypeOK' /\ Contract!StaysTrue'
<1> USE DEF Contract!ExchangeTypeOK, Contract!StaysTrue, Contract!Wires, Contract!Ends, told
<1>1. ASSUME NEW c \in Calls, Contract!Leave(c)
      PROVE  Contract!ExchangeTypeOK' /\ Contract!StaysTrue'
  BY <1>1 DEF Contract!Leave, Contract!Truthful
<1>2. ASSUME NEW c \in Calls, Contract!Decide(c)
      PROVE  Contract!ExchangeTypeOK' /\ Contract!StaysTrue'
  BY <1>2 DEF Contract!Decide, Contract!Truthful
<1>3. ASSUME NEW c \in Calls, Contract!Tell(c)
      PROVE  Contract!ExchangeTypeOK' /\ Contract!StaysTrue'
  <2>1. PICK end \in Contract!Truthful(wire[c]) :
            told' = [told EXCEPT ![c] = end] /\ wire' = wire
    BY <1>3 DEF Contract!Tell
  <2>2. Contract!Truthful(wire[c]) \subseteq Contract!Ends
    BY DEF Contract!Truthful
  <2>3. told'[c] = end /\ \A x \in Calls \ {c} : told'[x] = told[x]
    BY <2>1
  <2> QED  BY <2>1, <2>2, <2>3
<1>4. CASE UNCHANGED Contract!exchangeVars
  BY <1>4 DEF Contract!exchangeVars
<1> QED  BY <1>1, <1>2, <1>3, <1>4 DEF Contract!ExchangeNext

\* The promise is worth having: in every exchange, what the caller was told stays
\* true, so a row settled by it (service.py:313) never has to be taken back.
THEOREM ExchangeStaysTrue == Contract!ExchangeSpec => []Contract!StaysTrue
<1>1. Contract!ExchangeInit => Contract!ExchangeTypeOK /\ Contract!StaysTrue
  BY DEF Contract!ExchangeInit, Contract!ExchangeTypeOK, Contract!StaysTrue, Contract!Wires,
     Contract!Ends, told
<1> QED  BY <1>1, ContractStep, PTL DEF Contract!ExchangeSpec

\* So a send tells nothing it may have to take back: a publication is put back or
\* failed by its sender only where no post exists or can still appear, and called
\* published only over a post, whichever layer, status or timeout ended the call.
THEOREM SendingStaysTrue == Spec => []Contract!StaysTrue
<1> QED  BY SendingKeepsExchange, ExchangeStaysTrue, PTL DEF KeepsExchange
=============================================================================
