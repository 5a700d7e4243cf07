-------------------------------- MODULE Desk --------------------------------
(***************************************************************************)
(* What operators do to one publication key before a worker may send it:   *)
(* imports that race for the key (upsert_publication), `approval record`   *)
(* and `account commission`, each a run of the program that reads the      *)
(* ledger, waits for a person to confirm what it shows, and writes. A run  *)
(* that is aborted at its prompt, or killed, takes no further step.        *)
(*                                                                         *)
(* Rows and operators of other keys never meet. The worker is here only by *)
(* what it leaves in the ledger: Publication says how it gets there.       *)
(***************************************************************************)
EXTENDS FiniteSets

CONSTANTS
    Imports,        \* runs of upsert_publication; each brings an id of its own
    Approvers,      \* runs of `approval record`
    Commissioners,  \* runs of `account commission`
    Digests,        \* payloads somebody may import or have reviewed
    Bindings

None == "none"

ASSUME RunsAssumption ==
    /\ Imports \cap Approvers = {}
    /\ Imports \cap Commissioners = {}
    /\ Approvers \cap Commissioners = {}
ASSUME NoneAssumption == None \notin Imports \cup Digests \cup Bindings

VARIABLES
    row,        \* the row of the key
    approvals,  \* its rows of approvals
    grants,     \* its rows of commissioning_grants
    at,         \* where each run is
    review,     \* the publication it imports, or was told to expect and found
    told        \* how it ended

desk == <<row, approvals, grants, at, review, told>>

Runs == Imports \cup Approvers \cup Commissioners

\* A publication as an import brings it and as an operator has reviewed it.
Papers == [id : Imports, digest : Digests, binding : Bindings]
NoPaper == [id |-> None, digest |-> None, binding |-> None]

NoRow == [paper |-> NoPaper, state |-> None]

DeskTypeOK ==
    /\ row \in [paper : Papers, state : {"pending", "published", "over"}]
               \cup {NoRow}
    /\ approvals \subseteq [paper : Papers, by : Approvers, revoked : BOOLEAN]
    /\ grants \subseteq [paper : Papers, by : Commissioners, open : BOOLEAN]
    /\ at \in [Runs -> {"start", "insert", "approved", "confirm", "done"}]
    /\ review \in [Runs -> Papers \cup {NoPaper}]
    /\ told \in [Runs -> {None, "stored", "existing", "conflict", "duplicate", "error",
                          "absent", "mismatch", "unapproved", "approved",
                          "granted"}]

DeskInit ==
    /\ row = NoRow
    /\ approvals = {}
    /\ grants = {}
    /\ at = [r \in Runs |-> "start"]
    /\ review = [r \in Runs |-> NoPaper]
    /\ told = [r \in Runs |-> None]

Stored == row # NoRow

Go(r, place) == at' = [at EXCEPT ![r] = place] /\ UNCHANGED told

End(r, answer) ==
    /\ at' = [at EXCEPT ![r] = "done"]
    /\ told' = [told EXCEPT ![r] = answer]

tables == <<row, approvals, grants>>

\* A statement that writes: its answer may be lost with the connection.
Write(r, answer) == End(r, answer) \/ End(r, "error")

-----------------------------------------------------------------------------
(***************************************************************************)
(* Import.                                                                 *)
(***************************************************************************)

\* Mutant: the digest of the row that is already there is not compared.
FindByKey(i, paper) ==
    IF Stored THEN End(i, "existing") ELSE Go(i, "insert")

\* find_by_key, and what an existing row means.
FoundByKey(i, paper) ==
    IF Stored
    THEN End(i, IF row.paper.digest = paper.digest THEN "existing" ELSE "conflict")
    ELSE Go(i, "insert")

Find(i) ==
    /\ at[i] = "start"
    /\ \E paper \in Papers :
          /\ paper.id = i
          /\ review' = [review EXCEPT ![i] = paper]
          /\ FoundByKey(i, paper)
    /\ UNCHANGED tables

\* Mutant: the insert has no unique key to run into.
InsertOverKey(i) ==
    /\ at[i] = "insert"
    /\ row' = [paper |-> review[i], state |-> "pending"]
    /\ Write(i, "stored")
    /\ UNCHANGED <<approvals, grants, review>>

\* INSERT under the natural key: of two that found nothing, one is refused.
Insert(i) ==
    /\ at[i] = "insert"
    /\ IF Stored
       THEN End(i, "duplicate") /\ UNCHANGED row
       ELSE row' = [paper |-> review[i], state |-> "pending"] /\ Write(i, "stored")
    /\ UNCHANGED <<approvals, grants, review>>

-----------------------------------------------------------------------------
(***************************************************************************)
(* Approval and commissioning.                                             *)
(***************************************************************************)

\* Mutant: the digest the operator reviewed is not compared with the row's.
MatchExceptDigest(paper) ==
    /\ row.paper.binding = paper.binding
    /\ row.state = "pending"

\* _require_match.
Match(paper) ==
    /\ row.paper.binding = paper.binding
    /\ row.paper.digest = paper.digest
    /\ row.state = "pending"

\* _load_publication, then _require_match; a run goes on to `place`.
Load(r, place) ==
    /\ at[r] = "start"
    /\ \E paper \in Papers :
          IF row.paper.id # paper.id THEN End(r, "absent") /\ UNCHANGED review
          ELSE IF ~Match(paper) THEN End(r, "mismatch") /\ UNCHANGED review
          ELSE Go(r, place) /\ review' = [review EXCEPT ![r] = paper]
    /\ UNCHANGED tables

\* approval record, after the prompt: one approval per digest (a unique key).
Approve(a) ==
    /\ at[a] = "confirm"
    /\ IF \E x \in approvals : x.paper.digest = row.paper.digest
       THEN End(a, "duplicate") /\ UNCHANGED approvals
       ELSE /\ approvals' = approvals \cup
                   {[paper |-> review[a], by |-> a, revoked |-> FALSE]}
            /\ Write(a, "approved")
    /\ UNCHANGED <<row, grants, review>>

\* get_approval, is_active.
Active(digest) == \E x \in approvals : x.paper.digest = digest /\ ~x.revoked

\* Mutant: a commission does not ask for the approval.
Unasked(c) ==
    /\ at[c] = "approved"
    /\ Go(c, "confirm")
    /\ UNCHANGED <<tables, review>>

\* account commission, before the prompt.
Approved(c) ==
    /\ at[c] = "approved"
    /\ IF Active(review[c].digest) THEN Go(c, "confirm") ELSE End(c, "unapproved")
    /\ UNCHANGED <<tables, review>>

\* Mutant: a publication may have any number of open grants.
CommissionAnyway(c) ==
    /\ at[c] = "confirm"
    /\ grants' = grants \cup {[paper |-> review[c], by |-> c, open |-> TRUE]}
    /\ Write(c, "granted")
    /\ UNCHANGED <<row, approvals, review>>

\* account commission, after it: one open grant per publication (a unique index).
Commission(c) ==
    /\ at[c] = "confirm"
    /\ IF \E g \in grants : g.open
       THEN End(c, "duplicate") /\ UNCHANGED grants
       ELSE /\ grants' = grants \cup {[paper |-> review[c], by |-> c, open |-> TRUE]}
            /\ Write(c, "granted")
    /\ UNCHANGED <<row, approvals, review>>

-----------------------------------------------------------------------------
(***************************************************************************)
(* The others.                                                             *)
(***************************************************************************)

\* The writer role sets revoked_at; no code in src/ does.
Revoke ==
    /\ \E x \in approvals :
          approvals' = (approvals \ {x}) \cup {[x EXCEPT !.revoked = TRUE]}
    /\ UNCHANGED <<row, grants, at, review, told>>

\* A worker publishes a row whose approval its gate found, by a grant or without.
Deliver ==
    /\ row.state = "pending"
    /\ Active(row.paper.digest)
    /\ row' = [row EXCEPT !.state = "published"]
    /\ grants' \in {grants, {[g EXCEPT !.open = FALSE] : g \in grants}}
    /\ UNCHANGED <<approvals, at, review, told>>

\* A worker gives a row up, or an operator cancels it: any other state.
Abandon ==
    /\ row.state = "pending"
    /\ row' = [row EXCEPT !.state = "over"]
    /\ UNCHANGED <<approvals, grants, at, review, told>>

DeskNext ==
    \/ \E i \in Imports : Find(i) \/ Insert(i)
    \/ \E a \in Approvers : Load(a, "confirm") \/ Approve(a)
    \/ \E c \in Commissioners :
          Load(c, "approved") \/ Approved(c) \/ Commission(c)
    \/ Revoke \/ Deliver \/ Abandon

-----------------------------------------------------------------------------
(***************************************************************************)
(* What is promised.                                                       *)
(***************************************************************************)

(***************************************************************************)
(* Imports that race for a key leave one payload: everybody who was told   *)
(* that theirs is stored or was there already finds its digest in the      *)
(* ledger at any later time, one of them at most stored it, and nobody is  *)
(* refused for a conflict with his own payload (upsert_publication).       *)
(***************************************************************************)
ImportIsOnce ==
    \A i \in Imports :
          /\ told[i] \in {"stored", "existing"} => row.paper.digest = review[i].digest
          /\ told[i] = "stored" => row.paper = review[i]
          /\ told[i] = "conflict" => Stored /\ row.paper.digest # review[i].digest

(***************************************************************************)
(* Nothing is licensed that nobody reviewed: an approval names the payload *)
(* and binding the ledger holds, a published row has one by somebody whose *)
(* reviewed digest it is, a grant follows an approval of the same payload, *)
(* and of the commissions that race one leaves an open grant (cli.py,      *)
(* _require_match, account_commission, approval_record).                   *)
(***************************************************************************)
WhatWasReviewed ==
    /\ \A x \in approvals : x.paper = row.paper /\ review[x.by] = row.paper
    /\ row.state = "published" => \E x \in approvals : x.paper = row.paper
    /\ \A g \in grants :
          g.paper = row.paper /\ \E x \in approvals : x.paper = g.paper
    /\ \A g, h \in grants : g.open /\ h.open => g = h
=============================================================================
