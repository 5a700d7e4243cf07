------------------------------ MODULE Aftercare ------------------------------
(***************************************************************************)
(* A publication after it went out: delete_publication over the ledger     *)
(* that Desk fills. LinkedIn may delete a post for a caller who has given  *)
(* up, and the store may fail on the event of a deletion it carried out.   *)
(* A run that is killed takes no further step.                             *)
(***************************************************************************)
EXTENDS Desk

CONSTANTS
    Deletions,      \* runs of delete_publication
    DeleteEnabled   \* whether the binding has the capability `delete`

ASSUME DeleteAssumption == DeleteEnabled \in BOOLEAN

VARIABLES
    post,       \* the post at LinkedIn
    place,      \* where each run is
    wire,       \* what LinkedIn made of its request
    outcome,    \* the answer that reached it
    events,     \* the rows of publication_events the deletions wrote
    ended       \* how it ended

care == <<post, place, wire, outcome, events, ended>>
vars == <<desk, care>>

\* Refused before a request, rejected by LinkedIn's answer: Sending tells the
\* reasons apart. "error" is the store's, which says nothing of the post.
Codes == {None, "refused", "deleted", "not_found", "rejected",
          "transient_read_failure", "publish_outcome_unknown", "error"}

TypeOK ==
    /\ DeskTypeOK
    /\ post \in {"absent", "live", "gone"}
    /\ place \in [Deletions -> {"start", "send", "await", "record", "done"}]
    /\ wire \in [Deletions -> {None, "inflight", "done", "missing", "refused"}]
    /\ outcome \in [Deletions -> Codes]
    /\ events \subseteq [by : Deletions, kind : {"deleted", "delete_refused"}]
    /\ ended \in [Deletions -> Codes]

Init ==
    /\ DeskInit
    /\ post = "absent"
    /\ place = [d \in Deletions |-> "start"]
    /\ wire = [d \in Deletions |-> None]
    /\ outcome = [d \in Deletions |-> None]
    /\ events = {}
    /\ ended = [d \in Deletions |-> None]

Step(d, next) == place' = [place EXCEPT ![d] = next] /\ UNCHANGED ended

Finish(d, code) ==
    /\ place' = [place EXCEPT ![d] = "done"]
    /\ ended' = [ended EXCEPT ![d] = code]

-----------------------------------------------------------------------------
(***************************************************************************)
(* Up to the request.                                                      *)
(***************************************************************************)

\* delete_publication up to delete_post: a post of the binding's own receipts,
\* where deleting is enabled. A caller of another binding is refused, and so is
\* one without a credential.
Ask(d) ==
    /\ place[d] = "start"
    /\ Stored
    /\ \/ row.state = "published" /\ DeleteEnabled /\ Step(d, "send")
       \/ Finish(d, "refused")
    /\ UNCHANGED <<desk, post, wire, outcome, events>>

\* delete_post: _reserve_urn, whose counters Budgets keeps, and the request.
Send(d) ==
    /\ place[d] = "send"
    /\ \/ Step(d, "await") /\ wire' = [wire EXCEPT ![d] = "inflight"]
       \/ Finish(d, "refused") /\ UNCHANGED wire
    /\ UNCHANGED <<desk, post, outcome, events>>

-----------------------------------------------------------------------------
(***************************************************************************)
(* LinkedIn.                                                               *)
(***************************************************************************)

\* It deletes the post or finds none, sees none for this credential, or refuses.
Decide(d) ==
    /\ wire[d] = "inflight"
    /\ \/ /\ post = "live"
          /\ wire' = [wire EXCEPT ![d] = "done"]
          /\ post' = "gone"
       \/ /\ wire' \in {[wire EXCEPT ![d] = w] : w \in {"missing", "refused"}}
          /\ UNCHANGED post
    /\ UNCHANGED <<desk, place, outcome, events, ended>>

\* The member takes the post down on the site.
TakeDown ==
    /\ post = "live"
    /\ post' = "gone"
    /\ UNCHANGED <<desk, place, wire, outcome, events, ended>>

-----------------------------------------------------------------------------
(***************************************************************************)
(* The answer.                                                             *)
(***************************************************************************)

\* Mutant: the errors of a deletion are mapped like those of a read.
AnswersOfRead(w) ==
    CASE w = "done" -> {"deleted", "transient_read_failure"}
      [] w = "missing" -> {"not_found"}
      [] w = "refused" -> {"rejected"}

\* Mutant: a 404 is taken for a post that is gone.
AnswersOfGone(w) ==
    CASE w = "done" -> {"deleted", "publish_outcome_unknown"}
      [] w = "missing" -> {"deleted"}
      [] w = "refused" -> {"rejected", "publish_outcome_unknown"}

\* delete_post of either adapter, map_write_failure: a gateway may hide the answer.
AnswersTo(w) ==
    CASE w = "done" -> {"deleted", "publish_outcome_unknown"}
      [] w = "missing" -> {"not_found", "publish_outcome_unknown"}
      [] w = "refused" -> {"rejected", "publish_outcome_unknown"}

Answer(d) ==
    /\ place[d] = "await"
    /\ wire[d] # "inflight"
    /\ \E code \in AnswersTo(wire[d]) :
          IF code \in {"deleted", "not_found"}
          THEN Step(d, "record") /\ outcome' = [outcome EXCEPT ![d] = code]
          ELSE Finish(d, code) /\ UNCHANGED outcome
    /\ UNCHANGED <<desk, post, wire, events>>

\* Mutant: a deletion that timed out is taken for a refused one.
LostMeansRefused(d) ==
    /\ place[d] = "await"
    /\ Finish(d, "rejected")
    /\ UNCHANGED <<desk, post, wire, outcome, events>>

\* A timeout or a broken connection, before or after LinkedIn decided.
Lose(d) ==
    /\ place[d] = "await"
    /\ Finish(d, "publish_outcome_unknown")
    /\ UNCHANGED <<desk, post, wire, outcome, events>>

\* Mutant: the event is named after the outcome.
RecordOutcome(d) ==
    /\ place[d] = "record"
    /\ events' = events \cup {[by |-> d, kind |-> outcome[d]]}
    /\ Finish(d, outcome[d])
    /\ UNCHANGED <<desk, post, wire, outcome>>

\* The row append_event writes of an answer.
EventOf(d) ==
    [by |-> d, kind |-> IF outcome[d] = "deleted" THEN "deleted" ELSE "delete_refused"]

\* delete_publication, once it has an answer. append_event may fail, or lose its
\* own answer: the caller then learns of the store, and not of the post.
Record(d) ==
    /\ place[d] = "record"
    /\ \/ events' = events \cup {EventOf(d)} /\ Finish(d, outcome[d])
       \/ events' \in {events, events \cup {EventOf(d)}} /\ Finish(d, "error")
    /\ UNCHANGED <<desk, post, wire, outcome>>

\* The desk works on; the worker's delivery is where the post comes from.
AtDesk ==
    /\ DeskNext
    /\ post' = IF row.state = "pending" /\ row'.state = "published" THEN "live" ELSE post
    /\ UNCHANGED <<place, wire, outcome, events, ended>>

Next ==
    \/ AtDesk
    \/ \E d \in Deletions : \/ Ask(d) \/ Send(d) \/ Decide(d)
                            \/ Answer(d) \/ Lose(d) \/ Record(d)
    \/ TakeDown

Spec == Init /\ [][Next]_vars

-----------------------------------------------------------------------------
(***************************************************************************)
(* A deletion says what is so: an event or an answer of "deleted" means    *)
(* the post is gone; and whoever is told anything else, but for "unknown"  *)
(* and an error of the store, had nothing deleted in his name, though      *)
(* LinkedIn may decide after he gave up and the event may be lost          *)
(* (service.delete_publication, delete_post of both adapters).             *)
(***************************************************************************)
DeletionIsTrue ==
    /\ \A e \in events : e.kind = "deleted" => post = "gone"
    /\ \A d \in Deletions :
          /\ ended[d] = "deleted" => [by |-> d, kind |-> "deleted"] \in events
          /\ place[d] = "done" /\ wire[d] \in {"inflight", "done"} =>
                 ended[d] \in {"deleted", "publish_outcome_unknown", "error"}
=============================================================================
