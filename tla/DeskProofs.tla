----------------------------- MODULE DeskProofs -----------------------------
(***************************************************************************)
(* Proofs about Desk and Aftercare, for any number of runs.                *)
(*                                                                         *)
(* What carries all of them: a stored row keeps its paper for good, so a   *)
(* run that went past Match still stands for the row it read, however long *)
(* its prompt waited; and a post exists at LinkedIn only for a row that is *)
(* published, so a deletion that LinkedIn carried out cannot be undone.    *)
(***************************************************************************)
EXTENDS Aftercare, TLAPS

Past(r) == at[r] \in {"approved", "confirm"}

\* Who stands where, and what he stands for.
Standing ==
    /\ \A i \in Imports :
          /\ at[i] = "insert" => review[i] \in Papers
          /\ at[i] # "done" => told[i] = None
          /\ at[i] \in {"start", "insert", "done"}
    /\ \A r \in Approvers \cup Commissioners : Past(r) => Stored /\ review[r] = row.paper
    /\ \A c \in Commissioners :
          at[c] = "confirm" => \E x \in approvals : x.paper = row.paper

\* What has been written.
Written ==
    /\ \A x \in approvals : /\ Stored
                            /\ x.paper = row.paper
                            /\ review[x.by] = row.paper
                            /\ at[x.by] = "done"
    /\ row.state = "published" => \E x \in approvals : x.paper = row.paper
    /\ \A g \in grants : /\ Stored
                         /\ g.paper = row.paper
                         /\ \E x \in approvals : x.paper = row.paper
    /\ \A g, h \in grants : g.open /\ h.open => g = h

Told ==
    \A i \in Imports :
        /\ told[i] \in {"stored", "existing"} =>
              Stored /\ row.paper.digest = review[i].digest
        /\ told[i] = "stored" => row.paper = review[i]
        /\ told[i] = "conflict" => Stored /\ row.paper.digest # review[i].digest

DeskInv == DeskTypeOK /\ Standing /\ Written /\ Told

\* What LinkedIn did, against what the deletions heard.
Heard ==
    /\ post # "absent" => row.state = "published"
    /\ \A d \in Deletions :
          /\ place[d] \in {"start", "send"} => wire[d] = None
          /\ wire[d] = "done" => post = "gone"
          /\ place[d] = "await" => wire[d] # None
          /\ place[d] = "record" =>
                \/ outcome[d] = "deleted" /\ wire[d] = "done"
                \/ outcome[d] = "not_found" /\ wire[d] = "missing"
          /\ place[d] # "done" => ended[d] = None
          /\ ended[d] = "deleted" => [by |-> d, kind |-> "deleted"] \in events
          /\ place[d] = "done" /\ wire[d] \in {"inflight", "done"} =>
                ended[d] \in {"deleted", "publish_outcome_unknown", "error"}
    /\ \A e \in events : e.kind = "deleted" => wire[e.by] = "done"

CareTypeOK ==
    /\ post \in {"absent", "live", "gone"}
    /\ place \in [Deletions -> {"start", "send", "await", "record", "done"}]
    /\ wire \in [Deletions -> {None, "inflight", "done", "missing", "refused"}]
    /\ outcome \in [Deletions -> Codes]
    /\ events \subseteq [by : Deletions, kind : {"deleted", "delete_refused"}]
    /\ ended \in [Deletions -> Codes]

Inductive == DeskInv /\ CareTypeOK /\ Heard

-----------------------------------------------------------------------------
(***************************************************************************)
(* The desk.                                                               *)
(***************************************************************************)

LEMMA NoRowIsNoPaper ==
    /\ NoPaper \notin Papers
    /\ \A p \in Papers : [paper |-> p, state |-> "pending"] # NoRow
BY NoneAssumption DEF NoPaper, Papers, NoRow

LEMMA DeskStarts == DeskInit => DeskInv
<1> SUFFICES ASSUME DeskInit PROVE DeskInv
  OBVIOUS
<1> USE DEF DeskInit, Runs, NoRow, NoPaper, None
<1>1. DeskTypeOK
  BY DEF DeskTypeOK
<1>2. Standing
  BY DEF Standing, Past
<1>3. Written
  BY DEF Written, NoRow
<1>4. Told
  BY DEF Told
<1>5. QED
  BY <1>1, <1>2, <1>3, <1>4 DEF DeskInv

LEMMA FindKeeps ==
    ASSUME DeskInv, NEW i \in Imports, Find(i)
    PROVE  DeskInv'
<1> USE DEF DeskInv
<1>1. PICK paper \in Papers :
         /\ paper.id = i
         /\ review' = [review EXCEPT ![i] = paper]
         /\ FoundByKey(i, paper)
  BY DEF Find
<1>2. at[i] = "start" /\ UNCHANGED <<row, approvals, grants>>
  BY DEF Find, tables
<1>3. CASE Stored
  <2>1. /\ at' = [at EXCEPT ![i] = "done"]
        /\ told' = [told EXCEPT ![i] = IF row.paper.digest = paper.digest
                                       THEN "existing" ELSE "conflict"]
    BY <1>1, <1>3 DEF FoundByKey, End
  <2>2. DeskTypeOK'
    BY <1>1, <1>2, <2>1 DEF DeskTypeOK, Runs
  <2>3. Standing'
    BY <1>1, <1>2, <2>1, RunsAssumption DEF Standing, Past, DeskTypeOK, Runs, Stored
  <2>4. Written'
    BY <1>1, <1>2, <2>1, RunsAssumption DEF Written, DeskTypeOK, Runs, Stored
  <2>5. Told'
    BY <1>1, <1>2, <1>3, <2>1, NoneAssumption DEF Told, DeskTypeOK, Runs, Stored
  <2>6. QED
    BY <2>2, <2>3, <2>4, <2>5
<1>4. CASE ~Stored
  <2>1. at' = [at EXCEPT ![i] = "insert"] /\ UNCHANGED told
    BY <1>1, <1>4 DEF FoundByKey, Go
  <2>2. DeskTypeOK'
    BY <1>1, <1>2, <2>1 DEF DeskTypeOK, Runs
  <2>3. Standing'
    BY <1>1, <1>2, <2>1, RunsAssumption DEF Standing, Past, DeskTypeOK, Runs, Stored
  <2>4. Written'
    BY <1>1, <1>2, <2>1, RunsAssumption DEF Written, DeskTypeOK, Runs, Stored
  <2>5. Told'
    BY <1>1, <1>2, <2>1 DEF Told, Standing, DeskTypeOK, Runs, Stored, None
  <2>6. QED
    BY <2>2, <2>3, <2>4, <2>5
<1>5. QED
  BY <1>3, <1>4

LEMMA InsertKeeps ==
    ASSUME DeskInv, NEW i \in Imports, Insert(i)
    PROVE  DeskInv'
<1> USE DEF DeskInv
<1>1. at[i] = "insert" /\ UNCHANGED <<approvals, grants, review>>
  BY DEF Insert
<1>2. CASE Stored
  <2>1. /\ at' = [at EXCEPT ![i] = "done"]
        /\ told' = [told EXCEPT ![i] = "duplicate"]
        /\ row' = row
    BY <1>2 DEF Insert, End
  <2>2. DeskTypeOK'
    BY <1>1, <2>1 DEF DeskTypeOK, Runs
  <2>3. Standing'
    BY <1>1, <2>1, RunsAssumption DEF Standing, Past, DeskTypeOK, Runs, Stored
  <2>4. Written'
    BY <1>1, <2>1, RunsAssumption DEF Written, DeskTypeOK, Runs, Stored
  <2>5. Told'
    BY <1>1, <2>1 DEF Told, DeskTypeOK, Runs, Stored
  <2>6. QED
    BY <2>2, <2>3, <2>4, <2>5
<1>3. CASE ~Stored
  <2>1. PICK answer \in {"stored", "error"} :
           /\ at' = [at EXCEPT ![i] = "done"]
           /\ told' = [told EXCEPT ![i] = answer]
    BY <1>3 DEF Insert, Write, End
  <2>2. row' = [paper |-> review[i], state |-> "pending"]
    BY <1>3 DEF Insert
  <2>3. review[i] \in Papers
    BY <1>1 DEF Standing
  <2>4. Stored'
    BY <2>2, <2>3, NoRowIsNoPaper DEF Stored
  <2>5. approvals = {} /\ grants = {}
    BY <1>3 DEF Written
  <2>6. DeskTypeOK'
    BY <1>1, <2>1, <2>2, <2>3 DEF DeskTypeOK, Runs
  <2>7. Standing'
    <3>1. \A r \in Approvers \cup Commissioners : ~Past(r)
      BY <1>3 DEF Standing
    <3>2. QED
      BY <1>1, <2>1, <3>1, RunsAssumption DEF Standing, Past, DeskTypeOK, Runs
  <2>8. Written'
    BY <1>1, <2>2, <2>5 DEF Written
  <2>9. Told'
    <3>1. \A j \in Imports : told[j] \notin {"stored", "existing", "conflict"}
      BY <1>3 DEF Told
    <3>2. \A j \in Imports : j # i => told'[j] = told[j]
      BY <2>1 DEF DeskTypeOK, Runs
    <3>3. told'[i] \in {"stored", "error"}
      BY <2>1 DEF DeskTypeOK, Runs
    <3>4. QED
      BY <1>1, <2>2, <2>4, <3>1, <3>2, <3>3 DEF Told
  <2>10. QED
    BY <2>6, <2>7, <2>8, <2>9
<1>4. QED
  BY <1>2, <1>3

\* A run that only moves, without a write, to a place it has earned.
LEMMA MoveKeeps ==
    ASSUME DeskInv, NEW r \in Approvers \cup Commissioners, NEW next, NEW answer, NEW paper,
           UNCHANGED <<row, approvals, grants>>,
           at' = [at EXCEPT ![r] = next],
           told' = [told EXCEPT ![r] = answer],
           review' = [review EXCEPT ![r] = paper],
           at[r] # "done",
           next \in {"approved", "confirm", "done"},
           answer \in {told[r], "absent", "mismatch", "unapproved", "duplicate"},
           paper \in Papers \cup {NoPaper},
           next # "done" => Stored /\ paper = row.paper,
           r \in Commissioners /\ next = "confirm" =>
               \E x \in approvals : x.paper = row.paper
    PROVE  DeskInv'
<1> USE DEF DeskInv
<1>1. r \notin Imports
  BY RunsAssumption
<1>2. DeskTypeOK'
  BY DEF DeskTypeOK, Runs
<1>3. Standing'
  BY <1>1 DEF Standing, Past, DeskTypeOK, Runs, Stored
<1>4. Written'
  BY DEF Written, DeskTypeOK, Runs, Stored
<1>5. Told'
  BY <1>1 DEF Told, DeskTypeOK, Runs, Stored
<1>6. QED
  BY <1>2, <1>3, <1>4, <1>5

LEMMA LoadKeeps ==
    ASSUME DeskInv, NEW r \in Approvers \cup Commissioners, NEW next,
           next \in {"approved", "confirm"},
           r \in Commissioners => next = "approved",
           Load(r, next)
    PROVE  DeskInv'
<1>1. at[r] = "start" /\ UNCHANGED <<row, approvals, grants>>
  BY DEF Load, tables
<1>2. PICK paper \in Papers :
         IF row.paper.id # paper.id THEN End(r, "absent") /\ UNCHANGED review
         ELSE IF ~Match(paper) THEN End(r, "mismatch") /\ UNCHANGED review
         ELSE Go(r, next) /\ review' = [review EXCEPT ![r] = paper]
  BY DEF Load
<1>3. /\ review \in [Runs -> Papers \cup {NoPaper}]
      /\ told = [told EXCEPT ![r] = told[r]]
      /\ review = [review EXCEPT ![r] = review[r]]
      /\ r \in Runs
  BY DEF DeskInv, DeskTypeOK, Runs
<1>4. CASE row.paper.id # paper.id
  BY <1>1, <1>2, <1>3, <1>4, MoveKeeps DEF End
<1>5. CASE row.paper.id = paper.id /\ ~Match(paper)
  BY <1>1, <1>2, <1>3, <1>5, MoveKeeps DEF End
<1>6. CASE row.paper.id = paper.id /\ Match(paper)
  <2>1. at' = [at EXCEPT ![r] = next] /\ told' = told
        /\ review' = [review EXCEPT ![r] = paper]
    BY <1>2, <1>6 DEF Go
  <2>2. Stored
    BY <1>6, NoneAssumption DEF Stored, NoRow, NoPaper, Papers
  <2>3. row.paper \in Papers
    BY <2>2 DEF DeskInv, DeskTypeOK, Stored
  <2>4. paper = row.paper
    BY <1>6, <2>3 DEF Match, Papers
  <2>5. r \in Commissioners /\ next = "confirm" =>
            \E x \in approvals : x.paper = row.paper
    OBVIOUS
  <2>6. QED
    BY <1>1, <1>3, <2>1, <2>2, <2>4, <2>5, MoveKeeps
<1>7. QED
  BY <1>4, <1>5, <1>6

LEMMA ApprovedKeeps ==
    ASSUME DeskInv, NEW c \in Commissioners, Approved(c)
    PROVE  DeskInv'
<1>1. at[c] = "approved" /\ UNCHANGED <<row, approvals, grants, review>>
  BY DEF Approved, tables
<1>2. /\ c \in Runs
      /\ told = [told EXCEPT ![c] = told[c]]
      /\ review = [review EXCEPT ![c] = review[c]]
      /\ review[c] \in Papers \cup {NoPaper}
  BY DEF DeskInv, DeskTypeOK, Runs
<1>3. Stored /\ review[c] = row.paper
  BY <1>1 DEF DeskInv, Standing, Past
<1>4. CASE Active(review[c].digest)
  <2>1. at' = [at EXCEPT ![c] = "confirm"] /\ UNCHANGED told
    BY <1>4 DEF Approved, Go
  <2>2. \E x \in approvals : x.paper = row.paper
    BY <1>4 DEF Active, DeskInv, Written
  <2>3. QED
    BY <1>1, <1>2, <1>3, <2>1, <2>2, MoveKeeps
<1>5. CASE ~Active(review[c].digest)
  <2>1. at' = [at EXCEPT ![c] = "done"] /\ told' = [told EXCEPT ![c] = "unapproved"]
    BY <1>5 DEF Approved, End
  <2>2. QED
    BY <1>1, <1>2, <2>1, MoveKeeps
<1>6. QED
  BY <1>4, <1>5

LEMMA ApproveKeeps ==
    ASSUME DeskInv, NEW a \in Approvers, Approve(a)
    PROVE  DeskInv'
<1> USE DEF DeskInv
<1>1. at[a] = "confirm" /\ UNCHANGED <<row, grants, review>>
  BY DEF Approve
<1>2. Stored /\ review[a] = row.paper
  BY <1>1 DEF Standing, Past
<1>3. a \notin Imports /\ a \notin Commissioners /\ a \in Runs
  BY RunsAssumption DEF Runs
<1>4. CASE \E x \in approvals : x.paper.digest = row.paper.digest
  <2>1. /\ at' = [at EXCEPT ![a] = "done"]
        /\ told' = [told EXCEPT ![a] = "duplicate"]
        /\ approvals' = approvals
    BY <1>4 DEF Approve, End
  <2>2. review = [review EXCEPT ![a] = review[a]] /\ review[a] \in Papers \cup {NoPaper}
    BY <1>3 DEF DeskTypeOK
  <2>3. QED
    BY <1>1, <1>3, <2>1, <2>2, MoveKeeps
<1>5. CASE ~\E x \in approvals : x.paper.digest = row.paper.digest
  <2> DEFINE new == [paper |-> review[a], by |-> a, revoked |-> FALSE]
  <2>1. PICK answer \in {"approved", "error"} :
           /\ at' = [at EXCEPT ![a] = "done"]
           /\ told' = [told EXCEPT ![a] = answer]
    BY <1>5 DEF Approve, Write, End
  <2>2. approvals' = approvals \cup {new}
    BY <1>5 DEF Approve
  <2>3. /\ new \in [paper : Papers, by : Approvers, revoked : BOOLEAN]
        /\ new.paper = row.paper /\ new.by = a
    BY <1>2 DEF DeskTypeOK, Stored
  <2> HIDE DEF new
  <2>4. DeskTypeOK'
    BY <1>1, <1>3, <2>1, <2>2, <2>3 DEF DeskTypeOK
  <2>5. Standing'
    BY <1>1, <1>3, <2>1, <2>2 DEF Standing, Past, DeskTypeOK, Runs, Stored
  <2>6. Written'
    <3>1. \A x \in approvals' : /\ Stored'
                                /\ x.paper = row'.paper
                                /\ review'[x.by] = row'.paper
                                /\ at'[x.by] = "done"
      BY <1>1, <1>2, <1>3, <2>1, <2>2, <2>3 DEF Written, DeskTypeOK, Stored
    <3>2. \E x \in approvals' : x.paper = row'.paper
      BY <1>1, <2>2, <2>3
    <3>3. \A g \in grants' : Stored' /\ g.paper = row'.paper
      BY <1>1 DEF Written, Stored
    <3>4. \A g, h \in grants' : g.open /\ h.open => g = h
      BY <1>1 DEF Written
    <3>5. QED
      BY <3>1, <3>2, <3>3, <3>4 DEF Written
  <2>7. Told'
    BY <1>1, <1>3, <2>1 DEF Told, DeskTypeOK, Runs, Stored
  <2>8. QED
    BY <2>4, <2>5, <2>6, <2>7
<1>6. QED
  BY <1>4, <1>5

LEMMA CommissionKeeps ==
    ASSUME DeskInv, NEW c \in Commissioners, Commission(c)
    PROVE  DeskInv'
<1> USE DEF DeskInv
<1>1. at[c] = "confirm" /\ UNCHANGED <<row, approvals, review>>
  BY DEF Commission
<1>2. Stored /\ review[c] = row.paper
  BY <1>1 DEF Standing, Past
<1>3. c \notin Imports /\ c \notin Approvers /\ c \in Runs
  BY RunsAssumption DEF Runs
<1>4. \E x \in approvals : x.paper = row.paper
  BY <1>1 DEF Standing
<1>5. CASE \E g \in grants : g.open
  <2>1. /\ at' = [at EXCEPT ![c] = "done"]
        /\ told' = [told EXCEPT ![c] = "duplicate"]
        /\ grants' = grants
    BY <1>5 DEF Commission, End
  <2>2. review = [review EXCEPT ![c] = review[c]] /\ review[c] \in Papers \cup {NoPaper}
    BY <1>3 DEF DeskTypeOK
  <2>3. QED
    BY <1>1, <1>3, <2>1, <2>2, MoveKeeps
<1>6. CASE ~\E g \in grants : g.open
  <2> DEFINE new == [paper |-> review[c], by |-> c, open |-> TRUE]
  <2>1. PICK answer \in {"granted", "error"} :
           /\ at' = [at EXCEPT ![c] = "done"]
           /\ told' = [told EXCEPT ![c] = answer]
    BY <1>6 DEF Commission, Write, End
  <2>2. grants' = grants \cup {new}
    BY <1>6 DEF Commission
  <2>3. /\ new \in [paper : Papers, by : Commissioners, open : BOOLEAN]
        /\ new.paper = row.paper
    BY <1>2 DEF DeskTypeOK, Stored
  <2> HIDE DEF new
  <2>4. DeskTypeOK'
    BY <1>1, <1>3, <2>1, <2>2, <2>3 DEF DeskTypeOK
  <2>5. Standing'
    BY <1>1, <1>3, <2>1 DEF Standing, Past, DeskTypeOK, Runs, Stored
  <2>6. Written'
    <3>1. \A x \in approvals' : /\ Stored'
                                /\ x.paper = row'.paper
                                /\ review'[x.by] = row'.paper
                                /\ at'[x.by] = "done"
      BY <1>1, <1>3, <2>1 DEF Written, DeskTypeOK, Stored
    <3>2. \A g \in grants' : Stored' /\ g.paper = row'.paper
      BY <1>1, <1>2, <2>2, <2>3 DEF Written, Stored
    <3>3. \A g, h \in grants' : g.open /\ h.open => g = h
      BY <1>6, <2>2
    <3>4. QED
      BY <1>1, <1>4, <3>1, <3>2, <3>3 DEF Written
  <2>7. Told'
    BY <1>1, <1>3, <2>1 DEF Told, DeskTypeOK, Runs, Stored
  <2>8. QED
    BY <2>4, <2>5, <2>6, <2>7
<1>7. QED
  BY <1>5, <1>6

LEMMA RevokeKeeps ==
    ASSUME DeskInv, Revoke
    PROVE  DeskInv'
<1> USE DEF DeskInv
<1>1. UNCHANGED <<row, grants, at, review, told>>
  BY DEF Revoke
<1>2. PICK x \in approvals :
         approvals' = (approvals \ {x}) \cup {[x EXCEPT !.revoked = TRUE]}
  BY DEF Revoke
<1> DEFINE y == [x EXCEPT !.revoked = TRUE]
<1>3. /\ y \in [paper : Papers, by : Approvers, revoked : BOOLEAN]
      /\ y.paper = x.paper /\ y.by = x.by
  BY DEF DeskTypeOK
<1> HIDE DEF y
<1>4. approvals' = (approvals \ {x}) \cup {y}
  BY <1>2 DEF y
<1>5. DeskTypeOK'
  BY <1>1, <1>3, <1>4 DEF DeskTypeOK
<1>6. (\E z \in approvals : z.paper = row.paper) => \E z \in approvals' : z.paper = row.paper
  BY <1>3, <1>4
<1>7. Standing'
  BY <1>1, <1>6 DEF Standing, Past, Stored
<1>8. Written'
  <2>1. \A z \in approvals' : /\ Stored'
                              /\ z.paper = row'.paper
                              /\ review'[z.by] = row'.paper
                              /\ at'[z.by] = "done"
    BY <1>1, <1>3, <1>4 DEF Written, Stored
  <2>2. QED
    BY <1>1, <1>6, <2>1 DEF Written, Stored
<1>9. Told'
  BY <1>1 DEF Told, Stored
<1>10. QED
  BY <1>5, <1>7, <1>8, <1>9

LEMMA DeliverKeeps ==
    ASSUME DeskInv, Deliver
    PROVE  DeskInv'
<1> USE DEF DeskInv
<1>1. /\ row.state = "pending"
      /\ row' = [row EXCEPT !.state = "published"]
      /\ UNCHANGED <<approvals, at, review, told>>
  BY DEF Deliver
<1>2. Stored
  BY <1>1 DEF Stored, NoRow, None
<1>3. /\ row'.paper = row.paper /\ row'.state = "published" /\ Stored'
      /\ row' \in [paper : Papers, state : {"pending", "published", "over"}]
  BY <1>1, <1>2 DEF DeskTypeOK, Stored, NoRow, None
<1>4. grants' = grants \/ grants' = {[g EXCEPT !.open = FALSE] : g \in grants}
  BY DEF Deliver
<1>5. /\ grants' \subseteq [paper : Papers, by : Commissioners, open : BOOLEAN]
      /\ \A g \in grants' : \E h \in grants : g.paper = h.paper
      /\ \A g, h \in grants' : g.open /\ h.open => g = h
  <2>1. CASE grants' = grants
    BY <2>1 DEF DeskTypeOK, Written
  <2>2. CASE grants' = {[g EXCEPT !.open = FALSE] : g \in grants}
    <3>1. \A g \in grants : LET h == [g EXCEPT !.open = FALSE] IN
             /\ h \in [paper : Papers, by : Commissioners, open : BOOLEAN]
             /\ h.paper = g.paper /\ ~h.open
      BY DEF DeskTypeOK
    <3>2. QED
      BY <2>2, <3>1
  <2>3. QED
    BY <1>4, <2>1, <2>2
<1>6. DeskTypeOK'
  BY <1>1, <1>3, <1>5 DEF DeskTypeOK
<1>7. Standing'
  BY <1>1, <1>3 DEF Standing, Past
<1>8. Written'
  <2>1. \E x \in approvals : x.paper = row.paper
    BY DEF Deliver, Active, Written
  <2>2. QED
    BY <1>1, <1>3, <1>5, <2>1 DEF Written
<1>9. Told'
  BY <1>1, <1>3 DEF Told
<1>10. QED
  BY <1>6, <1>7, <1>8, <1>9

LEMMA AbandonKeeps ==
    ASSUME DeskInv, Abandon
    PROVE  DeskInv'
<1> USE DEF DeskInv
<1>1. /\ row.state = "pending"
      /\ row' = [row EXCEPT !.state = "over"]
      /\ UNCHANGED <<approvals, grants, at, review, told>>
  BY DEF Abandon
<1>2. Stored
  BY <1>1 DEF Stored, NoRow, None
<1>3. /\ row'.paper = row.paper /\ row'.state = "over" /\ Stored'
      /\ row' \in [paper : Papers, state : {"pending", "published", "over"}]
  BY <1>1, <1>2 DEF DeskTypeOK, Stored, NoRow, None
<1>4. DeskTypeOK'
  BY <1>1, <1>3 DEF DeskTypeOK
<1>5. Standing'
  BY <1>1, <1>3 DEF Standing, Past
<1>6. Written'
  BY <1>1, <1>3 DEF Written
<1>7. Told'
  BY <1>1, <1>3 DEF Told
<1>8. QED
  BY <1>4, <1>5, <1>6, <1>7

LEMMA DeskStepKeeps ==
    ASSUME DeskInv, [DeskNext]_desk
    PROVE  DeskInv'
<1>1. CASE UNCHANGED desk
  BY <1>1 DEF desk, DeskInv, DeskTypeOK, Standing, Past, Written, Told, Stored
<1>2. ASSUME NEW i \in Imports, Find(i) \/ Insert(i) PROVE DeskInv'
  BY <1>2, FindKeeps, InsertKeeps
<1>3. ASSUME NEW a \in Approvers, Load(a, "confirm") \/ Approve(a) PROVE DeskInv'
  <2>1. a \notin Commissioners
    BY RunsAssumption
  <2>2. QED
    BY <1>3, <2>1, LoadKeeps, ApproveKeeps
<1>4. ASSUME NEW c \in Commissioners, Load(c, "approved") \/ Approved(c) \/ Commission(c)
      PROVE  DeskInv'
  BY <1>4, LoadKeeps, ApprovedKeeps, CommissionKeeps
<1>5. CASE Revoke
  BY <1>5, RevokeKeeps
<1>6. CASE Deliver
  BY <1>6, DeliverKeeps
<1>7. CASE Abandon
  BY <1>7, AbandonKeeps
<1>8. QED
  BY <1>1, <1>2, <1>3, <1>4, <1>5, <1>6, <1>7 DEF DeskNext

\* A published row stays as it is, and only Deliver publishes one.
LEMMA PublishedStays ==
    ASSUME DeskInv, DeskNext
    PROVE  row.state = "published" => row'.state = "published"
<1> SUFFICES ASSUME row.state = "published" PROVE row'.state = "published"
  OBVIOUS
<1>1. Stored
  BY DEF Stored, NoRow, None
<1>2. row' = row \/ row.state = "pending"
  BY <1>1 DEF DeskNext, Find, Insert, Load, Approve, Approved, Commission, Revoke,
              Deliver, Abandon, tables
<1>3. QED
  BY <1>2
-----------------------------------------------------------------------------
(***************************************************************************)
(* The deletions.                                                          *)
(***************************************************************************)

LEMMA CareStarts == Init => CareTypeOK /\ Heard
<1> SUFFICES ASSUME Init PROVE CareTypeOK /\ Heard
  OBVIOUS
<1>1. CareTypeOK
  BY DEF Init, CareTypeOK, Codes
<1>2. Heard
  BY DEF Init, Heard, None
<1>3. QED
  BY <1>1, <1>2

LEMMA AtDeskKeeps ==
    ASSUME Inductive, AtDesk
    PROVE  Inductive'
<1>1. DeskInv'
  BY DeskStepKeeps DEF AtDesk, Inductive
<1>2. UNCHANGED <<place, wire, outcome, events, ended>>
  BY DEF AtDesk
<1>3. row.state = "published" => row'.state = "published"
  BY PublishedStays DEF AtDesk, Inductive
<1>4. \/ post' = post
      \/ post' = "live" /\ row.state = "pending" /\ row'.state = "published"
  BY DEF AtDesk
<1>5. CareTypeOK'
  BY <1>2, <1>4 DEF CareTypeOK, Inductive
<1>6. Heard'
  <2>1. CASE post' = post
    BY <1>2, <1>3, <2>1 DEF Heard, Inductive
  <2>2. CASE post' = "live" /\ row.state = "pending" /\ row'.state = "published"
    <3>1. post = "absent"
      BY <2>2 DEF Heard, Inductive
    <3>2. \A d \in Deletions : wire[d] # "done"
      BY <3>1 DEF Heard, Inductive
    <3>3. QED
      BY <1>2, <2>2, <3>2 DEF Heard, Inductive
  <2>3. QED
    BY <1>4, <2>1, <2>2
<1>7. QED
  BY <1>1, <1>5, <1>6 DEF Inductive

LEMMA DeskStands ==
    ASSUME DeskInv, UNCHANGED desk
    PROVE  DeskInv'
BY DEF desk, DeskInv, DeskTypeOK, Standing, Past, Written, Told, Stored

LEMMA AskKeeps ==
    ASSUME Inductive, NEW d \in Deletions, Ask(d)
    PROVE  (CareTypeOK /\ Heard)'
<1> USE DEF Inductive
<1>1. /\ place[d] = "start"
      /\ UNCHANGED <<row, post, wire, outcome, events>>
  BY DEF Ask, desk
<1>2. wire[d] = None
  BY <1>1 DEF Heard
<1>3. CASE Step(d, "send")
  BY <1>1, <1>3 DEF Step, CareTypeOK, Heard
<1>4. CASE Finish(d, "refused")
  BY <1>1, <1>2, <1>4 DEF Finish, CareTypeOK, Heard, Codes, None
<1>5. QED
  BY <1>3, <1>4 DEF Ask

LEMMA SendKeeps ==
    ASSUME Inductive, NEW d \in Deletions, Send(d)
    PROVE  (CareTypeOK /\ Heard)'
<1> USE DEF Inductive
<1>1. place[d] = "send" /\ UNCHANGED <<row, post, outcome, events>>
  BY DEF Send, desk
<1>2. wire[d] = None
  BY <1>1 DEF Heard
<1>3. CASE Step(d, "await") /\ wire' = [wire EXCEPT ![d] = "inflight"]
  <2>1. CareTypeOK'
    BY <1>1, <1>3 DEF Step, CareTypeOK
  <2>2. Heard'
    BY <1>1, <1>2, <1>3 DEF Step, CareTypeOK, Heard, None
  <2>3. QED
    BY <2>1, <2>2
<1>4. CASE Finish(d, "refused") /\ UNCHANGED wire
  BY <1>1, <1>2, <1>4 DEF Finish, CareTypeOK, Heard, Codes, None
<1>5. QED
  BY <1>3, <1>4 DEF Send

LEMMA DecideKeeps ==
    ASSUME Inductive, NEW d \in Deletions, Decide(d)
    PROVE  (CareTypeOK /\ Heard)'
<1> USE DEF Inductive
<1>1. wire[d] = "inflight" /\ UNCHANGED <<row, place, outcome, events, ended>>
  BY DEF Decide, desk
<1>2. place[d] \in {"await", "done"}
  BY <1>1 DEF CareTypeOK, Heard, None
<1>3. CASE /\ post = "live"
           /\ wire' = [wire EXCEPT ![d] = "done"]
           /\ post' = "gone"
  <2>1. CareTypeOK'
    BY <1>1, <1>3 DEF CareTypeOK
  <2>2. Heard'
    BY <1>1, <1>2, <1>3 DEF CareTypeOK, Heard, None
  <2>3. QED
    BY <2>1, <2>2
<1>4. ASSUME NEW w \in {"missing", "refused"},
             wire' = [wire EXCEPT ![d] = w], post' = post
      PROVE  (CareTypeOK /\ Heard)'
  <2>1. CareTypeOK'
    BY <1>1, <1>4 DEF CareTypeOK
  <2>2. Heard'
    BY <1>1, <1>2, <1>4 DEF CareTypeOK, Heard, None
  <2>3. QED
    BY <2>1, <2>2
<1>5. QED
  BY <1>3, <1>4 DEF Decide

LEMMA AnswerKeeps ==
    ASSUME Inductive, NEW d \in Deletions, Answer(d)
    PROVE  (CareTypeOK /\ Heard)'
<1> USE DEF Inductive
<1>1. /\ place[d] = "await" /\ wire[d] # "inflight"
      /\ UNCHANGED <<row, post, wire, events>>
  BY DEF Answer, desk
<1>2. wire[d] \in {"done", "missing", "refused"}
  BY <1>1 DEF CareTypeOK, Heard
<1>3. PICK code \in AnswersTo(wire[d]) :
         IF code \in {"deleted", "not_found"}
         THEN Step(d, "record") /\ outcome' = [outcome EXCEPT ![d] = code]
         ELSE Finish(d, code) /\ UNCHANGED outcome
  BY DEF Answer
<1>4. /\ code \in {"deleted", "not_found", "rejected", "publish_outcome_unknown"}
      /\ code = "deleted" => wire[d] = "done"
      /\ code = "not_found" => wire[d] = "missing"
      /\ code = "rejected" => wire[d] = "refused"
  BY <1>2, <1>3 DEF AnswersTo
<1>5. CASE code \in {"deleted", "not_found"}
  <2>1. Step(d, "record") /\ outcome' = [outcome EXCEPT ![d] = code]
    BY <1>3, <1>5
  <2>2. CareTypeOK'
    BY <1>1, <1>5, <2>1 DEF Step, CareTypeOK, Codes
  <2>3. Heard'
    BY <1>1, <1>4, <1>5, <2>1 DEF Step, CareTypeOK, Heard
  <2>4. QED
    BY <2>2, <2>3
<1>6. CASE code \in {"rejected", "publish_outcome_unknown"}
  <2>1. Finish(d, code) /\ UNCHANGED outcome
    BY <1>3, <1>6
  <2>2. CareTypeOK'
    BY <1>1, <1>6, <2>1 DEF Finish, CareTypeOK, Codes
  <2>3. Heard'
    BY <1>1, <1>4, <1>6, <2>1 DEF Finish, CareTypeOK, Heard
  <2>4. QED
    BY <2>2, <2>3
<1>7. QED
  BY <1>4, <1>5, <1>6

LEMMA LoseKeeps ==
    ASSUME Inductive, NEW d \in Deletions, Lose(d)
    PROVE  (CareTypeOK /\ Heard)'
<1> USE DEF Inductive
<1>1. /\ place[d] = "await"
      /\ Finish(d, "publish_outcome_unknown")
      /\ UNCHANGED <<row, post, wire, outcome, events>>
  BY DEF Lose, desk
<1>2. CareTypeOK'
  BY <1>1 DEF Finish, CareTypeOK, Codes
<1>3. Heard'
  BY <1>1 DEF Finish, CareTypeOK, Heard
<1>4. QED
  BY <1>2, <1>3

LEMMA RecordKeeps ==
    ASSUME Inductive, NEW d \in Deletions, Record(d)
    PROVE  (CareTypeOK /\ Heard)'
<1> USE DEF Inductive
<1>1. PICK answer \in {outcome[d], "error"} :
         /\ Finish(d, answer)
         /\ answer = "error" \/ events' = events \cup {EventOf(d)}
  BY DEF Record
<1>2. /\ place[d] = "record"
      /\ UNCHANGED <<row, post, wire, outcome>>
      /\ events' \in {events, events \cup {EventOf(d)}}
  BY DEF Record, desk
<1>3. \/ outcome[d] = "deleted" /\ wire[d] = "done"
      \/ outcome[d] = "not_found" /\ wire[d] = "missing"
  BY <1>2 DEF Heard
<1>4. /\ EventOf(d) \in [by : Deletions, kind : {"deleted", "delete_refused"}]
      /\ EventOf(d).by = d
      /\ outcome[d] = "deleted" => EventOf(d) = [by |-> d, kind |-> "deleted"]
      /\ EventOf(d).kind = "deleted" => outcome[d] = "deleted"
  BY DEF EventOf
<1>5. answer \in Codes /\ (answer = "deleted" => outcome[d] = "deleted")
  BY DEF CareTypeOK, Codes
<1>6. CareTypeOK'
  BY <1>1, <1>2, <1>4, <1>5 DEF Finish, CareTypeOK
<1>7. Heard'
  <2>1. \A e \in events' : e.kind = "deleted" => wire'[e.by] = "done"
    BY <1>2, <1>3, <1>4 DEF Heard
  <2>2. \A c \in Deletions :
           ended'[c] = "deleted" => [by |-> c, kind |-> "deleted"] \in events'
    BY <1>1, <1>2, <1>4, <1>5 DEF Finish, Heard, CareTypeOK
  <2>3. \A c \in Deletions :
           place'[c] = "done" /\ wire'[c] \in {"inflight", "done"} =>
               ended'[c] \in {"deleted", "publish_outcome_unknown", "error"}
    BY <1>1, <1>2, <1>3 DEF Finish, Heard, CareTypeOK
  <2>4. QED
    BY <1>1, <1>2, <2>1, <2>2, <2>3 DEF Finish, Heard, CareTypeOK
<1>8. QED
  BY <1>6, <1>7

LEMMA InvariantStarts == Init => Inductive
BY DeskStarts, CareStarts DEF Init, Inductive

LEMMA StepKeeps ==
    ASSUME Inductive, [Next]_vars
    PROVE  Inductive'
<1>1. CASE UNCHANGED vars
  <2>1. UNCHANGED desk /\ UNCHANGED row /\ UNCHANGED care
    BY <1>1 DEF vars, desk
  <2>2. DeskInv'
    BY <2>1, DeskStands DEF Inductive
  <2>3. CareTypeOK' /\ Heard'
    BY <2>1 DEF care, Inductive, CareTypeOK, Heard
  <2>4. QED
    BY <2>2, <2>3 DEF Inductive
<1>2. CASE AtDesk
  BY <1>2, AtDeskKeeps
<1>3. ASSUME NEW d \in Deletions,
             Ask(d) \/ Send(d) \/ Decide(d) \/ Answer(d) \/ Lose(d) \/ Record(d)
      PROVE  Inductive'
  <2>1. UNCHANGED desk
    BY <1>3 DEF Ask, Send, Decide, Answer, Lose, Record
  <2>2. DeskInv'
    BY <2>1, DeskStands DEF Inductive
  <2>3. (CareTypeOK /\ Heard)'
    BY <1>3, AskKeeps, SendKeeps, DecideKeeps, AnswerKeeps, LoseKeeps, RecordKeeps
  <2>4. QED
    BY <2>2, <2>3 DEF Inductive
<1>4. CASE TakeDown
  <2>1. UNCHANGED desk /\ UNCHANGED <<row, place, wire, outcome, events, ended>>
    BY <1>4 DEF TakeDown, desk
  <2>2. DeskInv'
    BY <2>1, DeskStands DEF Inductive
  <2>3. CareTypeOK' /\ Heard'
    BY <1>4, <2>1 DEF TakeDown, Inductive, CareTypeOK, Heard
  <2>4. QED
    BY <2>2, <2>3 DEF Inductive
<1>5. QED
  BY <1>1, <1>2, <1>3, <1>4 DEF Next

\* The inductive invariant holds of every behaviour of desk and deletions.
THEOREM DeskInvariant == Spec => []Inductive
BY InvariantStarts, StepKeeps, PTL DEF Spec

-----------------------------------------------------------------------------
\* The tables and the runs are always well-formed (TypeOK of run Desk).
THEOREM DeskTypes == Spec => []TypeOK
<1>1. Inductive => TypeOK
  BY DEF Inductive, DeskInv, CareTypeOK, TypeOK
<1>2. QED
  BY <1>1, DeskInvariant, PTL

\* However many imports race for a key, one payload is left (upsert_publication).
THEOREM DeskImportsOnce == Spec => []ImportIsOnce
<1>1. Inductive => ImportIsOnce
  BY DEF Inductive, DeskInv, Told, ImportIsOnce
<1>2. QED
  BY <1>1, DeskInvariant, PTL

\* No approval, grant or published row stands for a payload nobody reviewed,
\* whatever happens while a prompt waits (approval_record, account_commission).
THEOREM DeskLicensesTheReviewed == Spec => []WhatWasReviewed
<1>1. Inductive => WhatWasReviewed
  BY DEF Inductive, DeskInv, Written, WhatWasReviewed
<1>2. QED
  BY <1>1, DeskInvariant, PTL

\* A deletion reported is a deletion made, and one made is never denied, though
\* an error of the store may hide it (delete_publication).
THEOREM DeskDeletesTruly == Spec => []DeletionIsTrue
<1>1. Inductive => DeletionIsTrue
  BY DEF Inductive, Heard, CareTypeOK, DeletionIsTrue
<1>2. QED
  BY <1>1, DeskInvariant, PTL
=============================================================================
