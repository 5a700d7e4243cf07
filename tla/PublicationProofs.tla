-------------------------- MODULE PublicationProofs --------------------------
(***************************************************************************)
(* Theorems about Publication, for any sets of publications, workers and   *)
(* attempts and any times and bounds the assumptions allow.                *)
(***************************************************************************)
EXTENDS PublicationInvariant, TLAPS

LEMMA TimesAreNat == Never \in Nat /\ Lease \in Nat \ {0} /\ GrantTTL \in Nat
  BY TimesAssumption DEF Never

LEMMA InitTypeOK == Init => TypeOK
<1> SUFFICES ASSUME Init PROVE TypeOK
  OBVIOUS
<1>1. \A p \in Publications : ledger[p] \in Row
  BY DEF Init, Row, States, Codes, NoTime
<1>2. ledger \in [Publications -> Row]
  BY <1>1 DEF Init
<1>3. request \in [Attempts -> Request]
  BY DEF Init, Request, NoRequest
<1>4. outcome \in [Workers -> Outcome]
  BY DEF Init, Outcome, NoOutcome, NoTime
<1>5. pc \in [Workers -> Places]
  BY DEF Init, Places
<1> QED
  BY <1>2, <1>3, <1>4, <1>5, TimesAreNat DEF Init, TypeOK, NoTime

\* Shorthands for what the helpers of an action leave typed.
LEMMA NextRecordTypeOK ==
  ASSUME TypeOK, NEW w \in Workers, NextRecord(w)
  PROVE  /\ pc' \in [Workers -> Places]
         /\ cur' \in [Workers -> Publications \cup {NoPub}]
         /\ attempt' \in [Workers -> Attempts \cup {NoToken}]
         /\ licence' \in [Workers -> Nat]
         /\ outcome' \in [Workers -> Outcome]
         /\ UNCHANGED <<moment, armed, todo>>
  BY DEF TypeOK, NextRecord, Goto, Places, NoOutcome, Outcome, NoTime

LEMMA ForgetTypeOK ==
  ASSUME TypeOK, NEW w \in Workers, Forget(w)
  PROVE  /\ pc' \in [Workers -> Places]
         /\ moment' \in [Workers -> Nat]
         /\ armed' \in [Workers -> BOOLEAN]
         /\ todo' \in [Workers -> SUBSET (Publications \X {"pending", "claimed", "sending"})]
         /\ cur' \in [Workers -> Publications \cup {NoPub}]
         /\ attempt' \in [Workers -> Attempts \cup {NoToken}]
         /\ licence' \in [Workers -> Nat]
         /\ outcome' \in [Workers -> Outcome]
  BY DEF TypeOK, Forget, Goto, Places, NoOutcome, Outcome, NoTime

LEMMA FreedType ==
  ASSUME TypeOK, NEW p \in Publications, NEW s \in States
  PROVE  Freed(p, s) \in Row
<1>1. ledger[p] \in Row
  BY DEF TypeOK
<1> QED
  BY <1>1 DEF Freed, Row, NoTime

LEMMA PutTypeOK ==
  ASSUME TypeOK, NEW p \in Publications, NEW row \in Row, Put(p, row)
  PROVE  ledger' \in [Publications -> Row]
  BY DEF TypeOK, Put

LEMMA EventTypeOK ==
  ASSUME TypeOK, NEW p \in Publications, NEW k \in Kinds, AppendEvent(p, k)
  PROVE  audit' \in [Publications -> SUBSET Kinds] /\ announced' \subseteq Attempts
  BY DEF TypeOK, AppendEvent

LEMMA GotoTypeOK ==
  ASSUME TypeOK, NEW w \in Workers, NEW place \in Places, Goto(w, place)
  PROVE  pc' \in [Workers -> Places]
  BY DEF TypeOK, Goto

\* The rows the sweeps and the end of a send write.
LEMMA SweptType ==
  ASSUME TypeOK, NEW p \in Publications, NEW s \in {"pending", "claimed", "sending"}
  PROVE  Swept(p, s) \in Row
<1>1. CASE s = "pending"
  <2>1. ledger[p] \in Row
    BY DEF TypeOK
  <2> QED
    BY <1>1, <2>1 DEF Swept, Row, States
<1>2. CASE s = "claimed"
  BY <1>2, FreedType DEF Swept, States
<1>3. CASE s = "sending"
  <2>1. Freed(p, "unknown") \in Row
    BY FreedType DEF States
  <2> QED
    BY <1>3, <2>1 DEF Swept, Row, Codes
<1> QED
  BY <1>1, <1>2, <1>3

LEMMA SettledType ==
  ASSUME TypeOK, NEW w \in Workers, cur[w] \in Publications, attempt[w] \in Attempts
  PROVE  Settled(w) \in Row
<1>1. /\ Freed(cur[w], "published") \in Row /\ Freed(cur[w], "pending") \in Row
      /\ Freed(cur[w], "failed") \in Row /\ Freed(cur[w], "unknown") \in Row
  BY FreedType DEF States
<1>2. outcome[w] \in Outcome
  BY DEF TypeOK
<1>3. CASE outcome[w].state = "published"
  BY <1>1, <1>3 DEF Settled, Row
<1>4. CASE outcome[w].state = "pending"
  BY <1>1, <1>2, <1>4 DEF Settled, Row, Codes, Outcome
<1>5. CASE outcome[w].state = "failed"
  BY <1>1, <1>5 DEF Settled, Row, Codes
<1>6. CASE outcome[w].state = "unknown"
  BY <1>1, <1>6 DEF Settled, Row, Codes
<1> QED
  BY <1>2, <1>3, <1>4, <1>5, <1>6 DEF Outcome

LEMMA OutcomesType ==
  ASSUME TypeOK, NEW w \in Workers
  PROVE  /\ Deferrals(w) \subseteq Outcome
         /\ \A s \in {"published", "failed", "unknown"} : Ended(s) \in Outcome
<1>1. \A d \in Delays : moment[w] + d \in Nat
  BY TimesAssumption DEF TypeOK
<1> QED
  BY <1>1 DEF Deferrals, Ended, Outcome, NoTime

LEMMA ConcludeTypeOK ==
  ASSUME TypeOK, NEW w \in Workers, NEW result \in Outcome, Conclude(w, result)
  PROVE  outcome' \in [Workers -> Outcome] /\ pc' \in [Workers -> Places]
  BY DEF TypeOK, Conclude, Goto, Places

(***************************************************************************)
(* Every step keeps the types. A busy worker's publication and attempt are *)
(* named (AttemptsOwned), which the actions of publish_one rely on.        *)
(***************************************************************************)
LEMMA TickKeepsTypes ==
  ASSUME TypeOK, AttemptsOwned, NEW w \in Workers,
         \/ BeginTick(w) \/ ReadOverdue(w) \/ ReadLeases(w) \/ Sweep(w) \/ RecordSweep(w)
         \/ EndSweep(w) \/ FindDue(w) \/ EndTick(w)
  PROVE  TypeOK'
<1> USE DEF tables, local
<1>1. CASE BeginTick(w)
  BY <1>1 DEF BeginTick, TypeOK, Goto, Places
<1>2. CASE ReadOverdue(w)
  <2>1. pc' \in [Workers -> Places]
    BY <1>2, GotoTypeOK DEF ReadOverdue, Places
  <2>2. todo' \in [Workers -> SUBSET (Publications \X {"pending", "claimed", "sending"})]
    BY <1>2 DEF ReadOverdue, TypeOK
  <2> QED
    BY <1>2, <2>1, <2>2 DEF ReadOverdue, TypeOK
<1>3. CASE ReadLeases(w)
  <2>1. pc' \in [Workers -> Places]
    BY <1>3, GotoTypeOK DEF ReadLeases, Places
  <2>2. DeadLeases(moment[w]) \subseteq Publications \X {"pending", "claimed", "sending"}
    BY DEF DeadLeases
  <2>3. todo' \in [Workers -> SUBSET (Publications \X {"pending", "claimed", "sending"})]
    BY <1>3, <2>2 DEF ReadLeases, TypeOK
  <2> QED
    BY <1>3, <2>1, <2>3 DEF ReadLeases, TypeOK
<1>4. CASE Sweep(w)
  <2>1. PICK r \in todo[w] :
          \/ /\ Put(r[1], Swept(r[1], r[2]))
             /\ cur' = [cur EXCEPT ![w] = r[1]]
             /\ Goto(w, IF pc[w] = "expiring" THEN "expired" ELSE "recovered")
             /\ UNCHANGED todo
          \/ /\ todo' = [todo EXCEPT ![w] = @ \ {r}]
             /\ UNCHANGED <<ledger, cur, pc>>
    BY <1>4 DEF Sweep
  <2>2. r[1] \in Publications /\ r[2] \in {"pending", "claimed", "sending"}
    BY DEF TypeOK
  <2>3. ledger' \in [Publications -> Row]
    BY <2>1, <2>2, SweptType, PutTypeOK DEF TypeOK
  <2>4. pc' \in [Workers -> Places]
    BY <2>1, GotoTypeOK DEF TypeOK, Places
  <2>5. cur' \in [Workers -> Publications \cup {NoPub}]
    BY <2>1, <2>2 DEF TypeOK
  <2>6. todo' \in [Workers -> SUBSET (Publications \X {"pending", "claimed", "sending"})]
    BY <2>1 DEF TypeOK
  <2> QED
    BY <1>4, <2>3, <2>4, <2>5, <2>6 DEF Sweep, TypeOK
<1>5. CASE RecordSweep(w)
  <2>1. PICK r \in todo[w] :
          /\ AppendEvent(r[1], SweepEvent(r[2]))
          /\ todo' = [todo EXCEPT ![w] = @ \ {r}]
    BY <1>5 DEF RecordSweep
  <2>2. r[1] \in Publications /\ SweepEvent(r[2]) \in Kinds
    BY DEF TypeOK, SweepEvent, Kinds
  <2>3. audit' \in [Publications -> SUBSET Kinds] /\ announced' \subseteq Attempts
    BY <2>1, <2>2, EventTypeOK
  <2>4. pc' \in [Workers -> Places]
    BY <1>5, GotoTypeOK DEF RecordSweep, Places
  <2>5. todo' \in [Workers -> SUBSET (Publications \X {"pending", "claimed", "sending"})]
    BY <2>1 DEF TypeOK
  <2>6. cur' \in [Workers -> Publications \cup {NoPub}]
    BY <1>5 DEF RecordSweep, TypeOK
  <2> QED
    BY <1>5, <2>3, <2>4, <2>5, <2>6 DEF RecordSweep, TypeOK
<1>6. CASE EndSweep(w)
  <2>1. pc' \in [Workers -> Places]
    BY <1>6, GotoTypeOK DEF EndSweep, Places
  <2> QED
    BY <1>6, <2>1 DEF EndSweep, TypeOK
<1>7. CASE FindDue(w)
  <2>1. PICK page \in SUBSET Publications :
          \/ /\ Goto(w, "batch")
             /\ todo' = [todo EXCEPT ![w] = page \X {"pending"}]
             /\ UNCHANGED <<moment, armed, cur, attempt, licence, outcome>>
          \/ Forget(w)
    BY <1>7 DEF FindDue, Pages, Due
  <2>2. CASE Forget(w)
    BY <1>7, <2>2, ForgetTypeOK DEF FindDue, TypeOK
  <2>3. CASE Goto(w, "batch") /\ todo' = [todo EXCEPT ![w] = page \X {"pending"}]
             /\ UNCHANGED <<moment, armed, cur, attempt, licence, outcome>>
    <3>1. pc' \in [Workers -> Places]
      BY <2>3, GotoTypeOK DEF Places
    <3>2. page \X {"pending"} \subseteq Publications \X {"pending", "claimed", "sending"}
      OBVIOUS
    <3>3. todo' \in [Workers -> SUBSET (Publications \X {"pending", "claimed", "sending"})]
      BY <2>3, <3>2 DEF TypeOK
    <3> QED
      BY <1>7, <2>3, <3>1, <3>3 DEF FindDue, TypeOK
  <2> QED
    BY <2>1, <2>2, <2>3
<1>8. CASE EndTick(w)
  BY <1>8, ForgetTypeOK DEF EndTick, TypeOK
<1> QED
  BY <1>1, <1>2, <1>3, <1>4, <1>5, <1>6, <1>7, <1>8

LEMMA PublishKeepsTypes ==
  ASSUME TypeOK, AttemptsOwned, NEW w \in Workers,
         \/ Claim(w) \/ Gate(w) \/ CheckGrant(w) \/ Release(w) \/ CommitSending(w)
         \/ ConsumeGrant(w) \/ GetCredentials(w) \/ Withhold(w) \/ Transmit(w)
         \/ Receive(w) \/ LoseAnswer(w) \/ Settle(w) \/ RecordOutcome(w)
  PROVE  TypeOK'
<1> USE DEF tables, local
<1>a. pc[w] \in Busy => cur[w] \in Publications /\ attempt[w] \in Attempts
  BY DEF AttemptsOwned
<1>1. CASE Claim(w)
  <2>1. PICK r \in todo[w] :
          /\ todo' = [todo EXCEPT ![w] = @ \ {r}]
          /\ \/ /\ \E a \in Attempts :
                      /\ Put(r[1], [ledger[r[1]] EXCEPT !.state = "claimed", !.token = a,
                                                        !.lease = moment[w] + Lease])
                      /\ attempt' = [attempt EXCEPT ![w] = a]
                /\ cur' = [cur EXCEPT ![w] = r[1]]
                /\ Goto(w, "gate")
             \/ UNCHANGED <<ledger, attempt, cur, pc>>
    BY <1>1 DEF Claim
  <2>2. r[1] \in Publications
    BY DEF TypeOK
  <2>3. todo' \in [Workers -> SUBSET (Publications \X {"pending", "claimed", "sending"})]
    BY <2>1 DEF TypeOK
  <2>6. announced' \subseteq Attempts
    BY <1>1 DEF Claim, TypeOK
  <2>4. CASE UNCHANGED <<ledger, attempt, cur, pc>>
    BY <1>1, <2>3, <2>4, <2>6 DEF Claim, TypeOK
  <2>5. ASSUME NEW a \in Attempts,
               Put(r[1], [ledger[r[1]] EXCEPT !.state = "claimed", !.token = a,
                                              !.lease = moment[w] + Lease]),
               attempt' = [attempt EXCEPT ![w] = a],
               cur' = [cur EXCEPT ![w] = r[1]],
               Goto(w, "gate")
        PROVE  TypeOK'
    <3>1. moment[w] + Lease \in Nat
      BY TimesAreNat DEF TypeOK
    <3>0. ledger[r[1]] \in Row
      BY <2>2 DEF TypeOK
    <3>2. [ledger[r[1]] EXCEPT !.state = "claimed", !.token = a,
                               !.lease = moment[w] + Lease] \in Row
      BY <3>0, <3>1 DEF Row, States
    <3>3. ledger' \in [Publications -> Row]
      BY <2>2, <2>5, <3>2, PutTypeOK
    <3>4. pc' \in [Workers -> Places]
      BY <2>5, GotoTypeOK DEF Places
    <3>5. /\ attempt' \in [Workers -> Attempts \cup {NoToken}]
          /\ cur' \in [Workers -> Publications \cup {NoPub}]
      BY <2>2, <2>5 DEF TypeOK
    <3> QED
      BY <1>1, <2>3, <2>6, <3>3, <3>4, <3>5 DEF Claim, TypeOK
  <2> QED
    BY <2>1, <2>4, <2>5
<1>2. CASE Gate(w)
  <2>1. cur[w] \in Publications
    BY <1>2, <1>a DEF Gate, Busy, Claiming
  <2>2. audit' \in [Publications -> SUBSET Kinds] /\ announced' \subseteq Attempts
    BY <1>2, <2>1, EventTypeOK DEF Gate, Kinds
  <2>3. pc' \in [Workers -> Places]
    BY <1>2, GotoTypeOK DEF Gate, Places
  <2> QED
    BY <1>2, <2>2, <2>3 DEF Gate, TypeOK
<1>3. CASE CheckGrant(w)
  <2>1. cur[w] \in Publications
    BY <1>3, <1>a DEF CheckGrant, Busy, Claiming
  <2>2. pc' \in [Workers -> Places]
    BY <1>3, GotoTypeOK DEF CheckGrant, Places
  <2>3. licence' \in [Workers -> Nat]
    BY <1>3, <2>1 DEF CheckGrant, TypeOK
  <2> QED
    BY <1>3, <2>2, <2>3 DEF CheckGrant, TypeOK
<1>4. CASE Release(w)
  <2>1. cur[w] \in Publications
    BY <1>4, <1>a DEF Release, Busy, Claiming
  <2>2. ledger' \in [Publications -> Row]
    BY <1>4, <2>1, FreedType, PutTypeOK DEF Release, TypeOK, States
  <2> QED
    BY <1>4, <2>2, NextRecordTypeOK DEF Release, TypeOK
<1>5. CASE CommitSending(w)
  <2>1. cur[w] \in Publications
    BY <1>5, <1>a DEF CommitSending, CommitUnder, Busy, Claiming
  <2>0. ledger[cur[w]] \in Row
    BY <2>1 DEF TypeOK
  <2>2. [ledger[cur[w]] EXCEPT !.state = "sending"] \in Row
    BY <2>0 DEF Row, States
  <2>3. CASE NextRecord(w) /\ UNCHANGED ledger
    BY <1>5, <2>3, NextRecordTypeOK DEF CommitSending, CommitUnder, TypeOK
  <2>4. CASE /\ Put(cur[w], [ledger[cur[w]] EXCEPT !.state = "sending"])
             /\ Goto(w, IF licence[w] # 0 THEN "consume" ELSE "credentials")
             /\ UNCHANGED local
    <3>1. ledger' \in [Publications -> Row]
      BY <2>1, <2>2, <2>4, PutTypeOK
    <3>2. pc' \in [Workers -> Places]
      BY <2>4, GotoTypeOK DEF Places
    <3> QED
      BY <1>5, <2>4, <3>1, <3>2 DEF CommitSending, CommitUnder, TypeOK
  <2> QED
    BY <1>5, <2>3, <2>4 DEF CommitSending, CommitUnder
<1>6. CASE ConsumeGrant(w)
  <2>1. pc' \in [Workers -> Places]
    BY <1>6, GotoTypeOK DEF ConsumeGrant, Places
  <2>2. cur[w] \in Publications
    BY <1>6, <1>a DEF ConsumeGrant, Busy, Sending
  <2> DEFINE G == [serial : Nat, open : BOOLEAN, expires : Nat]
             left == grant[cur[w]].open /\ (grant[cur[w]].serial # licence[w])
  <2>3. grant \in [Publications -> G] /\ left \in BOOLEAN
    BY DEF TypeOK
  <2>5. [grant[cur[w]] EXCEPT !.open = left] \in G
    <3> HIDE DEF left
    <3>1. grant[cur[w]] \in G
      BY <2>2, <2>3
    <3> QED
      BY <2>3, <3>1
  <2>6. grant' = [grant EXCEPT ![cur[w]] = [grant[cur[w]] EXCEPT !.open = left]]
    BY <1>6 DEF ConsumeGrant
  <2>4. grant' \in [Publications -> G]
    <3> HIDE DEF G, left
    <3> QED
      BY <2>2, <2>3, <2>5, <2>6
  <2> QED
    BY <1>6, <2>1, <2>4 DEF ConsumeGrant, TypeOK
<1>7. CASE GetCredentials(w)
  <2>1. attempt[w] \in Attempts
    BY <1>7, <1>a DEF GetCredentials, Busy, Sending
  <2>2. audit' \in [Publications -> SUBSET Kinds] /\ announced' \subseteq Attempts
    BY <1>7, <2>1 DEF GetCredentials, AnnounceSending, TypeOK
  <2>3. CASE NextRecord(w)
    BY <1>7, <2>2, <2>3, NextRecordTypeOK DEF GetCredentials, TypeOK
  <2>4. CASE Goto(w, "client") /\ UNCHANGED local
    <3>1. pc' \in [Workers -> Places]
      BY <2>4, GotoTypeOK DEF Places
    <3> QED
      BY <1>7, <2>2, <2>4, <3>1 DEF GetCredentials, TypeOK
  <2> QED
    BY <1>7, <2>3, <2>4 DEF GetCredentials
<1>8. CASE Withhold(w)
  <2>1. PICK result \in Outcome : Conclude(w, result)
    BY <1>8, OutcomesType DEF Withhold
  <2> QED
    BY <1>8, <2>1, ConcludeTypeOK DEF Withhold, TypeOK
<1>9. CASE Transmit(w)
  <2>1. cur[w] \in Publications
    BY <1>9, <1>a DEF Transmit, Busy, Sending
  <2>2. request' \in [Attempts -> Request]
    BY <1>9, <2>1 DEF Transmit, TypeOK, Request
  <2>3. licensed' \subseteq Publications \X Nat
    BY <1>9, <2>1 DEF Transmit, TypeOK
  <2>4. pc' \in [Workers -> Places]
    BY <1>9, GotoTypeOK DEF Transmit, Places
  <2> QED
    BY <1>9, <2>2, <2>3, <2>4 DEF Transmit, TypeOK
<1>10. CASE Receive(w)
  <2>1. PICK result \in Outcome : Conclude(w, result)
    BY <1>10, OutcomesType DEF Receive
  <2>2. request' \in [Attempts -> Request]
    BY <1>10 DEF Receive, TypeOK, Request, NoRequest
  <2> QED
    BY <1>10, <2>1, <2>2, ConcludeTypeOK DEF Receive, TypeOK
<1>11. CASE LoseAnswer(w)
  <2>1. Ended("unknown") \in Outcome
    BY OutcomesType
  <2> QED
    BY <1>11, <2>1, ConcludeTypeOK DEF LoseAnswer, LoseAnswerAs, TypeOK
<1>12. CASE Settle(w)
  <2>1. cur[w] \in Publications /\ attempt[w] \in Attempts
    BY <1>12, <1>a DEF Settle, Busy, Sending
  <2>2. CASE NextRecord(w) /\ UNCHANGED ledger
    BY <1>12, <2>2, NextRecordTypeOK DEF Settle, TypeOK
  <2>3. CASE Put(cur[w], Settled(w)) /\ Goto(w, "record") /\ UNCHANGED local
    <3>1. ledger' \in [Publications -> Row]
      BY <2>1, <2>3, SettledType, PutTypeOK
    <3>2. pc' \in [Workers -> Places]
      BY <2>3, GotoTypeOK DEF Places
    <3> QED
      BY <1>12, <2>3, <3>1, <3>2 DEF Settle, TypeOK
  <2> QED
    BY <1>12, <2>2, <2>3 DEF Settle
<1>13. CASE RecordOutcome(w)
  <2>1. cur[w] \in Publications
    BY <1>13, <1>a DEF RecordOutcome, Busy
  <2>2. outcome[w].state \in Kinds
    BY DEF TypeOK, Outcome, Kinds
  <2>3. audit' \in [Publications -> SUBSET Kinds] /\ announced' \subseteq Attempts
    BY <1>13, <2>1, <2>2, EventTypeOK DEF RecordOutcome
  <2> QED
    BY <1>13, <2>3, NextRecordTypeOK DEF RecordOutcome, TypeOK
<1> QED
  BY <1>1, <1>2, <1>3, <1>4, <1>5, <1>6, <1>7, <1>8, <1>9, <1>10, <1>11, <1>12, <1>13

LEMMA OthersKeepTypes ==
  ASSUME TypeOK,
         \/ \E w \in Workers : Crash(w)
         \/ \E a \in Attempts : Accept(a) \/ Refuse(a) \/ Throttle(a)
         \/ \E p \in Publications :
               Approve(p) \/ Revoke(p) \/ Commission(p) \/ Cancel(p) \/ Reconcile(p)
         \/ SetSwitch \/ AdvanceClock \/ UNCHANGED vars
  PROVE  TypeOK'
<1> USE DEF tables, local
<1>1. ASSUME NEW w \in Workers, Crash(w) PROVE TypeOK'
  BY <1>1, ForgetTypeOK DEF Crash, TypeOK
<1>2. ASSUME NEW a \in Attempts, Accept(a) \/ Refuse(a) \/ Throttle(a) PROVE TypeOK'
  <2>1. PICK status \in {"accepted", "refused", "throttled"} : Answer(a, status)
    BY <1>2 DEF Accept, Refuse, Throttle
  <2>2. [request[a] EXCEPT !.status = status] \in Request
    <3>1. request[a] \in Request
      BY DEF TypeOK
    <3> QED
      BY <3>1 DEF Request
  <2>3. request' \in [Attempts -> Request]
    BY <2>1, <2>2 DEF Answer, TypeOK
  <2> QED
    BY <2>1, <2>3 DEF Answer, TypeOK
<1>3. ASSUME NEW p \in Publications, Approve(p) \/ Revoke(p) PROVE TypeOK'
  <2> DEFINE A == [given : BOOLEAN, revokedAt : Nat]
  <2>1. approval \in [Publications -> A] /\ approval[p] \in A /\ clock \in Nat
    BY DEF TypeOK
  <2>2. /\ [approval[p] EXCEPT !.given = TRUE] \in A
        /\ [approval[p] EXCEPT !.revokedAt = clock] \in A
    BY <2>1
  <2>3. \/ approval' = [approval EXCEPT ![p] = [approval[p] EXCEPT !.given = TRUE]]
        \/ approval' = [approval EXCEPT ![p] = [approval[p] EXCEPT !.revokedAt = clock]]
    BY <1>3 DEF Approve, Revoke
  <2>4. approval' \in [Publications -> A]
    <3> HIDE DEF A
    <3> QED
      BY <2>1, <2>2, <2>3
  <2> QED
    BY <1>3, <2>4 DEF Approve, Revoke, TypeOK
<1>4. ASSUME NEW p \in Publications, Commission(p) PROVE TypeOK'
  <2>1. clock + GrantTTL \in Nat
    BY TimesAreNat DEF TypeOK
  <2>2. grant' \in [Publications -> [serial : Nat, open : BOOLEAN, expires : Nat]]
    BY <1>4, <2>1 DEF Commission, TypeOK
  <2> QED
    BY <1>4, <2>2 DEF Commission, TypeOK
<1>5. ASSUME NEW p \in Publications, NEW k \in Kinds, MaybeEvent(p, k)
      PROVE audit' \in [Publications -> SUBSET Kinds] /\ announced' \subseteq Attempts
  BY <1>5, EventTypeOK DEF MaybeEvent, TypeOK
<1>6. ASSUME NEW p \in Publications, Cancel(p) PROVE TypeOK'
  <2>1. ledger' \in [Publications -> Row]
    BY <1>6, FreedType, PutTypeOK DEF Cancel, CancelFrom, States
  <2>2. audit' \in [Publications -> SUBSET Kinds] /\ announced' \subseteq Attempts
    BY <1>5, <1>6 DEF Cancel, CancelFrom, Kinds
  <2> QED
    BY <1>6, <2>1, <2>2 DEF Cancel, CancelFrom, TypeOK
<1>7. ASSUME NEW p \in Publications, Reconcile(p) PROVE TypeOK'
  <2>1. ledger[p] \in Row
    BY DEF TypeOK
  <2>2. PICK row : row \in Row /\ Put(p, row)
    <3>1. \A a \in Attempts : [ledger[p] EXCEPT !.state = "published", !.urn = a] \in Row
      BY <2>1 DEF Row, States
    <3>2. [ledger[p] EXCEPT !.state = "failed", !.code = "operator"] \in Row
      BY <2>1 DEF Row, States, Codes
    <3> QED
      BY <1>7, <3>1, <3>2 DEF Reconcile
  <2>3. ledger' \in [Publications -> Row]
    BY <2>2, PutTypeOK
  <2>4. audit' \in [Publications -> SUBSET Kinds] /\ announced' \subseteq Attempts
    BY <1>5, <1>7 DEF Reconcile, Kinds
  <2> QED
    BY <1>7, <2>3, <2>4 DEF Reconcile, TypeOK
<1>8. CASE SetSwitch
  BY <1>8, NamesAssumption DEF SetSwitch, TypeOK
<1>9. CASE AdvanceClock
  BY <1>9 DEF AdvanceClock, TypeOK
<1>10. CASE UNCHANGED vars
  BY <1>10 DEF vars, TypeOK
<1> QED
  BY <1>1, <1>2, <1>3, <1>4, <1>6, <1>7, <1>8, <1>9, <1>10

LEMMA TypeStep == TypeOK /\ AttemptsOwned /\ [Next]_vars => TypeOK'
  BY TickKeepsTypes, PublishKeepsTypes, OthersKeepTypes DEF Next, Step

(***************************************************************************)
(* The inductive invariant. Most steps are one of four kinds as far as it  *)
(* can tell: nothing it reads changes; a row is rewritten while workers    *)
(* stay where they are or come to rest; a worker moves on; a sender learns *)
(* its outcome. Claiming, committing, transmitting, a throttled answer and *)
(* LinkedIn's answers are proved one by one.                               *)
(***************************************************************************)
SendState == <<ledger, request, pc, attempt, cur, outcome>>

OthersStand(w) ==
    \A v \in Workers \ {w} :
        pc'[v] = pc[v] /\ attempt'[v] = attempt[v] /\ cur'[v] = cur[v] /\ outcome'[v] = outcome[v]

\* Worker w leaves the row it handled, or only has its audit row to write.
Rests(w) ==
    /\ OthersStand(w)
    /\ attempt'[w] \in {attempt[w], NoToken}
    /\ \/ pc'[w] \notin Busy
       \/ /\ pc[w] \in Busy /\ pc'[w] = "record"
          /\ attempt'[w] = attempt[w] /\ cur'[w] = cur[w]

\* The row p will have agrees with every sender left and every request there is.
Fits(p, row) ==
    /\ \A v \in Workers :
          pc'[v] \in Sending /\ cur'[v] = p =>
              /\ row.state \in Committed
              /\ row.state = "sending" => row.token = attempt'[v]
              /\ row.state = "failed" => row.code = "operator"
    /\ \A a \in Attempts :
          Spent(a) /\ request[a].pub = p => row.state \in Committed
    /\ \A a \in Attempts :
          MayBePost(a) /\ request[a].pub = p =>
              \/ row.state \in {"sending", "unknown", "published"}
              \/ row.state = "failed" /\ row.code = "operator"
    /\ row.state = "published" =>
          row.urn \in Attempts /\ request[row.urn] = [pub |-> p, status |-> "accepted"]

LEMMA InitInductive == Init => Inductive
  BY NamesAssumption DEF Init, Inductive, AttemptsOwned, SendersHoldRow, OneSender,
     SpentIsCommitted, SenderRequests, OutcomeIsTrue, NoReplay, LedgerNeverForgets,
     ReceiptIsReal, Spent, MayBePost, NoRequest, Busy, Claiming, Sending, Unsent

LEMMA StandingStill ==
  ASSUME Inductive, UNCHANGED SendState
  PROVE  Inductive'
  BY DEF SendState, Inductive, AttemptsOwned, SendersHoldRow, OneSender,
     SpentIsCommitted, SenderRequests, OutcomeIsTrue, NoReplay, LedgerNeverForgets,
     ReceiptIsReal, Spent, MayBePost

LEMMA RowsFit ==
  ASSUME TypeOK, TypeOK', Inductive, UNCHANGED request,
         UNCHANGED <<pc, attempt, cur, outcome>> \/ \E w \in Workers : Rests(w),
         \A p \in Publications : Fits(p, ledger'[p])
  PROVE  Inductive'
<1>1. \A v \in Workers :
        /\ pc'[v] \in Unsent \cup Sending =>
              /\ pc'[v] = pc[v] /\ attempt'[v] = attempt[v] /\ cur'[v] = cur[v]
              /\ outcome'[v] = outcome[v]
        /\ attempt'[v] \in {attempt[v], NoToken}
        /\ pc'[v] \in Busy => pc[v] \in Busy /\ attempt'[v] = attempt[v] /\ cur'[v] = cur[v]
  BY DEF Rests, OthersStand, Unsent, Sending, Claiming, Busy
<1>2. AttemptsOwned'
  BY <1>1 DEF Inductive, AttemptsOwned, Spent
<1>3. SendersHoldRow'
  BY <1>1 DEF Fits, Inductive, AttemptsOwned, SendersHoldRow, Busy
<1>4. OneSender'
  BY <1>1 DEF Inductive, OneSender
<1>5. SpentIsCommitted'
  BY DEF Fits, Inductive, SpentIsCommitted, Spent
<1>6. SenderRequests'
  BY <1>1 DEF Inductive, SenderRequests, Spent, Sending
<1>7. OutcomeIsTrue'
  BY <1>1 DEF Inductive, OutcomeIsTrue, Spent, MayBePost, Sending
<1>8. NoReplay'
  BY DEF Inductive, NoReplay
<1>9. LedgerNeverForgets'
  BY DEF Fits, Inductive, LedgerNeverForgets, SpentIsCommitted, Spent, MayBePost
<1>10. ReceiptIsReal'
  BY DEF Fits, ReceiptIsReal
<1> QED
  BY <1>2, <1>3, <1>4, <1>5, <1>6, <1>7, <1>8, <1>9, <1>10 DEF Inductive

\* The rows there are fit those they are about, so a step that rewrites one row
\* has only that one to answer for.
LEMMA OneRowFits ==
  ASSUME TypeOK, TypeOK', Inductive, UNCHANGED request,
         UNCHANGED <<pc, attempt, cur, outcome>> \/ \E w \in Workers : Rests(w),
         NEW p \in Publications, NEW row, Put(p, row), Fits(p, row)
  PROVE  Inductive'
<1>1. ledger'[p] = row /\ \A q \in Publications \ {p} : ledger'[q] = ledger[q]
  BY DEF Put, TypeOK
<1>2. \A v \in Workers :
        pc'[v] \in Sending => pc'[v] = pc[v] /\ attempt'[v] = attempt[v] /\ cur'[v] = cur[v]
  BY DEF Rests, OthersStand, Sending, Claiming, Busy
<1>3. ASSUME NEW q \in Publications, q # p PROVE Fits(q, ledger[q])
  BY <1>2 DEF Fits, Inductive, SendersHoldRow, SpentIsCommitted, LedgerNeverForgets, ReceiptIsReal
<1>4. \A q \in Publications : Fits(q, ledger'[q])
  BY <1>1, <1>3
<1> QED
  BY <1>4, RowsFit

LEMMA NoRowChanges ==
  ASSUME TypeOK, TypeOK', Inductive, UNCHANGED <<request, ledger>>,
         NEW w \in Workers, Rests(w)
  PROVE  Inductive'
<1>1. \A v \in Workers :
        pc'[v] \in Sending => pc'[v] = pc[v] /\ attempt'[v] = attempt[v] /\ cur'[v] = cur[v]
  BY DEF Rests, OthersStand, Sending, Claiming, Busy
<1>2. ASSUME NEW q \in Publications PROVE Fits(q, ledger[q])
  BY <1>1 DEF Fits, Inductive, SendersHoldRow, SpentIsCommitted, LedgerNeverForgets, ReceiptIsReal
<1> QED
  BY <1>2, RowsFit

\* Nothing was ever sent for a row that is not committed.
LEMMA UncommittedRow ==
  ASSUME TypeOK, Inductive,
         UNCHANGED <<pc, attempt, cur, outcome>> \/ \E w \in Workers : Rests(w),
         NEW p \in Publications, ledger[p].state \notin Committed,
         NEW row, row.state # "published"
  PROVE  Fits(p, row)
<1>1. \A v \in Workers : pc'[v] \in Sending => pc'[v] = pc[v] /\ cur'[v] = cur[v]
  BY DEF Rests, OthersStand, Sending, Claiming, Busy
<1>2. \A v \in Workers : ~(pc'[v] \in Sending /\ cur'[v] = p)
  BY <1>1 DEF Inductive, SendersHoldRow
<1>3. \A a \in Attempts : Spent(a) => request[a].pub # p
  BY DEF Inductive, SpentIsCommitted
<1> QED
  BY <1>2, <1>3 DEF Fits, Spent, MayBePost

-----------------------------------------------------------------------------
\* Steps that end, pause or begin the work on a row.
LEMMA NextRecordRests ==
  ASSUME TypeOK, NEW w \in Workers, NextRecord(w)
  PROVE  Rests(w)
  BY DEF TypeOK, NextRecord, Goto, Rests, OthersStand, Busy, Claiming, Sending

LEMMA ForgetRests ==
  ASSUME TypeOK, NEW w \in Workers, Forget(w)
  PROVE  Rests(w)
  BY DEF TypeOK, Forget, Goto, Rests, OthersStand, Busy, Claiming, Sending

LEMMA GotoRests ==
  ASSUME TypeOK, NEW w \in Workers, NEW place, place \notin Busy, Goto(w, place),
         UNCHANGED cur \/ \E q : cur' = [cur EXCEPT ![w] = q],
         UNCHANGED <<attempt, outcome>>
  PROVE  Rests(w)
  BY DEF TypeOK, Goto, Rests, OthersStand

LEMMA RestingSteps ==
  ASSUME TypeOK, TypeOK', Inductive, NEW w \in Workers,
         \/ BeginTick(w) \/ ReadOverdue(w) \/ ReadLeases(w) \/ RecordSweep(w)
         \/ EndSweep(w) \/ FindDue(w) \/ EndTick(w) \/ RecordOutcome(w) \/ Crash(w)
  PROVE  Inductive'
<1> USE DEF tables, local
<1>1. CASE BeginTick(w)
  <2>1. Rests(w)
    BY <1>1, GotoRests DEF BeginTick, Busy, Claiming, Sending
  <2> QED
    BY <1>1, <2>1, NoRowChanges DEF BeginTick
<1>2. CASE ReadOverdue(w)
  <2>1. Rests(w)
    BY <1>2, GotoRests DEF ReadOverdue, Busy, Claiming, Sending
  <2> QED
    BY <1>2, <2>1, NoRowChanges DEF ReadOverdue
<1>3. CASE ReadLeases(w)
  <2>1. Rests(w)
    BY <1>3, GotoRests DEF ReadLeases, Busy, Claiming, Sending
  <2> QED
    BY <1>3, <2>1, NoRowChanges DEF ReadLeases
<1>4. CASE RecordSweep(w)
  <2>1. Rests(w)
    BY <1>4, GotoRests DEF RecordSweep, Busy, Claiming, Sending
  <2> QED
    BY <1>4, <2>1, NoRowChanges DEF RecordSweep
<1>5. CASE EndSweep(w)
  <2>1. Rests(w)
    BY <1>5, GotoRests DEF EndSweep, Busy, Claiming, Sending
  <2> QED
    BY <1>5, <2>1, NoRowChanges DEF EndSweep
<1>6. CASE FindDue(w)
  <2>1. Rests(w)
    <3>1. CASE Forget(w)
      BY <3>1, ForgetRests
    <3>2. CASE Goto(w, "batch") /\ UNCHANGED <<cur, attempt, outcome>>
      BY <3>2, GotoRests DEF Busy, Claiming, Sending
    <3> QED
      BY <1>6, <3>1, <3>2 DEF FindDue
  <2> QED
    BY <1>6, <2>1, NoRowChanges DEF FindDue
<1>7. CASE EndTick(w)
  BY <1>7, ForgetRests, NoRowChanges DEF EndTick
<1>8. CASE RecordOutcome(w)
  BY <1>8, NextRecordRests, NoRowChanges DEF RecordOutcome
<1>9. CASE Crash(w)
  BY <1>9, ForgetRests, NoRowChanges DEF Crash
<1> QED
  BY <1>1, <1>2, <1>3, <1>4, <1>5, <1>6, <1>7, <1>8, <1>9

\* Steps that rewrite a row for which nothing was sent.
LEMMA WithdrawingSteps ==
  ASSUME TypeOK, TypeOK', Inductive,
         \/ \E w \in Workers : Sweep(w) \/ Release(w)
         \/ \E p \in Publications : Cancel(p)
  PROVE  Inductive'
<1> USE DEF tables, local
<1>1. ASSUME NEW w \in Workers, Sweep(w) PROVE Inductive'
  <2>1. PICK r \in todo[w] :
          \/ /\ Holds(r[1], r[2], NoToken)
             /\ Put(r[1], Swept(r[1], r[2]))
             /\ cur' = [cur EXCEPT ![w] = r[1]]
             /\ Goto(w, IF pc[w] = "expiring" THEN "expired" ELSE "recovered")
          \/ UNCHANGED <<ledger, cur, pc>>
    BY <1>1 DEF Sweep
  <2>2. UNCHANGED <<request, attempt, outcome>>
    BY <1>1 DEF Sweep
  <2>3. CASE UNCHANGED <<ledger, cur, pc>>
    BY <2>2, <2>3, StandingStill DEF SendState
  <2>4. CASE /\ Holds(r[1], r[2], NoToken)
             /\ Put(r[1], Swept(r[1], r[2]))
             /\ cur' = [cur EXCEPT ![w] = r[1]]
             /\ Goto(w, IF pc[w] = "expiring" THEN "expired" ELSE "recovered")
    <3>1. Rests(w)
      BY <2>2, <2>4, GotoRests DEF Busy, Claiming, Sending
    <3>2. r[1] \in Publications /\ r[2] \in {"pending", "claimed", "sending"}
      BY DEF TypeOK
    <3>3. ledger[r[1]] \in Row /\ ledger[r[1]].state = r[2]
      BY <2>4, <3>2 DEF TypeOK, Holds
    <3>4. CASE r[2] # "sending"
      <4>1. Swept(r[1], r[2]).state # "published"
        BY <3>2, <3>3, <3>4 DEF Swept, Freed, Row
      <4>2. ledger[r[1]].state \notin Committed
        BY <3>2, <3>3, <3>4 DEF Committed
      <4>3. Fits(r[1], Swept(r[1], r[2]))
        BY <3>1, <3>2, <4>1, <4>2, UncommittedRow
      <4> QED
        BY <2>2, <2>4, <3>1, <3>2, <4>3, OneRowFits
    <3>5. CASE r[2] = "sending"
      <4>1. Swept(r[1], r[2]).state = "unknown"
        BY <3>3, <3>5 DEF Swept, Freed, Row
      <4>2. Fits(r[1], Swept(r[1], r[2]))
        BY <4>1 DEF Fits, Committed
      <4> QED
        BY <2>2, <2>4, <3>1, <3>2, <4>2, OneRowFits
    <3> QED
      BY <3>4, <3>5
  <2> QED
    BY <2>1, <2>3, <2>4
<1>2. ASSUME NEW p \in Publications, ledger[p].state \in {"pending", "claimed"}
      PROVE  /\ ledger[p].state \notin Committed
             /\ \A s \in States : Freed(p, s).state = s
  BY <1>2 DEF Committed, TypeOK, Freed, Row
<1>3. ASSUME NEW w \in Workers, Release(w) PROVE Inductive'
  <2>1. Rests(w) /\ UNCHANGED request
    BY <1>3, NextRecordRests DEF Release
  <2>2. CASE Holds(cur[w], "claimed", attempt[w]) /\ Put(cur[w], Freed(cur[w], "pending"))
    <3>1. cur[w] \in Publications
      BY <1>3 DEF Release, Inductive, AttemptsOwned, Busy, Claiming
    <3>2. Fits(cur[w], Freed(cur[w], "pending"))
      BY <1>2, <2>1, <2>2, <3>1, UncommittedRow DEF Holds, States
    <3> QED
      BY <2>1, <2>2, <3>1, <3>2, OneRowFits
  <2>3. CASE UNCHANGED ledger
    BY <2>1, <2>3, NoRowChanges
  <2> QED
    BY <1>3, <2>2, <2>3 DEF Release
<1>4. ASSUME NEW p \in Publications, Cancel(p) PROVE Inductive'
  <2>1. Fits(p, Freed(p, "cancelled"))
    BY <1>2, <1>4, UncommittedRow DEF Cancel, CancelFrom, States
  <2> QED
    BY <1>4, <2>1, OneRowFits DEF Cancel, CancelFrom
<1> QED
  BY <1>1, <1>3, <1>4

\* An operator decides a row that was held, on what LinkedIn shows.
LEMMA ReconcileStep ==
  ASSUME TypeOK, TypeOK', Inductive, NEW p \in Publications, Reconcile(p)
  PROVE  Inductive'
<1> USE DEF tables, local
<1>1. UNCHANGED <<request, pc, attempt, cur, outcome>>
  BY DEF Reconcile
<1>2. ledger[p] \in Row
  BY DEF TypeOK
<1>3. ASSUME NEW a \in Attempts, request[a] = [pub |-> p, status |-> "accepted"],
             Put(p, [ledger[p] EXCEPT !.state = "published", !.urn = a])
      PROVE  Inductive'
  <2>1. Fits(p, [ledger[p] EXCEPT !.state = "published", !.urn = a])
    BY <1>2, <1>3 DEF Fits, Row, Committed
  <2> QED
    BY <1>1, <1>3, <2>1, OneRowFits
<1>4. CASE Put(p, [ledger[p] EXCEPT !.state = "failed", !.code = "operator"])
  <2>1. Fits(p, [ledger[p] EXCEPT !.state = "failed", !.code = "operator"])
    BY <1>2 DEF Fits, Row, Committed
  <2> QED
    BY <1>1, <1>4, <2>1, OneRowFits
<1> QED
  BY <1>3, <1>4 DEF Reconcile

\* The end of a send is written: under its own token, so of its own row.
LEMMA SettleStep ==
  ASSUME TypeOK, TypeOK', Inductive, NEW w \in Workers, Settle(w)
  PROVE  Inductive'
<1> USE DEF tables, local
<1>1. UNCHANGED request /\ pc[w] = "settle"
  BY DEF Settle
<1>2. CASE NextRecord(w) /\ UNCHANGED ledger
  BY <1>1, <1>2, NextRecordRests, NoRowChanges
<1>3. CASE Put(cur[w], Settled(w)) /\ Goto(w, "record") /\ UNCHANGED local
  <2> DEFINE p == cur[w]
  <2>1. p \in Publications /\ attempt[w] \in Attempts
    BY <1>1 DEF Inductive, AttemptsOwned, Busy, Sending
  <2>2. Rests(w) /\ pc'[w] = "record"
    BY <1>1, <1>3 DEF TypeOK, Goto, Rests, OthersStand, Busy, Sending
  <2>3. \A v \in Workers : ~(pc'[v] \in Sending /\ cur'[v] = p)
    BY <1>1, <1>3, <2>2 DEF Rests, OthersStand, Inductive, OneSender, Sending
  <2>4. ledger[p] \in Row /\ outcome[w] \in Outcome
    BY <2>1 DEF TypeOK
  <2>5. CASE outcome[w].state = "published"
    <3>1. Settled(w).state = "published" /\ Settled(w).urn = attempt[w]
      BY <2>4, <2>5 DEF Settled, Freed, Row
    <3>2. request[attempt[w]] = [pub |-> p, status |-> "accepted"]
      BY <1>1, <2>5 DEF Inductive, OutcomeIsTrue
    <3> QED
      BY <1>1, <1>3, <2>1, <2>2, <2>3, <3>1, <3>2, OneRowFits DEF Fits, Committed
  <2>6. CASE outcome[w].state = "pending"
    <3>1. Settled(w).state = "pending"
      BY <2>4, <2>6 DEF Settled, Freed, Row
    <3>2. \A a \in Attempts : Spent(a) => request[a].pub # p
      BY <1>1, <2>6 DEF Inductive, OutcomeIsTrue
    <3>3. Fits(p, Settled(w))
      BY <2>3, <3>1, <3>2 DEF Fits, Spent, MayBePost
    <3> QED
      BY <1>1, <1>3, <2>1, <2>2, <3>3, OneRowFits
  <2>7. CASE outcome[w].state = "failed"
    <3>1. Settled(w).state = "failed"
      BY <2>4, <2>7 DEF Settled, Freed, Row
    <3>2. \A a \in Attempts : MayBePost(a) => request[a].pub # p
      BY <1>1, <2>7 DEF Inductive, OutcomeIsTrue
    <3>3. Fits(p, Settled(w))
      BY <2>3, <3>1, <3>2 DEF Fits, Committed
    <3> QED
      BY <1>1, <1>3, <2>1, <2>2, <3>3, OneRowFits
  <2>8. CASE outcome[w].state = "unknown"
    <3>1. Settled(w).state = "unknown"
      BY <2>4, <2>8 DEF Settled, Freed, Row
    <3>2. Fits(p, Settled(w))
      BY <2>3, <3>1 DEF Fits, Committed
    <3> QED
      BY <1>1, <1>3, <2>1, <2>2, <3>2, OneRowFits
  <2> QED
    BY <2>4, <2>5, <2>6, <2>7, <2>8 DEF Outcome
<1> QED
  BY <1>2, <1>3 DEF Settle

-----------------------------------------------------------------------------
\* Steps on the way to the request.
LEMMA MovingOn ==
  ASSUME TypeOK, Inductive, NEW w \in Workers, NEW place, Goto(w, place),
         UNCHANGED <<ledger, request, attempt, cur, outcome>>,
         \/ pc[w] \in Claiming /\ place \in Claiming
         \/ pc[w] \in {"consume", "credentials"} /\ place \in {"credentials", "client"}
  PROVE  Inductive'
<1>1. pc'[w] = place /\ \A v \in Workers \ {w} : pc'[v] = pc[v]
  BY DEF TypeOK, Goto
<1>2. \A v \in Workers :
        /\ pc'[v] \in Busy => pc[v] \in Busy
        /\ pc'[v] \in Sending => pc[v] \in Sending
        /\ pc'[v] \in Unsent => pc[v] \in Unsent
        /\ pc'[v] \in {"await", "settle"} => pc'[v] = pc[v]
        /\ pc'[v] \in {"consume", "credentials", "client"} =>
              pc[v] \in {"consume", "credentials", "client"}
  BY <1>1 DEF Busy, Sending, Claiming, Unsent
<1>3. AttemptsOwned'
  BY <1>2 DEF Inductive, AttemptsOwned, Spent
<1>4. SendersHoldRow' /\ OneSender'
  BY <1>2 DEF Inductive, SendersHoldRow, OneSender
<1>5. SenderRequests'
  BY <1>2 DEF Inductive, SenderRequests, Spent
<1>6. OutcomeIsTrue'
  BY <1>2 DEF Inductive, OutcomeIsTrue, Spent, MayBePost
<1>7. SpentIsCommitted' /\ NoReplay' /\ LedgerNeverForgets' /\ ReceiptIsReal'
  BY DEF Inductive, SpentIsCommitted, NoReplay, LedgerNeverForgets, ReceiptIsReal, Spent, MayBePost
<1> QED
  BY <1>3, <1>4, <1>5, <1>6, <1>7 DEF Inductive

\* A claim: the row was pending, so nothing was ever sent for it, and the
\* token is new.
LEMMA ClaimStep ==
  ASSUME TypeOK, TypeOK', Inductive, NEW w \in Workers, Claim(w)
  PROVE  Inductive'
<1>1. PICK r \in todo[w] :
        \/ /\ Holds(r[1], "pending", NoToken)
           /\ \E a \in Attempts :
                 /\ Fresh(a)
                 /\ Put(r[1], [ledger[r[1]] EXCEPT !.state = "claimed", !.token = a,
                                                   !.lease = moment[w] + Lease])
                 /\ attempt' = [attempt EXCEPT ![w] = a]
           /\ cur' = [cur EXCEPT ![w] = r[1]]
           /\ Goto(w, "gate")
        \/ UNCHANGED <<ledger, attempt, cur, pc>>
  BY DEF Claim
<1>2. UNCHANGED <<request, outcome>> /\ pc[w] = "batch"
  BY DEF Claim
<1>3. CASE UNCHANGED <<ledger, attempt, cur, pc>>
  BY <1>2, <1>3, StandingStill DEF SendState
<1>4. ASSUME Holds(r[1], "pending", NoToken),
             NEW a \in Attempts, Fresh(a),
             Put(r[1], [ledger[r[1]] EXCEPT !.state = "claimed", !.token = a,
                                            !.lease = moment[w] + Lease]),
             attempt' = [attempt EXCEPT ![w] = a],
             cur' = [cur EXCEPT ![w] = r[1]],
             Goto(w, "gate")
      PROVE  Inductive'
  <2> DEFINE p == r[1]
  <2>1. p \in Publications
    BY DEF TypeOK
  <2>2. ledger[p].state = "pending" /\ ledger[p] \in Row
    BY <1>4, <2>1 DEF Holds, TypeOK
  <2>3. /\ ledger'[p].state = "claimed"
        /\ \A q \in Publications \ {p} : ledger'[q] = ledger[q]
    BY <1>4, <2>1, <2>2 DEF Put, TypeOK, Row
  <2>4. /\ pc'[w] = "gate" /\ attempt'[w] = a /\ cur'[w] = p
        /\ \A v \in Workers \ {w} :
              pc'[v] = pc[v] /\ attempt'[v] = attempt[v] /\ cur'[v] = cur[v]
    BY <1>4 DEF TypeOK, Goto
  <2>5. ~Spent(a) /\ \A v \in Workers : attempt[v] # a
    BY <1>4 DEF Fresh, Spent
  <2>6. \A b \in Attempts : Spent(b) => request[b].pub # p
    BY <2>2 DEF Inductive, SpentIsCommitted, Committed
  <2>7. \A v \in Workers : pc'[v] \in Sending => v # w /\ cur[v] # p
    BY <2>2, <2>4 DEF Inductive, SendersHoldRow, Committed, Sending
  <2>8. AttemptsOwned'
    BY <1>2, <2>1, <2>4, <2>5 DEF Inductive, AttemptsOwned, Spent
  <2>9. \A v \in Workers :
          /\ pc'[v] \in Sending \cup {"await", "settle", "consume", "credentials", "client"} =>
                /\ v # w /\ pc'[v] = pc[v] /\ attempt'[v] = attempt[v] /\ cur'[v] = cur[v]
                /\ outcome'[v] = outcome[v]
    BY <1>2, <2>4, <2>7 DEF Sending
  <2>10. SendersHoldRow'
    <3> SUFFICES ASSUME NEW v \in Workers, pc'[v] \in Sending
                 PROVE  /\ ledger'[cur'[v]].state \in Committed
                        /\ ledger'[cur'[v]].state = "sending" =>
                              ledger'[cur'[v]].token = attempt'[v]
                        /\ ledger'[cur'[v]].state = "failed" =>
                              ledger'[cur'[v]].code = "operator"
      BY DEF SendersHoldRow
    <3>1. cur[v] \in Publications \ {p}
      BY <2>7, <2>9 DEF Inductive, AttemptsOwned, Busy
    <3>2. ledger'[cur'[v]] = ledger[cur[v]]
      BY <2>3, <2>9, <3>1
    <3> QED
      BY <2>9, <3>2 DEF Inductive, SendersHoldRow
  <2>11. OneSender' /\ SenderRequests'
    BY <1>2, <2>9 DEF Inductive, OneSender, SenderRequests, Spent
  <2>12. OutcomeIsTrue'
    BY <1>2, <2>9 DEF Inductive, OutcomeIsTrue, Spent, MayBePost
  <2>13. SpentIsCommitted'
    BY <1>2, <2>3, <2>6 DEF Inductive, SpentIsCommitted, Spent
  <2>14. NoReplay'
    BY <1>2 DEF Inductive, NoReplay
  <2>15. LedgerNeverForgets'
    <3> SUFFICES ASSUME NEW b \in Attempts, MayBePost(b)
                 PROVE  ledger'[request[b].pub] = ledger[request[b].pub]
      BY <1>2 DEF Inductive, LedgerNeverForgets, MayBePost
    <3> QED
      BY <2>3, <2>6 DEF MayBePost, Spent, Inductive, SpentIsCommitted
  <2>16. ReceiptIsReal'
    BY <1>2, <2>3 DEF Inductive, ReceiptIsReal
  <2> QED
    BY <2>8, <2>10, <2>11, <2>12, <2>13, <2>14, <2>15, <2>16 DEF Inductive
<1> QED
  BY <1>1, <1>3, <1>4

\* The commit to `sending`: the row is claimed under the sender's own token, so
\* no other sender holds it and no request was ever made.
LEMMA CommitStep ==
  ASSUME TypeOK, TypeOK', Inductive, NEW w \in Workers, CommitSending(w)
  PROVE  Inductive'
<1> USE DEF tables, local
<1>1. UNCHANGED request /\ pc[w] = "commit"
  BY DEF CommitSending, CommitUnder
<1>2. CASE NextRecord(w) /\ UNCHANGED ledger
  BY <1>1, <1>2, NextRecordRests, NoRowChanges
<1>3. CASE /\ Holds(cur[w], "claimed", attempt[w])
           /\ Put(cur[w], [ledger[cur[w]] EXCEPT !.state = "sending"])
           /\ Goto(w, IF licence[w] # 0 THEN "consume" ELSE "credentials")
           /\ UNCHANGED local
  <2> DEFINE p == cur[w]
  <2>1. p \in Publications /\ attempt[w] \in Attempts
    BY <1>1 DEF Inductive, AttemptsOwned, Busy, Claiming
  <2>2. ledger[p] \in Row /\ ledger[p].state = "claimed" /\ ledger[p].token = attempt[w]
    BY <1>3, <2>1, NamesAssumption DEF TypeOK, Holds
  <2>3. /\ ledger'[p].state = "sending" /\ ledger'[p].token = attempt[w]
        /\ \A q \in Publications \ {p} : ledger'[q] = ledger[q]
    BY <1>3, <2>1, <2>2 DEF Put, TypeOK, Row
  <2>4. pc'[w] \in {"consume", "credentials"} /\ \A v \in Workers \ {w} : pc'[v] = pc[v]
    BY <1>3 DEF TypeOK, Goto
  <2>5. \A b \in Attempts : Spent(b) => request[b].pub # p
    BY <2>2 DEF Inductive, SpentIsCommitted, Committed
  <2>6. \A v \in Workers \ {w} : pc'[v] \in Sending => cur[v] # p
    BY <2>2, <2>4 DEF Inductive, SendersHoldRow, Committed
  <2>7. AttemptsOwned'
    BY <1>1, <1>3, <2>4 DEF Inductive, AttemptsOwned, Spent, Busy, Sending, Claiming, Unsent
  <2>8. SendersHoldRow'
    <3> SUFFICES ASSUME NEW v \in Workers, pc'[v] \in Sending
                 PROVE  /\ ledger'[cur[v]].state \in Committed
                        /\ ledger'[cur[v]].state = "sending" =>
                              ledger'[cur[v]].token = attempt[v]
                        /\ ledger'[cur[v]].state = "failed" =>
                              ledger'[cur[v]].code = "operator"
      BY <1>3 DEF SendersHoldRow
    <3>1. CASE v = w
      BY <2>3, <3>1 DEF Committed
    <3>2. CASE v # w
      <4>1. pc[v] \in Sending /\ cur[v] \in Publications \ {p}
        BY <2>4, <2>6, <3>2 DEF Inductive, AttemptsOwned, Busy
      <4>2. ledger'[cur[v]] = ledger[cur[v]]
        BY <2>3, <4>1
      <4> QED
        BY <4>1, <4>2 DEF Inductive, SendersHoldRow
    <3> QED
      BY <3>1, <3>2
  <2>9. OneSender'
    BY <1>3, <2>4, <2>6 DEF Inductive, OneSender
  <2>10. SenderRequests'
    BY <1>1, <1>3, <2>4, <2>5 DEF Inductive, SenderRequests, Spent
  <2>11. OutcomeIsTrue'
    BY <1>1, <1>3, <2>4 DEF Inductive, OutcomeIsTrue, Spent, MayBePost
  <2>12. SpentIsCommitted'
    BY <1>1, <2>3, <2>5 DEF Inductive, SpentIsCommitted, Spent
  <2>13. NoReplay'
    BY <1>1 DEF Inductive, NoReplay
  <2>14. LedgerNeverForgets'
    <3> SUFFICES ASSUME NEW b \in Attempts, MayBePost(b)
                 PROVE  ledger'[request[b].pub] = ledger[request[b].pub]
      BY <1>1 DEF Inductive, LedgerNeverForgets, MayBePost
    <3> QED
      BY <2>3, <2>5 DEF MayBePost, Spent, Inductive, SpentIsCommitted
  <2>15. ReceiptIsReal'
    BY <1>1, <2>3 DEF Inductive, ReceiptIsReal
  <2> QED
    BY <2>7, <2>8, <2>9, <2>10, <2>11, <2>12, <2>13, <2>14, <2>15 DEF Inductive
<1> QED
  BY <1>2, <1>3 DEF CommitSending, CommitUnder

\* The request leaves: the sender is the only one there is, and the first.
LEMMA TransmitStep ==
  ASSUME TypeOK, TypeOK', Inductive, NEW w \in Workers, Transmit(w)
  PROVE  Inductive'
<1> USE DEF tables, local
<1> DEFINE p == cur[w]
           a == attempt[w]
<1>1. pc[w] = "client" /\ UNCHANGED <<ledger, attempt, cur, outcome>>
  BY DEF Transmit
<1>2. p \in Publications /\ a \in Attempts /\ a # NoToken /\ ~Spent(a)
  BY <1>1, NamesAssumption DEF Inductive, AttemptsOwned, Busy, Sending, Unsent
<1>3. /\ request'[a] = [pub |-> p, status |-> "inflight"]
      /\ \A b \in Attempts \ {a} : request'[b] = request[b]
  BY <1>2 DEF Transmit, TypeOK
<1>4. pc'[w] = "await" /\ \A v \in Workers \ {w} : pc'[v] = pc[v]
  BY DEF Transmit, Goto, TypeOK
<1>5. \A b \in Attempts : Spent(b) => request[b].pub # p
  BY <1>1 DEF Inductive, SenderRequests
<1>6. \A v \in Workers \ {w} : attempt[v] # a
  BY <1>2 DEF Inductive, AttemptsOwned
<1>7. \A v \in Workers \ {w} : pc[v] \in Sending => cur[v] # p
  BY <1>1 DEF Inductive, OneSender, Sending
<1>8. \A b \in Attempts : Spent(b)' => b = a \/ Spent(b)
  BY <1>3 DEF Spent
<1>9. AttemptsOwned'
  <2>1. \A v \in Workers : pc'[v] \in Unsent => v # w
    BY <1>4 DEF Unsent, Claiming
  <2>2. \A v \in Workers : pc'[v] \in Busy => pc[v] \in Busy
    BY <1>1, <1>4 DEF Busy, Sending
  <2>3. \A v \in Workers : pc'[v] \in Unsent => ~Spent(attempt[v])'
    BY <1>1, <1>4, <1>6, <1>8, <2>1 DEF Inductive, AttemptsOwned, Unsent, Busy, Sending
  <2> QED
    BY <1>1, <2>2, <2>3 DEF Inductive, AttemptsOwned, Spent
<1>10. SendersHoldRow' /\ OneSender'
  BY <1>1, <1>4 DEF Inductive, SendersHoldRow, OneSender, Sending
<1>11. SpentIsCommitted'
  <2>1. ledger[p].state \in Committed
    BY <1>1 DEF Inductive, SendersHoldRow, Sending
  <2> QED
    BY <1>1, <1>2, <1>3, <1>8, <2>1 DEF Inductive, SpentIsCommitted
<1>12. SenderRequests'
  <2> SUFFICES ASSUME NEW v \in Workers
               PROVE  /\ pc'[v] \in {"consume", "credentials", "client"} =>
                            \A b \in Attempts : Spent(b)' => request'[b].pub # cur[v]
                      /\ pc'[v] = "await" =>
                            Spent(attempt[v])' /\ request'[attempt[v]].pub = cur[v]
    BY <1>1 DEF SenderRequests, Spent
  <2>1. CASE v = w
    BY <1>1, <1>2, <1>3, <1>4, <2>1 DEF Spent
  <2>2. CASE v # w
    <3>1. pc'[v] = pc[v] /\ attempt[v] # a
      BY <1>4, <1>6, <2>2
    <3>2. CASE pc[v] \in {"consume", "credentials", "client"}
      <4>1. cur[v] # p
        BY <1>7, <2>2, <3>2 DEF Sending
      <4> QED
        BY <1>3, <1>8, <3>1, <3>2, <4>1 DEF Inductive, SenderRequests
    <3>3. CASE pc[v] = "await"
      <4>1. attempt[v] \in Attempts
        BY <3>3 DEF Inductive, AttemptsOwned, Busy, Sending
      <4> QED
        BY <1>1, <1>3, <3>1, <3>3, <4>1 DEF Inductive, SenderRequests, Spent
    <3> QED
      BY <3>1, <3>2, <3>3
  <2> QED
    BY <2>1, <2>2
<1>13. OutcomeIsTrue'
  <2> SUFFICES ASSUME NEW v \in Workers, pc'[v] = "settle"
               PROVE  /\ outcome[v].state = "pending" =>
                            \A b \in Attempts : Spent(b)' => request'[b].pub # cur[v]
                      /\ outcome[v].state = "failed" =>
                            \A b \in Attempts : MayBePost(b)' => request'[b].pub # cur[v]
                      /\ outcome[v].state = "published" =>
                            request'[attempt[v]] = [pub |-> cur[v], status |-> "accepted"]
    BY <1>1 DEF OutcomeIsTrue, Spent, MayBePost
  <2>1. v # w /\ pc[v] = "settle" /\ cur[v] # p /\ attempt[v] \in Attempts \ {a}
    BY <1>4, <1>6, <1>7 DEF Sending, Busy, Inductive, AttemptsOwned
  <2>2. \A b \in Attempts : MayBePost(b)' => b = a \/ MayBePost(b)
    BY <1>3 DEF MayBePost
  <2> QED
    BY <1>3, <1>8, <2>1, <2>2 DEF Inductive, OutcomeIsTrue
<1>14. NoReplay'
  BY <1>3, <1>5 DEF Inductive, NoReplay, Spent
<1>15. LedgerNeverForgets'
  <2>1. \/ ledger[p].state \in {"sending", "unknown", "published"}
        \/ ledger[p].state = "failed" /\ ledger[p].code = "operator"
    BY <1>1 DEF Inductive, SendersHoldRow, Sending, Committed
  <2> QED
    BY <1>1, <1>3, <2>1 DEF Inductive, LedgerNeverForgets, MayBePost
<1>16. ReceiptIsReal'
  BY <1>1, <1>2, <1>3 DEF Inductive, ReceiptIsReal, Spent
<1> QED
  BY <1>9, <1>10, <1>11, <1>12, <1>13, <1>14, <1>15, <1>16 DEF Inductive

-----------------------------------------------------------------------------
\* A sender learns what became of its request: nothing else changes.
LEMMA ConcludeStep ==
  ASSUME TypeOK, Inductive, NEW w \in Workers, pc[w] \in {"client", "await"},
         NEW result, Conclude(w, result),
         UNCHANGED <<ledger, request, attempt, cur>>,
         result.state = "pending" =>
            \A a \in Attempts : Spent(a) => request[a].pub # cur[w],
         result.state = "failed" =>
            \A a \in Attempts : MayBePost(a) => request[a].pub # cur[w],
         result.state = "published" =>
            request[attempt[w]] = [pub |-> cur[w], status |-> "accepted"]
  PROVE  Inductive'
<1>1. /\ pc'[w] = "settle" /\ outcome'[w] = result
      /\ \A v \in Workers \ {w} : pc'[v] = pc[v] /\ outcome'[v] = outcome[v]
  BY DEF TypeOK, Conclude, Goto
<1>2. \A v \in Workers :
        /\ pc'[v] \in Busy => pc[v] \in Busy
        /\ pc'[v] \in Sending => pc[v] \in Sending
        /\ pc'[v] \in Unsent \cup {"await"} => pc'[v] = pc[v]
  BY <1>1 DEF Busy, Sending, Claiming, Unsent
<1>3. AttemptsOwned'
  BY <1>2 DEF Inductive, AttemptsOwned, Spent
<1>4. SendersHoldRow' /\ OneSender'
  BY <1>2 DEF Inductive, SendersHoldRow, OneSender
<1>5. SenderRequests'
  BY <1>2 DEF Inductive, SenderRequests, Spent, Unsent
<1>6. OutcomeIsTrue'
  BY <1>1 DEF Inductive, OutcomeIsTrue, Spent, MayBePost
<1>7. SpentIsCommitted' /\ NoReplay' /\ LedgerNeverForgets' /\ ReceiptIsReal'
  BY DEF Inductive, SpentIsCommitted, NoReplay, LedgerNeverForgets, ReceiptIsReal, Spent, MayBePost
<1> QED
  BY <1>3, <1>4, <1>5, <1>6, <1>7 DEF Inductive

\* A throttled request is forgotten: it was the only one of its publication.
LEMMA ThrottledStep ==
  ASSUME TypeOK, TypeOK', Inductive, NEW w \in Workers, pc[w] = "await",
         request[attempt[w]].status = "throttled",
         NEW result, result.state = "pending", Conclude(w, result),
         request' = [request EXCEPT ![attempt[w]] = NoRequest],
         UNCHANGED <<ledger, attempt, cur>>
  PROVE  Inductive'
<1> DEFINE p == cur[w]
           a == attempt[w]
<1>1. p \in Publications /\ a \in Attempts /\ a # NoToken
  BY NamesAssumption DEF Inductive, AttemptsOwned, Busy, Sending
<1>2. ~Spent(a)' /\ \A b \in Attempts \ {a} : request'[b] = request[b]
  BY <1>1 DEF TypeOK, NoRequest, Spent
<1>3. /\ pc'[w] = "settle" /\ outcome'[w] = result
      /\ \A v \in Workers \ {w} : pc'[v] = pc[v] /\ outcome'[v] = outcome[v]
  BY DEF TypeOK, Conclude, Goto
<1>4. \A b \in Attempts : Spent(b)' => Spent(b) /\ b # a /\ request'[b] = request[b]
  BY <1>2 DEF Spent
<1>5. \A b \in Attempts : MayBePost(b)' => MayBePost(b) /\ b # a /\ request'[b] = request[b]
  BY <1>1, <1>2 DEF MayBePost, Spent
<1>6. Spent(a) /\ request[a].pub = p
  BY DEF Inductive, SenderRequests
<1>7. \A b \in Attempts : Spent(b)' => request'[b].pub # p
  BY <1>1, <1>4, <1>6 DEF Inductive, NoReplay, Spent
<1>8. \A v \in Workers \ {w} : attempt[v] # a
  BY <1>1 DEF Inductive, AttemptsOwned
<1>9. AttemptsOwned'
  <2>1. \A v \in Workers :
          /\ pc'[v] \in Busy => pc[v] \in Busy
          /\ pc'[v] \in Unsent => v # w /\ pc[v] \in Unsent /\ attempt[v] \in Attempts
    BY <1>3 DEF Inductive, AttemptsOwned, Busy, Sending, Claiming, Unsent
  <2>2. \A v \in Workers : pc'[v] \in Unsent => ~Spent(attempt[v])'
    BY <1>4, <2>1 DEF Inductive, AttemptsOwned
  <2> QED
    BY <2>1, <2>2 DEF Inductive, AttemptsOwned, Spent
<1>10. SendersHoldRow' /\ OneSender'
  BY <1>3 DEF Inductive, SendersHoldRow, OneSender, Sending
<1>11. SpentIsCommitted'
  BY <1>4 DEF Inductive, SpentIsCommitted
<1>12. SenderRequests'
  <2> SUFFICES ASSUME NEW v \in Workers
               PROVE  /\ pc'[v] \in {"consume", "credentials", "client"} =>
                            \A b \in Attempts : Spent(b)' => request'[b].pub # cur[v]
                      /\ pc'[v] = "await" =>
                            Spent(attempt[v])' /\ request'[attempt[v]].pub = cur[v]
    BY DEF SenderRequests, Spent
  <2>1. CASE v = w
    BY <1>3, <2>1
  <2>2. CASE pc[v] \in {"consume", "credentials", "client"} /\ v # w
    BY <1>3, <1>4, <2>2 DEF Inductive, SenderRequests
  <2>3. CASE pc[v] = "await" /\ v # w
    <3>1. attempt[v] \in Attempts \ {a}
      BY <1>8, <2>3 DEF Inductive, AttemptsOwned, Busy, Sending
    <3> QED
      BY <1>2, <1>3, <2>3, <3>1 DEF Inductive, SenderRequests, Spent
  <2> QED
    BY <1>3, <2>1, <2>2, <2>3
<1>13. OutcomeIsTrue'
  <2> SUFFICES ASSUME NEW v \in Workers, pc'[v] = "settle"
               PROVE  /\ outcome'[v].state = "pending" =>
                            \A b \in Attempts : Spent(b)' => request'[b].pub # cur[v]
                      /\ outcome'[v].state = "failed" =>
                            \A b \in Attempts : MayBePost(b)' => request'[b].pub # cur[v]
                      /\ outcome'[v].state = "published" =>
                            request'[attempt[v]] = [pub |-> cur[v], status |-> "accepted"]
    BY DEF OutcomeIsTrue, Spent, MayBePost
  <2>1. CASE v = w
    BY <1>3, <1>7, <2>1
  <2>2. CASE v # w
    <3>1. pc[v] = "settle" /\ outcome'[v] = outcome[v] /\ attempt[v] \in Attempts \ {a}
      BY <1>3, <1>8, <2>2 DEF Inductive, AttemptsOwned, Busy, Sending
    <3> QED
      BY <1>2, <1>4, <1>5, <3>1 DEF Inductive, OutcomeIsTrue
  <2> QED
    BY <2>1, <2>2
<1>14. NoReplay'
  BY <1>4 DEF Inductive, NoReplay, Spent
<1>15. LedgerNeverForgets'
  BY <1>5 DEF Inductive, LedgerNeverForgets
<1>16. ReceiptIsReal'
  BY <1>2 DEF Inductive, ReceiptIsReal
<1> QED
  BY <1>9, <1>10, <1>11, <1>12, <1>13, <1>14, <1>15, <1>16 DEF Inductive

\* LinkedIn decides a request that is travelling.
LEMMA AnswerStep ==
  ASSUME TypeOK, TypeOK', Inductive, NEW a \in Attempts,
         NEW status \in {"accepted", "refused", "throttled"}, Answer(a, status)
  PROVE  Inductive'
<1> USE DEF tables, local
<1>1. UNCHANGED <<ledger, pc, attempt, cur, outcome>> /\ request[a].status = "inflight"
  BY DEF Answer
<1>2. /\ request'[a].status = status /\ request'[a].pub = request[a].pub
      /\ \A b \in Attempts \ {a} : request'[b] = request[b]
  <2>1. request[a] \in Request
    BY DEF TypeOK
  <2>2. request' = [request EXCEPT ![a] = [request[a] EXCEPT !.status = status]]
    BY DEF Answer
  <2> QED
    BY <2>1, <2>2 DEF Request, TypeOK
<1>3. \A b \in Attempts :
        /\ Spent(b)' <=> Spent(b)
        /\ MayBePost(b)' => MayBePost(b)
        /\ request'[b].pub = request[b].pub
        /\ request[b].status = "accepted" => request'[b] = request[b]
  BY <1>1, <1>2 DEF Spent, MayBePost
<1>4. AttemptsOwned'
  BY <1>1, <1>3 DEF Inductive, AttemptsOwned, Busy, Unsent, Sending
<1>5. SendersHoldRow' /\ OneSender'
  BY <1>1 DEF Inductive, SendersHoldRow, OneSender
<1>6. SpentIsCommitted' /\ NoReplay' /\ LedgerNeverForgets'
  BY <1>1, <1>3 DEF Inductive, SpentIsCommitted, NoReplay, LedgerNeverForgets, Spent
<1>7. \A v \in Workers : pc[v] \in {"await", "settle"} => attempt[v] \in Attempts
  BY DEF Inductive, AttemptsOwned, Busy, Sending
<1>8. SenderRequests'
  BY <1>1, <1>3, <1>7 DEF Inductive, SenderRequests
<1>9. OutcomeIsTrue'
  BY <1>1, <1>3, <1>7 DEF Inductive, OutcomeIsTrue
<1>10. ReceiptIsReal'
  BY <1>1, <1>3 DEF Inductive, ReceiptIsReal
<1> QED
  BY <1>4, <1>5, <1>6, <1>8, <1>9, <1>10 DEF Inductive

LEMMA SenderSteps ==
  ASSUME TypeOK, TypeOK', Inductive, NEW w \in Workers,
         \/ Gate(w) \/ CheckGrant(w) \/ ConsumeGrant(w) \/ GetCredentials(w)
         \/ Withhold(w) \/ Receive(w) \/ LoseAnswer(w)
  PROVE  Inductive'
<1> USE DEF tables, local
<1>1. CASE Gate(w)
  BY <1>1, MovingOn DEF Gate, Claiming
<1>2. CASE CheckGrant(w)
  BY <1>2, MovingOn DEF CheckGrant, Claiming
<1>3. CASE ConsumeGrant(w)
  BY <1>3, MovingOn DEF ConsumeGrant
<1>4. CASE GetCredentials(w)
  <2>1. CASE Goto(w, "client") /\ UNCHANGED local
    BY <1>4, <2>1, MovingOn DEF GetCredentials
  <2>2. CASE NextRecord(w)
    BY <1>4, <2>2, NextRecordRests, NoRowChanges DEF GetCredentials
  <2> QED
    BY <1>4, <2>1, <2>2 DEF GetCredentials
<1>5. CASE Withhold(w)
  <2>1. PICK result : Conclude(w, result) /\ result.state # "published"
    BY <1>5 DEF Withhold, Deferrals, Ended
  <2>2. \A a \in Attempts : Spent(a) => request[a].pub # cur[w]
    BY <1>5 DEF Withhold, Inductive, SenderRequests
  <2>3. \A a \in Attempts : MayBePost(a) => request[a].pub # cur[w]
    BY <2>2 DEF Spent, MayBePost
  <2> QED
    BY <1>5, <2>1, <2>2, <2>3, ConcludeStep DEF Withhold
<1>6. CASE Receive(w)
  <2>1. pc[w] = "await" /\ UNCHANGED <<ledger, attempt, cur>>
    BY <1>6 DEF Receive
  <2>2. attempt[w] \in Attempts /\ Spent(attempt[w]) /\ request[attempt[w]].pub = cur[w]
    BY <2>1 DEF Inductive, AttemptsOwned, SenderRequests, Busy, Sending
  <2>3. CASE /\ request[attempt[w]].status = "accepted"
             /\ Conclude(w, Ended("published")) /\ UNCHANGED request
    <3>1. request[attempt[w]] = [pub |-> cur[w], status |-> "accepted"]
      BY <2>2, <2>3 DEF TypeOK, Request
    <3>2. Ended("published").state = "published"
      BY DEF Ended
    <3> QED
      BY <2>1, <2>3, <3>1, <3>2, ConcludeStep
  <2>4. CASE /\ request[attempt[w]].status = "refused"
             /\ Conclude(w, Ended("failed")) /\ UNCHANGED request
    <3>1. \A a \in Attempts : MayBePost(a) => request[a].pub # cur[w]
      BY <2>2, <2>4 DEF Inductive, NoReplay, MayBePost, Spent
    <3>2. Ended("failed").state = "failed"
      BY DEF Ended
    <3> QED
      BY <2>1, <2>4, <3>1, <3>2, ConcludeStep
  <2>5. CASE /\ request[attempt[w]].status = "throttled"
             /\ \E result \in Deferrals(w) : Conclude(w, result)
             /\ request' = [request EXCEPT ![attempt[w]] = NoRequest]
    <3>1. PICK result : Conclude(w, result) /\ result.state = "pending"
      BY <2>5 DEF Deferrals
    <3> QED
      BY <2>1, <2>5, <3>1, ThrottledStep
  <2> QED
    BY <1>6, <2>3, <2>4, <2>5 DEF Receive
<1>7. CASE LoseAnswer(w)
  <2>1. Ended("unknown").state = "unknown"
    BY DEF Ended
  <2> QED
    BY <1>7, <2>1, ConcludeStep DEF LoseAnswer, LoseAnswerAs
<1> QED
  BY <1>1, <1>2, <1>3, <1>4, <1>5, <1>6, <1>7

LEMMA InductiveStep ==
  ASSUME TypeOK, TypeOK', Inductive, [Next]_vars
  PROVE  Inductive'
<1> USE DEF tables, local
<1>1. ASSUME NEW w \in Workers, Step(w) \/ Crash(w) PROVE Inductive'
  BY <1>1, RestingSteps, WithdrawingSteps, SenderSteps, ClaimStep, CommitStep, TransmitStep,
     SettleStep DEF Step
<1>2. ASSUME NEW a \in Attempts, Accept(a) \/ Refuse(a) \/ Throttle(a) PROVE Inductive'
  BY <1>2, AnswerStep DEF Accept, Refuse, Throttle
<1>3. ASSUME NEW p \in Publications, Approve(p) \/ Revoke(p) \/ Commission(p) PROVE Inductive'
  BY <1>3, StandingStill DEF SendState, Approve, Revoke, Commission
<1>4. ASSUME NEW p \in Publications, Cancel(p) \/ Reconcile(p) PROVE Inductive'
  BY <1>4, WithdrawingSteps, ReconcileStep
<1>5. CASE SetSwitch \/ AdvanceClock \/ UNCHANGED vars
  BY <1>5, StandingStill DEF SendState, SetSwitch, AdvanceClock, vars
<1> QED
  BY <1>1, <1>2, <1>3, <1>4, <1>5 DEF Next

-----------------------------------------------------------------------------
\* Every behaviour of the ledger and its workers keeps its types and the
\* inductive invariant: what the tick of service.py relies on from one await
\* to the next.
THEOREM Invariance == Spec => [](TypeOK /\ Inductive)
<1>1. Init => TypeOK /\ Inductive
  BY InitTypeOK, InitInductive
<1>2. TypeOK /\ Inductive /\ [Next]_vars => (TypeOK /\ Inductive)'
  BY TypeStep, InductiveStep DEF Inductive
<1> QED
  BY <1>1, <1>2, PTL DEF Spec

\* The tables, the provider and the workers' local state are always well-typed:
\* no step of publish_due, of an operator or of LinkedIn writes a row the schema
\* (0001_initial.sql) has no place for.
THEOREM TypeCorrect == Spec => []TypeOK
<1> QED
  BY Invariance, PTL

\* No automatic replay after an ambiguous send (README, "The one guarantee"):
\* for any number of workers, crashes and operators, of the requests that left
\* for a publication at most one was not throttled away.
THEOREM NoReplayAfterAmbiguity == Spec => []NoReplay
<1>1. Inductive => NoReplay
  BY DEF Inductive
<1> QED
  BY <1>1, Invariance, PTL

\* The ledger never forgets a send: while LinkedIn has a post, or may still
\* accept the request for one, the row is neither sendable, nor cancelled or
\* expired, nor failed unless an operator said so.
THEOREM SendIsNeverForgotten == Spec => []LedgerNeverForgets
<1>1. Inductive => LedgerNeverForgets
  BY DEF Inductive
<1> QED
  BY <1>1, Invariance, PTL

\* A published row carries the URN of a post of that publication (the receipt
\* compare-and-set of publish_one, and reconcile_publication).
THEOREM PublishedIsPosted == Spec => []ReceiptIsReal
<1>1. Inductive => ReceiptIsReal
  BY DEF Inductive
<1> QED
  BY <1>1, Invariance, PTL
-----------------------------------------------------------------------------
(***************************************************************************)
(* The ledger implements Delivery. A step of Publication writes one row,   *)
(* or changes one request, or is not seen by the promise at all.           *)
(***************************************************************************)
PhaseOf   == [p \in Publications |-> Phase(ledger[p])]
OnItsWay  == {p \in Publications : \E a \in Attempts : request[a].pub = p /\ MayBePost(a)}
OnLinkedIn == {r \in Publications \X Attempts :
                  request[r[2]] = [pub |-> r[1], status |-> "accepted"]}

Kept == Promise!DeliveryNext \/ UNCHANGED <<PhaseOf, OnItsWay, OnLinkedIn>>

LEMMA PhaseOfRow ==
  ASSUME NEW row, row.state \in States
  PROVE  /\ row.state \in {"pending", "claimed"} => Phase(row) = "waiting"
         /\ row.state = "sending" => Phase(row) = "committed"
         /\ row.state = "unknown" => Phase(row) = "held"
         /\ row.state \in {"expired", "cancelled"} => Phase(row) = "withdrawn"
         /\ row.state \in {"published", "failed"} => Phase(row) = row.state
  BY DEF Phase, States

\* What is on LinkedIn was on its way there.
LEMMA PostWasExposed ==
  ASSUME NEW p \in Publications, p \notin OnItsWay
  PROVE  \A u \in Attempts : <<p, u>> \notin OnLinkedIn
  BY DEF OnItsWay, OnLinkedIn, MayBePost

LEMMA UnsentIsHidden ==
  ASSUME TypeOK, Inductive, NEW p \in Publications, ledger[p].state \notin Committed
  PROVE  p \notin OnItsWay
  BY DEF OnItsWay, MayBePost, Inductive, SpentIsCommitted, Spent

\* A row is written, under the condition Delivery puts on that move.
LEMMA RowKeepsPromise ==
  ASSUME TypeOK, NEW p \in Publications, NEW row, Put(p, row), UNCHANGED request,
         LET from == Phase(ledger[p])
             to   == Phase(row)
         IN  \/ from = to
             \/ from = "waiting" /\ to = "withdrawn"
             \/ from = "waiting" /\ to = "committed" /\ p \notin OnItsWay
             \/ from = "committed" /\ to = "waiting" /\ p \notin OnItsWay
             \/ from = "committed" /\ to = "held"
             \/ /\ from \in {"committed", "held"} /\ to = "published"
                /\ \E u \in Attempts : <<p, u>> \in OnLinkedIn
             \/ from = "committed" /\ to = "failed" /\ p \notin OnItsWay
             \/ /\ from = "held" /\ to = "failed"
                /\ \A u \in Attempts : <<p, u>> \notin OnLinkedIn
  PROVE  Kept
<1> DEFINE from == Phase(ledger[p])
           to   == Phase(row)
<1>1. PhaseOf' = [PhaseOf EXCEPT ![p] = to] /\ PhaseOf[p] = from
  BY DEF PhaseOf, Put, TypeOK
<1>2. OnItsWay' = OnItsWay /\ OnLinkedIn' = OnLinkedIn
  BY DEF OnItsWay, OnLinkedIn, MayBePost
<1>3. Promise!Move(p, from, to)
  BY <1>1 DEF Promise!Move, PhaseOf
<1>4. CASE from = to
  <2>1. PhaseOf' = PhaseOf
    BY <1>1, <1>4 DEF PhaseOf
  <2> QED
    BY <1>2, <2>1 DEF Kept
<1>5. CASE from = "waiting" /\ to = "withdrawn"
  <2>1. Promise!Withdraw(p)
    BY <1>2, <1>3, <1>5 DEF Promise!Withdraw, OnItsWay, OnLinkedIn
  <2> QED
    BY <2>1 DEF Kept, Promise!DeliveryNext
<1>6. CASE from = "waiting" /\ to = "committed" /\ p \notin OnItsWay
  <2>1. Promise!Commit(p)
    BY <1>2, <1>3, <1>6 DEF Promise!Commit, OnItsWay, OnLinkedIn
  <2> QED
    BY <2>1 DEF Kept, Promise!DeliveryNext
<1>7. CASE from = "committed" /\ to = "waiting" /\ p \notin OnItsWay
  <2>1. Promise!PutBack(p)
    BY <1>2, <1>3, <1>7 DEF Promise!PutBack, OnItsWay, OnLinkedIn
  <2> QED
    BY <2>1 DEF Kept, Promise!DeliveryNext
<1>8. CASE from = "committed" /\ to = "held"
  <2>1. Promise!Hold(p)
    BY <1>2, <1>3, <1>8 DEF Promise!Hold, OnItsWay, OnLinkedIn
  <2> QED
    BY <2>1 DEF Kept, Promise!DeliveryNext
<1>9. CASE /\ from \in {"committed", "held"} /\ to = "published"
           /\ \E u \in Attempts : <<p, u>> \in OnLinkedIn
  <2>1. Promise!Confirm(p)
    BY <1>2, <1>3, <1>9 DEF Promise!Confirm, OnItsWay, OnLinkedIn
  <2> QED
    BY <2>1 DEF Kept, Promise!DeliveryNext
<1>10. CASE from = "committed" /\ to = "failed" /\ p \notin OnItsWay
  <2>1. Promise!Fail(p)
    BY <1>2, <1>3, <1>10, PostWasExposed DEF Promise!Fail, OnItsWay, OnLinkedIn
  <2> QED
    BY <2>1 DEF Kept, Promise!DeliveryNext
<1>11. CASE /\ from = "held" /\ to = "failed"
            /\ \A u \in Attempts : <<p, u>> \notin OnLinkedIn
  <2>1. Promise!Fail(p)
    BY <1>2, <1>3, <1>11 DEF Promise!Fail, OnItsWay, OnLinkedIn
  <2> QED
    BY <2>1 DEF Kept, Promise!DeliveryNext
<1> QED
  BY <1>4, <1>5, <1>6, <1>7, <1>8, <1>9, <1>10, <1>11

LEMMA UnseenKeepsPromise ==
  ASSUME UNCHANGED <<ledger, request>>
  PROVE  Kept
  BY DEF Kept, PhaseOf, OnItsWay, OnLinkedIn, MayBePost
-----------------------------------------------------------------------------
\* Steps that write a row.
LEMMA SweepKeepsPromise ==
  ASSUME TypeOK, NEW w \in Workers, Sweep(w)
  PROVE  Kept
<1>1. UNCHANGED request
  BY DEF Sweep
<1>2. CASE UNCHANGED ledger
  BY <1>1, <1>2, UnseenKeepsPromise
<1>3. ASSUME NEW r \in todo[w], Holds(r[1], r[2], NoToken), Put(r[1], Swept(r[1], r[2]))
      PROVE  Kept
  <2>1. /\ r[1] \in Publications /\ r[2] \in {"pending", "claimed", "sending"}
        /\ ledger[r[1]] \in Row /\ ledger[r[1]].state = r[2]
    BY <1>3 DEF TypeOK, Holds
  <2>2. /\ r[2] = "pending" => Swept(r[1], r[2]).state = "expired"
        /\ r[2] = "claimed" => Swept(r[1], r[2]).state = "pending"
        /\ r[2] = "sending" => Swept(r[1], r[2]).state = "unknown"
    BY <2>1 DEF Swept, Freed, Row
  <2>3. \/ Phase(ledger[r[1]]) = Phase(Swept(r[1], r[2]))
        \/ Phase(ledger[r[1]]) = "waiting" /\ Phase(Swept(r[1], r[2])) = "withdrawn"
        \/ Phase(ledger[r[1]]) = "committed" /\ Phase(Swept(r[1], r[2])) = "held"
    BY <2>1, <2>2 DEF Phase
  <2> QED
    BY <1>1, <1>3, <2>1, <2>3, RowKeepsPromise
<1> QED
  BY <1>2, <1>3 DEF Sweep

LEMMA WaitingRowKeepsPromise ==
  ASSUME TypeOK, NEW p \in Publications, ledger[p].state \in {"pending", "claimed"},
         NEW row, row.state \in {"pending", "claimed", "cancelled"}, Put(p, row),
         UNCHANGED request
  PROVE  Kept
<1>1. Phase(ledger[p]) = "waiting" /\ Phase(row) \in {"waiting", "withdrawn"}
  BY DEF Phase
<1> QED
  BY <1>1, RowKeepsPromise

LEMMA ClaimKeepsPromise ==
  ASSUME TypeOK, NEW w \in Workers, Claim(w)
  PROVE  Kept
<1>1. UNCHANGED request
  BY DEF Claim
<1>2. CASE UNCHANGED ledger
  BY <1>1, <1>2, UnseenKeepsPromise
<1>3. ASSUME NEW r \in todo[w], Holds(r[1], "pending", NoToken), NEW a \in Attempts,
             Put(r[1], [ledger[r[1]] EXCEPT !.state = "claimed", !.token = a,
                                            !.lease = moment[w] + Lease])
      PROVE  Kept
  <2> DEFINE row == [ledger[r[1]] EXCEPT !.state = "claimed", !.token = a,
                                         !.lease = moment[w] + Lease]
  <2>1. /\ r[1] \in Publications /\ ledger[r[1]] \in Row
        /\ ledger[r[1]].state = "pending"
    BY <1>3 DEF TypeOK, Holds
  <2>2. row.state = "claimed"
    BY <2>1 DEF Row
  <2>3. Put(r[1], row)
    BY <1>3
  <2> HIDE DEF row
  <2> QED
    BY <1>1, <2>1, <2>2, <2>3, WaitingRowKeepsPromise
<1> QED
  BY <1>2, <1>3 DEF Claim

LEMMA ReleaseKeepsPromise ==
  ASSUME TypeOK, Inductive, NEW w \in Workers, Release(w)
  PROVE  Kept
<1>1. UNCHANGED request /\ cur[w] \in Publications
  BY DEF Release, Inductive, AttemptsOwned, Busy, Claiming
<1>2. CASE UNCHANGED ledger
  BY <1>1, <1>2, UnseenKeepsPromise
<1>3. CASE Holds(cur[w], "claimed", attempt[w]) /\ Put(cur[w], Freed(cur[w], "pending"))
  <2>1. ledger[cur[w]].state = "claimed" /\ Freed(cur[w], "pending").state = "pending"
    BY <1>1, <1>3 DEF Holds, TypeOK, Freed, Row
  <2> QED
    BY <1>1, <1>3, <2>1, WaitingRowKeepsPromise
<1> QED
  BY <1>2, <1>3 DEF Release

LEMMA CancelKeepsPromise ==
  ASSUME TypeOK, NEW p \in Publications, Cancel(p)
  PROVE  Kept
<1>1. /\ UNCHANGED request /\ ledger[p].state \in {"pending", "claimed"}
      /\ Put(p, Freed(p, "cancelled"))
  BY DEF Cancel, CancelFrom
<1>2. Freed(p, "cancelled").state = "cancelled"
  BY DEF TypeOK, Freed, Row
<1> QED
  BY <1>1, <1>2, WaitingRowKeepsPromise

LEMMA CommitKeepsPromise ==
  ASSUME TypeOK, Inductive, NEW w \in Workers, CommitSending(w)
  PROVE  Kept
<1>1. UNCHANGED request /\ cur[w] \in Publications
  BY DEF CommitSending, CommitUnder, Inductive, AttemptsOwned, Busy, Claiming
<1>2. CASE UNCHANGED ledger
  BY <1>1, <1>2, UnseenKeepsPromise
<1>3. CASE /\ Holds(cur[w], "claimed", attempt[w])
           /\ Put(cur[w], [ledger[cur[w]] EXCEPT !.state = "sending"])
  <2>1. /\ ledger[cur[w]].state = "claimed"
        /\ [ledger[cur[w]] EXCEPT !.state = "sending"].state = "sending"
    BY <1>1, <1>3 DEF Holds, TypeOK, Row
  <2>2. /\ Phase(ledger[cur[w]]) = "waiting"
        /\ Phase([ledger[cur[w]] EXCEPT !.state = "sending"]) = "committed"
    BY <2>1 DEF Phase
  <2>3. cur[w] \notin OnItsWay
    BY <1>1, <2>1, UnsentIsHidden DEF Committed
  <2> QED
    BY <1>1, <1>3, <2>2, <2>3, RowKeepsPromise
<1> QED
  BY <1>2, <1>3 DEF CommitSending, CommitUnder

\* The end of a send, which OutcomeIsTrue says is what became of its request.
LEMMA SettleKeepsPromise ==
  ASSUME TypeOK, Inductive, NEW w \in Workers, Settle(w)
  PROVE  Kept
<1> DEFINE p == cur[w]
<1>1. /\ UNCHANGED request /\ pc[w] = "settle"
      /\ p \in Publications /\ attempt[w] \in Attempts
  BY DEF Settle, Inductive, AttemptsOwned, Busy, Sending
<1>2. CASE UNCHANGED ledger
  BY <1>1, <1>2, UnseenKeepsPromise
<1>3. CASE Holds(p, "sending", attempt[w]) /\ Put(p, Settled(w))
  <2>1. /\ ledger[p] \in Row /\ outcome[w] \in Outcome /\ ledger[p].state = "sending"
        /\ Phase(ledger[p]) = "committed"
    BY <1>1, <1>3 DEF TypeOK, Holds, Phase
  <2>2. Settled(w).state = outcome[w].state
    BY <2>1 DEF Settled, Freed, Row, Outcome
  <2>3. CASE outcome[w].state = "published"
    <3>1. <<p, attempt[w]>> \in OnLinkedIn
      BY <1>1, <2>3 DEF Inductive, OutcomeIsTrue, OnLinkedIn
    <3>2. Phase(Settled(w)) = "published"
      BY <2>2, <2>3 DEF Phase
    <3> QED
      BY <1>1, <1>3, <2>1, <3>1, <3>2, RowKeepsPromise
  <2>4. CASE outcome[w].state = "pending"
    <3>1. p \notin OnItsWay
      BY <1>1, <2>4 DEF Inductive, OutcomeIsTrue, OnItsWay, MayBePost, Spent
    <3>2. Phase(Settled(w)) = "waiting"
      BY <2>2, <2>4 DEF Phase
    <3> QED
      BY <1>1, <1>3, <2>1, <3>1, <3>2, RowKeepsPromise
  <2>5. CASE outcome[w].state = "failed"
    <3>1. p \notin OnItsWay
      BY <1>1, <2>5 DEF Inductive, OutcomeIsTrue, OnItsWay
    <3>2. Phase(Settled(w)) = "failed"
      BY <2>2, <2>5 DEF Phase
    <3> QED
      BY <1>1, <1>3, <2>1, <3>1, <3>2, RowKeepsPromise
  <2>6. CASE outcome[w].state = "unknown"
    <3>1. Phase(Settled(w)) = "held"
      BY <2>2, <2>6 DEF Phase
    <3> QED
      BY <1>1, <1>3, <2>1, <3>1, RowKeepsPromise
  <2> QED
    BY <2>1, <2>3, <2>4, <2>5, <2>6 DEF Outcome
<1> QED
  BY <1>2, <1>3 DEF Settle

LEMMA ReconcileKeepsPromise ==
  ASSUME TypeOK, NEW p \in Publications, Reconcile(p)
  PROVE  Kept
<1>1. UNCHANGED request /\ ledger[p] \in Row /\ Phase(ledger[p]) = "held"
  BY DEF Reconcile, TypeOK, Phase
<1>2. ASSUME NEW a \in Attempts, request[a] = [pub |-> p, status |-> "accepted"],
             Put(p, [ledger[p] EXCEPT !.state = "published", !.urn = a])
      PROVE  Kept
  <2>1. <<p, a>> \in OnLinkedIn
    BY <1>2 DEF OnLinkedIn
  <2>2. [ledger[p] EXCEPT !.state = "published", !.urn = a].state = "published"
    BY <1>1 DEF Row
  <2>3. Phase([ledger[p] EXCEPT !.state = "published", !.urn = a]) = "published"
    BY <2>2 DEF Phase
  <2> QED
    BY <1>1, <1>2, <2>1, <2>3, RowKeepsPromise
<1>3. CASE /\ \A a \in Attempts : request[a] # [pub |-> p, status |-> "accepted"]
           /\ Put(p, [ledger[p] EXCEPT !.state = "failed", !.code = "operator"])
  <2>1. \A u \in Attempts : <<p, u>> \notin OnLinkedIn
    BY <1>3 DEF OnLinkedIn
  <2>2. [ledger[p] EXCEPT !.state = "failed", !.code = "operator"].state = "failed"
    BY <1>1 DEF Row
  <2>3. Phase([ledger[p] EXCEPT !.state = "failed", !.code = "operator"]) = "failed"
    BY <2>2 DEF Phase
  <2> QED
    BY <1>1, <1>3, <2>1, <2>3, RowKeepsPromise
<1> QED
  BY <1>2, <1>3 DEF Reconcile

-----------------------------------------------------------------------------
\* Steps that change a request.
LEMMA PromiseStepIsKept ==
  ASSUME NEW p \in Publications, NEW u \in Attempts,
         Promise!Expose(p) \/ Promise!Refuse(p) \/ Promise!Appear(p, u)
  PROVE  Kept
BY DEF Kept, Promise!DeliveryNext

LEMMA TransmitKeepsPromise ==
  ASSUME TypeOK, Inductive, NEW w \in Workers, Transmit(w)
  PROVE  Kept
<1> DEFINE p == cur[w]
           a == attempt[w]
<1>1. /\ pc[w] = "client" /\ UNCHANGED ledger
      /\ p \in Publications /\ a \in Attempts /\ ~Spent(a)
  BY NamesAssumption
  DEF Transmit, Inductive, AttemptsOwned, Busy, Sending, Unsent
<1>2. /\ request'[a] = [pub |-> p, status |-> "inflight"]
      /\ \A b \in Attempts \ {a} : request'[b] = request[b]
  BY <1>1 DEF Transmit, TypeOK
<1>3. \A b \in Attempts : Spent(b) => request[b].pub # p
  BY <1>1 DEF Inductive, SenderRequests
<1>4. p \notin OnItsWay
  BY <1>3 DEF OnItsWay, MayBePost, Spent
<1>5. OnItsWay' = OnItsWay \cup {p}
  <2>1. \A b \in Attempts : MayBePost(b)' <=> MayBePost(b) \/ b = a
    BY <1>1, <1>2 DEF MayBePost
  <2>2. ~MayBePost(a)
    BY <1>1 DEF MayBePost, Spent
  <2> QED
    BY <1>1, <1>2, <2>1, <2>2 DEF OnItsWay
<1>6. OnLinkedIn' = OnLinkedIn
  BY <1>1, <1>2 DEF OnLinkedIn, Spent
<1>7. ledger[p].state \in Committed \ {"published"}
  <2>1. ledger[p].state \in Committed
    BY <1>1 DEF Inductive, SendersHoldRow, Sending
  <2>2. ledger[p].state # "published"
    <3>1. SUFFICES ASSUME ledger[p].state = "published" PROVE FALSE
      OBVIOUS
    <3>2. /\ ledger[p].urn \in Attempts
          /\ request[ledger[p].urn] = [pub |-> p, status |-> "accepted"]
      BY <1>1, <3>1 DEF Inductive, ReceiptIsReal
    <3> QED
      BY <1>3, <3>2 DEF Spent
  <2> QED
    BY <2>1, <2>2
<1>8. PhaseOf' = PhaseOf /\ PhaseOf[p] \notin {"waiting", "withdrawn", "published"}
  BY <1>1, <1>7 DEF PhaseOf, Phase, Committed
<1>9. ASSUME NEW q \in Publications, q = p PROVE Kept
  <2>1. Promise!Expose(q)
    BY <1>4, <1>5, <1>6, <1>8, <1>9 DEF Promise!Expose, PhaseOf, OnItsWay, OnLinkedIn
  <2> QED
    BY <1>1, <2>1, PromiseStepIsKept
<1> QED
  BY <1>1, <1>9

\* A throttled request was no longer on its way.
LEMMA ReceiveKeepsPromise ==
  ASSUME TypeOK, Inductive, NEW w \in Workers, Receive(w)
  PROVE  Kept
<1>1. UNCHANGED ledger
  BY DEF Receive
<1>2. CASE UNCHANGED request
  BY <1>1, <1>2, UnseenKeepsPromise
<1>3. CASE /\ request[attempt[w]].status = "throttled"
           /\ request' = [request EXCEPT ![attempt[w]] = NoRequest]
  <2>1. attempt[w] \in Attempts
    BY DEF Receive, Inductive, AttemptsOwned, Busy, Sending
  <2>2. /\ request'[attempt[w]].status = "none"
        /\ \A b \in Attempts \ {attempt[w]} : request'[b] = request[b]
    BY <1>3, <2>1 DEF TypeOK, NoRequest
  <2>3. OnItsWay' = OnItsWay
    BY <1>3, <2>1, <2>2 DEF OnItsWay, MayBePost
  <2>4. OnLinkedIn' = OnLinkedIn
    BY <1>3, <2>1, <2>2 DEF OnLinkedIn
  <2> QED
    BY <1>1, <2>3, <2>4 DEF Kept, PhaseOf
<1> QED
  BY <1>2, <1>3 DEF Receive

LEMMA AnswerKeepsPromise ==
  ASSUME TypeOK, Inductive, NEW a \in Attempts,
         NEW status \in {"accepted", "refused", "throttled"}, Answer(a, status)
  PROVE  Kept
<1> DEFINE p == request[a].pub
<1>1. UNCHANGED ledger /\ request[a].status = "inflight" /\ request[a] \in Request
  BY DEF Answer, TypeOK
<1>2. /\ request'[a] = [pub |-> p, status |-> status]
      /\ \A b \in Attempts \ {a} : request'[b] = request[b]
  <2>1. request' = [request EXCEPT ![a] = [request[a] EXCEPT !.status = status]]
    BY DEF Answer
  <2> QED
    BY <1>1, <2>1 DEF Request, TypeOK
<1>3. p \in Publications /\ p \in OnItsWay
  BY <1>1 DEF Inductive, SpentIsCommitted, Spent, OnItsWay, MayBePost
<1>4. \A b \in Attempts \ {a} : Spent(b) => request[b].pub # p
  BY <1>1 DEF Inductive, NoReplay, Spent
<1>5. \A u \in Attempts : <<p, u>> \notin OnLinkedIn
  BY <1>1, <1>4 DEF OnLinkedIn, Spent
<1>6. PhaseOf' = PhaseOf
  BY <1>1 DEF PhaseOf
<1>7. CASE status = "accepted"
  <2>1. OnItsWay' = OnItsWay
    BY <1>1, <1>2, <1>7 DEF OnItsWay, MayBePost
  <2>2. OnLinkedIn' = OnLinkedIn \cup {<<p, a>>}
    BY <1>1, <1>2, <1>3, <1>7 DEF OnLinkedIn
  <2>3. Promise!Appear(p, a)
    BY <1>3, <1>5, <1>6, <2>1, <2>2 DEF Promise!Appear, PhaseOf, OnItsWay, OnLinkedIn
  <2> QED
    BY <1>3, <2>3, PromiseStepIsKept
<1>8. CASE status # "accepted"
  <2>1. OnItsWay' = OnItsWay \ {p}
    <3>1. \A b \in Attempts : MayBePost(b)' <=> MayBePost(b) /\ b # a
      BY <1>1, <1>2, <1>8 DEF MayBePost
    <3>2. \A b \in Attempts : MayBePost(b) /\ b # a =>
              request[b].pub # p /\ request'[b] = request[b]
      BY <1>2, <1>4 DEF MayBePost, Spent
    <3> QED
      BY <1>1, <1>2, <3>1, <3>2 DEF OnItsWay
  <2>2. OnLinkedIn' = OnLinkedIn
    BY <1>1, <1>2, <1>8 DEF OnLinkedIn
  <2>3. ASSUME NEW q \in Publications, q = p PROVE Kept
    <3>1. Promise!Refuse(q)
      BY <1>3, <1>5, <1>6, <2>1, <2>2, <2>3
      DEF Promise!Refuse, PhaseOf, OnItsWay, OnLinkedIn
    <3> QED
      BY <3>1, PromiseStepIsKept
  <2> QED
    BY <1>3, <2>3
<1> QED
  BY <1>7, <1>8

LEMMA EveryStepKeepsPromise ==
  ASSUME TypeOK, Inductive, [Next]_vars
  PROVE  Kept
<1>1. ASSUME NEW w \in Workers, Step(w) PROVE Kept
  <2>1. ASSUME \/ BeginTick(w) \/ ReadOverdue(w) \/ ReadLeases(w) \/ RecordSweep(w)
               \/ EndSweep(w) \/ FindDue(w) \/ EndTick(w)
        PROVE  UNCHANGED <<ledger, request>>
    BY <2>1 DEF BeginTick, ReadOverdue, ReadLeases, RecordSweep, EndSweep, FindDue, EndTick
  <2>2. ASSUME \/ Gate(w) \/ CheckGrant(w) \/ ConsumeGrant(w) \/ GetCredentials(w)
               \/ Withhold(w) \/ LoseAnswer(w) \/ RecordOutcome(w)
        PROVE  UNCHANGED <<ledger, request>>
    BY <2>2 DEF Gate, CheckGrant, ConsumeGrant, GetCredentials, Withhold, LoseAnswer,
       LoseAnswerAs, RecordOutcome
  <2> QED
    BY <1>1, <2>1, <2>2, UnseenKeepsPromise, SweepKeepsPromise, ClaimKeepsPromise,
       ReleaseKeepsPromise, CommitKeepsPromise, SettleKeepsPromise, TransmitKeepsPromise,
       ReceiveKeepsPromise
    DEF Step
<1>2. ASSUME NEW w \in Workers, Crash(w) PROVE Kept
  BY <1>2, UnseenKeepsPromise DEF Crash
<1>3. ASSUME NEW a \in Attempts, Accept(a) \/ Refuse(a) \/ Throttle(a) PROVE Kept
  BY <1>3, AnswerKeepsPromise DEF Accept, Refuse, Throttle
<1>4. ASSUME NEW p \in Publications, Approve(p) \/ Revoke(p) \/ Commission(p) PROVE Kept
  BY <1>4, UnseenKeepsPromise DEF Approve, Revoke, Commission
<1>5. CASE SetSwitch \/ AdvanceClock \/ UNCHANGED vars
  BY <1>5, UnseenKeepsPromise DEF SetSwitch, AdvanceClock, vars
<1> QED
  BY <1>1, <1>2, <1>3, <1>4, <1>5, CancelKeepsPromise, ReconcileKeepsPromise DEF Next

\* PublicationService over the Postgres ledger implements Delivery: a request
\* leaves only for a publication committed to sending, at most one that was not
\* turned away ever exists, and a publication waits again only when none does
\* (README, "The one guarantee"; store.py:58).
THEOREM PublicationKeepsPromise == Spec => KeepsPromise
<1>1. Init => Promise!DeliveryInit
  <2> SUFFICES ASSUME Init PROVE Promise!DeliveryInit
    OBVIOUS
  <2>1. PhaseOf = [p \in Publications |-> "waiting"]
    BY DEF Init, PhaseOf, Phase
  <2>2. OnItsWay = {} /\ OnLinkedIn = {}
    BY DEF Init, OnItsWay, OnLinkedIn, MayBePost, NoRequest
  <2> QED
    BY <2>1, <2>2 DEF Promise!DeliveryInit, PhaseOf, OnItsWay, OnLinkedIn
<1>2. TypeOK /\ Inductive /\ [Next]_vars => [Promise!DeliveryNext]_(Promise!deliveryVars)
  BY EveryStepKeepsPromise
  DEF Kept, Promise!deliveryVars, PhaseOf, OnItsWay, OnLinkedIn
<1> QED
  BY <1>1, <1>2, Invariance, PTL DEF Spec, KeepsPromise, Promise!DeliverySpec

\* What the promise is worth: no publication is ever posted twice, and nothing
\* stands on LinkedIn, nor travels there, for one that waits or was withdrawn.
THEOREM PublicationIsSafe == Spec => [](Promise!AtMostOnePost /\ Promise!NothingOutstanding)
<1>1. KeepsPromise => [](Promise!AtMostOnePost /\ Promise!NothingOutstanding)
  BY Promise!DeliveryIsSafe DEF KeepsPromise
<1> QED
  BY <1>1, PublicationKeepsPromise
=============================================================================
