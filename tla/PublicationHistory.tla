------------------------- MODULE PublicationHistory -------------------------
(***************************************************************************)
(* What the steps of Publication do to its records: how a row may move,    *)
(* that the audit trail tells of no write that did not happen, that no     *)
(* request leaves early, and that a grant licenses one request. All of it  *)
(* follows from Bookkeeping, which is inductive given Inductive. A worker  *)
(* changes nothing of another's memory, so each part of Bookkeeping is     *)
(* shown twice: for the worker that steps, and for the bystanders, who see *)
(* the records only move the way the first lemmas say.                     *)
(***************************************************************************)
EXTENDS PublicationProofs

LEMMA InitBookkeeping == Init => Bookkeeping
BY NamesAssumption
   DEF Init, Bookkeeping, ClaimIsExclusive, AuditIsTrue, GrantsAreSpent, TickIsInOrder,
       MomentIsPast, SweepAgrees, EndAgrees, EventsPrecede, SlotHasCome, LicenceIsOwn,
       GatesWereOpen, Departing, Licensing, Sending, NoTime, NoRequest

-----------------------------------------------------------------------------
(***************************************************************************)
(* How a row moves: a claim opens it, a commit moves it on under the same  *)
(* claim, everything else gives the claim up.                              *)
(***************************************************************************)
Opened(p) ==
    /\ ledger[p].state = "pending" /\ ledger'[p].state = "claimed"
    /\ ledger'[p].token \in Attempts /\ Fresh(ledger'[p].token)
    /\ ledger'[p].lease # NoTime
    /\ ledger'[p].notBefore = ledger[p].notBefore

Advanced(p) ==
    /\ ledger[p].state = "claimed" /\ ledger'[p].state = "sending"
    /\ ledger'[p].token = ledger[p].token
    /\ ledger'[p].lease = ledger[p].lease
    /\ ledger'[p].notBefore = ledger[p].notBefore

Closed(p) ==
    /\ ledger'[p].state \in AllowedTransitions[ledger[p].state] \ {"claimed", "sending"}
    /\ ledger'[p].token = NoToken /\ ledger'[p].lease = NoTime
    /\ \/ ledger'[p].notBefore = ledger[p].notBefore
       \/ \E w \in Workers : pc[w] = "settle" /\ cur[w] = p

Moved(p) ==
    /\ Opened(p) \/ Advanced(p) \/ Closed(p)
    /\ \A q \in Publications \ {p} : ledger'[q] = ledger[q]

LedgerMoves == UNCHANGED ledger \/ \E p \in Publications : Moved(p)

\* One row is put, in a way the shorthands above name.
LEMMA PutMoves ==
  ASSUME TypeOK, NEW p \in Publications, NEW row, Put(p, row),
         row.state \in AllowedTransitions[ledger[p].state] \ {"claimed", "sending"},
         row.token = NoToken, row.lease = NoTime,
         \/ row.notBefore = ledger[p].notBefore
         \/ \E w \in Workers : pc[w] = "settle" /\ cur[w] = p
  PROVE  LedgerMoves
<1>1. ledger'[p] = row /\ \A q \in Publications \ {p} : ledger'[q] = ledger[q]
  BY DEF Put, TypeOK
<1> QED
  BY <1>1 DEF LedgerMoves, Moved, Closed

\* The table of store.py:55, state by state.
LEMMA TransitionTable ==
  /\ AllowedTransitions["pending"]   = {"claimed", "expired", "cancelled"}
  /\ AllowedTransitions["claimed"]   = {"pending", "sending", "cancelled"}
  /\ AllowedTransitions["sending"]   = {"published", "pending", "failed", "unknown"}
  /\ AllowedTransitions["unknown"]   = {"published", "failed"}
  /\ \A s \in {"published", "failed", "expired", "cancelled"} : AllowedTransitions[s] = {}
BY DEF AllowedTransitions, States

LEMMA FreedRow ==
  ASSUME TypeOK, NEW p \in Publications, NEW s \in States
  PROVE  /\ Freed(p, s).state = s /\ Freed(p, s).token = NoToken
         /\ Freed(p, s).lease = NoTime /\ Freed(p, s).notBefore = ledger[p].notBefore
<1>1. ledger[p] \in Row
  BY DEF TypeOK
<1> QED
  BY <1>1 DEF Freed, Row

\* A row nobody has claimed names no attempt.
LEMMA UnclaimedRow ==
  ASSUME TypeOK, ClaimIsExclusive, NEW p \in Publications,
         ledger[p].state \notin {"claimed", "sending"}
  PROVE  ledger[p].token = NoToken /\ ledger[p].lease = NoTime
BY DEF ClaimIsExclusive

LEMMA SweepMoves ==
  ASSUME TypeOK, ClaimIsExclusive, NEW w \in Workers, Sweep(w)
  PROVE  LedgerMoves
<1>1. CASE UNCHANGED ledger
  BY <1>1 DEF LedgerMoves
<1>2. ASSUME NEW r \in todo[w], Holds(r[1], r[2], NoToken), Put(r[1], Swept(r[1], r[2]))
      PROVE  LedgerMoves
  <2>1. /\ r[1] \in Publications /\ ledger[r[1]] \in Row /\ ledger[r[1]].state = r[2]
        /\ r[2] \in {"pending", "claimed", "sending"}
    BY <1>2 DEF TypeOK, Holds
  <2> DEFINE row == Swept(r[1], r[2])
  <2>2. /\ row.state \in AllowedTransitions[r[2]] \ {"claimed", "sending"}
        /\ row.token = NoToken /\ row.lease = NoTime
        /\ row.notBefore = ledger[r[1]].notBefore
    <3>1. CASE r[2] = "pending"
      <4>1. row = [ledger[r[1]] EXCEPT !.state = "expired"]
        BY <3>1 DEF Swept
      <4> QED
        BY <2>1, <3>1, <4>1, UnclaimedRow, TransitionTable DEF Row
    <3>2. CASE r[2] = "claimed"
      BY <2>1, <3>2, FreedRow, TransitionTable DEF Swept, States
    <3>3. CASE r[2] = "sending"
      <4>1. row = [Freed(r[1], "unknown") EXCEPT !.code = "unknown"]
        BY <3>3 DEF Swept
      <4>2. Freed(r[1], "unknown") \in Row
        BY <2>1, FreedType DEF States
      <4> HIDE DEF row
      <4> QED
        BY <2>1, <3>3, <4>1, <4>2, FreedRow, TransitionTable DEF Row, States
    <3> QED
      BY <2>1, <3>1, <3>2, <3>3
  <2>3. Put(r[1], row)
    BY <1>2
  <2> HIDE DEF row
  <2> QED
    BY <2>1, <2>2, <2>3, PutMoves
<1> QED
  BY <1>1, <1>2 DEF Sweep
LEMMA ClaimMoves ==
  ASSUME TypeOK, NEW w \in Workers, Claim(w)
  PROVE  LedgerMoves
<1>1. CASE UNCHANGED ledger
  BY <1>1 DEF LedgerMoves
<1>2. ASSUME NEW r \in todo[w], Holds(r[1], "pending", NoToken), NEW a \in Attempts, Fresh(a),
             Put(r[1], [ledger[r[1]] EXCEPT !.state = "claimed", !.token = a,
                                            !.lease = moment[w] + Lease])
      PROVE  LedgerMoves
  <2>1. /\ r[1] \in Publications /\ ledger[r[1]] \in Row
        /\ ledger[r[1]].state = "pending"
    BY <1>2 DEF TypeOK, Holds
  <2>2. moment[w] + Lease # NoTime
    BY TimesAreNat DEF TypeOK, NoTime
  <2>3. ledger'[r[1]] = [ledger[r[1]] EXCEPT !.state = "claimed", !.token = a,
                                             !.lease = moment[w] + Lease]
    BY <1>2, <2>1 DEF Put, TypeOK
  <2>4. /\ ledger'[r[1]].state = "claimed" /\ ledger'[r[1]].token = a
        /\ ledger'[r[1]].lease # NoTime
        /\ ledger'[r[1]].notBefore = ledger[r[1]].notBefore
    BY <2>1, <2>2, <2>3 DEF Row
  <2>5. Opened(r[1])
    BY <1>2, <2>1, <2>4 DEF Opened
  <2>6. \A q \in Publications \ {r[1]} : ledger'[q] = ledger[q]
    BY <1>2, <2>1 DEF Put, TypeOK
  <2> QED
    BY <2>1, <2>5, <2>6 DEF LedgerMoves, Moved
<1> QED
  BY <1>1, <1>2 DEF Claim

LEMMA ReleaseMoves ==
  ASSUME TypeOK, AttemptsOwned, NEW w \in Workers, Release(w)
  PROVE  LedgerMoves
<1>1. CASE UNCHANGED ledger
  BY <1>1 DEF LedgerMoves
<1>2. CASE Holds(cur[w], "claimed", attempt[w]) /\ Put(cur[w], Freed(cur[w], "pending"))
  <2>1. cur[w] \in Publications /\ ledger[cur[w]].state = "claimed"
    BY <1>2 DEF Release, Holds, AttemptsOwned, Busy, Claiming
  <2> QED
    BY <1>2, <2>1, FreedRow, PutMoves, TransitionTable DEF States
<1> QED
  BY <1>1, <1>2 DEF Release

LEMMA CommitMoves ==
  ASSUME TypeOK, AttemptsOwned, NEW w \in Workers, CommitSending(w)
  PROVE  LedgerMoves
<1>1. CASE UNCHANGED ledger
  BY <1>1 DEF LedgerMoves
<1>2. CASE /\ Holds(cur[w], "claimed", attempt[w])
           /\ Put(cur[w], [ledger[cur[w]] EXCEPT !.state = "sending"])
  <2>1. /\ cur[w] \in Publications /\ ledger[cur[w]] \in Row
        /\ ledger[cur[w]].state = "claimed"
    BY <1>2 DEF CommitSending, CommitUnder, Holds, AttemptsOwned, Busy, Claiming, TypeOK
  <2>2. /\ ledger'[cur[w]] = [ledger[cur[w]] EXCEPT !.state = "sending"]
        /\ \A q \in Publications \ {cur[w]} : ledger'[q] = ledger[q]
    BY <1>2, <2>1 DEF Put, TypeOK
  <2>3. Advanced(cur[w])
    BY <2>1, <2>2 DEF Advanced, Row
  <2> QED
    BY <2>1, <2>2, <2>3 DEF LedgerMoves, Moved
<1> QED
  BY <1>1, <1>2 DEF CommitSending, CommitUnder

\* The row an outcome writes is in the outcome's state.
LEMMA SettledRow ==
  ASSUME TypeOK, NEW w \in Workers, cur[w] \in Publications, attempt[w] \in Attempts
  PROVE  /\ Settled(w).state = outcome[w].state
         /\ Settled(w).token = NoToken /\ Settled(w).lease = NoTime
<1>1. outcome[w].state \in {"published", "pending", "failed", "unknown"}
  BY DEF TypeOK, Outcome
<1>2. \A s \in {"published", "pending", "failed", "unknown"} :
          /\ Freed(cur[w], s) \in Row /\ Freed(cur[w], s).state = s
          /\ Freed(cur[w], s).token = NoToken /\ Freed(cur[w], s).lease = NoTime
  BY FreedRow, FreedType DEF States
<1>3. CASE outcome[w].state = "published"
  <2>1. Settled(w) = [Freed(cur[w], "published") EXCEPT !.urn = attempt[w]]
    BY <1>3 DEF Settled
  <2> QED
    BY <1>2, <1>3, <2>1 DEF Row
<1>4. CASE outcome[w].state = "pending"
  <2>1. Settled(w) = [Freed(cur[w], "pending") EXCEPT !.notBefore = outcome[w].notBefore,
                                                      !.code = "deferred"]
    BY <1>4 DEF Settled
  <2> QED
    BY <1>2, <1>4, <2>1 DEF Row
<1>5. CASE outcome[w].state = "failed"
  <2>1. Settled(w) = [Freed(cur[w], "failed") EXCEPT !.code = "refused"]
    BY <1>5 DEF Settled
  <2> QED
    BY <1>2, <1>5, <2>1 DEF Row
<1>6. CASE outcome[w].state = "unknown"
  <2>1. Settled(w) = [Freed(cur[w], "unknown") EXCEPT !.code = "unknown"]
    BY <1>6 DEF Settled
  <2> QED
    BY <1>2, <1>6, <2>1 DEF Row
<1> QED
  BY <1>1, <1>3, <1>4, <1>5, <1>6

LEMMA SettleMoves ==
  ASSUME TypeOK, AttemptsOwned, NEW w \in Workers, Settle(w)
  PROVE  LedgerMoves
<1>1. CASE UNCHANGED ledger
  BY <1>1 DEF LedgerMoves
<1>2. CASE Holds(cur[w], "sending", attempt[w]) /\ Put(cur[w], Settled(w))
  <2>1. /\ cur[w] \in Publications /\ attempt[w] \in Attempts
        /\ pc[w] = "settle" /\ ledger[cur[w]].state = "sending"
    BY <1>2 DEF Settle, Holds, AttemptsOwned, Busy, Sending
  <2>2. outcome[w].state \in {"published", "pending", "failed", "unknown"}
    BY DEF TypeOK, Outcome
  <2> QED
    BY <1>2, <2>1, <2>2, SettledRow, PutMoves, TransitionTable
<1> QED
  BY <1>1, <1>2 DEF Settle

LEMMA CancelMoves ==
  ASSUME TypeOK, NEW p \in Publications, Cancel(p)
  PROVE  LedgerMoves
BY FreedRow, PutMoves, TransitionTable DEF Cancel, CancelFrom, States

LEMMA ReconcileMoves ==
  ASSUME TypeOK, ClaimIsExclusive, NEW p \in Publications, Reconcile(p)
  PROVE  LedgerMoves
<1>1. /\ ledger[p] \in Row /\ ledger[p].state = "unknown"
      /\ ledger[p].token = NoToken /\ ledger[p].lease = NoTime
  BY UnclaimedRow DEF TypeOK, Reconcile
<1>2. ASSUME NEW a \in Attempts,
             Put(p, [ledger[p] EXCEPT !.state = "published", !.urn = a])
      PROVE  LedgerMoves
  <2>1. /\ ledger'[p] = [ledger[p] EXCEPT !.state = "published", !.urn = a]
        /\ \A q \in Publications \ {p} : ledger'[q] = ledger[q]
    BY <1>2 DEF Put, TypeOK
  <2>2. Closed(p)
    BY <1>1, <2>1, TransitionTable DEF Closed, Row
  <2> QED
    BY <2>1, <2>2 DEF LedgerMoves, Moved
<1>3. ASSUME Put(p, [ledger[p] EXCEPT !.state = "failed", !.code = "operator"])
      PROVE  LedgerMoves
  <2>1. /\ ledger'[p] = [ledger[p] EXCEPT !.state = "failed", !.code = "operator"]
        /\ \A q \in Publications \ {p} : ledger'[q] = ledger[q]
    BY <1>3 DEF Put, TypeOK
  <2>2. Closed(p)
    BY <1>1, <2>1, TransitionTable DEF Closed, Row
  <2> QED
    BY <2>1, <2>2 DEF LedgerMoves, Moved
<1> QED
  BY <1>2, <1>3 DEF Reconcile

LEMMA EveryStepMoves ==
  ASSUME TypeOK, AttemptsOwned, ClaimIsExclusive, [Next]_vars
  PROVE  LedgerMoves
<1>1. ASSUME NEW w \in Workers, Step(w) PROVE LedgerMoves
  <2>1. CASE \/ BeginTick(w) \/ ReadOverdue(w) \/ ReadLeases(w) \/ RecordSweep(w)
             \/ EndSweep(w) \/ FindDue(w) \/ EndTick(w)
    BY <2>1 DEF BeginTick, ReadOverdue, ReadLeases, RecordSweep, EndSweep, FindDue,
       EndTick, LedgerMoves
  <2>2. CASE \/ Gate(w) \/ CheckGrant(w) \/ ConsumeGrant(w) \/ GetCredentials(w)
             \/ Withhold(w) \/ Transmit(w) \/ Receive(w) \/ LoseAnswer(w) \/ RecordOutcome(w)
    BY <2>2 DEF Gate, CheckGrant, ConsumeGrant, GetCredentials, Withhold, Transmit, Receive,
       LoseAnswer, LoseAnswerAs, RecordOutcome, LedgerMoves
  <2> QED
    BY <1>1, <2>1, <2>2, SweepMoves, ClaimMoves, ReleaseMoves, CommitMoves, SettleMoves
    DEF Step
<1>2. ASSUME NEW w \in Workers, Crash(w) PROVE LedgerMoves
  BY <1>2 DEF Crash, LedgerMoves
<1>3. ASSUME NEW a \in Attempts, Accept(a) \/ Refuse(a) \/ Throttle(a) PROVE LedgerMoves
  BY <1>3 DEF Accept, Refuse, Throttle, Answer, LedgerMoves
<1>4. ASSUME NEW p \in Publications, Approve(p) \/ Revoke(p) \/ Commission(p)
      PROVE  LedgerMoves
  BY <1>4 DEF Approve, Revoke, Commission, LedgerMoves
<1>5. CASE SetSwitch \/ AdvanceClock \/ UNCHANGED vars
  BY <1>5 DEF SetSwitch, AdvanceClock, vars, LedgerMoves
<1> QED
  BY <1>1, <1>2, <1>3, <1>4, <1>5, CancelMoves, ReconcileMoves DEF Next
-----------------------------------------------------------------------------
(***************************************************************************)
(* What that means for whoever looks at a row.                             *)
(***************************************************************************)
LEMMA MovesAreAllowed ==
  ASSUME TypeOK, LedgerMoves, NEW p \in Publications, ledger'[p].state # ledger[p].state
  PROVE  ledger'[p].state \in AllowedTransitions[ledger[p].state]
<1>1. PICK q \in Publications : Moved(q)
  BY DEF LedgerMoves
<1>2. p = q
  BY <1>1 DEF Moved
<1> QED
  BY <1>1, <1>2, TransitionTable DEF Moved, Opened, Advanced, Closed

LEMMA EndsAreKept ==
  ASSUME TypeOK, LedgerMoves, NEW p \in Publications
  PROVE  /\ ledger[p].state \in {"published", "failed", "expired", "cancelled"} =>
               ledger'[p].state = ledger[p].state
         /\ ledger[p].state \in Held => ledger'[p].state \in Held
BY MovesAreAllowed, TransitionTable DEF Held

LEMMA ClaimStaysExclusive ==
  ASSUME TypeOK, TypeOK', ClaimIsExclusive, LedgerMoves
  PROVE  ClaimIsExclusive'
<1>1. CASE UNCHANGED ledger
  BY <1>1 DEF ClaimIsExclusive
<1>2. ASSUME NEW p \in Publications, Moved(p) PROVE ClaimIsExclusive'
  <2>1. \A q \in Publications \ {p} : ledger'[q] = ledger[q]
    BY <1>2 DEF Moved
  <2>2. ledger[p].state \in States /\ ledger'[p].state \in States
    BY DEF TypeOK, Row
  <2>3. CASE Opened(p)
    <3>1. \A q \in Publications : ledger[q].token # ledger'[p].token
      BY <2>3 DEF Opened, Fresh
    <3> QED
      BY <2>1, <2>3, <3>1, NamesAssumption DEF Opened, ClaimIsExclusive
  <2>4. CASE Advanced(p)
    BY <2>1, <2>4 DEF Advanced, ClaimIsExclusive
  <2>5. CASE Closed(p)
    BY <2>1, <2>5 DEF Closed, ClaimIsExclusive
  <2> QED
    BY <1>2, <2>3, <2>4, <2>5 DEF Moved
<1> QED
  BY <1>1, <1>2 DEF LedgerMoves

\* A worker that was already there holds no claim it did not hold before.
LEMMA ClaimsAreNotGained ==
  ASSUME LedgerMoves, NEW v \in Workers, attempt[v] # NoToken,
         NEW p \in Publications, ledger'[p].token = attempt[v]
  PROVE  ledger[p].token = attempt[v] /\ ledger'[p].notBefore = ledger[p].notBefore
<1>1. CASE UNCHANGED ledger
  BY <1>1
<1>2. ASSUME NEW q \in Publications, Moved(q)
      PROVE  ledger[p].token = attempt[v] /\ ledger'[p].notBefore = ledger[p].notBefore
  <2>1. CASE q # p
    BY <1>2, <2>1 DEF Moved
  <2>2. CASE q = p
    BY <1>2, <2>2 DEF Moved, Opened, Advanced, Closed, Fresh
  <2> QED
    BY <2>1, <2>2
<1> QED
  BY <1>1, <1>2 DEF LedgerMoves

\* Only the sender of a publication defers it.
LEMMA DeferralIsSettled ==
  ASSUME LedgerMoves, NEW p \in Publications, ledger'[p].notBefore # ledger[p].notBefore
  PROVE  \E w \in Workers : pc[w] = "settle" /\ cur[w] = p
BY DEF LedgerMoves, Moved, Opened, Advanced, Closed

-----------------------------------------------------------------------------
(***************************************************************************)
(* The other records: grants are only closed or issued anew, the trail     *)
(* only grows, and a worker's step leaves the others' memory alone.        *)
(***************************************************************************)
GrantsMove ==
    \A p \in Publications :
        \/ grant'[p].serial = grant[p].serial /\ (grant'[p].open => grant[p].open)
        \/ grant'[p].serial = grant[p].serial + 1

LEMMA EveryStepMovesGrants ==
  ASSUME TypeOK, AttemptsOwned, [Next]_vars
  PROVE  GrantsMove
<1>1. CASE UNCHANGED grant
  BY <1>1 DEF GrantsMove
<1>2. ASSUME NEW w \in Workers, ConsumeGrant(w) PROVE GrantsMove
  <2>1. /\ cur[w] \in Publications
        /\ grant \in [Publications -> [serial : Nat, open : BOOLEAN, expires : Nat]]
    BY <1>2 DEF ConsumeGrant, AttemptsOwned, Busy, Sending, TypeOK
  <2>2. PICK still \in BOOLEAN :
           /\ grant' = [grant EXCEPT ![cur[w]] = [grant[cur[w]] EXCEPT !.open = still]]
           /\ still => grant[cur[w]].open
    <3>1. grant' = [grant EXCEPT ![cur[w]] = [grant[cur[w]] EXCEPT !.open =
                       grant[cur[w]].open /\ grant[cur[w]].serial # licence[w]]]
      BY <1>2 DEF ConsumeGrant
    <3>2. grant[cur[w]].open \in BOOLEAN
      BY <2>1
    <3> QED
      BY <3>1, <3>2
  <2> QED
    BY <2>1, <2>2 DEF GrantsMove
<1>3. ASSUME NEW p \in Publications, Commission(p) PROVE GrantsMove
  <2>1. grant[p].serial \in Nat
    BY DEF TypeOK
  <2> QED
    BY <1>3, <2>1 DEF Commission, TypeOK, GrantsMove
<1>4. ASSUME NEW w \in Workers, Step(w) \/ Crash(w) PROVE GrantsMove
  <2>1. ASSUME \/ BeginTick(w) \/ ReadOverdue(w) \/ ReadLeases(w) \/ Sweep(w)
               \/ RecordSweep(w) \/ EndSweep(w) \/ FindDue(w) \/ EndTick(w) \/ Crash(w)
               \/ Claim(w) \/ Gate(w) \/ CheckGrant(w) \/ Release(w)
        PROVE  UNCHANGED grant
    BY <2>1 DEF BeginTick, ReadOverdue, ReadLeases, Sweep, RecordSweep, EndSweep, FindDue,
       EndTick, Crash, Claim, Gate, CheckGrant, Release, tables
  <2>2. ASSUME \/ CommitSending(w) \/ GetCredentials(w) \/ Withhold(w) \/ Transmit(w)
               \/ Receive(w) \/ LoseAnswer(w) \/ Settle(w) \/ RecordOutcome(w)
        PROVE  UNCHANGED grant
    BY <2>2 DEF CommitSending, CommitUnder, GetCredentials, Withhold, Transmit, Receive,
       LoseAnswer, LoseAnswerAs, Settle, RecordOutcome, tables
  <2> QED
    BY <1>1, <1>2, <1>4, <2>1, <2>2 DEF Step
<1>5. ASSUME \/ \E a \in Attempts : Accept(a) \/ Refuse(a) \/ Throttle(a)
             \/ \E p \in Publications : Approve(p) \/ Revoke(p) \/ Cancel(p) \/ Reconcile(p)
             \/ SetSwitch \/ AdvanceClock \/ UNCHANGED vars
      PROVE  UNCHANGED grant
  BY <1>5 DEF Accept, Refuse, Throttle, Answer, Approve, Revoke, Cancel, CancelFrom,
     Reconcile, SetSwitch, AdvanceClock, vars, tables
<1> QED
  BY <1>1, <1>3, <1>4, <1>5 DEF Next

\* A grant that is closed, or older than the present one, stays so.
LEMMA ClosedGrantStaysClosed ==
  ASSUME TypeOK, TypeOK', GrantsMove, NEW p \in Publications, NEW n \in Nat,
         n <= grant[p].serial
  PROVE  /\ n <= grant'[p].serial
         /\ ~GrantIsOpen(p, n) => ~GrantIsOpen(p, n)'
<1>1. grant[p].serial \in Nat /\ grant'[p].serial \in Nat
  BY DEF TypeOK
<1> QED
  BY <1>1 DEF GrantsMove, GrantIsOpen

\* An approval is given once, and revoked as of the present.
ApprovalsMove ==
    \A p \in Publications :
        approval[p].given =>
            /\ approval'[p].given
            /\ approval'[p].revokedAt \in {approval[p].revokedAt, clock}

LEMMA EveryStepMovesApprovals ==
  ASSUME TypeOK, [Next]_vars
  PROVE  ApprovalsMove
<1>1. CASE UNCHANGED approval
  BY <1>1 DEF ApprovalsMove
<1>2. ASSUME NEW p \in Publications, Approve(p) PROVE ApprovalsMove
  BY <1>2 DEF Approve, ApprovalsMove, TypeOK
<1>3. ASSUME NEW p \in Publications, Revoke(p) PROVE ApprovalsMove
  BY <1>3 DEF Revoke, ApprovalsMove, TypeOK
<1>4. ASSUME NEW w \in Workers, Step(w) \/ Crash(w) PROVE UNCHANGED approval
  <2>1. ASSUME \/ BeginTick(w) \/ ReadOverdue(w) \/ ReadLeases(w) \/ Sweep(w)
               \/ RecordSweep(w) \/ EndSweep(w) \/ FindDue(w) \/ EndTick(w) \/ Crash(w)
               \/ Claim(w) \/ Gate(w) \/ CheckGrant(w) \/ Release(w)
        PROVE  UNCHANGED approval
    BY <2>1 DEF BeginTick, ReadOverdue, ReadLeases, Sweep, RecordSweep, EndSweep, FindDue,
       EndTick, Crash, Claim, Gate, CheckGrant, Release, tables
  <2>2. ASSUME \/ CommitSending(w) \/ ConsumeGrant(w) \/ GetCredentials(w) \/ Withhold(w)
               \/ Transmit(w) \/ Receive(w) \/ LoseAnswer(w) \/ Settle(w) \/ RecordOutcome(w)
        PROVE  UNCHANGED approval
    BY <2>2 DEF CommitSending, CommitUnder, ConsumeGrant, GetCredentials, Withhold, Transmit,
       Receive, LoseAnswer, LoseAnswerAs, Settle, RecordOutcome, tables
  <2> QED
    BY <1>4, <2>1, <2>2 DEF Step
<1>5. ASSUME \/ \E a \in Attempts : Accept(a) \/ Refuse(a) \/ Throttle(a)
             \/ \E p \in Publications : Commission(p) \/ Cancel(p) \/ Reconcile(p)
             \/ SetSwitch \/ AdvanceClock \/ UNCHANGED vars
      PROVE  UNCHANGED approval
  BY <1>5 DEF Accept, Refuse, Throttle, Answer, Commission, Cancel, CancelFrom, Reconcile,
     SetSwitch, AdvanceClock, vars, tables
<1> QED
  BY <1>1, <1>2, <1>3, <1>4, <1>5 DEF Next

\* What a tick that began in the past found approved is so still, as of then.
LEMMA ApprovalStands ==
  ASSUME TypeOK, ApprovalsMove, NEW p \in Publications, approval[p].given,
         NEW m \in Nat, m <= approval[p].revokedAt, m <= clock
  PROVE  approval'[p].given /\ m <= approval'[p].revokedAt
BY DEF ApprovalsMove

\* What a worker remembers is not touched.
Stands(w) ==
    UNCHANGED <<pc[w], moment[w], armed[w], todo[w], cur[w], attempt[w], licence[w],
                outcome[w]>>

LEMMA BystandersStand ==
  ASSUME TypeOK, NEW w \in Workers, Step(w) \/ Crash(w), NEW v \in Workers \ {w}
  PROVE  Stands(v)
<1>1. CASE \/ BeginTick(w) \/ ReadOverdue(w) \/ ReadLeases(w) \/ EndSweep(w)
  BY <1>1 DEF local, Stands, TypeOK, Goto, BeginTick, ReadOverdue, ReadLeases, EndSweep
<1>2. CASE Sweep(w)
  BY <1>2 DEF local, Stands, TypeOK, Goto, Sweep
<1>3. CASE RecordSweep(w)
  BY <1>3 DEF local, Stands, TypeOK, Goto, RecordSweep
<1>4. CASE FindDue(w) \/ EndTick(w) \/ Crash(w)
  BY <1>4 DEF local, Stands, TypeOK, Goto, FindDue, EndTick, Crash, Forget
<1>5. CASE Claim(w)
  BY <1>5 DEF local, Stands, TypeOK, Goto, Claim
<1>6. CASE Gate(w) \/ CheckGrant(w)
  BY <1>6 DEF local, Stands, TypeOK, Goto, Gate, CheckGrant
<1>7. CASE Release(w) \/ RecordOutcome(w)
  BY <1>7 DEF local, Stands, TypeOK, Goto, Release, RecordOutcome, NextRecord
<1>8. CASE CommitSending(w)
  BY <1>8 DEF local, Stands, TypeOK, Goto, CommitSending, CommitUnder, NextRecord
<1>9. CASE ConsumeGrant(w) \/ GetCredentials(w)
  BY <1>9 DEF local, Stands, TypeOK, Goto, ConsumeGrant, GetCredentials, NextRecord
<1>10. CASE Withhold(w) \/ LoseAnswer(w)
  BY <1>10 DEF local, Stands, TypeOK, Goto, Withhold, LoseAnswer, LoseAnswerAs, Conclude
<1>11. CASE Transmit(w) \/ Receive(w)
  BY <1>11 DEF local, Stands, TypeOK, Goto, Transmit, Receive, Conclude
<1>12. CASE Settle(w)
  BY <1>12 DEF local, Stands, TypeOK, Goto, Settle, NextRecord
<1> QED
  BY <1>1, <1>2, <1>3, <1>4, <1>5, <1>6, <1>7, <1>8, <1>9, <1>10, <1>11, <1>12 DEF Step

\* Rows are only added, but for the name of a token that nothing refers to.
TrailGrows ==
    /\ \A p \in Publications : audit[p] \subseteq audit'[p]
    /\ \A a \in announced \ announced' : Fresh(a)

LEMMA EventGrowsTrail ==
  ASSUME TypeOK, NEW p \in Publications, NEW k, AppendEvent(p, k)
  PROVE  /\ audit'[p] = audit[p] \cup {k}
         /\ \A q \in Publications \ {p} : audit'[q] = audit[q]
         /\ TrailGrows
BY DEF TypeOK, AppendEvent, TrailGrows

LEMMA EveryStepGrowsTrail ==
  ASSUME TypeOK, AttemptsOwned, [Next]_vars
  PROVE  TrailGrows
<1>1. CASE UNCHANGED <<audit, announced>>
  BY <1>1 DEF TrailGrows
<1>2. ASSUME NEW w \in Workers, Step(w) \/ Crash(w) PROVE TrailGrows
  <2>1. CASE RecordSweep(w)
    <3>1. PICK r \in todo[w] : AppendEvent(r[1], SweepEvent(r[2]))
      BY <2>1 DEF RecordSweep
    <3>2. r[1] \in Publications
      BY DEF TypeOK
    <3> QED
      BY <3>1, <3>2, EventGrowsTrail
  <2>2. CASE Gate(w) \/ RecordOutcome(w)
    <3>1. cur[w] \in Publications
      BY <2>2 DEF Gate, RecordOutcome, AttemptsOwned, Busy, Claiming
    <3>2. \E k \in Kinds \cup {outcome[w].state} : AppendEvent(cur[w], k)
      BY <2>2 DEF Gate, RecordOutcome, Kinds
    <3> QED
      BY <3>1, <3>2, EventGrowsTrail
  <2>3. ASSUME \/ BeginTick(w) \/ ReadOverdue(w) \/ ReadLeases(w) \/ Sweep(w)
               \/ EndSweep(w) \/ FindDue(w) \/ EndTick(w) \/ Crash(w)
               \/ CheckGrant(w) \/ Release(w)
        PROVE  UNCHANGED <<audit, announced>>
    BY <2>3 DEF BeginTick, ReadOverdue, ReadLeases, Sweep, EndSweep, FindDue, EndTick,
       Crash, CheckGrant, Release
  <2>4. ASSUME \/ CommitSending(w) \/ ConsumeGrant(w) \/ Withhold(w) \/ Transmit(w)
               \/ Receive(w) \/ LoseAnswer(w) \/ Settle(w)
        PROVE  UNCHANGED <<audit, announced>>
    BY <2>4 DEF CommitSending, CommitUnder, ConsumeGrant, Withhold, Transmit, Receive,
       LoseAnswer, LoseAnswerAs, Settle
  <2>5. CASE Claim(w)
    <3>1. UNCHANGED audit
      BY <2>5 DEF Claim
    <3>2. UNCHANGED announced \/ \E a \in Attempts : Fresh(a) /\ announced' = announced \ {a}
      BY <2>5 DEF Claim
    <3> QED
      BY <3>1, <3>2 DEF TrailGrows
  <2>6. CASE GetCredentials(w)
    BY <2>6 DEF GetCredentials, AnnounceSending, TrailGrows
  <2> QED
    BY <1>1, <1>2, <2>1, <2>2, <2>3, <2>4, <2>5, <2>6 DEF Step
<1>3. ASSUME NEW p \in Publications, Cancel(p) \/ Reconcile(p) PROVE TrailGrows
  BY <1>1, <1>3, EventGrowsTrail DEF Cancel, CancelFrom, Reconcile, MaybeEvent
<1>4. ASSUME \/ \E a \in Attempts : Accept(a) \/ Refuse(a) \/ Throttle(a)
             \/ \E p \in Publications : Approve(p) \/ Revoke(p) \/ Commission(p)
             \/ SetSwitch \/ AdvanceClock \/ UNCHANGED vars
      PROVE  UNCHANGED <<audit, announced>>
  BY <1>4 DEF Accept, Refuse, Throttle, Answer, Approve, Revoke, Commission, SetSwitch,
     AdvanceClock, vars
<1> QED
  BY <1>1, <1>2, <1>3, <1>4 DEF Next

\* A worker's step takes no time, and uses up a grant only when a request leaves.
LEMMA StepIsInstant ==
  ASSUME NEW w \in Workers, Step(w) \/ Crash(w)
  PROVE  UNCHANGED clock /\ (Transmit(w) \/ UNCHANGED licensed)
<1>1. ASSUME \/ BeginTick(w) \/ ReadOverdue(w) \/ ReadLeases(w) \/ Sweep(w)
             \/ RecordSweep(w) \/ EndSweep(w) \/ FindDue(w) \/ EndTick(w) \/ Crash(w)
             \/ Claim(w) \/ Gate(w) \/ CheckGrant(w) \/ Release(w)
      PROVE  UNCHANGED <<clock, licensed>>
  BY <1>1 DEF BeginTick, ReadOverdue, ReadLeases, Sweep, RecordSweep, EndSweep, FindDue,
     EndTick, Crash, Claim, Gate, CheckGrant, Release
<1>2. ASSUME \/ CommitSending(w) \/ ConsumeGrant(w) \/ GetCredentials(w) \/ Withhold(w)
             \/ Receive(w) \/ LoseAnswer(w) \/ Settle(w) \/ RecordOutcome(w)
      PROVE  UNCHANGED <<clock, licensed>>
  BY <1>2 DEF CommitSending, CommitUnder, ConsumeGrant, GetCredentials, Withhold, Receive,
     LoseAnswer, LoseAnswerAs, Settle, RecordOutcome
<1>3. Transmit(w) => UNCHANGED clock
  BY DEF Transmit
<1> QED
  BY <1>1, <1>2, <1>3 DEF Step

\* Everyone else leaves the workers where they are.
LEMMA OutsidersOnlyTouchRecords ==
  ASSUME TypeOK,
         \/ \E a \in Attempts : Accept(a) \/ Refuse(a) \/ Throttle(a)
         \/ \E p \in Publications :
               Approve(p) \/ Revoke(p) \/ Commission(p) \/ Cancel(p) \/ Reconcile(p)
         \/ SetSwitch \/ AdvanceClock \/ UNCHANGED vars
  PROVE  /\ \A v \in Workers : Stands(v)
         /\ UNCHANGED licensed /\ clock <= clock'
<1>1. UNCHANGED <<pc, local, licensed>>
  BY DEF Accept, Refuse, Throttle, Answer, Approve, Revoke, Commission, Cancel, CancelFrom,
     Reconcile, SetSwitch, AdvanceClock, vars, local
<1>2. UNCHANGED clock \/ AdvanceClock
  BY DEF Accept, Refuse, Throttle, Answer, Approve, Revoke, Commission, Cancel, CancelFrom,
     Reconcile, SetSwitch, vars
<1>3. clock <= clock'
  BY <1>2 DEF AdvanceClock, TypeOK
<1> QED
  BY <1>1, <1>3 DEF Stands, local

-----------------------------------------------------------------------------
(***************************************************************************)
(* A bystander's tick stays in order.                                      *)
(***************************************************************************)
LEMMA BystanderKeepsOrder ==
  ASSUME TypeOK, TypeOK', Inductive, Bookkeeping, LedgerMoves, GrantsMove, TrailGrows,
         ApprovalsMove, clock <= clock', NEW v \in Workers, Stands(v),
         UNCHANGED licensed \/ \E w \in Workers \ {v} : Transmit(w)
  PROVE  TickIsInOrder(v)'
<1>1. TickIsInOrder(v)
  BY DEF Bookkeeping
<1>2. pc[v] \in Busy => cur[v] \in Publications /\ attempt[v] \in Attempts
  BY DEF Inductive, AttemptsOwned
<1>3. MomentIsPast(v)'
  BY <1>1 DEF TickIsInOrder, MomentIsPast, Stands, TypeOK
<1>4. SweepAgrees(v)'
  BY <1>1, EndsAreKept DEF TickIsInOrder, SweepAgrees, Stands
<1>5. EndAgrees(v)'
  BY <1>1, <1>2, EndsAreKept DEF TickIsInOrder, EndAgrees, Stands, Busy
<1>6. EventsPrecede(v)'
  BY <1>1, <1>2
  DEF TickIsInOrder, EventsPrecede, Stands, TrailGrows, Fresh, Busy, Claiming, Sending,
      Departing
<1>7. SlotHasCome(v)'
  <2> SUFFICES ASSUME pc[v] \in {"grant", "commit"} \cup Departing
               PROVE  /\ ScheduledAt[cur[v]] <= moment[v]
                      /\ pc[v] \in Departing \/ ledger'[cur[v]].token = attempt[v] =>
                            ledger'[cur[v]].notBefore <= moment[v]
    BY DEF SlotHasCome, Stands
  <2>1. cur[v] \in Publications /\ attempt[v] # NoToken
    BY <1>2, NamesAssumption DEF Busy, Claiming, Sending, Departing
  <2>2. pc[v] \in Departing => ledger'[cur[v]].notBefore = ledger[cur[v]].notBefore
    <3>1. SUFFICES ASSUME pc[v] \in Departing,
                          ledger'[cur[v]].notBefore # ledger[cur[v]].notBefore
                   PROVE  FALSE
      OBVIOUS
    <3>2. PICK u \in Workers : pc[u] = "settle" /\ cur[u] = cur[v]
      BY <2>1, <3>1, DeferralIsSettled
    <3>3. u = v
      BY <3>1, <3>2 DEF Inductive, OneSender, Departing, Sending
    <3> QED
      BY <3>1, <3>2, <3>3 DEF Departing
  <2>3. ledger'[cur[v]].token = attempt[v] =>
           /\ ledger[cur[v]].token = attempt[v]
           /\ ledger'[cur[v]].notBefore = ledger[cur[v]].notBefore
    BY <2>1, ClaimsAreNotGained
  <2> QED
    BY <1>1, <2>2, <2>3 DEF TickIsInOrder, SlotHasCome
<1>8. LicenceIsOwn(v)'
  <2>1. LicenceIsOwn(v)
    BY <1>1 DEF TickIsInOrder
  <2>2. licence[v] # 0 => cur[v] \in Publications /\ licence[v] \in Nat
    BY <1>2, <2>1 DEF LicenceIsOwn, Licensing, Busy, Claiming, Sending, TypeOK
  <2>3. licence[v] # 0 =>
           /\ licence[v] <= grant'[cur[v]].serial
           /\ ~GrantIsOpen(cur[v], licence[v]) => ~GrantIsOpen(cur[v], licence[v])'
    BY <2>1, <2>2, ClosedGrantStaysClosed DEF LicenceIsOwn, Stands, GrantIsOpen
  <2>4. \/ pc[v] \in Departing
        \/ pc[v] = "commit" /\ ledger'[cur[v]].token = attempt[v]
        => <<cur[v], licence[v]>> \notin licensed'
    <3> SUFFICES ASSUME \/ pc[v] \in Departing
                        \/ pc[v] = "commit" /\ ledger'[cur[v]].token = attempt[v]
                 PROVE  <<cur[v], licence[v]>> \notin licensed'
      OBVIOUS
    <3>1. cur[v] \in Publications /\ attempt[v] \in Attempts /\ attempt[v] # NoToken
      BY <1>2, NamesAssumption DEF Busy, Claiming, Sending, Departing
    <3>2. \/ pc[v] \in Departing
          \/ pc[v] = "commit" /\ ledger[cur[v]].token = attempt[v]
      BY <3>1, ClaimsAreNotGained
    <3>3. <<cur[v], licence[v]>> \notin licensed
      BY <2>1, <3>2 DEF LicenceIsOwn
    <3>4. ASSUME NEW w \in Workers \ {v}, Transmit(w)
          PROVE  cur[w] # cur[v]
      <4>1. pc[w] = "client" /\ attempt[w] # attempt[v]
        BY <3>1, <3>4 DEF Transmit, Inductive, AttemptsOwned
      <4>2. CASE pc[v] \in Departing
        BY <4>1, <4>2 DEF Inductive, OneSender, Departing, Sending
      <4>3. CASE pc[v] = "commit" /\ ledger[cur[v]].token = attempt[v]
        <5>1. ledger[cur[v]].state \in {"claimed", "sending"}
          BY <3>1, <4>3 DEF Bookkeeping, ClaimIsExclusive
        <5>2. ASSUME cur[w] = cur[v] PROVE FALSE
          BY <4>1, <4>3, <5>1, <5>2 DEF Inductive, SendersHoldRow, Sending, Committed
        <5> QED
          BY <5>2
      <4> QED
        BY <3>2, <4>2, <4>3
    <3>5. ASSUME NEW w \in Workers \ {v}, Transmit(w)
          PROVE  <<cur[v], licence[v]>> \notin licensed'
      BY <3>3, <3>4, <3>5 DEF Transmit
    <3> QED
      BY <3>3, <3>5
  <2> QED
    BY <2>1, <2>3, <2>4 DEF LicenceIsOwn, Stands, GrantIsOpen
<1>9. GatesWereOpen(v)'
  <2>1. GatesWereOpen(v) /\ MomentIsPast(v) /\ moment[v] \in Nat
    BY <1>1 DEF TickIsInOrder, TypeOK
  <2>2. ASSUME pc[v] \in {"grant", "commit"} \cup Departing
        PROVE  approval'[cur[v]].given /\ moment[v] <= approval'[cur[v]].revokedAt
    <3>1. cur[v] \in Publications
      BY <1>2, <2>2 DEF Busy, Claiming, Sending, Departing
    <3> QED
      BY <2>1, <2>2, <3>1, ApprovalStands DEF GatesWereOpen, MomentIsPast
  <2> QED
    BY <2>1, <2>2 DEF GatesWereOpen, Stands
<1> QED
  BY <1>3, <1>4, <1>5, <1>6, <1>7, <1>8, <1>9 DEF TickIsInOrder
-----------------------------------------------------------------------------
(***************************************************************************)
(* The tick of the worker that steps stays in order.                       *)
(***************************************************************************)
\* Places where nothing is asked of a worker but that it carries no licence.
Quiet == {"idle", "overdue", "leases", "due", "batch", "gate", "release"}

LEMMA QuietIsInOrder ==
  ASSUME NEW w \in Workers, pc'[w] \in Quiet, licence'[w] = 0, moment'[w] <= clock'
  PROVE  TickIsInOrder(w)'
BY DEF Quiet, TickIsInOrder, MomentIsPast, SweepAgrees, EndAgrees, EventsPrecede,
   SlotHasCome, LicenceIsOwn, GatesWereOpen, Departing, Licensing, Sending

LEMMA UnlicensedPlace ==
  ASSUME Bookkeeping, NEW w \in Workers, pc[w] \notin Licensing
  PROVE  licence[w] = 0
BY DEF Bookkeeping, TickIsInOrder, LicenceIsOwn

LEMMA MomentStaysPast ==
  ASSUME TypeOK, Bookkeeping, NEW w \in Workers, moment'[w] = moment[w], UNCHANGED clock
  PROVE  moment'[w] <= clock'
BY DEF Bookkeeping, TickIsInOrder, MomentIsPast, TypeOK

LEMMA NextRecordIsInOrder ==
  ASSUME TypeOK, Bookkeeping, NEW w \in Workers, NextRecord(w), UNCHANGED clock
  PROVE  TickIsInOrder(w)'
<1>1. pc'[w] = "batch" /\ licence'[w] = 0 /\ moment'[w] = moment[w]
  BY DEF NextRecord, Goto, TypeOK
<1>2. moment'[w] <= clock'
  BY <1>1, MomentStaysPast DEF TypeOK
<1> QED
  BY <1>1, <1>2, QuietIsInOrder DEF Quiet

LEMMA ForgetIsInOrder ==
  ASSUME TypeOK, NEW w \in Workers, Forget(w), UNCHANGED clock
  PROVE  TickIsInOrder(w)'
<1>1. pc'[w] = "idle" /\ licence'[w] = 0 /\ moment'[w] <= clock'
  BY DEF Forget, Goto, TypeOK, NoTime
<1> QED
  BY <1>1, QuietIsInOrder DEF Quiet

LEMMA SweepingIsInOrder ==
  ASSUME TypeOK, TypeOK', Inductive, Bookkeeping, LedgerMoves, NEW w \in Workers,
         \/ BeginTick(w) \/ ReadOverdue(w) \/ ReadLeases(w) \/ Sweep(w) \/ RecordSweep(w)
         \/ EndSweep(w) \/ FindDue(w) \/ EndTick(w) \/ Crash(w)
  PROVE  TickIsInOrder(w)'
<1>1. TickIsInOrder(w) /\ UNCHANGED clock
  BY StepIsInstant DEF Bookkeeping, Step
<1> DEFINE Elsewhere == /\ pc'[w] \in {"expiring", "expired", "recovering", "recovered"}
                        /\ licence'[w] = 0 /\ moment'[w] <= clock'
<1>2. Elsewhere /\ SweepAgrees(w)' => TickIsInOrder(w)'
  BY DEF TickIsInOrder, MomentIsPast, EndAgrees, EventsPrecede, SlotHasCome, LicenceIsOwn,
     GatesWereOpen, Departing, Licensing, Sending
<1> HIDE DEF Elsewhere
<1>3. /\ moment[w] <= clock
      /\ pc[w] \in Quiet \cup {"expiring", "expired", "recovering", "recovered"} =>
            licence[w] = 0
  BY <1>1 DEF TickIsInOrder, MomentIsPast, LicenceIsOwn, Licensing, Sending, Quiet
<1>4. UNCHANGED <<moment, licence>> => moment'[w] <= clock' /\ licence'[w] = licence[w]
  <2>1. UNCHANGED <<moment, licence>> => moment'[w] = moment[w] /\ licence'[w] = licence[w]
    OBVIOUS
  <2>2. clock' = clock /\ clock \in Nat /\ moment[w] \in Nat
    BY <1>1 DEF TypeOK
  <2> QED
    BY <1>3, <2>1, <2>2
<1>5. CASE BeginTick(w)
  <2>1. pc'[w] = "overdue" /\ licence'[w] = 0
    BY <1>3, <1>5 DEF BeginTick, Goto, TypeOK, Quiet
  <2>2. moment'[w] = clock /\ clock \in Nat /\ clock' = clock
    BY <1>5 DEF BeginTick, TypeOK
  <2>3. moment'[w] <= clock'
    BY <2>2
  <2> QED
    BY <2>1, <2>3, QuietIsInOrder DEF Quiet
<1>6. CASE ReadOverdue(w)
  <2>1. Elsewhere
    BY <1>6, <1>3, <1>4 DEF Elsewhere, ReadOverdue, Goto, TypeOK, Quiet
  <2>2. pc'[w] = "expiring" /\ \A r \in todo'[w] : r[2] = "pending"
    BY <1>6 DEF ReadOverdue, Goto, TypeOK
  <2> QED
    BY <1>2, <2>1, <2>2 DEF SweepAgrees
<1>7. CASE ReadLeases(w)
  <2>1. Elsewhere
    BY <1>7, <1>3, <1>4 DEF Elsewhere, ReadLeases, Goto, TypeOK, Quiet
  <2>2. pc'[w] = "recovering" /\ todo'[w] = DeadLeases(moment[w])
    BY <1>7 DEF ReadLeases, Goto, TypeOK
  <2>3. \A r, s \in DeadLeases(moment[w]) : r[2] # "pending" /\ (r[1] = s[1] => r = s)
    BY DEF DeadLeases, Dead
  <2> QED
    BY <1>2, <2>1, <2>2, <2>3 DEF SweepAgrees
<1>8. CASE Sweep(w)
  <2>1. Elsewhere
    BY <1>8, <1>3, <1>4 DEF Elsewhere, Sweep, Goto, TypeOK, Quiet
  <2>2. SweepAgrees(w)
    BY <1>1 DEF TickIsInOrder
  <2>3. CASE UNCHANGED <<ledger, cur, pc>> /\ \E r \in todo[w] : todo' = [todo EXCEPT ![w] = @ \ {r}]
    <3>1. pc'[w] \in {"expiring", "recovering"} /\ todo'[w] \subseteq todo[w]
      BY <1>8, <2>3 DEF Sweep, TypeOK
    <3> QED
      BY <1>2, <2>1, <2>2, <2>3, <3>1 DEF SweepAgrees
  <2>4. ASSUME NEW r \in todo[w], Put(r[1], Swept(r[1], r[2])),
               cur' = [cur EXCEPT ![w] = r[1]], UNCHANGED todo,
               Goto(w, IF pc[w] = "expiring" THEN "expired" ELSE "recovered")
        PROVE  SweepAgrees(w)'
    <3>1. r[1] \in Publications /\ cur'[w] = r[1] /\ ledger'[r[1]] = Swept(r[1], r[2])
      BY <2>4 DEF TypeOK, Put
    <3>2. CASE pc[w] = "expiring"
      <4>1. pc'[w] = "expired" /\ r[2] = "pending"
        BY <2>2, <2>4, <3>2 DEF Goto, TypeOK, SweepAgrees
      <4>2. Swept(r[1], r[2]).state = "expired"
        <5>1. Swept(r[1], r[2]) = [ledger[r[1]] EXCEPT !.state = "expired"]
          BY <4>1 DEF Swept
        <5>2. ledger[r[1]] \in Row
          BY <3>1 DEF TypeOK
        <5> QED
          BY <5>1, <5>2 DEF Row
      <4> QED
        BY <2>2, <2>4, <3>1, <3>2, <4>1, <4>2 DEF SweepAgrees
    <3>3. CASE pc[w] = "recovering"
      <4>1. pc'[w] = "recovered"
        BY <2>4, <3>3 DEF Goto, TypeOK
      <4>2. ASSUME <<r[1], "sending">> \in todo[w] PROVE Swept(r[1], r[2]).state \in Held
        <5>1. r[2] = "sending"
          <6>1. r[1] = <<r[1], "sending">>[1] /\ <<r[1], "sending">>[2] = "sending"
            OBVIOUS
          <6> QED
            BY <2>2, <2>4, <3>3, <4>2, <6>1 DEF SweepAgrees
        <5>2. Swept(r[1], r[2]) = [Freed(r[1], "unknown") EXCEPT !.code = "unknown"]
          BY <5>1 DEF Swept
        <5>3. /\ Freed(r[1], "unknown") \in Row
              /\ Freed(r[1], "unknown").state = "unknown"
          BY <3>1, FreedType, FreedRow DEF States
        <5> QED
          BY <5>2, <5>3 DEF Row, Held
      <4> QED
        BY <2>2, <2>4, <3>1, <3>3, <4>1, <4>2 DEF SweepAgrees
    <3> QED
      BY <1>8, <3>2, <3>3 DEF Sweep
  <2> QED
    BY <1>2, <1>8, <2>1, <2>3, <2>4 DEF Sweep
<1>9. CASE RecordSweep(w)
  <2>1. Elsewhere
    BY <1>9, <1>3, <1>4 DEF Elsewhere, RecordSweep, Goto, TypeOK, Quiet
  <2>2. SweepAgrees(w)
    BY <1>1 DEF TickIsInOrder
  <2>3. /\ todo'[w] \subseteq todo[w]
        /\ \/ pc[w] = "expired" /\ pc'[w] = "expiring"
           \/ pc[w] = "recovered" /\ pc'[w] = "recovering"
    BY <1>9 DEF RecordSweep, Goto, TypeOK
  <2> QED
    BY <1>2, <2>1, <2>2, <2>3 DEF SweepAgrees
<1>10. CASE EndSweep(w)
  <2>1. pc'[w] \in {"leases", "due"} /\ licence'[w] = 0 /\ moment'[w] <= clock'
    BY <1>10, <1>3, <1>4 DEF EndSweep, Goto, TypeOK, Quiet, local
  <2> QED
    BY <2>1, QuietIsInOrder DEF Quiet
<1>11. CASE FindDue(w)
  <2>1. CASE Forget(w)
    BY <1>1, <2>1, ForgetIsInOrder
  <2>2. CASE Goto(w, "batch") /\ UNCHANGED <<moment, licence>>
    <3>1. pc'[w] = "batch" /\ licence'[w] = 0 /\ moment'[w] <= clock'
      BY <1>11, <1>3, <1>4, <2>2 DEF FindDue, Goto, TypeOK, Quiet
    <3> QED
      BY <3>1, QuietIsInOrder DEF Quiet
  <2> QED
    BY <1>11, <2>1, <2>2 DEF FindDue
<1>12. CASE EndTick(w) \/ Crash(w)
  BY <1>1, <1>12, ForgetIsInOrder DEF EndTick, Crash
<1> QED
  BY <1>5, <1>6, <1>7, <1>8, <1>9, <1>10, <1>11, <1>12
\* Between the gates and the request only four parts are in question ...
LEMMA DepartureIsInOrder ==
  ASSUME TypeOK, Bookkeeping, NEW w \in Workers, UNCHANGED <<clock, moment>>,
         pc'[w] \in {"grant", "commit"} \cup Departing,
         EventsPrecede(w)', SlotHasCome(w)', LicenceIsOwn(w)', GatesWereOpen(w)'
  PROVE  TickIsInOrder(w)'
<1>1. moment'[w] <= clock'
  BY MomentStaysPast DEF TypeOK
<1> QED
  BY <1>1 DEF TickIsInOrder, MomentIsPast, SweepAgrees, EndAgrees, Departing

\* ... and after it has left, only that the licence is one that was issued.
LEMMA FlightIsInOrder ==
  ASSUME TypeOK, Bookkeeping, NEW w \in Workers,
         UNCHANGED <<clock, moment, licence, cur, grant>>,
         pc[w] \in Sending, pc'[w] \in {"await", "settle"}
  PROVE  TickIsInOrder(w)'
<1>1. moment'[w] <= clock'
  BY MomentStaysPast DEF TypeOK
<1>2. licence[w] # 0 => licence[w] <= grant[cur[w]].serial
  BY DEF Bookkeeping, TickIsInOrder, LicenceIsOwn
<1>3. /\ SweepAgrees(w)' /\ EndAgrees(w)' /\ EventsPrecede(w)' /\ SlotHasCome(w)'
      /\ LicenceIsOwn(w)' /\ GatesWereOpen(w)'
  BY <1>2 DEF SweepAgrees, EndAgrees, EventsPrecede, SlotHasCome, LicenceIsOwn,
     GatesWereOpen, Departing, Licensing, Sending
<1> QED
  BY <1>1, <1>3 DEF TickIsInOrder, MomentIsPast

\* No request left under the grant 0, which is none.
LEMMA NoLicenceIsUnused ==
  ASSUME TypeOK, Bookkeeping, NEW p \in Publications
  PROVE  <<p, 0>> \notin licensed
BY DEF Bookkeeping, GrantsAreSpent

LEMMA GateIsInOrder ==
  ASSUME TypeOK, TypeOK', Inductive, Bookkeeping, NEW w \in Workers, Gate(w)
  PROVE  TickIsInOrder(w)'
<1>1. /\ pc[w] = "gate" /\ cur[w] \in Publications
      /\ UNCHANGED <<clock, moment, armed, licence, cur, attempt, ledger, licensed, approval>>
  BY DEF tables, Gate, local, Inductive, AttemptsOwned, Busy, Claiming
<1>2. licence'[w] = 0 /\ moment'[w] <= clock'
  BY <1>1, UnlicensedPlace, MomentStaysPast DEF Licensing, Sending
<1>3. CASE Goto(w, "release")
  <2>1. pc'[w] = "release"
    BY <1>3 DEF Goto, TypeOK
  <2> QED
    BY <1>2, <2>1, QuietIsInOrder DEF Quiet
<1>4. CASE /\ ApprovalActive(cur[w], moment[w]) /\ IsDue(cur[w], moment[w])
           /\ Goto(w, IF armed[w] THEN "commit" ELSE "grant")
  <2>1. pc'[w] \in {"commit", "grant"}
    BY <1>4 DEF Goto, TypeOK
  <2>2. EventsPrecede(w)'
    <3>1. "claimed" \in audit'[cur[w]]
      BY <1>1, EventGrowsTrail DEF Gate
    <3> QED
      BY <1>1, <2>1, <3>1 DEF EventsPrecede
  <2>3. SlotHasCome(w)'
    BY <1>1, <1>4 DEF SlotHasCome, IsDue
  <2>4. LicenceIsOwn(w)'
    BY <1>1, <1>2, <2>1, NoLicenceIsUnused DEF LicenceIsOwn, Departing
  <2>5. GatesWereOpen(w)'
    <3>1. armed[w] \/ pc'[w] = "grant"
      BY <1>4 DEF Goto, TypeOK
    <3>2. /\ approval[cur[w]].given /\ moment[w] <= approval[cur[w]].revokedAt
          /\ moment[w] < ExpiresAt[cur[w]]
      BY <1>1, <1>4 DEF ApprovalActive, IsDue, TypeOK
    <3> QED
      BY <1>1, <2>1, <3>1, <3>2 DEF GatesWereOpen, Departing
  <2> QED
    BY <1>1, <2>1, <2>2, <2>3, <2>4, <2>5, DepartureIsInOrder
<1> QED
  BY <1>3, <1>4 DEF Gate

LEMMA CheckGrantIsInOrder ==
  ASSUME TypeOK, TypeOK', Inductive, Bookkeeping, NEW w \in Workers, CheckGrant(w)
  PROVE  TickIsInOrder(w)'
<1>1. /\ pc[w] = "grant" /\ cur[w] \in Publications
      /\ UNCHANGED <<clock, moment, armed, cur, attempt, ledger, licensed, grant, audit, approval>>
  BY DEF CheckGrant, tables, Inductive, AttemptsOwned, Busy, Claiming
<1>2. TickIsInOrder(w)
  BY DEF Bookkeeping
<1>3. CASE Goto(w, "release") /\ UNCHANGED licence
  <2>1. pc'[w] = "release" /\ licence'[w] = 0 /\ moment'[w] <= clock'
    BY <1>1, <1>3, UnlicensedPlace, MomentStaysPast DEF Goto, TypeOK, Licensing, Sending
  <2> QED
    BY <2>1, QuietIsInOrder DEF Quiet
<1>4. CASE /\ GrantUsable(cur[w], moment[w]) /\ Goto(w, "commit")
           /\ licence' = [licence EXCEPT ![w] = grant[cur[w]].serial]
  <2>1. pc'[w] = "commit" /\ licence'[w] = grant[cur[w]].serial
    BY <1>4 DEF Goto, TypeOK
  <2>2. EventsPrecede(w)' /\ SlotHasCome(w)'
    BY <1>1, <1>2, <2>1 DEF TickIsInOrder, EventsPrecede, SlotHasCome, Departing
  <2>3. <<cur[w], grant[cur[w]].serial>> \notin licensed
    BY <1>4 DEF Bookkeeping, GrantsAreSpent, GrantIsOpen, GrantUsable
  <2>4. grant[cur[w]].serial \in Nat
    BY <1>1 DEF TypeOK
  <2>5. LicenceIsOwn(w)'
    BY <1>1, <2>1, <2>3, <2>4 DEF LicenceIsOwn, Licensing, Departing
  <2>6. GatesWereOpen(w)'
    <3>1. grant[cur[w]].serial # 0
      BY <1>1, <1>4 DEF Bookkeeping, GrantsAreSpent, GrantUsable
    <3> QED
      BY <1>1, <1>2, <2>1, <3>1 DEF TickIsInOrder, GatesWereOpen, Departing
  <2> QED
    BY <1>1, <2>1, <2>2, <2>5, <2>6, DepartureIsInOrder
<1> QED
  BY <1>3, <1>4 DEF CheckGrant

LEMMA CommitIsInOrder ==
  ASSUME TypeOK, TypeOK', Inductive, Bookkeeping, LedgerMoves, NEW w \in Workers,
         CommitSending(w)
  PROVE  TickIsInOrder(w)'
<1>1. /\ pc[w] = "commit" /\ cur[w] \in Publications /\ attempt[w] \in Attempts
      /\ UNCHANGED <<clock, licensed, grant, audit, approval>>
  BY DEF CommitSending, CommitUnder, tables, Inductive, AttemptsOwned, Busy, Claiming
<1>2. TickIsInOrder(w)
  BY DEF Bookkeeping
<1>3. CASE NextRecord(w)
  BY <1>1, <1>3, NextRecordIsInOrder
<1>4. CASE /\ Holds(cur[w], "claimed", attempt[w]) /\ UNCHANGED local
           /\ Goto(w, IF licence[w] # 0 THEN "consume" ELSE "credentials")
  <2>1. /\ pc'[w] = IF licence[w] # 0 THEN "consume" ELSE "credentials"
        /\ UNCHANGED <<moment, armed, cur, attempt, licence>>
    BY <1>4 DEF Goto, TypeOK, local
  <2>2. ledger[cur[w]].token = attempt[w] /\ attempt[w] # NoToken
    BY <1>1, <1>4, NamesAssumption DEF Holds
  <2>3. EventsPrecede(w)'
    BY <1>1, <1>2, <2>1 DEF TickIsInOrder, EventsPrecede
  <2>4. ledger'[cur[w]].notBefore = ledger[cur[w]].notBefore
    <3>1. ~(\E u \in Workers : pc[u] = "settle" /\ cur[u] = cur[w])
      <4>1. ledger[cur[w]].state = "claimed"
        BY <1>4 DEF Holds
      <4> QED
        BY <4>1 DEF Inductive, SendersHoldRow, Sending, Committed
    <3> QED
      BY <1>1, <3>1, DeferralIsSettled
  <2>5. SlotHasCome(w)'
    BY <1>1, <1>2, <2>1, <2>2, <2>4 DEF TickIsInOrder, SlotHasCome
  <2>6. LicenceIsOwn(w)'
    <3>1. <<cur[w], licence[w]>> \notin licensed
      BY <1>1, <1>2, <2>2 DEF TickIsInOrder, LicenceIsOwn
    <3>2. licence[w] # 0 => licence[w] <= grant[cur[w]].serial /\ pc'[w] = "consume"
      BY <1>2, <2>1 DEF TickIsInOrder, LicenceIsOwn
    <3>3. pc'[w] \in Licensing
      BY <2>1 DEF Licensing, Sending
    <3> QED
      BY <1>1, <2>1, <3>1, <3>2, <3>3 DEF LicenceIsOwn
  <2>7. pc'[w] \in Departing
    BY <2>1 DEF Departing
  <2>8. GatesWereOpen(w)'
    BY <1>1, <1>2, <2>1, <2>7 DEF TickIsInOrder, GatesWereOpen
  <2> QED
    BY <1>1, <2>1, <2>3, <2>5, <2>6, <2>7, <2>8, DepartureIsInOrder
<1> QED
  BY <1>3, <1>4 DEF CommitSending, CommitUnder

LEMMA ConsumeGrantIsInOrder ==
  ASSUME TypeOK, TypeOK', Inductive, Bookkeeping, GrantsMove, NEW w \in Workers,
         ConsumeGrant(w)
  PROVE  TickIsInOrder(w)'
<1>1. /\ pc[w] = "consume" /\ pc'[w] = "credentials" /\ cur[w] \in Publications
      /\ UNCHANGED <<clock, moment, armed, cur, attempt, licence, ledger, licensed, audit,
                     approval>>
  BY DEF ConsumeGrant, Goto, TypeOK, local, Inductive, AttemptsOwned, Busy, Sending
<1>2. TickIsInOrder(w)
  BY DEF Bookkeeping
<1>3. EventsPrecede(w)' /\ SlotHasCome(w)'
  BY <1>1, <1>2 DEF TickIsInOrder, EventsPrecede, SlotHasCome, Departing
<1>4. grant'[cur[w]].serial = grant[cur[w]].serial
  BY <1>1 DEF ConsumeGrant, TypeOK
<1>5. ~GrantIsOpen(cur[w], licence[w])'
  <2>1. SUFFICES ASSUME grant'[cur[w]].open, grant'[cur[w]].serial = licence[w]
                 PROVE  FALSE
    BY <1>1 DEF GrantIsOpen
  <2>2. grant'[cur[w]] = [grant[cur[w]] EXCEPT !.open =
                             grant[cur[w]].open /\ grant[cur[w]].serial # licence[w]]
    BY <1>1, Zenon DEF ConsumeGrant, TypeOK
  <2>3. grant[cur[w]] \in [serial : Nat, open : BOOLEAN, expires : Nat]
    BY <1>1 DEF TypeOK
  <2>4. CASE grant[cur[w]].serial = licence[w]
    <3>1. grant'[cur[w]] = [grant[cur[w]] EXCEPT !.open = FALSE]
      BY <2>2, <2>4, Zenon
    <3> QED
      BY <2>1, <2>3, <3>1
  <2> QED
    BY <1>4, <2>1, <2>4
<1>6. LicenceIsOwn(w)'
  BY <1>1, <1>2, <1>4, <1>5
  DEF TickIsInOrder, LicenceIsOwn, GrantIsOpen, Licensing, Sending, Departing
<1>7. GatesWereOpen(w)'
  BY <1>1, <1>2 DEF TickIsInOrder, GatesWereOpen, Departing
<1> QED
  BY <1>1, <1>3, <1>6, <1>7, DepartureIsInOrder DEF Departing

LEMMA GetCredentialsIsInOrder ==
  ASSUME TypeOK, TypeOK', Inductive, Bookkeeping, NEW w \in Workers, GetCredentials(w)
  PROVE  TickIsInOrder(w)'
<1>1. /\ pc[w] = "credentials" /\ cur[w] \in Publications
      /\ UNCHANGED <<clock, ledger, licensed, grant, approval>>
  BY DEF GetCredentials, tables, Inductive, AttemptsOwned, Busy, Sending
<1>2. TickIsInOrder(w)
  BY DEF Bookkeeping
<1>3. CASE NextRecord(w)
  BY <1>1, <1>3, NextRecordIsInOrder
<1>4. CASE Goto(w, "client") /\ UNCHANGED local
  <2>1. pc'[w] = "client" /\ UNCHANGED <<moment, armed, cur, attempt, licence>>
    BY <1>4 DEF Goto, TypeOK, local
  <2>2. UNCHANGED audit /\ attempt[w] \in announced'
    BY DEF GetCredentials, AnnounceSending
  <2>3. EventsPrecede(w)'
    BY <1>1, <1>2, <2>1, <2>2 DEF TickIsInOrder, EventsPrecede, Departing
  <2>4. SlotHasCome(w)' /\ LicenceIsOwn(w)' /\ GatesWereOpen(w)'
    BY <1>1, <1>2, <2>1
    DEF TickIsInOrder, SlotHasCome, LicenceIsOwn, GatesWereOpen, GrantIsOpen, Licensing,
        Sending, Departing
  <2> QED
    BY <1>1, <2>1, <2>3, <2>4, DepartureIsInOrder DEF Departing
<1> QED
  BY <1>3, <1>4 DEF GetCredentials

\* The end on the row is the outcome's.
LEMMA SettleIsInOrder ==
  ASSUME TypeOK, TypeOK', Inductive, Bookkeeping, NEW w \in Workers, Settle(w)
  PROVE  TickIsInOrder(w)'
<1>1. /\ pc[w] = "settle" /\ cur[w] \in Publications /\ attempt[w] \in Attempts
      /\ UNCHANGED <<clock, licensed, grant>>
  BY DEF Settle, tables, Inductive, AttemptsOwned, Busy, Sending
<1>2. TickIsInOrder(w)
  BY DEF Bookkeeping
<1>3. CASE NextRecord(w)
  BY <1>1, <1>3, NextRecordIsInOrder
<1>4. CASE Put(cur[w], Settled(w)) /\ Goto(w, "record") /\ UNCHANGED local
  <2>1. pc'[w] = "record" /\ UNCHANGED <<moment, cur, attempt, licence, outcome>>
    BY <1>4 DEF Goto, TypeOK, local
  <2>2. ledger'[cur[w]].state = outcome[w].state
    BY <1>1, <1>4, SettledRow DEF Put, TypeOK
  <2>3. EndAgrees(w)'
    BY <2>1, <2>2 DEF EndAgrees, Held
  <2>4. moment'[w] <= clock'
    BY <1>1, <2>1, MomentStaysPast
  <2>5. SweepAgrees(w)' /\ EventsPrecede(w)' /\ SlotHasCome(w)' /\ GatesWereOpen(w)'
    BY <2>1 DEF SweepAgrees, EventsPrecede, SlotHasCome, GatesWereOpen, Departing
  <2>6. LicenceIsOwn(w)'
    BY <1>1, <1>2, <2>1 DEF TickIsInOrder, LicenceIsOwn, Licensing, Departing
  <2> QED
    BY <2>3, <2>4, <2>5, <2>6 DEF TickIsInOrder, MomentIsPast
<1> QED
  BY <1>3, <1>4 DEF Settle

LEMMA ActorKeepsOrder ==
  ASSUME TypeOK, TypeOK', Inductive, Bookkeeping, LedgerMoves, GrantsMove,
         NEW w \in Workers, Step(w) \/ Crash(w)
  PROVE  TickIsInOrder(w)'
<1>1. UNCHANGED clock
  BY StepIsInstant
<1>2. CASE Claim(w)
  <2>1. /\ pc'[w] \in {"batch", "gate"} /\ pc[w] = "batch" /\ UNCHANGED <<licence, moment>>
    BY <1>2 DEF Claim, Goto, TypeOK
  <2>2. licence'[w] = 0 /\ moment'[w] <= clock'
    BY <1>1, <2>1, UnlicensedPlace, MomentStaysPast DEF Licensing, Sending
  <2> QED
    BY <2>1, <2>2, QuietIsInOrder DEF Quiet
<1>3. CASE Release(w) \/ RecordOutcome(w)
  BY <1>1, <1>3, NextRecordIsInOrder DEF Release, RecordOutcome
<1>4. CASE Withhold(w) \/ Transmit(w) \/ Receive(w) \/ LoseAnswer(w)
  <2>1. /\ pc[w] \in Sending /\ pc'[w] \in {"await", "settle"}
        /\ UNCHANGED <<moment, licence, cur, grant>>
    BY <1>4 DEF Withhold, Transmit, Receive, LoseAnswer, LoseAnswerAs, Conclude, Goto,
       TypeOK, local, tables, Sending
  <2> QED
    BY <1>1, <2>1, FlightIsInOrder
<1> QED
  BY <1>2, <1>3, <1>4, SweepingIsInOrder, GateIsInOrder, CheckGrantIsInOrder,
     CommitIsInOrder, ConsumeGrantIsInOrder, GetCredentialsIsInOrder, SettleIsInOrder
  DEF Step
-----------------------------------------------------------------------------
(***************************************************************************)
(* The audit trail stays true: a row of it is written of a ledger row that *)
(* is already so, and what it tells of does not come undone.               *)
(***************************************************************************)
Told(p, kind) ==
    /\ kind \in {"published", "reconciled_published"} => ledger[p].state = "published"
    /\ kind \in {"failed", "reconciled_failed"} => ledger[p].state = "failed"
    /\ kind \in {"unknown", "lease_expired_unknown"} => ledger[p].state \in Held
    /\ kind = "cancelled" => ledger[p].state = "cancelled"
    /\ kind = "expired" => ledger[p].state = "expired"

TrailIsTold == \A p \in Publications : \A kind \in audit[p] : Told(p, kind)

RequestsAreTold ==
    \A a \in Attempts :
        Spent(a) => a \in announced /\ "claimed" \in audit[request[a].pub]

LEMMA TrailInTwo == AuditIsTrue <=> TrailIsTold /\ RequestsAreTold
<1>1. ASSUME NEW p \in Publications
      PROVE  (\A kind \in audit[p] : Told(p, kind)) <=>
             /\ audit[p] \cap {"published", "reconciled_published"} # {} =>
                   ledger[p].state = "published"
             /\ audit[p] \cap {"failed", "reconciled_failed"} # {} =>
                   ledger[p].state = "failed"
             /\ audit[p] \cap {"unknown", "lease_expired_unknown"} # {} =>
                   ledger[p].state \in {"unknown", "published", "failed"}
             /\ "cancelled" \in audit[p] => ledger[p].state = "cancelled"
             /\ "expired" \in audit[p] => ledger[p].state = "expired"
  BY DEF Told, Held
<1> QED
  BY <1>1 DEF AuditIsTrue, TrailIsTold, RequestsAreTold, Spent

LEMMA ToldStays ==
  ASSUME TypeOK, LedgerMoves, NEW p \in Publications, NEW kind, Told(p, kind)
  PROVE  Told(p, kind)'
BY EndsAreKept DEF Told, Held

LEMMA TrailStays ==
  ASSUME TypeOK, LedgerMoves, TrailIsTold, UNCHANGED audit
  PROVE  TrailIsTold'
BY ToldStays DEF TrailIsTold

LEMMA EventIsTold ==
  ASSUME TypeOK, LedgerMoves, TrailIsTold, NEW p \in Publications, NEW kind,
         AppendEvent(p, kind), Told(p, kind)'
  PROVE  TrailIsTold'
<1>1. /\ audit'[p] = audit[p] \cup {kind}
      /\ \A q \in Publications \ {p} : audit'[q] = audit[q]
  BY EventGrowsTrail
<1>2. \A q \in Publications : \A k \in audit[q] : Told(q, k)'
  BY ToldStays DEF TrailIsTold
<1> QED
  BY <1>1, <1>2 DEF TrailIsTold

LEMMA TrailStep ==
  ASSUME TypeOK, TypeOK', Inductive, Bookkeeping, LedgerMoves, [Next]_vars
  PROVE  TrailIsTold'
<1>1. TrailIsTold
  BY TrailInTwo DEF Bookkeeping
<1>2. CASE UNCHANGED audit
  BY <1>1, <1>2, TrailStays
<1>3. ASSUME NEW w \in Workers, RecordSweep(w) PROVE TrailIsTold'
  <2>1. PICK r \in todo[w] : r[1] = cur[w] /\ AppendEvent(r[1], SweepEvent(r[2]))
    BY <1>3 DEF RecordSweep
  <2>2. /\ r[1] \in Publications /\ r[2] \in {"pending", "claimed", "sending"}
        /\ r = <<r[1], r[2]>>
    BY DEF TypeOK
  <2>3. SweepAgrees(w) /\ UNCHANGED ledger
    BY <1>3 DEF Bookkeeping, TickIsInOrder, RecordSweep
  <2>4. CASE pc[w] = "expired"
    <3>1. SweepEvent(r[2]) = "expired" /\ ledger[r[1]].state = "expired"
      BY <2>1, <2>3, <2>4 DEF SweepAgrees, SweepEvent
    <3>2. Told(r[1], SweepEvent(r[2]))'
      BY <2>3, <3>1 DEF Told
    <3> QED
      BY <1>1, <2>1, <2>2, <3>2, EventIsTold
  <2>5. CASE pc[w] = "recovered"
    <3>1. r[2] # "pending" /\ (r[2] = "sending" => ledger[r[1]].state \in Held)
      BY <2>1, <2>2, <2>3, <2>5 DEF SweepAgrees
    <3>2. \/ SweepEvent(r[2]) = "lease_recovered"
          \/ SweepEvent(r[2]) = "lease_expired_unknown" /\ ledger[r[1]].state \in Held
      BY <2>2, <3>1 DEF SweepEvent
    <3>3. Told(r[1], SweepEvent(r[2]))'
      BY <2>3, <3>2 DEF Told
    <3> QED
      BY <1>1, <2>1, <2>2, <3>3, EventIsTold
  <2> QED
    BY <1>3, <2>4, <2>5 DEF RecordSweep
<1>4. ASSUME NEW w \in Workers, Gate(w) PROVE TrailIsTold'
  <2>1. PICK p \in Publications : p = cur[w]
    BY <1>4 DEF Gate, Inductive, AttemptsOwned, Busy, Claiming
  <2>2. AppendEvent(p, "claimed")
    BY <1>4, <2>1 DEF Gate, AppendEvent
  <2>3. Told(p, "claimed")'
    BY DEF Told
  <2> QED
    BY <1>1, <2>2, <2>3, EventIsTold
<1>5. ASSUME NEW w \in Workers, RecordOutcome(w) PROVE TrailIsTold'
  <2>1. /\ pc[w] = "record" /\ cur[w] \in Publications
        /\ AppendEvent(cur[w], outcome[w].state) /\ UNCHANGED ledger
    BY <1>5 DEF RecordOutcome, Inductive, AttemptsOwned, Busy
  <2>2. EndAgrees(w) /\ outcome[w].state \in {"published", "pending", "failed", "unknown"}
    BY DEF Bookkeeping, TickIsInOrder, TypeOK, Outcome
  <2>3. PICK p \in Publications : p = cur[w]
    BY <2>1
  <2>4. PICK kind \in {"published", "pending", "failed", "unknown"} : kind = outcome[w].state
    BY <2>2
  <2>5. Told(p, kind)'
    BY <2>1, <2>2, <2>3, <2>4 DEF Told, EndAgrees
  <2>6. AppendEvent(p, kind)
    BY <2>1, <2>3, <2>4 DEF AppendEvent
  <2> QED
    BY <1>1, <2>5, <2>6, EventIsTold
<1>6. ASSUME NEW p \in Publications, Cancel(p) PROVE TrailIsTold'
  <2>1. ledger'[p].state = "cancelled"
    BY <1>6, FreedRow DEF Cancel, CancelFrom, Put, TypeOK, States
  <2>2. Told(p, "cancelled")'
    BY <2>1 DEF Told
  <2> QED
    BY <1>1, <1>2, <1>6, <2>2, EventIsTold DEF Cancel, CancelFrom, MaybeEvent
<1>7. ASSUME NEW p \in Publications, Reconcile(p) PROVE TrailIsTold'
  <2>1. ledger[p] \in Row
    BY DEF TypeOK
  <2>2. \/ ledger'[p].state = "published" /\ MaybeEvent(p, "reconciled_published")
        \/ ledger'[p].state = "failed" /\ MaybeEvent(p, "reconciled_failed")
    <3>1. ASSUME NEW a \in Attempts,
                 Put(p, [ledger[p] EXCEPT !.state = "published", !.urn = a])
          PROVE  ledger'[p].state = "published"
      BY <2>1, <3>1 DEF Put, TypeOK, Row
    <3>2. ASSUME Put(p, [ledger[p] EXCEPT !.state = "failed", !.code = "operator"])
          PROVE  ledger'[p].state = "failed"
      BY <2>1, <3>2 DEF Put, TypeOK, Row
    <3> QED
      BY <1>7, <3>1, <3>2 DEF Reconcile
  <2>3. \/ Told(p, "reconciled_published")' /\ MaybeEvent(p, "reconciled_published")
        \/ Told(p, "reconciled_failed")' /\ MaybeEvent(p, "reconciled_failed")
    BY <2>2 DEF Told
  <2> QED
    BY <1>1, <1>2, <2>3, EventIsTold DEF MaybeEvent
<1>8. ASSUME NEW w \in Workers, Step(w) \/ Crash(w) PROVE TrailIsTold'
  <2>1. ASSUME \/ BeginTick(w) \/ ReadOverdue(w) \/ ReadLeases(w) \/ Sweep(w)
               \/ EndSweep(w) \/ FindDue(w) \/ EndTick(w) \/ Crash(w)
               \/ Claim(w) \/ CheckGrant(w) \/ Release(w)
        PROVE  UNCHANGED audit
    BY <2>1 DEF BeginTick, ReadOverdue, ReadLeases, Sweep, EndSweep, FindDue, EndTick,
       Crash, Claim, CheckGrant, Release
  <2>2. ASSUME \/ CommitSending(w) \/ ConsumeGrant(w) \/ GetCredentials(w)
               \/ Withhold(w) \/ Transmit(w) \/ Receive(w) \/ LoseAnswer(w) \/ Settle(w)
        PROVE  UNCHANGED audit
    BY <2>2 DEF CommitSending, CommitUnder, ConsumeGrant, GetCredentials, AnnounceSending,
       Withhold, Transmit, Receive, LoseAnswer, LoseAnswerAs, Settle
  <2> QED
    BY <1>2, <1>3, <1>4, <1>5, <1>8, <2>1, <2>2 DEF Step
<1>9. ASSUME \/ \E a \in Attempts : Accept(a) \/ Refuse(a) \/ Throttle(a)
             \/ \E p \in Publications : Approve(p) \/ Revoke(p) \/ Commission(p)
             \/ SetSwitch \/ AdvanceClock \/ UNCHANGED vars
      PROVE  UNCHANGED audit
  BY <1>9 DEF Accept, Refuse, Throttle, Answer, Approve, Revoke, Commission, SetSwitch,
     AdvanceClock, vars
<1> QED
  BY <1>2, <1>6, <1>7, <1>8, <1>9 DEF Next
\* How the requests move: one leaves, one is answered, one is dropped for good.
LEMMA RequestsMove ==
  ASSUME TypeOK, [Next]_vars
  PROVE  \/ UNCHANGED request
         \/ \E w \in Workers : Transmit(w)
         \/ \E w \in Workers : Receive(w)
         \/ \E a \in Attempts : \E status \in {"accepted", "refused", "throttled"} :
               Answer(a, status)
<1>1. ASSUME NEW w \in Workers, Step(w) \/ Crash(w)
      PROVE  UNCHANGED request \/ Transmit(w) \/ Receive(w)
  <2>1. ASSUME \/ BeginTick(w) \/ ReadOverdue(w) \/ ReadLeases(w) \/ Sweep(w)
               \/ RecordSweep(w) \/ EndSweep(w) \/ FindDue(w) \/ EndTick(w) \/ Crash(w)
               \/ Claim(w) \/ Gate(w) \/ CheckGrant(w) \/ Release(w)
        PROVE  UNCHANGED request
    BY <2>1 DEF BeginTick, ReadOverdue, ReadLeases, Sweep, RecordSweep, EndSweep, FindDue,
       EndTick, Crash, Claim, Gate, CheckGrant, Release
  <2>2. ASSUME \/ CommitSending(w) \/ ConsumeGrant(w) \/ GetCredentials(w) \/ Withhold(w)
               \/ LoseAnswer(w) \/ Settle(w) \/ RecordOutcome(w)
        PROVE  UNCHANGED request
    BY <2>2 DEF CommitSending, CommitUnder, ConsumeGrant, GetCredentials, Withhold,
       LoseAnswer, LoseAnswerAs, Settle, RecordOutcome
  <2> QED
    BY <1>1, <2>1, <2>2 DEF Step
<1>2. ASSUME \/ \E p \in Publications :
                   Approve(p) \/ Revoke(p) \/ Commission(p) \/ Cancel(p) \/ Reconcile(p)
             \/ SetSwitch \/ AdvanceClock \/ UNCHANGED vars
      PROVE  UNCHANGED request
  BY <1>2 DEF Approve, Revoke, Commission, Cancel, CancelFrom, Reconcile, SetSwitch,
     AdvanceClock, vars
<1> QED
  BY <1>1, <1>2 DEF Next, Accept, Refuse, Throttle

\* A request that is there was there, for the same publication, or is just leaving.
LEMMA RequestsAreOldOrLeaving ==
  ASSUME TypeOK, Inductive, [Next]_vars, NEW a \in Attempts, request'[a].status # "none"
  PROVE  \/ Spent(a) /\ request'[a].pub = request[a].pub
         \/ \E w \in Workers :
               /\ Transmit(w) /\ a = attempt[w]
               /\ request'[a] = [pub |-> cur[w], status |-> "inflight"]
<1>1. CASE UNCHANGED request
  BY <1>1 DEF Spent
<1>2. ASSUME NEW w \in Workers, Transmit(w)
      PROVE  \/ Spent(a) /\ request'[a].pub = request[a].pub
             \/ /\ a = attempt[w]
                /\ request'[a] = [pub |-> cur[w], status |-> "inflight"]
  BY <1>2 DEF Transmit, TypeOK, Spent
<1>3. ASSUME NEW w \in Workers, Receive(w)
      PROVE  Spent(a) /\ request'[a].pub = request[a].pub
  BY <1>1, <1>3 DEF Receive, TypeOK, Spent, NoRequest
<1>4. ASSUME NEW b \in Attempts, NEW status \in {"accepted", "refused", "throttled"},
             Answer(b, status)
      PROVE  Spent(a) /\ request'[a].pub = request[a].pub
  <2>1. request[b].status = "inflight" /\ request[b] \in Request
    BY <1>4 DEF Answer, TypeOK
  <2>2. request' = [request EXCEPT ![b] = [request[b] EXCEPT !.status = status]]
    BY <1>4 DEF Answer
  <2>3. CASE a = b
    BY <2>1, <2>2, <2>3 DEF Request, TypeOK, Spent
  <2>4. CASE a # b
    BY <2>2, <2>4 DEF TypeOK, Spent
  <2> QED
    BY <2>3, <2>4
<1> QED
  BY <1>1, <1>2, <1>3, <1>4, RequestsMove

LEMMA RequestsAreToldStep ==
  ASSUME TypeOK, TypeOK', Inductive, Bookkeeping, TrailGrows, [Next]_vars
  PROVE  RequestsAreTold'
<1> SUFFICES ASSUME NEW a \in Attempts, request'[a].status # "none"
             PROVE  a \in announced' /\ "claimed" \in audit'[request'[a].pub]
  BY DEF RequestsAreTold, Spent
<1>1. CASE Spent(a) /\ request'[a].pub = request[a].pub
  <2>1. request[a].pub \in Publications
    BY <1>1 DEF Inductive, SpentIsCommitted
  <2>2. a \in announced /\ "claimed" \in audit[request[a].pub]
    BY <1>1, TrailInTwo DEF Bookkeeping, RequestsAreTold
  <2> QED
    BY <1>1, <2>1, <2>2 DEF TrailGrows, Fresh, Spent
<1>2. ASSUME NEW w \in Workers, Transmit(w),
             a = attempt[w], request'[a] = [pub |-> cur[w], status |-> "inflight"]
      PROVE  a \in announced' /\ "claimed" \in audit'[request'[a].pub]
  <2>1. pc[w] = "client" /\ cur[w] \in Publications /\ UNCHANGED <<audit, announced>>
    BY <1>2 DEF Transmit, Inductive, AttemptsOwned, Busy, Sending
  <2>2. EventsPrecede(w)
    BY DEF Bookkeeping, TickIsInOrder
  <2> QED
    BY <1>2, <2>1, <2>2 DEF EventsPrecede, Departing
<1> QED
  BY <1>1, <1>2, RequestsAreOldOrLeaving

-----------------------------------------------------------------------------
(***************************************************************************)
(* A grant a request has left under stays closed, and the whole.           *)
(***************************************************************************)
LEMMA GrantsStaySpent ==
  ASSUME TypeOK, TypeOK', Inductive, Bookkeeping, GrantsMove,
         UNCHANGED licensed \/ \E w \in Workers : Transmit(w)
  PROVE  GrantsAreSpent'
<1>1. ASSUME NEW l \in licensed
      PROVE  l[2] # 0 /\ l[2] <= grant'[l[1]].serial /\ ~GrantIsOpen(l[1], l[2])'
  <2>1. PICK p \in Publications, n \in Nat : l = <<p, n>>
    BY DEF TypeOK
  <2>2. n # 0 /\ n <= grant[p].serial /\ ~GrantIsOpen(p, n)
    BY <2>1 DEF Bookkeeping, GrantsAreSpent, GrantIsOpen
  <2>3. n <= grant'[p].serial /\ ~GrantIsOpen(p, n)'
    BY <2>2, ClosedGrantStaysClosed
  <2> QED
    BY <2>1, <2>2, <2>3 DEF GrantIsOpen
<1>2. ASSUME NEW w \in Workers, Transmit(w), licence[w] # 0
      PROVE  /\ licence[w] <= grant'[cur[w]].serial
             /\ ~GrantIsOpen(cur[w], licence[w])'
  <2>1. pc[w] = "client" /\ UNCHANGED <<grant, cur, licence>>
    BY <1>2 DEF Transmit, tables, local
  <2>2. LicenceIsOwn(w)
    BY DEF Bookkeeping, TickIsInOrder
  <2> QED
    BY <1>2, <2>1, <2>2 DEF LicenceIsOwn, GrantIsOpen
<1>3. ASSUME NEW l \in licensed', l \notin licensed
      PROVE  l[2] # 0 /\ l[2] <= grant'[l[1]].serial /\ ~GrantIsOpen(l[1], l[2])'
  <2>1. PICK w \in Workers : Transmit(w) /\ licence[w] # 0 /\ l = <<cur[w], licence[w]>>
    BY <1>3 DEF Transmit
  <2> QED
    BY <1>2, <2>1 DEF GrantIsOpen, Transmit, local
<1>4. ASSUME NEW p \in Publications, grant'[p].open PROVE grant'[p].serial # 0
  <2>1. grant[p].serial \in Nat /\ (grant[p].open => grant[p].serial # 0)
    BY DEF Bookkeeping, GrantsAreSpent, TypeOK
  <2> QED
    BY <1>4, <2>1 DEF GrantsMove
<1>5. \A l \in licensed' :
         l[2] # 0 /\ l[2] <= grant'[l[1]].serial /\ ~GrantIsOpen(l[1], l[2])'
  BY <1>1, <1>3 DEF GrantIsOpen
<1> QED
  BY <1>4, <1>5 DEF GrantsAreSpent, GrantIsOpen

LEMMA BookkeepingStep ==
  ASSUME TypeOK, TypeOK', Inductive, Bookkeeping, [Next]_vars
  PROVE  Bookkeeping'
<1>1. AttemptsOwned /\ ClaimIsExclusive
  BY DEF Inductive, Bookkeeping
<1>2. LedgerMoves /\ GrantsMove /\ TrailGrows /\ ApprovalsMove
  BY <1>1, EveryStepMoves, EveryStepMovesGrants, EveryStepGrowsTrail,
     EveryStepMovesApprovals
<1>3. ClaimIsExclusive'
  BY <1>1, <1>2, ClaimStaysExclusive
<1>4. AuditIsTrue'
  <2>1. TrailIsTold' /\ RequestsAreTold'
    BY <1>2, TrailStep, RequestsAreToldStep
  <2>2. (TrailIsTold /\ RequestsAreTold => AuditIsTrue)'
    BY TrailInTwo, PTL
  <2> QED
    BY <2>1, <2>2
<1>5. ASSUME NEW w \in Workers, Step(w) \/ Crash(w)
      PROVE  GrantsAreSpent' /\ \A v \in Workers : TickIsInOrder(v)'
  <2>1. UNCHANGED clock /\ (Transmit(w) \/ UNCHANGED licensed)
    BY <1>5, StepIsInstant
  <2>2. GrantsAreSpent'
    BY <1>2, <2>1, GrantsStaySpent
  <2>3. TickIsInOrder(w)'
    BY <1>2, <1>5, ActorKeepsOrder
  <2>4. ASSUME NEW v \in Workers \ {w} PROVE TickIsInOrder(v)'
    <3>1. Stands(v) /\ clock <= clock'
      BY <1>5, <2>1, BystandersStand DEF TypeOK
    <3>2. UNCHANGED licensed \/ \E u \in Workers \ {v} : Transmit(u)
      BY <2>1
    <3> QED
      BY <1>2, <3>1, <3>2, BystanderKeepsOrder
  <2> QED
    BY <2>2, <2>3, <2>4
<1>6. ASSUME \/ \E a \in Attempts : Accept(a) \/ Refuse(a) \/ Throttle(a)
             \/ \E p \in Publications :
                   Approve(p) \/ Revoke(p) \/ Commission(p) \/ Cancel(p) \/ Reconcile(p)
             \/ SetSwitch \/ AdvanceClock \/ UNCHANGED vars
      PROVE  GrantsAreSpent' /\ \A v \in Workers : TickIsInOrder(v)'
  <2>1. /\ \A v \in Workers : Stands(v)
        /\ UNCHANGED licensed /\ clock <= clock'
    BY <1>6, OutsidersOnlyTouchRecords
  <2> QED
    BY <1>2, <2>1, GrantsStaySpent, BystanderKeepsOrder
<1> QED
  BY <1>3, <1>4, <1>5, <1>6 DEF Bookkeeping, Next
-----------------------------------------------------------------------------
\* The records and the workers agree at every instant (service.py, publish_due
\* and publish_one, over postgres.py): claims are exclusive, the trail is true,
\* spent grants stay closed, and each worker is where the records let it be.
THEOREM BookkeepingHolds == Spec => []Bookkeeping
<1>1. Init => Bookkeeping
  BY InitBookkeeping
<1>2. TypeOK /\ TypeOK' /\ Inductive /\ Bookkeeping /\ [Next]_vars => Bookkeeping'
  BY BookkeepingStep
<1> QED
  BY <1>1, <1>2, Invariance, PTL DEF Spec

\* Only a live claim carries a token and a lease, and no two rows answer to the
\* same one, whoever crashes, sweeps, cancels or settles (service.py:275, 561).
THEOREM ClaimsAreExclusive == Spec => []ClaimIsExclusive
<1>1. Bookkeeping => ClaimIsExclusive
  BY DEF Bookkeeping
<1> QED
  BY <1>1, BookkeepingHolds, PTL

\* No row of publication_events tells of a write that did not happen or was
\* undone, and no request leaves before the `sending` row of its own attempt is
\* there (service.py:310), although each audit row is an await of its own.
THEOREM AuditIsNeverWrong == Spec => []AuditIsTrue
<1>1. Bookkeeping => AuditIsTrue
  BY DEF Bookkeeping
<1> QED
  BY <1>1, BookkeepingHolds, PTL

\* Every write of the Postgres path obeys the table of store.py:55, which only
\* the in-memory store enforces: a settled row never changes its state, and only
\* an operator moves an unknown one.
THEOREM WritesObeyTheTable == Spec => TransitionsAllowed
<1>1. TypeOK /\ Inductive /\ Bookkeeping /\ [Next]_vars
      => [\A p \in Publications :
             ledger'[p].state # ledger[p].state =>
                ledger'[p].state \in AllowedTransitions[ledger[p].state]]_ledger
  <2> SUFFICES ASSUME TypeOK, Inductive, Bookkeeping, [Next]_vars, NEW p \in Publications,
                      ledger'[p].state # ledger[p].state
               PROVE  ledger'[p].state \in AllowedTransitions[ledger[p].state]
    OBVIOUS
  <2>1. LedgerMoves
    BY EveryStepMoves DEF Inductive, Bookkeeping
  <2> QED
    BY <2>1, MovesAreAllowed
<1> QED
  BY <1>1, BookkeepingHolds, Invariance, PTL DEF Spec, TransitionsAllowed

\* A request leaves only by a worker's Transmit.
LEMMA OnlyTransmitLeaves ==
  ASSUME TypeOK, Inductive, [Next]_vars, NEW p \in Publications, Leaves(p)
  PROVE  \E w \in Workers : Transmit(w) /\ cur[w] = p
<1>1. PICK a \in Attempts : /\ request[a].status = "none"
                            /\ request'[a] = [pub |-> p, status |-> "inflight"]
  BY DEF Leaves
<1>2. request'[a].status # "none" /\ ~Spent(a)
  BY <1>1 DEF Spent
<1>3. PICK w \in Workers : /\ Transmit(w)
                          /\ request'[a] = [pub |-> cur[w], status |-> "inflight"]
  BY <1>2, RequestsAreOldOrLeaving
<1>4. cur[w] = p
  BY <1>1, <1>3
<1> QED
  BY <1>3, <1>4

\* No request leaves before its slot, nor before the deferral its row carries at
\* that moment (store.py:126), whatever the clock of the tick that sends it and
\* whoever else has swept or deferred the row since the window was checked.
THEOREM NothingLeavesEarly == Spec => NeverEarly
<1>1. TypeOK /\ Inductive /\ Bookkeeping /\ [Next]_vars
      => [\A p \in Publications :
             Leaves(p) => ScheduledAt[p] <= clock /\ ledger[p].notBefore <= clock]_vars
  <2> SUFFICES ASSUME TypeOK, Inductive, Bookkeeping, [Next]_vars, NEW p \in Publications,
                      Leaves(p)
               PROVE  ScheduledAt[p] <= clock /\ ledger[p].notBefore <= clock
    OBVIOUS
  <2>1. PICK w \in Workers : Transmit(w) /\ cur[w] = p
    BY OnlyTransmitLeaves
  <2>2. pc[w] = "client"
    BY <2>1 DEF Transmit
  <2>3. /\ MomentIsPast(w) /\ SlotHasCome(w)
        /\ ScheduledAt[p] \in Nat /\ ledger[p].notBefore \in Nat
        /\ moment[w] \in Nat /\ clock \in Nat
    BY TimesAssumption DEF Bookkeeping, TickIsInOrder, TypeOK, Row
  <2> QED
    BY <2>1, <2>2, <2>3 DEF MomentIsPast, SlotHasCome, Departing
<1> QED
  BY <1>1, BookkeepingHolds, Invariance, PTL DEF Spec, NeverEarly

\* A grant licenses one request, ever (store.py:175): not a second one after a
\* throttled answer, a crash or a sweep, nor one under a grant closed before.
THEOREM GrantsAreOneShot == Spec => GrantIsOneShot
<1>1. Bookkeeping =>
        [\A w \in Workers :
            pc[w] = "client" /\ pc'[w] = "await" /\ licence[w] # 0 =>
               /\ <<cur[w], licence[w]>> \notin licensed
               /\ ~(grant[cur[w]].open /\ grant[cur[w]].serial = licence[w])]_vars
  BY DEF Bookkeeping, TickIsInOrder, LicenceIsOwn, GrantIsOpen, Departing
<1> QED
  BY <1>1, BookkeepingHolds, PTL DEF Spec, GrantIsOneShot

\* No request leaves unauthorised (service.py:364): whatever was revoked, switched
\* or swept since the gates were passed, the publication is approved, and was not
\* revoked when the tick began, and publishing was enabled or a grant is held.
THEOREM SendsAreAuthorized == Spec => SendIsAuthorized
<1>1. Bookkeeping =>
        [\A w \in Workers :
            pc[w] = "client" /\ pc'[w] = "await" =>
               /\ approval[cur[w]].given /\ moment[w] <= approval[cur[w]].revokedAt
               /\ moment[w] < ExpiresAt[cur[w]]
               /\ armed[w] \/ licence[w] # 0]_vars
  BY DEF Bookkeeping, TickIsInOrder, GatesWereOpen, Departing
<1> QED
  BY <1>1, BookkeepingHolds, PTL DEF Spec, SendIsAuthorized
=============================================================================
