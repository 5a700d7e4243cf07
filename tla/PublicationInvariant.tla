------------------------ MODULE PublicationInvariant ------------------------
(***************************************************************************)
(* The inductive invariants of Publication: Inductive, behind NoReplay,    *)
(* LedgerNeverForgets, ReceiptIsReal and the refinement of Delivery, and   *)
(* Bookkeeping, behind what the audit trail, the slots and the grants      *)
(* promise. TLC checks both on small instances; PublicationProofs and      *)
(* PublicationHistory prove them.                                          *)
(***************************************************************************)
EXTENDS Publication

\* Places of a worker that holds an attempt ...
Claiming == {"gate", "grant", "release", "commit"}
\* ... that has committed to a send and not yet written its end ...
Sending  == {"consume", "credentials", "client", "await", "settle"}
\* ... and whose request has not left.
Unsent   == Claiming \cup {"consume", "credentials", "client"}
Busy     == Claiming \cup Sending \cup {"record"}

\* States a publication can be in once a send was committed and not taken back.
Committed == {"sending", "published", "failed", "unknown"}

Spent(a) == request[a].status # "none"

\* An attempt belongs to one worker, and a busy worker has one.
AttemptsOwned ==
    /\ \A w \in Workers : pc[w] \in Busy => attempt[w] \in Attempts /\ cur[w] \in Publications
    /\ \A v, w \in Workers : attempt[v] = attempt[w] /\ attempt[v] # NoToken => v = w
    /\ \A w \in Workers : pc[w] \in Unsent => ~Spent(attempt[w])

\* The row of a committed sender is `sending` under its own token, or has been
\* decided by someone else; it is not sendable again.
SendersHoldRow ==
    \A w \in Workers :
        pc[w] \in Sending =>
            /\ ledger[cur[w]].state \in Committed
            /\ ledger[cur[w]].state = "sending" => ledger[cur[w]].token = attempt[w]
            /\ ledger[cur[w]].state = "failed" => ledger[cur[w]].code = "operator"

\* At most one committed sender per publication, however long it lingers.
OneSender ==
    \A v, w \in Workers :
        pc[v] \in Sending /\ pc[w] \in Sending /\ cur[v] = cur[w] => v = w

\* A spent request names its publication, whose row is committed.
SpentIsCommitted ==
    \A a \in Attempts :
        Spent(a) => /\ request[a].pub \in Publications
                    /\ ledger[request[a].pub].state \in Committed

\* A sender about to transmit is the first to do so; one that waits has.
SenderRequests ==
    \A w \in Workers :
        /\ pc[w] \in {"consume", "credentials", "client"} =>
              \A a \in Attempts : Spent(a) => request[a].pub # cur[w]
        /\ pc[w] = "await" => Spent(attempt[w]) /\ request[attempt[w]].pub = cur[w]

\* What a sender is about to write is what became of its request.
OutcomeIsTrue ==
    \A w \in Workers :
        pc[w] = "settle" =>
            /\ outcome[w].state = "pending" =>
                  \A a \in Attempts : Spent(a) => request[a].pub # cur[w]
            /\ outcome[w].state = "failed" =>
                  \A a \in Attempts : MayBePost(a) => request[a].pub # cur[w]
            /\ outcome[w].state = "published" =>
                  request[attempt[w]] = [pub |-> cur[w], status |-> "accepted"]

Inductive ==
    /\ AttemptsOwned
    /\ SendersHoldRow
    /\ OneSender
    /\ SpentIsCommitted
    /\ SenderRequests
    /\ OutcomeIsTrue
    /\ NoReplay
    /\ LedgerNeverForgets
    /\ ReceiptIsReal

-----------------------------------------------------------------------------
\* States a row that was held for a human can be in from then on.
Held == {"unknown", "published", "failed"}

\* Places where a send is on its way: past the gates, its request not yet out.
Departing == {"consume", "credentials", "client"}

\* Places where a tick may carry a licence.
Licensing == {"commit", "record"} \cup Sending

\* A tick's clock is never ahead.
MomentIsPast(w) == moment[w] <= clock

\* A sweep keeps to the states it read, one per row, and has only its audit row
\* left to write for a row it changed.
SweepAgrees(w) ==
    /\ pc[w] \in {"expiring", "expired"} => \A r \in todo[w] : r[2] = "pending"
    /\ pc[w] \in {"recovering", "recovered"} =>
          \A r, s \in todo[w] : r[2] # "pending" /\ (r[1] = s[1] => r = s)
    /\ pc[w] = "expired" =>
          cur[w] \in Publications /\ ledger[cur[w]].state = "expired"
    /\ pc[w] = "recovered" =>
          cur[w] \in Publications
          /\ (<<cur[w], "sending">> \in todo[w] => ledger[cur[w]].state \in Held)

\* The end a worker is about to audit is on the row.
EndAgrees(w) ==
    pc[w] = "record" =>
        /\ outcome[w].state \in {"published", "failed"} =>
              ledger[cur[w]].state = outcome[w].state
        /\ outcome[w].state = "unknown" => ledger[cur[w]].state \in Held

\* A worker past a place that audits has audited, a send in its own attempt's name.
EventsPrecede(w) ==
    /\ pc[w] \in {"grant", "commit"} \cup Departing => "claimed" \in audit[cur[w]]
    /\ pc[w] = "client" => attempt[w] \in announced

\* Past the window's gate the slot has come; and no deferral lies ahead, unless
\* the row has changed hands, when the worker cannot commit.
SlotHasCome(w) ==
    pc[w] \in {"grant", "commit"} \cup Departing =>
        /\ ScheduledAt[cur[w]] <= moment[w]
        /\ pc[w] \in Departing \/ ledger[cur[w]].token = attempt[w] =>
              ledger[cur[w]].notBefore <= moment[w]

GrantIsOpen(p, serial) == grant[p].open /\ grant[p].serial = serial

\* The grant that licenses a departing send licenses no other, and is closed
\* once consumed.
LicenceIsOwn(w) ==
    /\ pc[w] \notin Licensing => licence[w] = 0
    /\ licence[w] # 0 => licence[w] <= grant[cur[w]].serial
    /\ pc[w] \in {"credentials", "client"} /\ licence[w] # 0 =>
          ~GrantIsOpen(cur[w], licence[w])
    /\ \/ pc[w] \in Departing
       \/ pc[w] = "commit" /\ ledger[cur[w]].token = attempt[w]
       => <<cur[w], licence[w]>> \notin licensed

\* Past the gates the publication stays approved, revoked since the tick began
\* at the earliest; the window was open, and so was publishing, or a grant is held.
GatesWereOpen(w) ==
    /\ pc[w] \in {"grant", "commit"} \cup Departing =>
          /\ approval[cur[w]].given /\ moment[w] <= approval[cur[w]].revokedAt
          /\ moment[w] < ExpiresAt[cur[w]]
    /\ pc[w] \in {"commit"} \cup Departing => armed[w] \/ licence[w] # 0

\* What holds of a worker, wherever its tick is.
TickIsInOrder(w) ==
    /\ MomentIsPast(w)
    /\ SweepAgrees(w)
    /\ EndAgrees(w)
    /\ EventsPrecede(w)
    /\ SlotHasCome(w)
    /\ LicenceIsOwn(w)
    /\ GatesWereOpen(w)

\* An open grant was issued; one a request has left under is closed for good.
GrantsAreSpent ==
    /\ \A p \in Publications : grant[p].open => grant[p].serial # 0
    /\ \A l \in licensed :
          l[2] # 0 /\ l[2] <= grant[l[1]].serial /\ ~GrantIsOpen(l[1], l[2])

Bookkeeping ==
    /\ ClaimIsExclusive
    /\ AuditIsTrue
    /\ GrantsAreSpent
    /\ \A w \in Workers : TickIsInOrder(w)
=============================================================================
