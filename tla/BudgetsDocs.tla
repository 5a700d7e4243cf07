---------------------------- MODULE BudgetsDocs -----------------------------
(***************************************************************************)
(* What the repository says of a member's daily ceiling, stated of Budgets *)
(* as the code is.                                                         *)
(***************************************************************************)
EXTENDS Budgets, FiniteSetsExt

CONSTANT Author     \* the member whose post it is

ASSUME AuthorAssumption == Author \in [Posts -> Members]

\* The requests that left with the token of a member.
SentFor(m, d) ==
    sent[<<"member", m, d>>] +
    MapThenSumSet(LAMBDA p : sent[<<"member", p, d>>], {p \in Posts : Author[p] = m})

\* limits.py:60: "an endpoint with no entry is bounded only by the app and member
\* ceilings": the requests made for a member, reads and deletes among them, never
\* pass the ceiling of the member that some replica has.
MemberCeilingHolds ==
    \A m \in Members, d \in Days :
        \E r \in Replicas : SentFor(m, d) <= Profile[r].member
=============================================================================
