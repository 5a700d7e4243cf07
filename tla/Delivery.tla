------------------------------ MODULE Delivery ------------------------------
(***************************************************************************)
(* What the publication ledger promises, without saying how.               *)
(*                                                                         *)
(* store.py states the promise as "No automatic replay after an ambiguous  *)
(* send": a request to create a post may leave only for a publication that *)
(* is durably committed to sending, at most one request that the provider  *)
(* has not definitely turned away may ever exist for a publication, and a  *)
(* publication goes back to waiting only when none does.                   *)
(***************************************************************************)
EXTENDS TLAPS

CONSTANTS
    Publications,   \* the publications of the ledger
    URNs            \* names LinkedIn can give to a created post

VARIABLES
    phase,          \* where the ledger says each publication is
    exposed,        \* publications with a request LinkedIn may have accepted
    posts           \* the posts on LinkedIn: a set of <<publication, URN>>

deliveryVars == <<phase, exposed, posts>>

Phases == {"waiting", "committed", "held", "published", "failed", "withdrawn"}

DeliveryTypeOK ==
    /\ phase \in [Publications -> Phases]
    /\ exposed \subseteq Publications
    /\ posts \subseteq Publications \X URNs

DeliveryInit ==
    /\ phase = [p \in Publications |-> "waiting"]
    /\ exposed = {}
    /\ posts = {}

Move(p, from, to) ==
    /\ phase[p] = from
    /\ phase' = [phase EXCEPT ![p] = to]

-----------------------------------------------------------------------------
\* The ledger commits to a send: from here on only evidence brings it back.
Commit(p) ==
    /\ Move(p, "waiting", "committed")
    /\ p \notin exposed
    /\ UNCHANGED <<exposed, posts>>

\* A definite refusal to take the request now; nothing of it can be accepted.
PutBack(p) ==
    /\ Move(p, "committed", "waiting")
    /\ p \notin exposed
    /\ UNCHANGED <<exposed, posts>>

\* Cancelled or expired, which only a waiting publication can be.
Withdraw(p) ==
    /\ Move(p, "waiting", "withdrawn")
    /\ UNCHANGED <<exposed, posts>>

\* The outcome is not known: stop, and wait for a human.
Hold(p) ==
    /\ Move(p, "committed", "held")
    /\ UNCHANGED <<exposed, posts>>

\* The ledger records a post only if that post exists ...
Confirm(p) ==
    /\ \/ Move(p, "committed", "published")
       \/ Move(p, "held", "published")
    /\ \E u \in URNs : <<p, u>> \in posts
    /\ UNCHANGED <<exposed, posts>>

\* ... and a failure while no post does. A failure recorded by an operator may
\* be overtaken by a request that is still travelling; the sender's may not.
Fail(p) ==
    /\ \/ Move(p, "committed", "failed") /\ p \notin exposed
       \/ Move(p, "held", "failed")
    /\ \A u \in URNs : <<p, u>> \notin posts
    /\ UNCHANGED <<exposed, posts>>

\* A request leaves. It can leave late, when the ledger has already given up
\* on its outcome, but never for a publication that waits or was withdrawn.
Expose(p) ==
    /\ phase[p] \notin {"waiting", "withdrawn", "published"}
    /\ p \notin exposed
    /\ exposed' = exposed \cup {p}
    /\ UNCHANGED <<phase, posts>>

\* LinkedIn turns the request away.
Refuse(p) ==
    /\ p \in exposed
    /\ \A u \in URNs : <<p, u>> \notin posts
    /\ exposed' = exposed \ {p}
    /\ UNCHANGED <<phase, posts>>

\* LinkedIn accepts it: the one post this publication can ever have.
Appear(p, u) ==
    /\ p \in exposed
    /\ \A v \in URNs : <<p, v>> \notin posts
    /\ posts' = posts \cup {<<p, u>>}
    /\ UNCHANGED <<phase, exposed>>

DeliveryNext ==
    \E p \in Publications :
        \/ Commit(p) \/ PutBack(p) \/ Withdraw(p) \/ Hold(p)
        \/ Confirm(p) \/ Fail(p) \/ Expose(p) \/ Refuse(p)
        \/ \E u \in URNs : Appear(p, u)

DeliverySpec == DeliveryInit /\ [][DeliveryNext]_deliveryVars

-----------------------------------------------------------------------------
\* No publication is ever posted twice.
AtMostOnePost ==
    \A p \in Publications : \A u, v \in URNs :
        <<p, u>> \in posts /\ <<p, v>> \in posts => u = v

\* A publication that waits, or was withdrawn, is not on LinkedIn and no
\* request that could put it there is travelling.
NothingOutstanding ==
    \A p \in Publications :
        phase[p] \in {"waiting", "withdrawn"} =>
            p \notin exposed /\ \A u \in URNs : <<p, u>> \notin posts
-----------------------------------------------------------------------------
\* The inductive invariant of the promise: what stands on LinkedIn got there
\* through a request that is still counted as exposed.
PostsAreExposed ==
    \A p \in Publications : \A u \in URNs : <<p, u>> \in posts => p \in exposed

DeliveryInvariant ==
    /\ DeliveryTypeOK
    /\ PostsAreExposed
    /\ AtMostOnePost
    /\ NothingOutstanding

LEMMA DeliveryInitHolds == DeliveryInit => DeliveryInvariant
  BY DEF DeliveryInit, DeliveryInvariant, DeliveryTypeOK, Phases, PostsAreExposed,
     AtMostOnePost, NothingOutstanding

\* A move of the ledger asks one thing: that nothing is exposed where it leads
\* to waiting or withdrawn.
LEMMA MoveKeepsPromise ==
  ASSUME DeliveryInvariant, NEW p \in Publications, NEW from \in Phases, NEW to \in Phases,
         Move(p, from, to), UNCHANGED <<exposed, posts>>,
         to \in {"waiting", "withdrawn"} => p \notin exposed
  PROVE  DeliveryInvariant'
<1>1. DeliveryTypeOK' /\ PostsAreExposed' /\ AtMostOnePost'
  BY DEF DeliveryInvariant, DeliveryTypeOK, PostsAreExposed, AtMostOnePost, Move
<1>2. phase'[p] = to /\ \A q \in Publications \ {p} : phase'[q] = phase[q]
  BY DEF DeliveryInvariant, DeliveryTypeOK, Move
<1>3. NothingOutstanding'
  BY <1>2 DEF DeliveryInvariant, PostsAreExposed, NothingOutstanding
<1> QED
  BY <1>1, <1>3 DEF DeliveryInvariant

LEMMA DeliveryStep ==
  ASSUME DeliveryInvariant, [DeliveryNext]_deliveryVars
  PROVE  DeliveryInvariant'
<1>1. CASE UNCHANGED deliveryVars
  BY <1>1 DEF deliveryVars, DeliveryInvariant, DeliveryTypeOK, PostsAreExposed,
     AtMostOnePost, NothingOutstanding
<1>2. ASSUME NEW p \in Publications,
             \/ Commit(p) \/ PutBack(p) \/ Withdraw(p) \/ Hold(p) \/ Confirm(p) \/ Fail(p)
      PROVE  DeliveryInvariant'
  <2>1. PICK from \in Phases, to \in Phases :
          /\ Move(p, from, to)
          /\ to \in {"waiting", "withdrawn"} => p \notin exposed \/ from = "waiting"
    BY <1>2 DEF Commit, PutBack, Withdraw, Hold, Confirm, Fail, Phases
  <2>2. from = "waiting" => p \notin exposed
    BY <2>1 DEF Move, DeliveryInvariant, NothingOutstanding
  <2> QED
    BY <1>2, <2>1, <2>2, MoveKeepsPromise
    DEF Commit, PutBack, Withdraw, Hold, Confirm, Fail
<1>3. ASSUME NEW p \in Publications, Expose(p)
      PROVE  DeliveryInvariant'
  BY <1>3 DEF Expose, DeliveryInvariant, DeliveryTypeOK, PostsAreExposed, AtMostOnePost,
     NothingOutstanding
<1>4. ASSUME NEW p \in Publications, Refuse(p)
      PROVE  DeliveryInvariant'
  BY <1>4 DEF Refuse, DeliveryInvariant, DeliveryTypeOK, PostsAreExposed, AtMostOnePost,
     NothingOutstanding
<1>5. ASSUME NEW p \in Publications, NEW u \in URNs, Appear(p, u)
      PROVE  DeliveryInvariant'
  <2>1. /\ p \in exposed /\ \A v \in URNs : <<p, v>> \notin posts
        /\ \A q \in Publications, v \in URNs :
              <<q, v>> \in posts' <=> <<q, v>> \in posts \/ (q = p /\ v = u)
    BY <1>5 DEF Appear
  <2>2. DeliveryTypeOK'
    BY <1>5 DEF Appear, DeliveryInvariant, DeliveryTypeOK
  <2>3. PostsAreExposed' /\ AtMostOnePost' /\ NothingOutstanding'
    BY <1>5, <2>1
    DEF Appear, DeliveryInvariant, PostsAreExposed, AtMostOnePost, NothingOutstanding
  <2> QED
    BY <2>2, <2>3 DEF DeliveryInvariant
<1> QED
  BY <1>1, <1>2, <1>3, <1>4, <1>5 DEF DeliveryNext

\* The promise is worth having: whatever keeps it never posts a publication
\* twice, and has nothing on LinkedIn, nor on its way there, for a publication
\* that waits or was withdrawn (README, "The one guarantee").
THEOREM DeliveryIsSafe == DeliverySpec => [](AtMostOnePost /\ NothingOutstanding)
<1>1. DeliveryInvariant /\ [DeliveryNext]_deliveryVars => DeliveryInvariant'
  BY DeliveryStep
<1>2. DeliveryInvariant => AtMostOnePost /\ NothingOutstanding
  BY DEF DeliveryInvariant
<1> QED
  BY DeliveryInitHolds, <1>1, <1>2, PTL DEF DeliverySpec
=============================================================================
