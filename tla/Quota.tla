------------------------------- MODULE Quota --------------------------------
(***************************************************************************)
(* The promise of BudgetStore.reserve (limits.py), as the in-memory store  *)
(* keeps it: all or nothing, and a refusal names the first counter that    *)
(* would pass its limit. Every reservation is one indivisible step.        *)
(***************************************************************************)
EXTENDS Counters

VARIABLES
    used,       \* the counters
    exhausted   \* the counter each replica was last refused by

quotaVars == <<used, exhausted>>

QuotaInit ==
    /\ used = [key \in BudgetKeys |-> 0]
    /\ exhausted = [r \in Replicas |-> NoKey]

Fits(r, key) == used[key] + 1 <= LimitOf(r, key)

Reserve(r, q) ==
    /\ \A key \in Charged(r, q) : Fits(r, key)
    /\ used' = Spend(used, Charged(r, q))
    /\ UNCHANGED exhausted

Refuse(r, q) ==
    /\ \E i \in DOMAIN Reservations(r, q) :
          /\ ~Fits(r, Reservations(r, q)[i])
          /\ \A j \in 1..(i - 1) : Fits(r, Reservations(r, q)[j])
          /\ exhausted' = [exhausted EXCEPT ![r] = Reservations(r, q)[i]]
    /\ UNCHANGED used

\* The refusal has been dealt with.
Forget(r) ==
    /\ exhausted' = [exhausted EXCEPT ![r] = NoKey]
    /\ UNCHANGED used

QuotaNext ==
    \E r \in Replicas :
        \/ \E q \in Requests : Reserve(r, q) \/ Refuse(r, q)
        \/ Forget(r)

QuotaSpec == QuotaInit /\ [][QuotaNext]_quotaVars
=============================================================================
