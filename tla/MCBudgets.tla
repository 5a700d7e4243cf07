----------------------------- MODULE MCBudgets ------------------------------
(***************************************************************************)
(* Small instances of Budgets for TLC.                                     *)
(***************************************************************************)
EXTENDS BudgetsDocs, TLC

\* The share of the bounded endpoints, as in SHARE_UGC_PROFILE.
Endpoint(n) == [e \in {"register", "upload", "create"} |-> n]

\* Two products on one app: the first is tight on the app, the second on members.
TwoProfiles ==
    [r \in Replicas |->
        IF r = CHOOSE s \in Replicas : TRUE
        THEN [app |-> 2, member |-> 2, endpoint |-> Endpoint(2)]
        ELSE [app |-> 3, member |-> 2, endpoint |-> Endpoint(1)]]

\* Each post is by the same member.
OneAuthor == [p \in Posts |-> CHOOSE m \in Members : TRUE]

\* A member has one request a day.
OneEach ==
    [r \in Replicas |-> [app |-> 3, member |-> 1, endpoint |-> Endpoint(1)]]

\* No budget at all for the app.
ZeroApp ==
    [r \in Replicas |-> [app |-> 0, member |-> 1, endpoint |-> Endpoint(1)]]
=============================================================================
