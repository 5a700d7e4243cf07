------------------------------ MODULE Counters ------------------------------
(***************************************************************************)
(* What a request to LinkedIn is charged to (limits.py): one counter for   *)
(* the app, one for the member, and one for the endpoint if its profile    *)
(* bounds it, each for one UTC day.                                        *)
(***************************************************************************)
EXTENDS Integers, Sequences

CONSTANTS
    Replicas,   \* processes that share the budget tables, each with a limiter
    Apps, Members,
    Posts,      \* posts that are read back or deleted
    Days,       \* days the `now` of a request can lie in
    Profile     \* the QuotaProfile of each replica

\* What client.py passes as member_urn: the author of a new post or of statistics,
\* but the URN of the post itself where one is read back or deleted.
Identities == Members \cup Posts

\* "introspect" is never reserved.
Endpoints == {"register", "upload", "create", "read", "delete"}

ASSUME NamesAssumption == Members \cap Posts = {}

ASSUME ProfilesAssumption ==
    \A r \in Replicas :
        /\ Profile[r].app \in Nat
        /\ Profile[r].member \in Nat
        /\ DOMAIN Profile[r].endpoint \subseteq Endpoints
        /\ \A e \in DOMAIN Profile[r].endpoint : Profile[r].endpoint[e] \in Nat

BudgetKeys ==
    {<<"app", a, d>> : a \in Apps, d \in Days}
        \cup {<<"member", m, d>> : m \in Identities, d \in Days}
        \cup {<<"endpoint", <<a, e>>, d>> : a \in Apps, e \in Endpoints, d \in Days}

NoKey == <<"none">>

\* `register` and `upload` are the two requests that send media.
Requests ==
    {q \in [app : Apps, member : Identities, day : Days, endpoint : Endpoints] :
        IF q.member \in Posts THEN q.endpoint \in {"read", "delete"}
                               ELSE q.endpoint # "delete"}

AppKey(q)      == <<"app", q.app, q.day>>
MemberKey(q)   == <<"member", q.member, q.day>>
EndpointKey(q) == <<"endpoint", <<q.app, q.endpoint>>, q.day>>

\* Mutant: a profile that bounds members tighter takes the member first.
TightestFirst(r, q) ==
    LET first  == IF Profile[r].member < Profile[r].app THEN MemberKey(q) ELSE AppKey(q)
        second == IF Profile[r].member < Profile[r].app THEN AppKey(q) ELSE MemberKey(q)
    IN  IF q.endpoint \in DOMAIN Profile[r].endpoint
        THEN <<first, second, EndpointKey(q)>>
        ELSE <<first, second>>

\* QuotaLimiter.reserve: the counters of a request, in the order they are taken.
Reservations(r, q) ==
    IF q.endpoint \in DOMAIN Profile[r].endpoint
    THEN <<AppKey(q), MemberKey(q), EndpointKey(q)>>
    ELSE <<AppKey(q), MemberKey(q)>>

Charged(r, q) == {Reservations(r, q)[i] : i \in DOMAIN Reservations(r, q)}

\* The limit a replica holds a counter to.
LimitOf(r, key) ==
    CASE key[1] = "app"    -> Profile[r].app
      [] key[1] = "member" -> Profile[r].member
      [] OTHER             -> Profile[r].endpoint[key[2][2]]

\* A profile need not bound an endpoint.
Bounds(r, key) == key[1] = "endpoint" => key[2][2] \in DOMAIN Profile[r].endpoint

\* One more on each of a set of counters.
Spend(counts, keys) ==
    [key \in BudgetKeys |-> IF key \in keys THEN counts[key] + 1 ELSE counts[key]]
=============================================================================
