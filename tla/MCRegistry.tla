----------------------------- MODULE MCRegistry -----------------------------
(***************************************************************************)
(* A small instance of Registry for TLC.                                   *)
(***************************************************************************)
EXTENDS Registry

\* Two members of one app, and an organization with more scopes and another version.
SomeProposals ==
    {[app |-> "a1", author |-> m, scopes |-> {"w"}, version |-> "v1"] : m \in {"m1", "m2"}}
    \cup {[app |-> "a1", author |-> "o1", scopes |-> {"w", "r"}, version |-> "v2"]}

Token(app, member, scopes) == [app |-> app, member |-> member, scopes |-> scopes]

\* The right secret, one of each fault, and the next version of the right one.
SomeEnvironments ==
    {[client |-> "a1", token |-> t, version |-> "v1"] :
        t \in {Token("a1", "m1", {"w", "r"}), Token("a1", "m2", {"w"}),
               Token("a1", "m1", {}), Token("a2", "m1", {"w"})}}
    \cup {[client |-> "a1", token |-> Token("a1", "m1", {"w"}), version |-> "v2"],
          [client |-> "a2", token |-> Token("a2", "m1", {"w"}), version |-> "v1"]}
=============================================================================
