------------------------------ MODULE Registry ------------------------------
(***************************************************************************)
(* One account binding: the commands that register it (`account register`) *)
(* and the commands that measure a token for it (`account inspect`), run   *)
(* side by side by operators, while somebody outside the program rotates   *)
(* the credential and LinkedIn lets tokens die.                            *)
(*                                                                         *)
(* A command is one run of the program. One action is what it does between *)
(* two awaits: a statement of Postgres, a request with its answer.         *)
(***************************************************************************)
EXTENDS FiniteSets

CONSTANTS
    Registrations,  \* runs of `account register` for this binding id
    Inspections,    \* runs of `account inspect`
    Apps, Members, Organizations, Scopes, Versions,
    Proposals,      \* the identities operators may try to register
    Environments,   \* the credentials a run may find in its environment
    ProbeScopes     \* PERSONAL_SCOPES

Tokens == [app : Apps, member : Members, scopes : SUBSET Scopes]

\* IDENTITY_FIELDS: the four the commands read; the other six are only compared.
Identities == [app : Apps, author : Members \cup Organizations,
               scopes : (SUBSET Scopes) \ {{}}, version : Versions]

ASSUME CommandsAssumption == Registrations \cap Inspections = {}
ASSUME MembersAssumption == Members \cap Organizations = {}
ASSUME InputsAssumption ==
    /\ Proposals \subseteq Identities
    /\ Environments \subseteq [client : Apps, token : Tokens, version : Versions]
    /\ ProbeScopes \in (SUBSET Scopes) \ {{}}

\* --binding or a probe, without --no-identity or with it, with --record or not.
Modes == {m \in [bound : BOOLEAN, identity : BOOLEAN, record : BOOLEAN] :
              m.record => m.bound}

\* What is on no row and in no token.
None == "none"
ASSUME NoneAssumption == None \notin Members \cup Apps

NoIdentity == [app |-> None, author |-> None, scopes |-> {}, version |-> None]
Unseen == [version |-> None, scopes |-> {}]
NoRow == [identity |-> NoIdentity, observed |-> Unseen]

VARIABLES
    row,        \* the row of account_bindings
    alive,      \* the tokens LinkedIn honours
    proposal,   \* the identity each registration carries
    env,        \* the credentials each inspection carries
    mode,       \* its options
    at,         \* where each command is
    seen,       \* the identity an inspection loaded
    finding,    \* its TokenObservation
    told        \* what the operator was told

vars == <<row, alive, proposal, env, mode, at, seen, finding, told>>

Commands == Registrations \cup Inspections

Tri == {"yes", "no", "unknown"}

Observation == [active : Tri, scopesOk : Tri, identity : Tri,
                scopes : SUBSET Scopes, sub : Members \cup {None},
                unchecked : BOOLEAN]

\* `base`: what introspect_token returns when it learnt nothing.
Blank == [active |-> "unknown", scopesOk |-> "unknown", identity |-> "unknown",
          scopes |-> {}, sub |-> None, unchecked |-> FALSE]

Answers == {None, "registered", "already", "conflict", "error", "unregistered",
            "foreign", "HEALTHY", "PROBED", "BAD", "UNKNOWN"}

TypeOK ==
    /\ row \in [identity : Identities \cup {NoIdentity},
                observed : [version : Versions \cup {None}, scopes : SUBSET Scopes]]
    /\ alive \subseteq Tokens
    /\ proposal \in [Registrations -> Proposals]
    /\ env \in [Inspections -> Environments]
    /\ mode \in [Inspections -> Modes]
    /\ at \in [Commands -> {"start", "compare", "introspect", "identify",
                            "record", "report", "done"}]
    /\ seen \in [Inspections -> Identities \cup {NoIdentity}]
    /\ finding \in [Inspections -> Observation]
    /\ told \in [Commands -> Answers]

Init ==
    /\ row = NoRow
    /\ proposal \in [Registrations -> Proposals]
    /\ env \in [Inspections -> Environments]
    /\ mode \in [Inspections -> Modes]
    /\ alive = {env[i].token : i \in Inspections}
    /\ at = [c \in Commands |-> "start"]
    /\ seen = [i \in Inspections |-> NoIdentity]
    /\ finding = [i \in Inspections |-> Blank]
    /\ told = [c \in Commands |-> None]

Registered == row.identity # NoIdentity

Go(c, place) == at' = [at EXCEPT ![c] = place] /\ UNCHANGED told

End(c, answer) ==
    /\ at' = [at EXCEPT ![c] = "done"]
    /\ told' = [told EXCEPT ![c] = answer]

inputs == <<proposal, env, mode>>

-----------------------------------------------------------------------------
(***************************************************************************)
(* Registration.                                                           *)
(***************************************************************************)

\* as_registration: nothing observed.
AsRegistration(identity) == [identity |-> identity, observed |-> Unseen]

\* Mutant: the insert replaces the row it meets.
InsertOrReplace(c) ==
    /\ at[c] = "start"
    /\ row' = AsRegistration(proposal[c])
    /\ \/ End(c, "registered")
       \/ End(c, "error")
    /\ UNCHANGED <<alive, inputs, seen, finding>>

\* INSERT ... ON CONFLICT DO NOTHING; the answer may be lost with the connection.
Insert(c) ==
    /\ at[c] = "start"
    /\ row' = IF Registered THEN row ELSE AsRegistration(proposal[c])
    /\ \/ IF Registered THEN Go(c, "compare") ELSE End(c, "registered")
       \/ End(c, "error")
    /\ UNCHANGED <<alive, inputs, seen, finding>>

\* Mutant: the member a row belongs to is not compared.
ConflictsExceptAuthor(existing, proposed) ==
    existing # [proposed EXCEPT !.author = existing.author]

\* registration_conflicts.
Conflicts(existing, proposed) == existing # proposed

\* The row that was in the way, read by a second statement.
Compare(c) ==
    /\ at[c] = "compare"
    /\ End(c, IF Conflicts(row.identity, proposal[c]) THEN "conflict" ELSE "already")
    /\ UNCHANGED <<row, alive, inputs, seen, finding>>

-----------------------------------------------------------------------------
(***************************************************************************)
(* Inspection.                                                             *)
(***************************************************************************)

\* The binding is loaded, and refused when the secret in hand is another app's.
Load(i) ==
    /\ at[i] = "start"
    /\ mode[i].bound
    /\ IF ~Registered THEN End(i, "unregistered") /\ UNCHANGED seen
       ELSE IF row.identity.app # env[i].client THEN End(i, "foreign") /\ UNCHANGED seen
       ELSE Go(i, "introspect") /\ seen' = [seen EXCEPT ![i] = row.identity]
    /\ UNCHANGED <<row, alive, inputs, finding>>

\* A probe: no binding to check against.
Probe(i) ==
    /\ at[i] = "start"
    /\ ~mode[i].bound
    /\ Go(i, "introspect")
    /\ UNCHANGED <<row, alive, inputs, seen, finding>>

Declared(i) == IF mode[i].bound THEN seen[i].scopes ELSE ProbeScopes

\* member_sub_from_author.
Subject(author) == IF author \in Members THEN author ELSE None

Expected(i) == IF mode[i].bound THEN Subject(seen[i].author) ELSE None

Answered(flag) == IF flag THEN "yes" ELSE "no"

\* Mutant: the app the answer names is kept as whose token it is.
IntrospectedAsMember(i, live, scopes) ==
    [Blank EXCEPT !.active = Answered(live),
                  !.scopes = scopes,
                  !.scopesOk = Answered(Declared(i) \subseteq scopes),
                  !.sub = env[i].client]

\* introspect_token, of an answer that can be read.
Introspected(i, live, scopes) ==
    [Blank EXCEPT !.active = Answered(live),
                  !.scopes = scopes,
                  !.scopesOk = Answered(Declared(i) \subseteq scopes)]

After(i) == IF mode[i].record THEN "record" ELSE "report"

\* Mutant: a token that could not be introspected is taken for a dead one.
OutageMeansDead(i) ==
    /\ at[i] = "introspect"
    /\ finding' = [finding EXCEPT ![i] = [Blank EXCEPT !.active = "no"]]
    /\ Go(i, After(i))
    /\ UNCHANGED <<row, alive, inputs, seen>>

\* LinkedIn is unreachable, answers with another status, or not in JSON.
Outage(i) ==
    /\ at[i] = "introspect"
    /\ Go(i, After(i))
    /\ UNCHANGED <<row, alive, inputs, seen, finding>>

\* inspect_credentials up to its second request. An answer may leave out the app.
Introspect(i) ==
    LET token == env[i].token IN
    /\ at[i] = "introspect"
    /\ \E app \in {token.app, None}, scopes \in {token.scopes, {}} :
         LET heard == Introspected(i, token \in alive, scopes) IN
         /\ token \in alive => scopes = token.scopes
         /\ CASE app \notin {None, env[i].client} ->
                   /\ finding' = [finding EXCEPT ![i] = [heard EXCEPT !.identity = "no"]]
                   /\ Go(i, After(i))
              [] app \in {None, env[i].client} /\ ~mode[i].identity ->
                   /\ finding' = [finding EXCEPT ![i] =
                          [heard EXCEPT !.unchecked = token \in alive]]
                   /\ Go(i, After(i))
              [] OTHER ->
                   /\ finding' = [finding EXCEPT ![i] = heard]
                   /\ Go(i, "identify")
    /\ UNCHANGED <<row, alive, inputs, seen>>

\* verify_identity of an answer with a `sub`.
Verified(i, sub) ==
    CASE Expected(i) = None -> "unknown"
      [] Expected(i) # None /\ sub # Expected(i) -> "no"
      [] OTHER -> "yes"

\* /v2/userinfo: refused, unreachable or unreadable, or it says whose token it is.
Identify(i) ==
    /\ at[i] = "identify"
    /\ \/ UNCHANGED finding
       \/ /\ env[i].token \in alive
          /\ LET sub == env[i].token.member IN
             finding' = [finding EXCEPT ![i].sub = sub, ![i].identity = Verified(i, sub)]
    /\ Go(i, After(i))
    /\ UNCHANGED <<row, alive, inputs, seen>>

Observed(i) == [version |-> env[i].version, scopes |-> finding[i].scopes]

\* Mutant: the version is compared with the one loaded before the requests.
RecordAsLoaded(i) ==
    /\ at[i] = "record"
    /\ IF env[i].version # seen[i].version
       THEN End(i, "conflict") /\ UNCHANGED row
       ELSE /\ row' = [row EXCEPT !.observed = Observed(i)]
            /\ \/ Go(i, "report")
               \/ End(i, "error")
    /\ UNCHANGED <<alive, inputs, seen, finding>>

\* UPDATE ... WHERE credential_version = the one measured.
Record(i) ==
    /\ at[i] = "record"
    /\ IF env[i].version # row.identity.version
       THEN End(i, "conflict") /\ UNCHANGED row
       ELSE /\ row' = [row EXCEPT !.observed = Observed(i)]
            /\ \/ Go(i, "report")
               \/ End(i, "error")
    /\ UNCHANGED <<alive, inputs, seen, finding>>

\* TokenObservation.healthy.
Healthy(o) == o.active = "yes" /\ o.scopesOk = "yes" /\ o.identity = "yes"

\* _verdict.
VerdictOf(o, probe) ==
    CASE o.active = "unknown" -> "UNKNOWN"
      [] o.active = "no" \/ (o.active = "yes" /\ "no" \in {o.identity, o.scopesOk}) -> "BAD"
      [] OTHER -> IF probe
                  THEN IF o.scopesOk = "yes" /\ (o.sub # None \/ o.unchecked)
                       THEN "PROBED" ELSE "UNKNOWN"
                  ELSE IF Healthy(o) THEN "HEALTHY" ELSE "UNKNOWN"

Report(i) ==
    /\ at[i] = "report"
    /\ End(i, VerdictOf(finding[i], ~mode[i].bound))
    /\ UNCHANGED <<row, alive, inputs, seen, finding>>

-----------------------------------------------------------------------------
(***************************************************************************)
(* Outside the program.                                                    *)
(***************************************************************************)

\* Whoever rotates the secret names the new version on the row.
Rotate ==
    /\ Registered
    /\ \E v \in Versions : row' = [row EXCEPT !.identity.version = v]
    /\ UNCHANGED <<alive, inputs, at, seen, finding, told>>

\* A token expires or is revoked.
Die ==
    /\ \E t \in alive : alive' = alive \ {t}
    /\ UNCHANGED <<row, inputs, at, seen, finding, told>>

Next ==
    \/ \E c \in Registrations : Insert(c) \/ Compare(c)
    \/ \E i \in Inspections : \/ Load(i) \/ Probe(i) \/ Outage(i) \/ Introspect(i)
                              \/ Identify(i) \/ Record(i) \/ Report(i)
    \/ Rotate \/ Die

Spec == Init /\ [][Next]_vars

-----------------------------------------------------------------------------
(***************************************************************************)
(* What is promised.                                                       *)
(***************************************************************************)

Holder(identity) == [identity EXCEPT !.version = None]

(***************************************************************************)
(* A binding belongs to one identity for good: of the registrations that   *)
(* race for an id at most one creates it, and everybody who was told that  *)
(* the row is theirs finds their app, author and scopes on it at any later *)
(* time (PostgresBindingStore.register).                                   *)
(***************************************************************************)
RegistrationIsKept ==
    /\ \A c, d \in Registrations :
          told[c] = "registered" /\ told[d] = "registered" => c = d
    /\ \A c \in Registrations :
          told[c] \in {"registered", "already"} =>
              Registered /\ Holder(row.identity) = Holder(proposal[c])

\* LinkedIn, or the secret itself, gives a reason to call the token bad.
Unusable(i) ==
    LET token == env[i].token IN
    \/ token \notin alive
    \/ token.app # env[i].client
    \/ ~(Declared(i) \subseteq token.scopes)
    \/ Expected(i) \notin {None, token.member}

(***************************************************************************)
(* A verdict follows from what was measured, whatever fails in between: an *)
(* outage never makes a token BAD, and HEALTHY needs a token of the        *)
(* binding's own member, with every scope the binding declares, in the     *)
(* hands of the binding's app (auth.py, cli._verdict).                     *)
(***************************************************************************)
VerdictIsTrue ==
    \A i \in Inspections :
        /\ told[i] = "BAD" => Unusable(i)
        /\ told[i] = "HEALTHY" =>
              /\ mode[i].bound
              /\ seen[i].app = env[i].client
              /\ seen[i].author = env[i].token.member
              /\ seen[i].scopes \subseteq env[i].token.scopes
        /\ told[i] = "PROBED" => ProbeScopes \subseteq env[i].token.scopes

(***************************************************************************)
(* A probe of a secret the binding has been rotated away from meanwhile    *)
(* never reaches the row: what changes on it was measured with the version *)
(* it names (PostgresBindingStore.record_observation).                     *)
(***************************************************************************)
StaleProbeNeverOverwrites ==
    [][Registered /\ row'.observed # row.observed =>
           row'.observed.version = row'.identity.version]_vars
=============================================================================
