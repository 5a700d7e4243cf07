--------------------------- MODULE RegistryProofs ---------------------------
(***************************************************************************)
(* Proofs about Registry, for any number of commands, identities, tokens   *)
(* and rotations. The invariant says what each command knows at each of    *)
(* its places; a row changes its version and its observation, never whose  *)
(* it is, and a token that died stays dead.                                *)
(***************************************************************************)
EXTENDS Registry, TLAPS

\* What a registration knows.
Registering ==
    \A c \in Registrations :
        /\ at[c] = "start" => told[c] = None
        /\ at[c] = "compare" => told[c] = None /\ Registered
        /\ told[c] \in {"registered", "already"} =>
              Registered /\ Holder(row.identity) = Holder(proposal[c])
        /\ \A d \in Registrations :
              told[c] = "registered" /\ told[d] = "registered" => c = d

\* Whether an inspection has a reason for each verdict its finding leads to.
Reasoned(i) ==
    LET o == finding[i]  token == env[i].token IN
    /\ o.active = "no" => token \notin alive
    /\ o.active = "yes" /\ o.identity = "no" =>
          token.app # env[i].client \/ Expected(i) \notin {None, token.member}
    /\ o.identity = "yes" => Expected(i) = token.member /\ Expected(i) # None
    /\ o.active = "yes" /\ o.scopesOk = "no" => ~(Declared(i) \subseteq token.scopes)
    /\ o.active = "yes" /\ o.scopesOk = "yes" => Declared(i) \subseteq token.scopes

\* What an inspection knows.
Inspecting ==
    \A i \in Inspections :
        /\ at[i] \in {"start", "introspect", "identify", "record", "report"} =>
              told[i] = None
        /\ at[i] \in {"introspect", "identify", "record", "report"} /\ mode[i].bound =>
              seen[i] \in Identities /\ seen[i].app = env[i].client
        /\ at[i] \in {"start", "introspect"} => finding[i] = Blank
        /\ at[i] = "identify" => finding[i].identity = "unknown"
        /\ at[i] # "start" => Reasoned(i)

Inductive == TypeOK /\ Registering /\ Inspecting /\ VerdictIsTrue

-----------------------------------------------------------------------------

LEMMA IdentityIsSome ==
    \A x \in Identities : x # NoIdentity
BY InputsAssumption DEF Identities, NoIdentity

LEMMA InvariantStarts == Init => Inductive
<1> SUFFICES ASSUME Init PROVE Inductive
  OBVIOUS
<1>1. /\ proposal \in [Registrations -> Proposals]
      /\ env \in [Inspections -> Environments]
      /\ mode \in [Inspections -> Modes]
  BY DEF Init
<1>2. alive \subseteq Tokens
  BY <1>1, InputsAssumption DEF Init
<1>3. TypeOK
  BY <1>1, <1>2 DEF Init, TypeOK, NoRow, Unseen, Commands, Blank, Observation, Tri, Answers
<1>4. Registering
  BY DEF Init, Registering, Commands, None
<1>5. Inspecting
  BY DEF Init, Inspecting, Commands, None
<1>6. VerdictIsTrue
  BY DEF Init, VerdictIsTrue, Commands, None
<1>7. QED
  BY <1>3, <1>4, <1>5, <1>6 DEF Inductive

LEMMA InsertKeeps ==
    ASSUME Inductive, NEW c \in Registrations, Insert(c)
    PROVE  Inductive'
<1> USE DEF Inductive
<1>1. /\ at[c] = "start"
      /\ row' = IF Registered THEN row ELSE AsRegistration(proposal[c])
      /\ UNCHANGED <<alive, inputs, seen, finding>>
      /\ UNCHANGED <<proposal, env, mode>>
  BY DEF Insert, inputs
<1>2. c \in Commands /\ c \notin Inspections
  BY CommandsAssumption DEF Commands
<1>3. PICK place \in {"compare", "done"}, answer \in {None, "registered", "error"} :
         /\ at' = [at EXCEPT ![c] = place]
         /\ told' = [told EXCEPT ![c] = answer]
         /\ place = "compare" => answer = None /\ Registered
         /\ answer = "registered" => ~Registered
  <2>1. told = [told EXCEPT ![c] = told[c]] /\ told[c] = None
    BY <1>1, <1>2 DEF TypeOK, Registering
  <2>2. QED
    BY <2>1 DEF Insert, Go, End, None
<1>4. proposal[c] \in Identities
  BY InputsAssumption DEF TypeOK
<1>5. /\ row' \in [identity : Identities \cup {NoIdentity},
                   observed : [version : Versions \cup {None}, scopes : SUBSET Scopes]]
      /\ Registered'
      /\ Registered => row' = row
      /\ ~Registered => row'.identity = proposal[c]
  BY <1>1, <1>4, IdentityIsSome DEF TypeOK, Registered, AsRegistration, Unseen
<1>6. TypeOK'
  <2>1. at' \in [Commands -> {"start", "compare", "introspect", "identify",
                            "record", "report", "done"}]
    BY <1>2, <1>3 DEF TypeOK
  <2>2. told' \in [Commands -> Answers]
    BY <1>2, <1>3 DEF TypeOK, Answers
  <2>3. QED
    BY <1>1, <1>5, <2>1, <2>2 DEF TypeOK
<1>7. Registering'
  <2>1. \A d \in Registrations : d # c => at'[d] = at[d] /\ told'[d] = told[d]
    BY <1>3 DEF TypeOK, Commands
  <2>2. at'[c] = place /\ told'[c] = answer
    BY <1>2, <1>3 DEF TypeOK
  <2>3. ~Registered => \A d \in Registrations : told[d] \notin {"registered", "already"}
    BY DEF Registering
  <2>4. \A d \in Registrations :
           told'[d] \in {"registered", "already"} =>
               Registered' /\ Holder(row'.identity) = Holder(proposal'[d])
    BY <1>1, <1>3, <1>5, <2>1, <2>2, <2>3 DEF Registering, None
  <2>5. \A d, e \in Registrations :
           told'[d] = "registered" /\ told'[e] = "registered" => d = e
    BY <1>3, <2>1, <2>2, <2>3 DEF Registering, None
  <2>6. \A d \in Registrations :
           /\ at'[d] = "start" => told'[d] = None
           /\ at'[d] = "compare" => told'[d] = None /\ Registered'
    BY <1>3, <1>5, <2>1, <2>2 DEF Registering
  <2>7. QED
    BY <2>4, <2>5, <2>6 DEF Registering
<1>8. \A i \in Inspections : at'[i] = at[i] /\ told'[i] = told[i]
  BY <1>2, <1>3 DEF TypeOK, Commands
<1>9. Inspecting' /\ VerdictIsTrue'
  BY <1>1, <1>8 DEF Inspecting, Reasoned, VerdictIsTrue, Unusable, Declared, Expected
<1>10. QED
  BY <1>6, <1>7, <1>9

LEMMA CompareKeeps ==
    ASSUME Inductive, NEW c \in Registrations, Compare(c)
    PROVE  Inductive'
<1> USE DEF Inductive
<1> DEFINE answer == IF Conflicts(row.identity, proposal[c]) THEN "conflict" ELSE "already"
<1>1. /\ at[c] = "compare"
      /\ at' = [at EXCEPT ![c] = "done"]
      /\ told' = [told EXCEPT ![c] = answer]
      /\ UNCHANGED <<row, alive, proposal, env, mode, seen, finding>>
  BY DEF Compare, End, inputs
<1>2. c \in Commands /\ c \notin Inspections
  BY CommandsAssumption DEF Commands
<1>3. /\ answer \in {"conflict", "already"}
      /\ answer = "already" => row.identity = proposal[c]
  BY DEF Conflicts
<1> HIDE DEF answer
<1>4. TypeOK'
  BY <1>1, <1>2, <1>3 DEF TypeOK, Answers
<1>5. Registering'
  BY <1>1, <1>2, <1>3 DEF Registering, TypeOK, Commands, Registered
<1>6. \A i \in Inspections : at'[i] = at[i] /\ told'[i] = told[i]
  BY <1>1, <1>2 DEF TypeOK, Commands
<1>7. Inspecting' /\ VerdictIsTrue'
  BY <1>1, <1>6 DEF Inspecting, Reasoned, VerdictIsTrue, Unusable, Declared, Expected
<1>8. QED
  BY <1>4, <1>5, <1>7

-----------------------------------------------------------------------------
RowType == [identity : Identities \cup {NoIdentity},
            observed : [version : Versions \cup {None}, scopes : SUBSET Scopes]]

\* A step of inspection i to a place, with what it then knows.
StepOf(i, place, answer, what, identity) ==
    /\ place \in {"introspect", "identify", "record", "report", "done"}
    /\ answer \in Answers
    /\ what \in Observation
    /\ identity \in Identities \cup {NoIdentity}
    /\ at' = [at EXCEPT ![i] = place]
    /\ told' = [told EXCEPT ![i] = answer]
    /\ finding' = [finding EXCEPT ![i] = what]
    /\ seen' = [seen EXCEPT ![i] = identity]
    /\ UNCHANGED <<alive, proposal, env, mode>>
    /\ row' \in RowType
    /\ row'.identity = row.identity
    /\ place # "done" => answer = None
    /\ place # "done" /\ mode[i].bound =>
           identity \in Identities /\ identity.app = env[i].client
    /\ place = "introspect" => what = Blank
    /\ place = "identify" => what.identity = "unknown"
    /\ Reasoned(i)'
    /\ answer = "BAD" => Unusable(i)
    /\ answer = "HEALTHY" =>
           /\ mode[i].bound
           /\ seen[i].app = env[i].client
           /\ seen[i].author = env[i].token.member
           /\ seen[i].scopes \subseteq env[i].token.scopes
    /\ answer = "PROBED" => ProbeScopes \subseteq env[i].token.scopes
    /\ answer \in {"BAD", "HEALTHY", "PROBED"} => identity = seen[i]

\* It is enough to look at what that one inspection knows.
LEMMA InspectionKeeps ==
    ASSUME Inductive, NEW i \in Inspections,
           NEW place, NEW answer, NEW what, NEW identity,
           StepOf(i, place, answer, what, identity)
    PROVE  Inductive'
<1> USE DEF Inductive, StepOf
<1>1. i \in Commands /\ i \notin Registrations
  BY CommandsAssumption DEF Commands
<1>2. \A k \in Inspections \ {i} :
         /\ at'[k] = at[k] /\ told'[k] = told[k]
         /\ seen'[k] = seen[k] /\ finding'[k] = finding[k]
  BY DEF TypeOK, Commands
<1>3. at'[i] = place /\ told'[i] = answer /\ finding'[i] = what /\ seen'[i] = identity
  BY <1>1 DEF TypeOK
<1>4. TypeOK'
  BY <1>1 DEF TypeOK, RowType
<1>5. Registering'
  <2>1. \A c \in Registrations : at'[c] = at[c] /\ told'[c] = told[c]
    BY <1>1 DEF TypeOK, Commands
  <2>2. QED
    BY <2>1 DEF Registering, Registered
<1>6. Inspecting'
  <2>1. \A k \in Inspections \ {i} : Reasoned(k) => Reasoned(k)'
    BY <1>2 DEF Reasoned, Declared, Expected
  <2>2. QED
    BY <1>2, <1>3, <2>1 DEF Inspecting
<1>7. VerdictIsTrue'
  <2>1. \A k \in Inspections \ {i} : Unusable(k) => Unusable(k)'
    BY <1>2 DEF Unusable, Declared, Expected
  <2>2. answer = "BAD" => Unusable(i)'
    BY <1>3 DEF Unusable, Declared, Expected
  <2>3. QED
    BY <1>2, <1>3, <2>1, <2>2 DEF VerdictIsTrue
<1>8. QED
  BY <1>4, <1>5, <1>6, <1>7

\* The variables a step of an inspection leaves alone, in the form of the lemma.
LEMMA Unmoved ==
    ASSUME TypeOK, NEW i \in Inspections
    PROVE  /\ seen = [seen EXCEPT ![i] = seen[i]]
           /\ finding = [finding EXCEPT ![i] = finding[i]]
           /\ told = [told EXCEPT ![i] = told[i]]
           /\ seen[i] \in Identities \cup {NoIdentity}
           /\ finding[i] \in Observation
           /\ told[i] \in Answers
           /\ row \in RowType
           /\ i \in Commands
BY DEF TypeOK, Commands, RowType

LEMMA LoadKeeps ==
    ASSUME Inductive, NEW i \in Inspections, Load(i)
    PROVE  Inductive'
<1>1. /\ at[i] = "start" /\ mode[i].bound
      /\ UNCHANGED <<row, alive, proposal, env, mode, finding>>
  BY DEF Load, inputs
<1>2. told[i] = None /\ finding[i] = Blank /\ TypeOK
  BY <1>1 DEF Inspecting, Inductive
<1>3. Reasoned(i)'
  BY <1>1, <1>2 DEF Reasoned, Blank
<1>4. ASSUME NEW answer \in {"unregistered", "foreign"}, End(i, answer), UNCHANGED seen
      PROVE  Inductive'
  <2>1. StepOf(i, "done", answer, finding[i], seen[i])
    BY <1>1, <1>2, <1>3, <1>4, Unmoved DEF End, Answers, StepOf
  <2>2. QED
    BY <2>1, InspectionKeeps
<1>5. CASE /\ Registered /\ row.identity.app = env[i].client
           /\ Go(i, "introspect") /\ seen' = [seen EXCEPT ![i] = row.identity]
  <2>1. row.identity \in Identities
    BY <1>2, <1>5 DEF TypeOK, Registered
  <2>2. StepOf(i, "introspect", None, finding[i], row.identity)
    BY <1>1, <1>2, <1>3, <1>5, <2>1, Unmoved DEF Go, Answers, None, StepOf
  <2>3. QED
    BY <2>2, InspectionKeeps
<1>6. QED
  BY <1>4, <1>5 DEF Load

LEMMA ProbeKeeps ==
    ASSUME Inductive, NEW i \in Inspections, Probe(i)
    PROVE  Inductive'
<1>1. /\ at[i] = "start" /\ ~mode[i].bound
      /\ at' = [at EXCEPT ![i] = "introspect"] /\ UNCHANGED told
      /\ UNCHANGED <<row, alive, proposal, env, mode, seen, finding>>
  BY DEF Probe, Go, inputs
<1>2. told[i] = None /\ finding[i] = Blank /\ TypeOK
  BY <1>1 DEF Inspecting, Inductive
<1>3. Reasoned(i)'
  BY <1>1, <1>2 DEF Reasoned, Blank
<1>4. StepOf(i, "introspect", None, finding[i], seen[i])
  BY <1>1, <1>2, <1>3, Unmoved DEF Answers, None, StepOf
<1>5. QED
  BY <1>4, InspectionKeeps

\* From introspection on, an inspection of a binding knows that it holds its app's
\* secret, and the operator has not heard anything.
Knows(i) ==
    /\ told[i] = None
    /\ mode[i].bound => seen[i] \in Identities /\ seen[i].app = env[i].client

LEMMA OutageKeeps ==
    ASSUME Inductive, NEW i \in Inspections, Outage(i)
    PROVE  Inductive'
<1>1. /\ at[i] = "introspect"
      /\ at' = [at EXCEPT ![i] = After(i)] /\ UNCHANGED told
      /\ UNCHANGED <<row, alive, proposal, env, mode, seen, finding>>
  BY DEF Outage, Go, inputs
<1>2. Knows(i) /\ TypeOK /\ After(i) \in {"record", "report"}
  BY <1>1 DEF Inspecting, Inductive, After, Knows
<1>3. Reasoned(i)'
  BY <1>1 DEF Inductive, Inspecting, Reasoned, Declared, Expected
<1>4. StepOf(i, After(i), None, finding[i], seen[i])
  BY <1>1, <1>2, <1>3, Unmoved DEF Answers, None, StepOf, Knows
<1>5. QED
  BY <1>4, InspectionKeeps

LEMMA RecordKeeps ==
    ASSUME Inductive, NEW i \in Inspections, Record(i)
    PROVE  Inductive'
<1>1. /\ at[i] = "record"
      /\ UNCHANGED <<alive, proposal, env, mode, seen, finding>>
  BY DEF Record, inputs
<1>2. Knows(i) /\ TypeOK
  BY <1>1 DEF Inspecting, Inductive, Knows
<1>3. Reasoned(i)'
  BY <1>1 DEF Inductive, Inspecting, Reasoned, Declared, Expected
<1>4. CASE env[i].version # row.identity.version
  <2>1. StepOf(i, "done", "conflict", finding[i], seen[i])
    BY <1>1, <1>2, <1>3, <1>4, Unmoved DEF Record, End, Answers, StepOf
  <2>2. QED
    BY <2>1, InspectionKeeps
<1>5. CASE env[i].version = row.identity.version
  <2>1. row' = [row EXCEPT !.observed = Observed(i)]
    BY <1>5 DEF Record
  <2>2. Observed(i) \in [version : Versions \cup {None}, scopes : SUBSET Scopes]
    BY <1>2, InputsAssumption DEF TypeOK, Observed, Observation
  <2>3. row' \in RowType /\ row'.identity = row.identity
    BY <1>2, <2>1, <2>2, Unmoved DEF RowType
  <2>4. CASE Go(i, "report")
    <3>1. StepOf(i, "report", None, finding[i], seen[i])
      BY <1>1, <1>2, <1>3, <2>3, <2>4, Unmoved DEF Go, Answers, None, StepOf, Knows
    <3>2. QED
      BY <3>1, InspectionKeeps
  <2>5. CASE End(i, "error")
    <3>1. StepOf(i, "done", "error", finding[i], seen[i])
      BY <1>1, <1>2, <1>3, <2>3, <2>5, Unmoved DEF End, Answers, StepOf
    <3>2. QED
      BY <3>1, InspectionKeeps
  <2>6. QED
    BY <1>5, <2>4, <2>5 DEF Record
<1>6. QED
  BY <1>4, <1>5

LEMMA ReportKeeps ==
    ASSUME Inductive, NEW i \in Inspections, Report(i)
    PROVE  Inductive'
<1> USE DEF Inductive
<1> DEFINE answer == VerdictOf(finding[i], ~mode[i].bound)
<1>1. /\ at[i] = "report"
      /\ at' = [at EXCEPT ![i] = "done"] /\ told' = [told EXCEPT ![i] = answer]
      /\ UNCHANGED <<row, alive, proposal, env, mode, seen, finding>>
  BY DEF Report, End, inputs
<1>2. /\ mode[i].bound => seen[i] \in Identities /\ seen[i].app = env[i].client
      /\ Reasoned(i)
  BY <1>1 DEF Inspecting
<1>3. Reasoned(i)'
  BY <1>1, <1>2 DEF Reasoned, Declared, Expected
<1>4. finding[i].active \in Tri
  BY DEF TypeOK, Observation
<1>5. answer \in {"UNKNOWN", "BAD", "PROBED", "HEALTHY"}
  BY <1>4 DEF VerdictOf, Tri
<1>6. answer = "BAD" => Unusable(i)
  BY <1>2, <1>4 DEF VerdictOf, Reasoned, Unusable, Tri
<1>7. answer = "HEALTHY" =>
         /\ mode[i].bound
         /\ seen[i].author = env[i].token.member
         /\ seen[i].scopes \subseteq env[i].token.scopes
  <2>1. mode[i].bound \in BOOLEAN
    BY DEF TypeOK, Modes
  <2>2. SUFFICES ASSUME answer = "HEALTHY"
                 PROVE  /\ mode[i].bound
                        /\ seen[i].author = env[i].token.member
                        /\ seen[i].scopes \subseteq env[i].token.scopes
    OBVIOUS
  <2>3. mode[i].bound /\ Healthy(finding[i])
    BY <1>4, <2>1, <2>2 DEF VerdictOf, Tri
  <2>4. Expected(i) = Subject(seen[i].author) /\ Declared(i) = seen[i].scopes
    BY <2>3 DEF Expected, Declared
  <2>5. QED
    BY <1>2, <2>3, <2>4 DEF Healthy, Reasoned, Subject
<1>8. answer = "PROBED" => ProbeScopes \subseteq env[i].token.scopes
  <2>1. mode[i].bound \in BOOLEAN
    BY DEF TypeOK, Modes
  <2>2. SUFFICES ASSUME answer = "PROBED"
                 PROVE  ProbeScopes \subseteq env[i].token.scopes
    OBVIOUS
  <2>3. ~mode[i].bound /\ finding[i].active = "yes" /\ finding[i].scopesOk = "yes"
    BY <1>4, <2>1, <2>2 DEF VerdictOf, Tri
  <2>4. QED
    BY <1>2, <2>3 DEF Reasoned, Declared
<1> HIDE DEF answer
<1>9. answer \in Answers
  BY <1>5 DEF Answers
<1>10. StepOf(i, "done", answer, finding[i], seen[i])
  BY <1>1, <1>2, <1>3, <1>6, <1>7, <1>8, <1>9, Unmoved DEF StepOf
<1>11. QED
  BY <1>10, InspectionKeeps

LEMMA IntrospectKeeps ==
    ASSUME Inductive, NEW i \in Inspections, Introspect(i)
    PROVE  Inductive'
<1> DEFINE token == env[i].token
<1>1. /\ at[i] = "introspect"
      /\ UNCHANGED <<row, alive, proposal, env, mode, seen>>
  BY DEF Introspect, inputs
<1>2. Knows(i) /\ TypeOK
  BY <1>1 DEF Inspecting, Inductive, Knows
<1>3. PICK app \in {token.app, None}, scopes \in {token.scopes, {}} :
         LET heard == Introspected(i, token \in alive, scopes) IN
         /\ token \in alive => scopes = token.scopes
         /\ CASE app \notin {None, env[i].client} ->
                   /\ finding' = [finding EXCEPT ![i] = [heard EXCEPT !.identity = "no"]]
                   /\ Go(i, After(i))
              [] app \in {None, env[i].client} /\ ~mode[i].identity ->
                   /\ finding' = [finding EXCEPT ![i] =
                          [heard EXCEPT !.unchecked = token \in alive]]
                   /\ Go(i, After(i))
              [] OTHER ->
                   /\ finding' = [finding EXCEPT ![i] = heard]
                   /\ Go(i, "identify")
  BY DEF Introspect
<1> DEFINE heard == Introspected(i, token \in alive, scopes)
<1>4. /\ env[i] \in [client : Apps, token : Tokens, version : Versions]
      /\ scopes \subseteq Scopes
  BY <1>2, InputsAssumption DEF TypeOK, Tokens
<1>5. /\ heard \in Observation
      /\ heard.identity = "unknown"
      /\ heard.active = Answered(token \in alive)
      /\ heard.scopesOk = Answered(Declared(i) \subseteq scopes)
  BY <1>4 DEF Introspected, Blank, Observation, Tri, Answered
<1>6. token \in alive => scopes = token.scopes
  BY <1>3
<1>7. After(i) \in {"record", "report"}
  BY DEF After
<1>8. /\ Declared(i)' = Declared(i) /\ Expected(i)' = Expected(i)
      /\ env' = env /\ alive' = alive
  BY <1>1 DEF Declared, Expected
<1> HIDE DEF heard
\* What is heard has its reasons, whatever it says of the identity.
<1>9. ASSUME NEW what \in Observation,
             what.active = heard.active, what.scopesOk = heard.scopesOk,
             what.identity \in {"unknown", "no"},
             what.identity = "no" => token.app # env[i].client,
             finding' = [finding EXCEPT ![i] = what]
      PROVE  Reasoned(i)'
  <2>1. finding'[i] = what
    BY <1>2, <1>9 DEF TypeOK
  <2>2. what.active = "no" => token \notin alive
    BY <1>5, <1>9 DEF Answered
  <2>3. what.active = "yes" => scopes = token.scopes
    BY <1>5, <1>6, <1>9 DEF Answered
  <2>4. what.scopesOk = Answered(Declared(i) \subseteq scopes)
    BY <1>5, <1>9
  <2>5. QED
    BY <1>8, <1>9, <2>1, <2>2, <2>3, <2>4 DEF Reasoned, Answered
<1>10. CASE app \notin {None, env[i].client}
  <2> DEFINE what == [heard EXCEPT !.identity = "no"]
  <2>1. finding' = [finding EXCEPT ![i] = what] /\ Go(i, After(i))
    BY <1>3, <1>10 DEF heard
  <2>2. /\ what \in Observation /\ what.active = heard.active
        /\ what.scopesOk = heard.scopesOk /\ what.identity = "no"
    BY <1>5 DEF Observation, Tri
  <2> HIDE DEF what
  <2>3. token.app # env[i].client
    BY <1>10
  <2>4. Reasoned(i)'
    BY <1>9, <2>1, <2>2, <2>3
  <2>5. StepOf(i, After(i), None, what, seen[i])
    BY <1>1, <1>2, <1>7, <2>1, <2>2, <2>4, Unmoved DEF Go, Answers, None, StepOf, Knows
  <2>6. QED
    BY <2>5, InspectionKeeps
<1>11. CASE app \in {None, env[i].client} /\ ~mode[i].identity
  <2> DEFINE live == token \in alive
             what == [heard EXCEPT !.unchecked = live]
  <2>1. finding' = [finding EXCEPT ![i] = what] /\ Go(i, After(i))
    BY <1>3, <1>11 DEF heard
  <2>2. live \in BOOLEAN
    OBVIOUS
  <2> HIDE DEF live
  <2>3. /\ what \in Observation /\ what.active = heard.active
        /\ what.scopesOk = heard.scopesOk /\ what.identity = "unknown"
    BY <1>5, <2>2 DEF Observation
  <2> HIDE DEF what
  <2>4. Reasoned(i)'
    BY <1>9, <2>1, <2>3
  <2>5. StepOf(i, After(i), None, what, seen[i])
    BY <1>1, <1>2, <1>7, <2>1, <2>3, <2>4, Unmoved DEF Go, Answers, None, StepOf, Knows
  <2>6. QED
    BY <2>5, InspectionKeeps
<1>12. CASE app \in {None, env[i].client} /\ mode[i].identity
  <2>1. finding' = [finding EXCEPT ![i] = heard] /\ Go(i, "identify")
    BY <1>3, <1>12 DEF heard
  <2>2. Reasoned(i)'
    BY <1>5, <1>9, <2>1
  <2>3. StepOf(i, "identify", None, heard, seen[i])
    BY <1>1, <1>2, <1>5, <2>1, <2>2, Unmoved DEF Go, Answers, None, StepOf, Knows
  <2>4. QED
    BY <2>3, InspectionKeeps
<1>13. QED
  BY <1>10, <1>11, <1>12

LEMMA IdentifyKeeps ==
    ASSUME Inductive, NEW i \in Inspections, Identify(i)
    PROVE  Inductive'
<1> DEFINE sub == env[i].token.member
<1>1. /\ at[i] = "identify" /\ Go(i, After(i))
      /\ UNCHANGED <<row, alive, proposal, env, mode, seen>>
  BY DEF Identify, inputs
<1>2. Knows(i) /\ TypeOK /\ Reasoned(i) /\ finding[i].identity = "unknown"
  BY <1>1 DEF Inspecting, Inductive, Knows
<1>3. After(i) \in {"record", "report"}
  BY DEF After
<1>4. /\ Declared(i)' = Declared(i) /\ Expected(i)' = Expected(i)
      /\ env' = env /\ alive' = alive
  BY <1>1 DEF Declared, Expected
<1>5. CASE UNCHANGED finding
  <2>1. Reasoned(i)'
    BY <1>2, <1>4, <1>5 DEF Reasoned
  <2>2. StepOf(i, After(i), None, finding[i], seen[i])
    BY <1>1, <1>2, <1>3, <1>5, <2>1, Unmoved DEF Go, Answers, None, StepOf, Knows
  <2>3. QED
    BY <2>2, InspectionKeeps
<1>6. CASE finding' = [finding EXCEPT ![i].sub = sub, ![i].identity = Verified(i, sub)]
  <2> DEFINE what == [finding[i] EXCEPT !.sub = sub, !.identity = Verified(i, sub)]
  <2>1. finding' = [finding EXCEPT ![i] = what]
    BY <1>2, <1>6 DEF TypeOK
  <2>2. sub \in Members
    BY <1>2, InputsAssumption DEF TypeOK, Tokens
  <2>3. /\ Verified(i, sub) \in Tri
        /\ Verified(i, sub) = "yes" => sub = Expected(i) /\ Expected(i) # None
        /\ Verified(i, sub) = "no" => Expected(i) \notin {None, sub}
    BY DEF Verified, Tri
  <2>4. /\ what \in Observation
        /\ what.active = finding[i].active /\ what.scopesOk = finding[i].scopesOk
        /\ what.identity = Verified(i, sub)
    BY <1>2, <2>2, <2>3, Unmoved DEF Observation
  <2> HIDE DEF what
  <2>5. finding'[i] = what
    BY <1>2, <2>1 DEF TypeOK
  <2>6. Reasoned(i)'
    BY <1>2, <1>4, <2>3, <2>4, <2>5 DEF Reasoned
  <2>7. StepOf(i, After(i), None, what, seen[i])
    BY <1>1, <1>2, <1>3, <2>1, <2>4, <2>6, Unmoved DEF Go, Answers, None, StepOf, Knows
  <2>8. QED
    BY <2>7, InspectionKeeps
<1>7. QED
  BY <1>5, <1>6 DEF Identify

-----------------------------------------------------------------------------

LEMMA RotateKeeps ==
    ASSUME Inductive, Rotate
    PROVE  Inductive'
<1> USE DEF Inductive
<1>1. UNCHANGED <<alive, proposal, env, mode, at, seen, finding, told>>
  BY DEF Rotate, inputs
<1>2. PICK v \in Versions : row' = [row EXCEPT !.identity.version = v]
  BY DEF Rotate
<1>3. Registered /\ row.identity \in Identities
  BY DEF Rotate, Registered, TypeOK
<1>4. /\ row'.identity = [row.identity EXCEPT !.version = v]
      /\ row'.observed = row.observed
      /\ row' \in RowType
  BY <1>2, <1>3 DEF TypeOK, RowType, Identities
<1>5. Registered' /\ Holder(row'.identity) = Holder(row.identity)
  BY <1>3, <1>4, IdentityIsSome DEF Identities, Holder, Registered, NoIdentity
<1>6. TypeOK'
  BY <1>1, <1>4 DEF TypeOK, RowType
<1>7. Registering'
  BY <1>1, <1>5 DEF Registering
<1>8. Inspecting' /\ VerdictIsTrue'
  BY <1>1 DEF Inspecting, Reasoned, VerdictIsTrue, Unusable, Declared, Expected
<1>9. QED
  BY <1>6, <1>7, <1>8

LEMMA DieKeeps ==
    ASSUME Inductive, Die
    PROVE  Inductive'
<1> USE DEF Inductive
<1>1. UNCHANGED <<row, proposal, env, mode, at, seen, finding, told>>
  BY DEF Die, inputs
<1>2. alive' \subseteq alive
  BY DEF Die
<1>3. TypeOK'
  BY <1>1, <1>2 DEF TypeOK
<1>4. Registering'
  BY <1>1 DEF Registering, Registered
<1>5. \A i \in Inspections : /\ Reasoned(i) => Reasoned(i)'
                             /\ Unusable(i) => Unusable(i)'
  BY <1>1, <1>2 DEF Reasoned, Unusable, Declared, Expected
<1>6. Inspecting' /\ VerdictIsTrue'
  BY <1>1, <1>5 DEF Inspecting, VerdictIsTrue
<1>7. QED
  BY <1>3, <1>4, <1>6

LEMMA StepKeeps ==
    ASSUME Inductive, [Next]_vars
    PROVE  Inductive'
<1>1. CASE UNCHANGED vars
  BY <1>1 DEF vars, Inductive, TypeOK, Registering, Inspecting, Registered, Reasoned,
              VerdictIsTrue, Unusable, Declared, Expected
<1>2. ASSUME NEW c \in Registrations, Insert(c) \/ Compare(c) PROVE Inductive'
  BY <1>2, InsertKeeps, CompareKeeps
<1>3. ASSUME NEW i \in Inspections,
             \/ Load(i) \/ Probe(i) \/ Outage(i) \/ Introspect(i)
             \/ Identify(i) \/ Record(i) \/ Report(i)
      PROVE  Inductive'
  BY <1>3, LoadKeeps, ProbeKeeps, OutageKeeps, IntrospectKeeps, IdentifyKeeps,
     RecordKeeps, ReportKeeps
<1>4. CASE Rotate \/ Die
  BY <1>4, RotateKeeps, DieKeeps
<1>5. QED
  BY <1>1, <1>2, <1>3, <1>4 DEF Next

\* The inductive invariant holds of every behaviour of the commands.
THEOREM RegistryInvariant == Spec => []Inductive
BY InvariantStarts, StepKeeps, PTL DEF Spec

-----------------------------------------------------------------------------
\* The row and the commands are always well-formed (TypeOK of run Registry).
THEOREM RegistryTypes == Spec => []TypeOK
<1>1. Inductive => TypeOK
  BY DEF Inductive
<1>2. QED
  BY <1>1, RegistryInvariant, PTL

\* A binding is registered once, and stays its identity's (register).
THEOREM RegistryKeepsRegistrations == Spec => []RegistrationIsKept
<1>1. Inductive => RegistrationIsKept
  BY DEF Inductive, Registering, RegistrationIsKept
<1>2. QED
  BY <1>1, RegistryInvariant, PTL

\* No outage, refusal or race makes a verdict say what was not measured (_verdict).
THEOREM RegistryVerdicts == Spec => []VerdictIsTrue
<1>1. Inductive => VerdictIsTrue
  BY DEF Inductive
<1>2. QED
  BY <1>1, RegistryInvariant, PTL

\* An observation reaches the row only for the version the row names at that
\* moment, whatever was rotated while the probe ran (record_observation).
THEOREM RegistryRefusesStaleProbes == Spec => StaleProbeNeverOverwrites
<1>1. ASSUME Inductive, [Next]_vars
      PROVE  [Registered /\ row'.observed # row.observed =>
                  row'.observed.version = row'.identity.version]_vars
  <2>1. ASSUME NEW c \in Registrations, Insert(c)
        PROVE  Registered => row' = row
    BY <2>1 DEF Insert
  <2>2. ASSUME NEW i \in Inspections, Record(i)
        PROVE  row' # row => row'.observed.version = row'.identity.version
    <3>1. row \in RowType
      BY <1>1 DEF Inductive, TypeOK, RowType
    <3>2. QED
      BY <2>2, <3>1 DEF Record, Observed, RowType
  <2>3. CASE Rotate
    <3>1. row \in RowType
      BY <1>1 DEF Inductive, TypeOK, RowType
    <3>2. QED
      BY <2>3, <3>1 DEF Rotate, RowType
  <2>4. \/ row' = row
        \/ \E c \in Registrations : Insert(c)
        \/ \E i \in Inspections : Record(i)
        \/ Rotate
    BY <1>1 DEF Next, vars, Compare, Load, Probe, Outage, Introspect, Identify, Report, Die
  <2>5. QED
    BY <2>1, <2>2, <2>3, <2>4
<1>2. QED
  BY <1>1, RegistryInvariant, PTL DEF Spec, StaleProbeNeverOverwrites
=============================================================================
