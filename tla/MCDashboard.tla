---------------------------- MODULE MCDashboard ----------------------------
(***************************************************************************)
(* Instances of Dashboard for TLC: one entity type with one entity and one *)
(* attribute, and two policies.                                            *)
(***************************************************************************)
EXTENDS Dashboard, TLC

CONSTANTS p1, p2            \* policy ids

MCPolicyIds == {p1, p2}
MCContents == {"text"}
MCValidContents == [cs \in CedarSchemas |-> MCContents]
MCEntityTypes == {"User"}
MCEntityIds == {"alice"}
MCAttrs == {"level"}
MCKinds == {"String", "Long"}

\* "seven" is a word, "7" the text of the number seven.
MCStrings == {"seven", "7"}
MCValues == MCStrings \cup {"number7"}
MCKindOf == [v \in MCValues |-> IF v = "number7" THEN "Long" ELSE "String"]
MCAsText == [v \in MCValues |-> IF v = "number7" THEN "7" ELSE v]
MCJsonOf == [s \in MCStrings |-> IF s = "7" THEN "number7" ELSE s]
MCParsedAs ==
    [k \in MCKinds |-> [s \in MCStrings |->
        IF k = "String" THEN s ELSE IF s = "7" THEN "number7" ELSE Absent]]

\* Schemas: no attribute declared, or one.
Bare == [t \in EntityTypes |-> [a \in Attrs |-> Absent]]
Declared(kind, required) ==
    [t \in EntityTypes |-> [a \in Attrs |-> [kind |-> kind, required |-> required]]]
MCDrafts == {NotJson, Malformed, Bare, Declared("String", TRUE)}

With(ps, es, s) == [policies |-> ps, entities |-> es, schema |-> s]
NoOne == With(NoPolicies, NoEntities, EmptySchema)
Users(value) == [u \in Uids |-> [a \in Attrs |-> value]]

MCContents0 ==
    [policies      |-> {NoOne},
     entities      |-> {With(NoPolicies, Users("number7"), EmptySchema),
                        With(NoPolicies, Users("number7"), Declared("Long", FALSE)),
                        With(NoPolicies, NoEntities, Declared("String", TRUE))},
     schema        |-> {With(NoPolicies, Users(Absent), EmptySchema),
                        With(NoPolicies, Users(Absent), Bare)},
     authorization |-> {NoOne},
     overview      |-> {With([x \in PolicyIds |-> "text"], Users("7"), Bare)},
     settings      |-> {NoOne}]

\* The policy p1 needs the entity, and without a context the policy p2, too.
MCAllows(question, ps, es) ==
    /\ ps[p1] # Absent
    /\ \A u \in Uids : es[u] # Absent
    /\ question.context = EmptyText => ps[p2] # Absent

MCFirstEnvironment == [baseUrl |-> "url1", apiKey |-> NoSetting]
=============================================================================
