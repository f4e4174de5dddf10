---------------------------- MODULE MCCedarAgent ----------------------------
(***************************************************************************)
(* Instances of CedarAgent for TLC.  Each run picks the requests its       *)
(* clients may send; the values are the smallest that let every check of   *)
(* every route both pass and fail.                                         *)
(***************************************************************************)
EXTENDS CedarAgent

MCPolicyIds == {"p", "q"}
MCContents == {"any", "dept", "slow", "garbage"}
MCEntityTypes == {"User", "Table"}
MCAttrs == {"dept"}
MCValues == {"hr", "7"}
MCKinds == {"String", "Long"}
MCKindOf == [v \in MCValues |-> IF v = "7" THEN "Long" ELSE "String"]

\* "dept" reads principal.dept, so it needs User.dept to be a declared string;
\* "slow" is as permissive as "any", but cannot be indexed.
MCValidContents ==
    [cs \in CedarSchemas |->
        CASE cs = NoSchema    -> {"any", "dept", "slow"}
          [] cs = EmptySchema -> {}
          [] OTHER ->
               {"any", "slow"} \cup
               IF cs["User"] # Absent /\ cs["User"]["dept"] # Absent
                  /\ cs["User"]["dept"].kind = "String"
               THEN {"dept"} ELSE {}]
MCUnbuildable == {"slow"}

-----------------------------------------------------------------------------
User(i)  == [type |-> "User", id |-> i]
Table(i) == [type |-> "Table", id |-> i]
Bare(i)  == [type |-> AnyType, id |-> i]
Body(v)  == [a \in MCAttrs |-> v]
Row(u, v) == [uid |-> u, body |-> Body(v)]

Decl(k, must) == [kind |-> k, required |-> must]
Declares(d) == [t \in MCEntityTypes |-> [a \in MCAttrs |-> IF t = "User" THEN d ELSE Absent]]
OnlyUser(d) == [t \in MCEntityTypes |-> IF t = "User" THEN [a \in MCAttrs |-> d] ELSE Absent]

Optional == Decl("String", FALSE)
Required == Decl("String", TRUE)

\* Nothing on disk; a deployment with all three files; files whose entities and
\* policies the schema does not accept; policies that cannot be indexed; a schema file that does not parse.
NoFiles   == [schema |-> Absent, entities |-> Absent, policies |-> Absent]
AllFiles  == [schema   |-> Declares(Optional),
              entities |-> {Row(User("a"), "hr")},
              policies |-> {[id |-> "p", content |-> "dept"]}]
BadFiles  == [schema   |-> Declares(Required),
              entities |-> {Row(User("a"), Absent)},
              policies |-> {[id |-> "p", content |-> "garbage"]}]
OldFiles  == [schema   |-> Absent,
              entities |-> {Row(User("a"), "7"), Row(Table("a"), Absent)},
              policies |-> {[id |-> "p", content |-> "dept"]}]
SlowFiles == [schema   |-> Absent, entities |-> Absent,
              policies |-> {[id |-> "p", content |-> "slow"], [id |-> "q", content |-> "dept"]}]
MangledFiles == [schema |-> Malformed, entities |-> Absent, policies |-> Absent]
MCFiles == {NoFiles, AllFiles, BadFiles, OldFiles, SlowFiles, MangledFiles}
FileStart == {AllFiles, OldFiles}
UndeclaredStart == {[AllFiles EXCEPT !.schema = Absent]}

-----------------------------------------------------------------------------
CreateP(i, t) == [op |-> "create_policy", id |-> i, content |-> t]
UpdateP(i, t) == [op |-> "update_policy", id |-> i, content |-> t]
DeleteP(i)    == [op |-> "delete_policy", id |-> i]
ReplaceP(ps)  == [op |-> "update_policies", payload |-> ps]
Pair(i, t)    == [id |-> i, content |-> t]

PolicyTraffic ==
    {CreateP("p", "any"), CreateP("q", "dept"), UpdateP("p", "slow"), UpdateP("q", "garbage"),
     DeleteP("q"), ReplaceP({Pair("p", "any"), Pair("p", "dept")}),
     ReplaceP({Pair("p", "dept"), Pair("q", "any")}), ReplaceP({})}

AddOne(rows) == [op |-> "add_single_data_entry", payload |-> rows]
PutOne(path, row, s) ==
    [op |-> "update_single_data_entry", path |-> path, payload |-> {row}, sync |-> s]
DropOne(path, s) == [op |-> "delete_single_data_entry", path |-> path, sync |-> s]
SetAttr(u, v)    == [op |-> "update_entity_attribute", uid |-> u, attr |-> "dept", value |-> v]
DropAttr(u)      == [op |-> "delete_entity_attribute", uid |-> u, attr |-> "dept"]
PatchAttrs(u, v) == [op |-> "patch_entity_attributes", uid |-> u, attrs |-> Body(v)]
NewEntity(u)     == [op |-> "add_new_entity", uid |-> u]
ReplaceD(rows)   == [op |-> "update_entities", payload |-> rows]

DataTraffic ==
    {ReplaceD({Row(User("a"), "hr"), Row(Table("a"), Absent)}),
     ReplaceD({Row(User("a"), "hr"), Row(User("a"), "7")}),
     [op |-> "delete_entities"],
     NewEntity(User("a")), SetAttr(Table("a"), "hr"), DropAttr(User("a")),
     PatchAttrs(User("a"), "hr"), AddOne({Row(Table("a"), Absent)}), AddOne({}),
     PutOne(Bare("a"), Row(User("a"), "7"), TRUE), PutOne(Table("a"), Row(User("a"), "7"), TRUE),
     PutOne(Table("a"), Row(Table("a"), Absent), FALSE),
     DropOne(Bare("a"), TRUE), DropOne(Table("a"), FALSE)}

PutSchema(s)     == [op |-> "update_schema", schema |-> s]
DropSchema       == [op |-> "delete_schema"]
AddDecl(t, d)    == [op |-> "add_attribute", type |-> t, attr |-> "dept", decl |-> d]
DropDecl(t)      == [op |-> "delete_attribute", type |-> t, attr |-> "dept"]

SchemaTraffic ==
    {PutSchema(Malformed), PutSchema(EmptySchema), PutSchema(Declares(Absent)),
     PutSchema(OnlyUser(Required)), DropSchema, AddDecl("User", Required),
     AddDecl("User", Optional), DropDecl("User"), DropDecl("Table")}

\* A schema that accepts what UndeclaredStart has stored without one.
FirstSchemas == {PutSchema(Declares(Optional))}

PolicyAndSchemaTraffic == PolicyTraffic \cup SchemaTraffic

\* One of each kind, chosen to disagree: the schema requires what a data route
\* removes, and forbids what a policy reads.
MixedTraffic ==
    {CreateP("p", "dept"), DeleteP("p"), SetAttr(User("a"), "hr"), DropAttr(User("a")),
     [op |-> "delete_entities"], PutSchema(Declares(Required)), PutSchema(Declares(Absent)),
     DropSchema}
=============================================================================
