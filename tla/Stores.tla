------------------------------- MODULE Stores -------------------------------
(***************************************************************************)
(* The data of a Cedar-Agent process and what its mutation routes do to    *)
(* it, as pure operators: the policy store, the entity store and the       *)
(* schema store (src/services/{policies,data,schema}/memory.rs), the       *)
(* validation each of them runs before it accepts a value, and, for every  *)
(* mutation route of src/routes/{policies,data,schema}.rs, when the route  *)
(* accepts a request and what the stores hold once it has applied it.      *)
(*                                                                         *)
(* A policy text is a member of Contents; what Cedar's parser and          *)
(* validator say of it is the constant ValidContents.  An entity body is   *)
(* its attributes.  Parents are left out (see the README).                 *)
(***************************************************************************)
CONSTANTS PolicyIds,        \* ids a policy can be stored under
          Contents,         \* policy texts, those that do not parse included
          ValidContents,    \* [CedarSchemas -> SUBSET Contents]
          EntityTypes,      \* fully qualified entity type names
          EntityIds,        \* bare entity ids
          Attrs,            \* attribute names
          Values,           \* attribute values
          Kinds,            \* the schema types String, Long, Boolean
          KindOf,           \* [Values -> Kinds]
          StringKind,       \* the kind of every value an attribute route sets
          Requests,         \* the mutation requests clients may send
          Absent,           \* a key that is not in a map
          EmptySchema,      \* the JSON object {} of Schema::empty()
          NoSchema,         \* None, what get_cedar_schema returns for {}
          Malformed,        \* a schema payload Cedar cannot parse
          AnyType           \* the type of a path that is a bare entity id

-----------------------------------------------------------------------------
(* What the stores hold. *)

Uids     == [type : EntityTypes, id : EntityIds]
Bodies   == [Attrs -> Values \cup {Absent}]
Decls    == [kind : Kinds, required : BOOLEAN]
Shapes   == [Attrs -> Decls \cup {Absent}]
Schemas  == [EntityTypes -> Shapes \cup {Absent}] \cup {EmptySchema}
CedarSchemas == Schemas \cup {NoSchema}

Policies == [PolicyIds -> Contents \cup {Absent}]
Entities == [Uids -> Bodies \cup {Absent}]
Contained == [policies : Policies, entities : Entities, schema : Schemas]

NoPolicies == [p \in PolicyIds |-> Absent]
NoEntities == [u \in Uids |-> Absent]
Strings    == {v \in Values : KindOf[v] = StringKind}
PathIds    == [type : EntityTypes \cup {AnyType}, id : EntityIds]
PolicyPayload == [id : PolicyIds, content : Contents]
EntityPayload == [uid : Uids, body : Bodies]

-----------------------------------------------------------------------------
(* The requests of the mutation routes. *)

PolicyRequests ==
         [op : {"create_policy", "update_policy"}, id : PolicyIds, content : Contents]
    \cup [op : {"update_policies"}, payload : SUBSET PolicyPayload]
    \cup [op : {"delete_policy"}, id : PolicyIds]

DataRequests ==
         [op : {"update_entities", "add_single_data_entry"}, payload : SUBSET EntityPayload]
    \cup [op : {"delete_entities"}]
    \cup [op : {"add_new_entity"}, uid : Uids]
    \cup [op : {"update_entity_attribute"}, uid : Uids, attr : Attrs, value : Strings]
    \cup [op : {"delete_entity_attribute"}, uid : Uids, attr : Attrs]
    \cup [op : {"patch_entity_attributes"}, uid : Uids,
          attrs : [Attrs -> Strings \cup {Absent}]]
    \cup [op : {"update_single_data_entry"}, path : PathIds,
          payload : SUBSET EntityPayload, sync : BOOLEAN]
    \cup [op : {"delete_single_data_entry"}, path : PathIds, sync : BOOLEAN]

SchemaRequests ==
         [op : {"update_schema"}, schema : Schemas \cup {Malformed}]
    \cup [op : {"delete_schema"}]
    \cup [op : {"add_attribute"}, type : EntityTypes, attr : Attrs, decl : Decls]
    \cup [op : {"delete_attribute"}, type : EntityTypes, attr : Attrs]

PolicyOps == {"create_policy", "update_policy", "update_policies", "delete_policy"}
DataOps   == {"update_entities", "add_single_data_entry", "delete_entities",
              "add_new_entity", "update_entity_attribute", "delete_entity_attribute",
              "patch_entity_attributes", "update_single_data_entry",
              "delete_single_data_entry"}
SchemaOps == {"update_schema", "delete_schema", "add_attribute", "delete_attribute"}

-----------------------------------------------------------------------------
(* Validation. *)

\* get_cedar_schema: the internal schema {} means "no schema".
CedarSchema(s) == IF s = EmptySchema THEN NoSchema ELSE s

\* validate_policy, with the parsing that comes before it.
PolicyValid(content, cs) == content \in ValidContents[cs]

PoliciesValid(ps, cs) ==
    \A p \in PolicyIds : ps[p] # Absent => PolicyValid(ps[p], cs)

\* Mutant of AttrConforms: a required attribute may be missing.
AttrConformsOptional(value, decl) ==
    IF decl = Absent \/ value = Absent THEN value = Absent ELSE KindOf[value] = decl.kind

AttrConforms(value, decl) ==
    IF decl = Absent
    THEN value = Absent
    ELSE IF value = Absent THEN ~decl.required ELSE KindOf[value] = decl.kind

\* The schema check of Entities::from_json_value: a schema that declares no
\* entity type, {} included, accepts no entity; None accepts every entity.
Conforms(u, body, cs) ==
    cs # NoSchema =>
        /\ cs # EmptySchema
        /\ cs[u.type] # Absent
        /\ \A a \in Attrs : AttrConforms(body[a], cs[u.type][a])

EntitiesValid(es, cs) ==
    \A u \in Uids : es[u] # Absent => Conforms(u, es[u], cs)

\* The same rule for what each store accepts, on the contents of all three.
ContentValid(st) ==
    /\ PoliciesValid(st.policies, CedarSchema(st.schema))
    /\ EntitiesValid(st.entities, CedarSchema(st.schema))

-----------------------------------------------------------------------------
(* Policy routes. *)

SameId(payload)  == \E x, y \in payload : x # y /\ x.id = y.id
SameUid(payload) == \E x, y \in payload : x # y /\ x.uid = y.uid

PoliciesOf(payload) ==
    [p \in PolicyIds |->
        IF \E x \in payload : x.id = p
        THEN (CHOOSE x \in payload : x.id = p).content
        ELSE Absent]

PolicyAccepted(r, ps, cs) ==
    CASE r.op = "create_policy"   -> ps[r.id] = Absent /\ PolicyValid(r.content, cs)
      [] r.op = "update_policy"   -> PolicyValid(r.content, cs)
      [] r.op = "update_policies" -> /\ ~SameId(r.payload)
                                     /\ \A x \in r.payload : PolicyValid(x.content, cs)
      [] r.op = "delete_policy"   -> ps[r.id] # Absent

PolicyResult(r, ps) ==
    CASE r.op \in {"create_policy", "update_policy"} -> [ps EXCEPT ![r.id] = r.content]
      [] r.op = "update_policies" -> PoliciesOf(r.payload)
      [] r.op = "delete_policy"   -> [ps EXCEPT ![r.id] = Absent]

-----------------------------------------------------------------------------
(* Data routes. *)

EntitiesOf(payload) ==
    [u \in Uids |->
        IF \E x \in payload : x.uid = u
        THEN (CHOOSE x \in payload : x.uid = u).body
        ELSE Absent]

\* A path names an entity by its full uid, or every entity with its bare id.
Names(path, u) == path.id = u.id /\ path.type \in {AnyType, u.type}

\* What the route checks before it hands the new entities to the store.
DataGuard(r, es) ==
    CASE r.op = "update_entities" -> ~SameUid(r.payload)
      [] r.op = "delete_entities" -> TRUE
      [] r.op = "add_new_entity"  -> es[r.uid] = Absent
      [] r.op \in {"update_entity_attribute", "patch_entity_attributes"} ->
             es[r.uid] # Absent
      [] r.op = "delete_entity_attribute" ->
             es[r.uid] # Absent /\ es[r.uid][r.attr] # Absent
      [] r.op = "add_single_data_entry" ->
             \E x \in EntityPayload : r.payload = {x} /\ es[x.uid] = Absent
      [] r.op = "update_single_data_entry" ->
             \E x \in EntityPayload : r.payload = {x} /\ Names(r.path, x.uid)
      [] r.op = "delete_single_data_entry" ->
             \E u \in Uids : Names(r.path, u) /\ es[u] # Absent

\* Mutant of AlreadyStored: an entity of another type with that id counts.
AlreadyStoredId(r, es) ==
    /\ r.op = "update_single_data_entry"
    /\ \E x \in r.payload, u \in Uids : u.id = x.uid.id /\ es[u] # Absent

\* PUT /data/single/<id> for a uid that is already stored: the route answers
\* with the payload and leaves the store as it is.
AlreadyStored(r, es) ==
    /\ r.op = "update_single_data_entry"
    /\ \E x \in r.payload : es[x.uid] # Absent

EmptyBody == [a \in Attrs |-> Absent]

Patched(body, attrs) ==
    [a \in Attrs |-> IF attrs[a] = Absent THEN body[a] ELSE attrs[a]]

DataResult(r, es) ==
    CASE r.op = "update_entities" -> EntitiesOf(r.payload)
      [] r.op = "delete_entities" -> NoEntities
      [] r.op = "add_new_entity"  -> [es EXCEPT ![r.uid] = EmptyBody]
      [] r.op = "update_entity_attribute" -> [es EXCEPT ![r.uid][r.attr] = r.value]
      [] r.op = "delete_entity_attribute" -> [es EXCEPT ![r.uid][r.attr] = Absent]
      [] r.op = "patch_entity_attributes" ->
             [es EXCEPT ![r.uid] = Patched(es[r.uid], r.attrs)]
      [] r.op \in {"add_single_data_entry", "update_single_data_entry"} ->
             [u \in Uids |-> IF es[u] = Absent THEN EntitiesOf(r.payload)[u] ELSE es[u]]
      [] r.op = "delete_single_data_entry" ->
             [u \in Uids |-> IF Names(r.path, u) THEN Absent ELSE es[u]]

DataAccepted(r, es, cs) == DataGuard(r, es) /\ EntitiesValid(DataResult(r, es), cs)

\* X-Cedar-Write-Origin: db-entity-sync, honoured by the two single routes.
SkipsInvalidation(r) ==
    /\ r.op \in {"update_single_data_entry", "delete_single_data_entry"}
    /\ r.sync

-----------------------------------------------------------------------------
(* Schema routes. *)

HasShape(s, t) == s # EmptySchema /\ s[t] # Absent

SchemaGuard(r, s) ==
    CASE r.op = "update_schema"    -> r.schema # Malformed
      [] r.op = "delete_schema"    -> TRUE
      [] r.op = "add_attribute"    -> HasShape(s, r.type) /\ s[r.type][r.attr] = Absent
      [] r.op = "delete_attribute" -> HasShape(s, r.type) /\ s[r.type][r.attr] # Absent

SchemaResult(r, s) ==
    CASE r.op = "update_schema"    -> r.schema
      [] r.op = "delete_schema"    -> EmptySchema
      [] r.op = "add_attribute"    -> [s EXCEPT ![r.type][r.attr] = r.decl]
      [] r.op = "delete_attribute" -> [s EXCEPT ![r.type][r.attr] = Absent]

\* Every route but DELETE /schema checks what is stored against Some(new schema).
SchemaAccepted(r, st) ==
    /\ SchemaGuard(r, st.schema)
    /\ r.op # "delete_schema" =>
           /\ PoliciesValid(st.policies, SchemaResult(r, st.schema))
           /\ EntitiesValid(st.entities, SchemaResult(r, st.schema))

-----------------------------------------------------------------------------
(* A whole mutation, on the contents of the three stores. *)

Accepted(r, st) ==
    IF r.op \in PolicyOps
    THEN PolicyAccepted(r, st.policies, CedarSchema(st.schema))
    ELSE IF r.op \in DataOps
         THEN DataAccepted(r, st.entities, CedarSchema(st.schema))
         ELSE SchemaAccepted(r, st)

Result(r, st) ==
    IF r.op \in PolicyOps
    THEN [st EXCEPT !.policies = PolicyResult(r, st.policies)]
    ELSE IF r.op \in DataOps
         THEN [st EXCEPT !.entities = DataResult(r, st.entities)]
         ELSE [st EXCEPT !.schema = SchemaResult(r, st.schema)]

-----------------------------------------------------------------------------
ASSUME StoresAssumption ==
    /\ Absent \notin Contents \cup Values \cup Bodies \cup Decls \cup Shapes
    /\ EmptySchema \notin [EntityTypes -> Shapes \cup {Absent}]
    /\ NoSchema \notin Schemas
    /\ Malformed \notin Schemas
    /\ KindOf \in [Values -> Kinds]
    /\ AnyType \notin EntityTypes
    /\ Absent \notin Requests
    /\ Requests \subseteq PolicyRequests \cup DataRequests \cup SchemaRequests

\* Without a schema validate_policy accepts every policy that parses, and no
\* validator accepts a policy that does not.
ASSUME ValidContentsAssumption ==
    /\ ValidContents \in [CedarSchemas -> SUBSET Contents]
    /\ \A cs \in CedarSchemas : ValidContents[cs] \subseteq ValidContents[NoSchema]
=============================================================================
