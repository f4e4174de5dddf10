---------------------------- MODULE StoresProofs ----------------------------
(***************************************************************************)
(* Lemmas about the operators of Stores: what each kind of request carries, *)
(* that every route leaves values of the right type, and that what a route *)
(* accepts is valid under the schema it was checked against.               *)
(***************************************************************************)
EXTENDS Stores, TLAPS

\* The routes of the three kinds are told apart by the op of the request.  What is
\* said of the requests an instance has is said of every request there may be.
LEMMA PolicyRequestShape ==
    ASSUME NEW r \in Requests \cup PolicyRequests, r.op \in PolicyOps
    PROVE  /\ r.op # "update_policies" => r.id \in PolicyIds
           /\ r.op \in {"create_policy", "update_policy"} => r.content \in Contents
           /\ r.op = "update_policies" => r.payload \in SUBSET PolicyPayload
<1>1. r \in PolicyRequests \cup DataRequests \cup SchemaRequests
  BY StoresAssumption
<1>2. r \in PolicyRequests
  BY <1>1 DEF PolicyOps, DataRequests, SchemaRequests
<1> QED
  BY <1>2 DEF PolicyRequests

LEMMA DataRequestShape ==
    ASSUME NEW r \in Requests \cup DataRequests, r.op \in DataOps
    PROVE  /\ r.op \in {"update_entities", "add_single_data_entry", "update_single_data_entry"} =>
                  r.payload \in SUBSET EntityPayload
           /\ r.op \in {"add_new_entity", "update_entity_attribute",
                        "delete_entity_attribute", "patch_entity_attributes"} =>
                  r.uid \in Uids
           /\ r.op \in {"update_entity_attribute", "delete_entity_attribute"} =>
                  r.attr \in Attrs
           /\ r.op = "update_entity_attribute" => r.value \in Values
           /\ r.op = "patch_entity_attributes" => r.attrs \in [Attrs -> Values \cup {Absent}]
<1>1. r \in PolicyRequests \cup DataRequests \cup SchemaRequests
  BY StoresAssumption
<1>2. r \in DataRequests
  BY <1>1 DEF DataOps, PolicyRequests, SchemaRequests
<1>3. Strings \subseteq Values
  BY DEF Strings
<1>4. [Attrs -> Strings \cup {Absent}] \subseteq [Attrs -> Values \cup {Absent}]
  BY <1>3
<1> QED
  BY <1>2, <1>3, <1>4 DEF DataRequests

LEMMA SchemaRequestShape ==
    ASSUME NEW r \in Requests \cup SchemaRequests, r.op \in SchemaOps
    PROVE  /\ r.op = "update_schema" => r.schema \in Schemas \cup {Malformed}
           /\ r.op \in {"add_attribute", "delete_attribute"} =>
                  r.type \in EntityTypes /\ r.attr \in Attrs
           /\ r.op = "add_attribute" => r.decl \in Decls
<1>1. r \in PolicyRequests \cup DataRequests \cup SchemaRequests
  BY StoresAssumption
<1>2. r \in SchemaRequests
  BY <1>1 DEF SchemaOps, PolicyRequests, DataRequests
<1> QED
  BY <1>2 DEF SchemaRequests

\* Every mutation route is of exactly one kind.
LEMMA RequestKinds ==
    ASSUME NEW r \in Requests
    PROVE  r.op \in PolicyOps \/ r.op \in DataOps \/ r.op \in SchemaOps
<1>1. r \in PolicyRequests \cup DataRequests \cup SchemaRequests
  BY StoresAssumption
<1> QED
  BY <1>1 DEF PolicyRequests, DataRequests, SchemaRequests, PolicyOps, DataOps, SchemaOps

-----------------------------------------------------------------------------
(* Types. *)

LEMMA PoliciesOfType ==
    ASSUME NEW payload \in SUBSET PolicyPayload
    PROVE  PoliciesOf(payload) \in Policies
<1>1. ASSUME NEW p \in PolicyIds, NEW x \in payload, x.id = p
      PROVE  (CHOOSE y \in payload : y.id = p).content \in Contents
  <2>1. (CHOOSE y \in payload : y.id = p) \in payload
    BY <1>1
  <2> QED
    BY <2>1 DEF PolicyPayload
<1> QED
  BY <1>1 DEF PoliciesOf, Policies

LEMMA EntitiesOfType ==
    ASSUME NEW payload \in SUBSET EntityPayload
    PROVE  EntitiesOf(payload) \in Entities
<1>1. ASSUME NEW u \in Uids, NEW x \in payload, x.uid = u
      PROVE  (CHOOSE y \in payload : y.uid = u).body \in Bodies
  <2>1. (CHOOSE y \in payload : y.uid = u) \in payload
    BY <1>1
  <2> QED
    BY <2>1 DEF EntityPayload
<1> QED
  BY <1>1 DEF EntitiesOf, Entities

\* A policy route leaves a policy store.
LEMMA PolicyResultType ==
    ASSUME NEW r \in Requests \cup PolicyRequests, r.op \in PolicyOps, NEW ps \in Policies
    PROVE  PolicyResult(r, ps) \in Policies
<1>1. CASE r.op \in {"create_policy", "update_policy"}
  BY <1>1, PolicyRequestShape DEF PolicyResult, Policies
<1>2. CASE r.op = "update_policies"
  BY <1>2, PolicyRequestShape, PoliciesOfType DEF PolicyResult
<1>3. CASE r.op = "delete_policy"
  BY <1>3, PolicyRequestShape DEF PolicyResult, Policies
<1> QED
  BY <1>1, <1>2, <1>3 DEF PolicyOps

\* A data route that is not refused leaves an entity store.
LEMMA DataResultType ==
    ASSUME NEW r \in Requests \cup DataRequests, r.op \in DataOps, NEW es \in Entities,
           DataGuard(r, es)
    PROVE  DataResult(r, es) \in Entities
<1> USE DataRequestShape
<1>0. \A u \in Uids : es[u] # Absent => es[u] \in Bodies
  BY DEF Entities
<1>1. CASE r.op = "update_entities"
  BY <1>1, EntitiesOfType DEF DataResult
<1>2. CASE r.op = "delete_entities"
  BY <1>2 DEF DataResult, NoEntities, Entities
<1>3. CASE r.op = "add_new_entity"
  <2>1. EmptyBody \in Bodies
    BY DEF EmptyBody, Bodies
  <2> QED
    BY <1>3, <2>1 DEF DataResult, Entities
<1>4. CASE r.op = "update_entity_attribute"
  <2>1. es[r.uid] \in Bodies
    BY <1>0, <1>4 DEF DataGuard
  <2>2. [es[r.uid] EXCEPT ![r.attr] = r.value] \in Bodies
    BY <1>4, <2>1 DEF Bodies
  <2> QED
    BY <1>4, <2>2 DEF DataResult, Entities
<1>5. CASE r.op = "delete_entity_attribute"
  <2>1. es[r.uid] \in Bodies
    BY <1>0, <1>5 DEF DataGuard
  <2>2. [es[r.uid] EXCEPT ![r.attr] = Absent] \in Bodies
    BY <1>5, <2>1 DEF Bodies
  <2> QED
    BY <1>5, <2>2 DEF DataResult, Entities
<1>6. CASE r.op = "patch_entity_attributes"
  <2>1. es[r.uid] \in Bodies
    BY <1>0, <1>6 DEF DataGuard
  <2>2. Patched(es[r.uid], r.attrs) \in Bodies
    BY <1>6, <2>1 DEF Patched, Bodies
  <2> QED
    BY <1>6, <2>2 DEF DataResult, Entities
<1>7. CASE r.op \in {"add_single_data_entry", "update_single_data_entry"}
  <2>1. EntitiesOf(r.payload) \in Entities
    BY <1>7, EntitiesOfType
  <2> QED
    BY <1>7, <2>1 DEF DataResult, Entities
<1>8. CASE r.op = "delete_single_data_entry"
  BY <1>8 DEF DataResult, Entities
<1> QED
  BY <1>1, <1>2, <1>3, <1>4, <1>5, <1>6, <1>7, <1>8 DEF DataOps

\* A schema route that is not refused leaves a schema.
LEMMA SchemaResultType ==
    ASSUME NEW r \in Requests \cup SchemaRequests, r.op \in SchemaOps, NEW s \in Schemas,
           SchemaGuard(r, s)
    PROVE  SchemaResult(r, s) \in Schemas
<1> USE SchemaRequestShape
<1>1. CASE r.op = "update_schema"
  BY <1>1 DEF SchemaGuard, SchemaResult
<1>2. CASE r.op = "delete_schema"
  BY <1>2 DEF SchemaResult, Schemas
<1>3. ASSUME r.op \in {"add_attribute", "delete_attribute"}, NEW d \in Decls \cup {Absent}
      PROVE  [s EXCEPT ![r.type][r.attr] = d] \in Schemas
  <2>1. s \in [EntityTypes -> Shapes \cup {Absent}] /\ s[r.type] \in Shapes
    BY <1>3 DEF SchemaGuard, HasShape, Schemas
  <2>2. [s[r.type] EXCEPT ![r.attr] = d] \in Shapes
    BY <1>3, <2>1 DEF Shapes
  <2> QED
    BY <1>3, <2>1, <2>2 DEF Schemas
<1>4. CASE r.op = "add_attribute"
  BY <1>3, <1>4 DEF SchemaResult
<1>5. CASE r.op = "delete_attribute"
  BY <1>3, <1>5 DEF SchemaResult
<1> QED
  BY <1>1, <1>2, <1>4, <1>5 DEF SchemaOps

\* What a mutation that is accepted leaves is of the right type.
LEMMA ResultTyped ==
    ASSUME NEW r \in PolicyRequests \cup DataRequests \cup SchemaRequests,
           NEW st \in Contained, Accepted(r, st)
    PROVE  Result(r, st) \in Contained
<1> USE DEF Contained
<1>1. CASE r \in PolicyRequests
  <2>1. r.op \in PolicyOps
    BY <1>1 DEF PolicyRequests, PolicyOps
  <2>2. PolicyResult(r, st.policies) \in Policies
    BY <1>1, <2>1, PolicyResultType
  <2> QED
    BY <2>1, <2>2 DEF Result
<1>2. CASE r \in DataRequests
  <2>1. r.op \in DataOps /\ r.op \notin PolicyOps
    BY <1>2 DEF DataRequests, DataOps, PolicyOps
  <2>2. DataResult(r, st.entities) \in Entities
    BY <1>2, <2>1, DataResultType DEF Accepted, DataAccepted
  <2> QED
    BY <2>1, <2>2 DEF Result
<1>3. CASE r \in SchemaRequests
  <2>1. r.op \in SchemaOps /\ r.op \notin PolicyOps \cup DataOps
    BY <1>3 DEF SchemaRequests, SchemaOps, DataOps, PolicyOps
  <2>2. SchemaResult(r, st.schema) \in Schemas
    BY <1>3, <2>1, SchemaResultType DEF Accepted, SchemaAccepted
  <2> QED
    BY <2>1, <2>2 DEF Result
<1> QED
  BY <1>1, <1>2, <1>3

-----------------------------------------------------------------------------
(* Validity. *)

\* What is valid under a schema is valid without one: the only check left is the
\* parser's.
LEMMA ValidWithoutSchema ==
    ASSUME NEW ps \in Policies, NEW es \in Entities, NEW cs \in CedarSchemas
    PROVE  /\ PoliciesValid(ps, cs) => PoliciesValid(ps, NoSchema)
           /\ EntitiesValid(es, NoSchema)
BY ValidContentsAssumption DEF PoliciesValid, PolicyValid, EntitiesValid, Conforms

\* A snapshot checked against Some(s) is valid once s is the stored schema: for {}
\* the store then answers None, which asks for less.
LEMMA ValidOnceStored ==
    ASSUME NEW ps \in Policies, NEW es \in Entities, NEW s \in Schemas,
           PoliciesValid(ps, s), EntitiesValid(es, s)
    PROVE  /\ PoliciesValid(ps, CedarSchema(s))
           /\ EntitiesValid(es, CedarSchema(s))
BY ValidWithoutSchema DEF CedarSchema, CedarSchemas

\* A policy route that validates only what it is given keeps the whole store valid.
LEMMA PolicyResultValid ==
    ASSUME NEW r \in Requests, r.op \in PolicyOps, NEW ps \in Policies,
           NEW cs \in CedarSchemas, PoliciesValid(ps, cs), PolicyAccepted(r, ps, cs)
    PROVE  PoliciesValid(PolicyResult(r, ps), cs)
<1> USE PolicyRequestShape DEF PoliciesValid
<1>1. CASE r.op \in {"create_policy", "update_policy"}
  <2>1. PolicyValid(r.content, cs)
    BY <1>1 DEF PolicyAccepted
  <2> QED
    BY <1>1, <2>1 DEF PolicyResult, Policies
<1>2. CASE r.op = "update_policies"
  <2>1. \A x \in r.payload : PolicyValid(x.content, cs)
    BY <1>2 DEF PolicyAccepted
  <2>2. ASSUME NEW p \in PolicyIds, NEW x \in r.payload, x.id = p
        PROVE  PolicyValid((CHOOSE y \in r.payload : y.id = p).content, cs)
    <3>1. (CHOOSE y \in r.payload : y.id = p) \in r.payload
      BY <2>2
    <3> QED
      BY <2>1, <3>1
  <2> QED
    BY <1>2, <2>2 DEF PolicyResult, PoliciesOf
<1>3. CASE r.op = "delete_policy"
  BY <1>3 DEF PolicyResult, Policies
<1> QED
  BY <1>1, <1>2, <1>3 DEF PolicyOps

\* PUT /data/single of a stored entity computes the entities it found.
LEMMA StoredUntouched ==
    ASSUME NEW es \in Entities, NEW r \in Requests, r.op \in DataOps,
           DataGuard(r, es), AlreadyStored(r, es)
    PROVE  DataResult(r, es) = es
<1>1. r.op = "update_single_data_entry"
  BY DEF AlreadyStored
<1>2. PICK x \in EntityPayload : r.payload = {x}
  BY <1>1 DEF DataGuard
<1>3. es[x.uid] # Absent
  BY <1>2 DEF AlreadyStored
<1>4. \A u \in Uids : u # x.uid => EntitiesOf(r.payload)[u] = Absent
  BY <1>2 DEF EntitiesOf
<1>5. DataResult(r, es)
        = [u \in Uids |-> IF es[u] = Absent THEN EntitiesOf(r.payload)[u] ELSE es[u]]
  BY <1>1 DEF DataResult
<1>6. \A u \in Uids : DataResult(r, es)[u] = es[u]
  BY <1>3, <1>4, <1>5
<1> QED
  BY <1>5, <1>6 DEF Entities
=============================================================================
