----------------------------- MODULE CedarAgent -----------------------------
(***************************************************************************)
(* The mutation path of a Cedar-Agent process.  Every route that changes   *)
(* policies, entities or the schema runs as a task of its own and goes     *)
(* through the same steps: take the process-wide mutation lock, remember   *)
(* what is stored, validate, write, push an invalidation to the database   *)
(* targets, and then either undo the write or rebuild the authorizer's     *)
(* cache.  The routes are src/routes/{policies,data,schema}.rs, the lock   *)
(* and the stores are Rocket managed state set up in src/main.rs.          *)
(*                                                                         *)
(* What the routes accept and write is in Stores; here are the steps, the  *)
(* points where two tasks can interleave, and the ways a step can fail.    *)
(***************************************************************************)
EXTENDS Stores, Sequences

CONSTANTS Clients,          \* clients, each with one request in flight at most
          Files,            \* what the files given on the command line may hold
          Unbuildable       \* policy texts CachedAuthorizer cannot index

VARIABLES policies,         \* MemoryPolicyStore
          entities,         \* MemoryDataStore, the cedar_policy_core copy
          conv,             \* the schema the cedar_policy copy was parsed with
          schema,           \* MemorySchemaStore, the internal (JSON) schema
          cache,            \* AuthorizerService.cache
          queue,            \* the tasks at the mutation lock, its holder first
          pc,               \* where the task of each client is
          req,              \* the request of each client
          prev,             \* prev_policies, prev_entities and prev_schema
          answer            \* the last answer each client received

stores  == <<policies, entities, conv, schema>>
tasks   == <<queue, pc, req, prev, answer>>
vars    == <<stores, cache, tasks>>

-----------------------------------------------------------------------------
Steps == {"idle", "queued", "check", "entities", "schema", "flush", "rollback",
          "rollback_policies", "rollback_entities", "rebuild"}
Answers == {"none", "ok", "rejected", "rolled_back", "rollback_failed"}
Snapshot == [policies |-> policies, entities |-> entities, schema |-> schema]
Caches == [policies : Policies, entities : Entities, conv : CedarSchemas]
FileContents == [schema : Schemas \cup {Absent, Malformed},
                 entities : (SUBSET EntityPayload) \cup {Absent},
                 policies : (SUBSET PolicyPayload) \cup {Absent}]

TypeOK ==
    /\ policies \in Policies
    /\ entities \in Entities
    /\ conv \in CedarSchemas
    /\ schema \in Schemas
    /\ cache \in Caches \cup {Absent}
    /\ queue \in Seq(Clients)
    /\ pc \in [Clients -> Steps]
    /\ req \in [Clients -> Requests \cup {Absent}]
    /\ prev \in [Clients -> Contained \cup {Absent}]
    /\ answer \in [Clients -> Answers]

-----------------------------------------------------------------------------
(* The authorizer cache. *)

Buildable(ps) == \A p \in PolicyIds : ps[p] \notin Unbuildable

\* rebuild_cache: a build that fails leaves the cache as it was.
Rebuilt(old, ps, es, cs) ==
    IF Buildable(ps) THEN [policies |-> ps, entities |-> es, conv |-> cs] ELSE old

-----------------------------------------------------------------------------
(* Start-up: the fairings load the schema, then the entities, then the     *)
(* policies, each under the schema loaded before it, and build the cache.  *)
(* A file that is not given, does not parse or is not valid loads nothing. *)

\* Mutant of LoadSchema: the file is not parsed before it is stored.
LoadSchemaUnparsed(f) == IF f.schema = Absent THEN EmptySchema ELSE f.schema

LoadSchema(f) == IF f.schema \in Schemas THEN f.schema ELSE EmptySchema

EntitiesLoad(f) ==
    /\ f.entities # Absent
    /\ ~SameUid(f.entities)
    /\ EntitiesValid(EntitiesOf(f.entities), CedarSchema(LoadSchema(f)))

PoliciesLoad(f) ==
    /\ f.policies # Absent
    /\ ~SameId(f.policies)
    /\ PoliciesValid(PoliciesOf(f.policies), CedarSchema(LoadSchema(f)))

LoadEntities(f) == IF EntitiesLoad(f) THEN EntitiesOf(f.entities) ELSE NoEntities
LoadPolicies(f) == IF PoliciesLoad(f) THEN PoliciesOf(f.policies) ELSE NoPolicies

Init ==
    /\ \E f \in Files :
         /\ schema = LoadSchema(f)
         /\ entities = LoadEntities(f)
         /\ conv = IF EntitiesLoad(f) THEN CedarSchema(LoadSchema(f)) ELSE NoSchema
         /\ policies = LoadPolicies(f)
    /\ cache = Rebuilt(Absent, policies, entities, conv)
    /\ queue = <<>>
    /\ pc = [c \in Clients |-> "idle"]
    /\ req = [c \in Clients |-> Absent]
    /\ prev = [c \in Clients |-> Absent]
    /\ answer = [c \in Clients |-> "none"]

-----------------------------------------------------------------------------
(* A request arrives, and its task waits for the mutation lock. *)

Request(c) ==
    /\ pc[c] = "idle"
    /\ \E r \in Requests : req' = [req EXCEPT ![c] = r]
    /\ pc' = [pc EXCEPT ![c] = "queued"]
    /\ queue' = Append(queue, c)
    /\ answer' = [answer EXCEPT ![c] = "none"]
    /\ UNCHANGED <<stores, cache, prev>>

\* Mutant of HasLock: handlers do not take mutation_lock.
HasNoLock(c) == queue # <<>>

\* mutation_lock.lock().await hands the lock over in arrival order.
HasLock(c) == queue # <<>> /\ Head(queue) = c

Begin(c) ==
    /\ pc[c] = "queued"
    /\ HasLock(c)
    /\ pc' = [pc EXCEPT ![c] = "check"]
    /\ prev' = [prev EXCEPT ![c] = Snapshot]
    /\ UNCHANGED <<stores, cache, queue, req, answer>>

\* The handler returns: the guard is dropped and the next task gets the lock.
Finish(c, how) ==
    /\ pc' = [pc EXCEPT ![c] = "idle"]
    /\ req' = [req EXCEPT ![c] = Absent]
    /\ prev' = [prev EXCEPT ![c] = Absent]
    /\ answer' = [answer EXCEPT ![c] = how]
    /\ queue' = Tail(queue)

Goto(c, step) ==
    /\ pc' = [pc EXCEPT ![c] = step]
    /\ UNCHANGED <<queue, req, prev, answer>>

At(c, step, ops) == pc[c] = step /\ req[c].op \in ops

\* Mutant of SchemaRead: the schema of the stored entities, not of the store.
SchemaOfEntities(c) == conv

\* The schema the handler read when it started.
SchemaRead(c) == CedarSchema(prev[c].schema)

-----------------------------------------------------------------------------
(* The policy routes. *)

WritePolicies(c) ==
    /\ At(c, "check", PolicyOps)
    /\ PolicyAccepted(req[c], policies, SchemaRead(c))
    /\ policies' = PolicyResult(req[c], policies)
    /\ Goto(c, "flush")
    /\ UNCHANGED <<entities, conv, schema, cache>>

RejectPolicies(c) ==
    /\ At(c, "check", PolicyOps)
    /\ ~PolicyAccepted(req[c], policies, SchemaRead(c))
    /\ Finish(c, "rejected")
    /\ UNCHANGED <<stores, cache>>

RollbackPolicies(c) ==
    /\ At(c, "rollback", PolicyOps)
    /\ IF PoliciesValid(prev[c].policies, CedarSchema(schema))
       THEN policies' = prev[c].policies /\ Finish(c, "rolled_back")
       ELSE policies' = policies /\ Finish(c, "rollback_failed")
    /\ UNCHANGED <<entities, conv, schema, cache>>

-----------------------------------------------------------------------------
(* The data routes.  DELETE /data stores Entities::empty(), whose cedar    *)
(* copy was parsed without a schema; the other routes parse with it.       *)

WriteEntities(c) ==
    /\ At(c, "check", DataOps)
    /\ DataAccepted(req[c], entities, SchemaRead(c))
    /\ ~AlreadyStored(req[c], entities)
    /\ entities' = DataResult(req[c], entities)
    /\ conv' = IF req[c].op = "delete_entities" THEN NoSchema ELSE SchemaRead(c)
    /\ Goto(c, IF SkipsInvalidation(req[c]) THEN "rebuild" ELSE "flush")
    /\ UNCHANGED <<policies, schema, cache>>

AnswerStored(c) ==
    /\ At(c, "check", DataOps)
    /\ DataGuard(req[c], entities)
    /\ AlreadyStored(req[c], entities)
    /\ Finish(c, "ok")
    /\ UNCHANGED <<stores, cache>>

RejectEntities(c) ==
    /\ At(c, "check", DataOps)
    /\ IF AlreadyStored(req[c], entities)
       THEN ~DataGuard(req[c], entities)
       ELSE ~DataAccepted(req[c], entities, SchemaRead(c))
    /\ Finish(c, "rejected")
    /\ UNCHANGED <<stores, cache>>

\* Mutant of RollbackEntities: the restored entities are parsed without a schema.
RestoreUnparsed(c) ==
    /\ At(c, "rollback", DataOps)
    /\ entities' = prev[c].entities
    /\ conv' = NoSchema
    /\ Finish(c, "rolled_back")
    /\ UNCHANGED <<policies, schema, cache>>

RollbackEntities(c) ==
    /\ At(c, "rollback", DataOps)
    /\ IF EntitiesValid(prev[c].entities, CedarSchema(schema))
       THEN /\ entities' = prev[c].entities
            /\ conv' = CedarSchema(schema)
            /\ Finish(c, "rolled_back")
       ELSE UNCHANGED <<entities, conv>> /\ Finish(c, "rollback_failed")
    /\ UNCHANGED <<policies, schema, cache>>

-----------------------------------------------------------------------------
(* The schema routes: the stored policies are validated under the new      *)
(* schema and stored again, then the entities, and the schema comes last.  *)

NewSchema(c) == SchemaResult(req[c], schema)

RejectSchema(c) ==
    /\ \/ At(c, "check", SchemaOps) /\ ~SchemaGuard(req[c], schema)
       \/ /\ At(c, "check", SchemaOps \ {"delete_schema"})
          /\ SchemaGuard(req[c], schema)
          /\ ~PoliciesValid(policies, NewSchema(c))
       \/ pc[c] = "entities" /\ ~EntitiesValid(entities, NewSchema(c))
    /\ Finish(c, "rejected")
    /\ UNCHANGED <<stores, cache>>

\* Mutant of RevalidatePolicies: the stored policies are not checked again.
KeepPolicies(c) ==
    /\ At(c, "check", SchemaOps \ {"delete_schema"})
    /\ SchemaGuard(req[c], schema)
    /\ Goto(c, "entities")
    /\ UNCHANGED <<stores, cache>>

RevalidatePolicies(c) ==
    /\ At(c, "check", SchemaOps \ {"delete_schema"})
    /\ SchemaGuard(req[c], schema)
    /\ PoliciesValid(policies, NewSchema(c))
    /\ Goto(c, "entities")
    /\ UNCHANGED <<stores, cache>>

\* Mutants of ReparseEntities: the entities are checked and not stored again, or
\* stored again and not checked.
CheckEntitiesOnly(c) ==
    /\ pc[c] = "entities"
    /\ EntitiesValid(entities, NewSchema(c))
    /\ Goto(c, "schema")
    /\ UNCHANGED <<stores, cache>>

ReparseUnchecked(c) ==
    /\ pc[c] = "entities"
    /\ conv' = NewSchema(c)
    /\ Goto(c, "schema")
    /\ UNCHANGED <<policies, entities, schema, cache>>

ReparseEntities(c) ==
    /\ pc[c] = "entities"
    /\ EntitiesValid(entities, NewSchema(c))
    /\ conv' = NewSchema(c)
    /\ Goto(c, "schema")
    /\ UNCHANGED <<policies, entities, schema, cache>>

\* DELETE /schema writes the schema store only, and checks nothing.
WriteSchema(c) ==
    /\ \/ pc[c] = "schema"
       \/ At(c, "check", {"delete_schema"})
    /\ schema' = NewSchema(c)
    /\ Goto(c, "flush")
    /\ UNCHANGED <<policies, entities, conv, cache>>

\* rollback_schema_policy_data, in its order.  The previous schema is passed on
\* as Some(schema) even when it is {}, which accepts no entity.
RollbackSchema(c) ==
    /\ At(c, "rollback", SchemaOps)
    /\ schema' = prev[c].schema
    /\ Goto(c, "rollback_policies")
    /\ UNCHANGED <<policies, entities, conv, cache>>

\* Mutant of RollbackSchemaPolicies: a rollback that fails is tried again.
RetryRollback(c) ==
    /\ pc[c] = "rollback_policies"
    /\ IF PoliciesValid(prev[c].policies, prev[c].schema)
       THEN Goto(c, "rollback_entities")
       ELSE Goto(c, "rollback")
    /\ UNCHANGED <<stores, cache>>

RollbackSchemaPolicies(c) ==
    /\ pc[c] = "rollback_policies"
    /\ IF PoliciesValid(prev[c].policies, prev[c].schema)
       THEN policies' = prev[c].policies /\ Goto(c, "rollback_entities")
       ELSE policies' = policies /\ Finish(c, "rollback_failed")
    /\ UNCHANGED <<entities, conv, schema, cache>>

RollbackSchemaEntities(c) ==
    /\ pc[c] = "rollback_entities"
    /\ IF EntitiesValid(prev[c].entities, prev[c].schema)
       THEN /\ entities' = prev[c].entities
            /\ conv' = prev[c].schema
            /\ Finish(c, "rolled_back")
       ELSE UNCHANGED <<entities, conv>> /\ Finish(c, "rollback_failed")
    /\ UNCHANGED <<policies, schema, cache>>

-----------------------------------------------------------------------------
(* The invalidation of the database targets, which can always fail, and    *)
(* the cache, which only the policy and data routes rebuild.               *)

Flush(c) ==
    /\ pc[c] = "flush"
    /\ IF req[c].op \in SchemaOps THEN Finish(c, "ok") ELSE Goto(c, "rebuild")
    /\ UNCHANGED <<stores, cache>>

\* Mutant of FlushFails: a failed invalidation is reported, and that is all.
ReportOnly(c) ==
    /\ pc[c] = "flush"
    /\ Finish(c, "rolled_back")
    /\ UNCHANGED <<stores, cache>>

FlushFails(c) ==
    /\ pc[c] = "flush"
    /\ Goto(c, "rollback")
    /\ UNCHANGED <<stores, cache>>

\* Mutant of RebuildCache: a db-entity-sync write skips the cache as well.
RebuildUnlessSync(c) ==
    /\ pc[c] = "rebuild"
    /\ cache' = IF SkipsInvalidation(req[c]) THEN cache
                 ELSE Rebuilt(cache, policies, entities, conv)
    /\ Finish(c, "ok")
    /\ UNCHANGED stores

RebuildCache(c) ==
    /\ pc[c] = "rebuild"
    /\ cache' = Rebuilt(cache, policies, entities, conv)
    /\ Finish(c, "ok")
    /\ UNCHANGED stores

-----------------------------------------------------------------------------
PolicyStep(c) == WritePolicies(c) \/ RejectPolicies(c) \/ RollbackPolicies(c)

DataStep(c) ==
    WriteEntities(c) \/ AnswerStored(c) \/ RejectEntities(c) \/ RollbackEntities(c)

SchemaStep(c) ==
    \/ RejectSchema(c) \/ RevalidatePolicies(c) \/ ReparseEntities(c) \/ WriteSchema(c)
    \/ RollbackSchema(c) \/ RollbackSchemaPolicies(c) \/ RollbackSchemaEntities(c)

\* What the task of c does once its request has arrived.
Task(c) ==
    \/ Begin(c)
    \/ PolicyStep(c) \/ DataStep(c) \/ SchemaStep(c)
    \/ Flush(c) \/ FlushFails(c) \/ RebuildCache(c)

Next == \E c \in Clients : Request(c) \/ Task(c)

\* A task that can run is polled in the end: the lock is handed over in order,
\* and an invalidation ends by itself or by its timeout.
Fairness == \A c \in Clients : WF_vars(Task(c))

Spec == Init /\ [][Next]_vars /\ Fairness

ASSUME AgentAssumption ==
    /\ Files \subseteq FileContents
    /\ Absent \notin Caches \cup Contained

-----------------------------------------------------------------------------
(* Properties. *)

Holding == {c \in Clients : pc[c] \notin {"idle", "queued"}}
LockFree == Holding = {}

\* At most one task is between lock and unlock, and it is the head of the queue:
\* what one handler reads is still stored when it writes (mutation_lock).
MutualExclusion ==
    \A c \in Holding : HasLock(c) /\ Holding = {c}

\* What a task relies on while it holds the lock.  Its snapshot is of a valid
\* state; the stores its route does not write are still what it found; what the
\* schema routes checked against the new schema still holds when they write; and
\* once it has written, the stores are the result of its request on the snapshot.
TaskKnows(c) ==
    /\ req[c] \in Requests
    /\ prev[c] \in Contained /\ ContentValid(prev[c])
    /\ req[c].op \notin PolicyOps => policies = prev[c].policies
    /\ req[c].op \notin DataOps => entities = prev[c].entities
    /\ (req[c].op \notin SchemaOps \/ pc[c] \notin {"flush", "rollback"}) =>
           schema = prev[c].schema
    /\ pc[c] = "check" => Snapshot = prev[c]
    /\ pc[c] \in {"entities", "schema"} =>
           /\ At(c, pc[c], SchemaOps \ {"delete_schema"})
           /\ SchemaGuard(req[c], schema)
           /\ PoliciesValid(policies, NewSchema(c))
    /\ pc[c] = "schema" => EntitiesValid(entities, NewSchema(c))
    /\ pc[c] \in {"flush", "rebuild"} =>
           Accepted(req[c], prev[c]) /\ Snapshot = Result(req[c], prev[c])
    /\ pc[c] \in {"flush", "rollback"} => ~SkipsInvalidation(req[c])
    /\ pc[c] \in {"rollback_policies", "rollback_entities"} => req[c].op \in SchemaOps
    /\ pc[c] = "rebuild" => req[c].op \notin SchemaOps

\* Whatever is stored has been accepted under the schema that is stored, at every
\* moment a reader can look, in the middle of a schema change and of its rollback
\* too: PUT /schema writes the schema last, the rollback writes it first.
StoresValid == ContentValid(Snapshot)

\* The inductive invariant behind StoresValid, ErrorChangesNothing,
\* RollbackFailsOnlyWithoutSchema and the safety of ImplementsStrictStore.
IInv ==
    /\ TypeOK
    /\ MutualExclusion
    /\ StoresValid
    /\ \A c \in Clients : pc[c] = "idle" => req[c] = Absent
    /\ \A c \in Clients : pc[c] = "queued" => req[c] \in Requests
    /\ \A c \in Holding : TaskKnows(c)

\* The entities the authorizer evaluates were parsed with the stored schema: no
\* route that answers leaves behind a cedar copy of some other schema, a rollback
\* included.  Without a schema, and without entities, there is nothing to check.
CedarCopyCurrent ==
    LockFree => \/ schema = EmptySchema
                \/ entities = NoEntities
                \/ conv = schema

\* Strict mode (API_DOCUMENTATION.md, Invalidation Management): a request that is
\* answered with an error leaves policies, entities and schema as its task found
\* them, whether it was refused, rolled back, or its rollback failed.
ErrorChangesNothing ==
    [][\A c \in Clients :
          pc[c] # "idle" /\ pc'[c] = "idle" /\ answer'[c] # "ok" => Snapshot' = prev[c]]_vars

\* The rollback of a policy or data change never fails, and that of a schema change
\* only where there was no schema before: what a rollback stores again was valid
\* when the handler read it, and the schema it is checked against is the same one.
RollbackFailsOnlyWithoutSchema ==
    [][\A c \in Clients :
          answer'[c] = "rollback_failed" /\ answer[c] # "rollback_failed" =>
              req[c].op \in SchemaOps /\ prev[c].schema = EmptySchema]_vars

\* Strict mode again, read literally (API_DOCUMENTATION.md:1141): when a target
\* fails, the in-memory change is rolled back, all of it.  The stores are what they
\* were, and the cedar copy of the entities is parsed with the schema there was.
ChangeRolledBack ==
    [][\A c \in Clients :
          answer'[c] \in {"rolled_back", "rollback_failed"} /\ answer[c] = "none" =>
              Snapshot' = prev[c] /\ conv' = CedarSchema(prev[c].schema)]_vars

\* "If the entity exists, it's updated; otherwise, it's created"
\* (API_DOCUMENTATION.md:637): a successful PUT /data/single/<id> leaves the entity
\* of its payload in the store.
PutSingleStoresPayload ==
    [][\A c \in Clients :
          /\ pc[c] # "idle" /\ pc'[c] = "idle" /\ answer'[c] = "ok"
          /\ req[c].op = "update_single_data_entry"
          => \A x \in req[c].payload : entities'[x.uid] = x.body]_vars

\* "Delete a specific entity by its ID" (API_DOCUMENTATION.md:708): a successful
\* DELETE /data/single/<id> removes one entity.
DeleteSingleRemovesOne ==
    [][\A c \in Clients :
          At(c, "check", {"delete_single_data_entry"}) =>
              \A u, v \in Uids :
                  entities'[u] # entities[u] /\ entities'[v] # entities[v] => u = v]_vars

\* The whole path implements StrictStore: a mutation takes effect when it is
\* answered, and until then what is committed is what its task found.
Committed == IF LockFree THEN Snapshot ELSE prev[Head(queue)]

Outcome(how) == IF how \in {"none", "ok"} THEN how ELSE "error"

Strict == INSTANCE StrictStore
              WITH committed <- Committed,
                   pending   <- req,
                   outcome   <- [c \in Clients |-> Outcome(answer[c])]

\* What the dashboard takes the agent for (AgentApi): a write, which every reader of
\* the stores sees, and then its end, or the restoration of what was stored before.
Written == {"flush", "rollback", "rebuild"}
Undo == IF \E c \in Clients : pc[c] \in Written THEN prev[Head(queue)] ELSE Absent

Api == INSTANCE AgentApi WITH agent <- Snapshot, agentUndo <- Undo

\* The poltree cache answers from the committed state, and from nothing else, while
\* a mutation is under way and after it was rolled back too, unless the committed
\* policies could not be indexed: no route that commits may forget to rebuild the
\* cache, none that may still be rolled back may have rebuilt it.
CacheFresh ==
    Buildable(Committed.policies) =>
        /\ cache # Absent
        /\ cache.policies = Committed.policies
        /\ cache.entities = Committed.entities

\* Each mutation is applied at one moment between its request and its answer: once
\* if the answer is a success, not at all if it is an error, and never over a state
\* another task has replaced since (a lost update).
StrictSafety == Strict!Safety

\* ... and no request waits for ever, for the lock or for its rollback: every one is
\* committed or refused.
ImplementsStrictStore == Strict!Spec

\* Seen from outside, the stores are the agent the dashboard is modelled with: one
\* write at a time, of an acceptable request, and then its end or what was there
\* before it, policies, entities and schema together.
ImplementsAgentApi == Api!AgentSpec
=============================================================================
