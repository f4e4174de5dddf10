# Cedar-Agent: a verification project

TLA+ models of Cedar-Agent, model-checked with TLC and, for the core, proved
with TLAPS. Cedar-Agent is an HTTP server (Rust, Rocket, tokio; `src/src/`) that
keeps Cedar policies, entities and a schema in memory, answers authorization
requests from them, and pushes "forget what you cached" to databases that ask it
for decisions. Beside it is a dashboard (TypeScript, React, Next.js; `src/frontend/`)
that edits the three stores and tries authorization requests through the HTTP API.
Source paths below are relative to `src/src/`, those of the dashboard to `src/frontend/`.

## 1. Inventory

| Component | State | Operations | Source |
|---|---|---|---|
| Policy store | map id -> policy, the compiled `PolicySet` | `POST/PUT /policies`, `PUT/DELETE /policies/<id>` | `routes/policies.rs`, `services/policies/memory.rs` |
| Entity store | the entities twice: as cedar-policy-core entities, and as cedar-policy entities parsed with some schema | `PUT/DELETE /data`, four attribute and entity routes, `PUT /data/single`, `PUT/DELETE /data/single/<id>` | `routes/data.rs`, `services/data/memory.rs` |
| Schema store | the JSON schema and its Cedar form; `{}` means none | `PUT/DELETE /schema`, add and delete attribute (User, Table, generic) | `routes/schema.rs`, `services/schema/memory.rs` |
| Mutation lock | one process-wide `tokio::sync::Mutex<()>`, FIFO | held by every route above from its first read to its answer | `main.rs:77`, the first line of each handler |
| Authorizer cache | `RwLock<Option<Arc<CachedAuthorizer>>>`, the poltree index | rebuilt at start-up, by the policy and data routes, and by a poltree request that finds it empty | `services/authorizer.rs` |
| Invalidation | target list; one connection pool per DSN behind a mutex | `GET/PUT /invalidation/targets`; `invalidate_all` from every mutation | `services/invalidation/mod.rs`, `routes/invalidation.rs` |
| Authorization | none | `POST /is_authorized`, `POST /is_authorized/poltree` | `routes/authorization.rs`, `schemas/authorization.rs` |
| Statistics | three relaxed atomic counters | `GET /stats`, `POST /stats/reset`, increments | `services/stats/memory.rs`, `routes/stats.rs` |
| Start-up | none | three fairings load schema, entities, policies from files; a fourth builds the cache | `services/*/load_from_file.rs`, `main.rs:66` |
| Configuration, authentication | constant after start | merge of arguments and environment; header comparison | `config.rs`, `authn.rs` |
| Dashboard: API client | none | one HTTP request per method; policies to and from Cedar text | `lib/api.ts`, `lib/types.ts` |
| Dashboard: policies | the list, loading flag, dialog, confirmation; the form of the dialog | fetch, create, edit, delete; the controls of the form | `app/policies/page.tsx`, `components/policy-dialog.tsx` |
| Dashboard: entities | the same for entities; what the dialog knows of schema and types | fetch, create in two calls, patch, delete by id | `app/entities/page.tsx`, `components/entity-dialog.tsx` |
| Dashboard: schema | the schema shown, the text of the JSON editor and whether it is a draft | fetch, edit, import, save, delete, add and delete attribute | `app/schema/page.tsx`, `components/attribute-dialog.tsx` |
| Dashboard: authorization | the form, the result; the context twice, as text and as fields | check, load example; the two modes of the context editor | `app/authorization/page.tsx`, `components/context-builder.tsx` |
| Dashboard: settings | the form; localStorage, the environment of the server and of the page | change, save, reset, reload | `app/settings/page.tsx`, `lib/config.ts`, `app/layout.tsx` |
| Dashboard: overview | four counts and a loading flag | four reads when the page opens | `app/page.tsx` |

Handlers are async tasks that interleave at every `.await`. They talk through the
stores (each behind its own `RwLock`), the mutation lock, the cache and, by SQL, the
databases. Mutations are serialised by the mutation lock; readers and
`PUT /invalidation/targets` do not take it.

A page of the dashboard is one thread whose event handlers interleave at every
`await`. Each call is an HTTP request to the agent, and several may be in flight: a
dialog can be closed while it saves, a second deletion confirmed while the first is
under way, and every success starts a fetch nobody waits for. Pages share nothing but
the agent; a page that is opened starts from nothing.

**The hard parts.** A mutation is many awaits long: snapshot, validate, write, push to
the targets, and then either undo the write or rebuild the cache. The targets can fail
after the write, so every route has a rollback, and every rollback validates again and
can itself fail. A schema change writes three stores one after the other, and its
rollback writes them in another order. The cedar copy of the entities and the poltree
cache are derived state that each route must refresh or leave, correctly.
In the dashboard the hard parts are calls that overlap (one loading flag for several
fetches, one confirmation for several deletions, answers out of order), copies of one
thing in two places (context text and fields, schema and draft, saved settings and the
environment), a save of two calls that may stop half way, and the policy dialog, which
reads back with regular expressions what it wrote as text.
`PROJECT.json` lists the hazards with their lines.

**What makes each component correct.**

- Policy, entity and schema store: what is stored has been validated under the schema
  that is stored, at every moment a reader can look (`StoresValid`); a mutation is
  applied once or not at all, and never over a state it has not seen (`StrictSafety`,
  `ErrorChangesNothing`); a rollback succeeds (`RollbackFailsOnlyWithoutSchema`).
- Entity store: the cedar copy was parsed with the stored schema (`CedarCopyCurrent`).
- Mutation lock: every request is answered, the liveness half of `ImplementsStrictStore`.
- Authorizer cache: it serves the committed state and nothing else (`CacheFresh`).
- Authorization: a decision rests on policies and entities that were stored
  (`DecisionFromStored`).
- Dashboard, lists: the page reads its own writes (`ListFollowsAgent`), spinners and
  confirmations mean what they say (`SpinnersMeanFetching`, `ConfirmationsAreNamed`),
  no button stays disabled (`BusyEnds`).
- Dashboard, editors: what is shown is what is sent (`ChosenIsWritten`, `KeysAgree`,
  `EditorConsistent`, `SavedMeansUsed`), what is not edited is kept
  (`UntouchedPartsKept`, `EditsKeepTheRest`), and what is reported as saved is stored
  (`SavedAsEntered`, `SavedIsShown`).
- Dashboard, results: a result answers the last question (`ResultOfLastCheck`), the
  overview is complete (`StatsComplete`).
- Invalidation: after a mutation is answered no listed database decides by what was
  stored before it, but for reasons that can be named (`StaleHasReason`), and no database
  keeps a mutation waiting for ever (`InvalidationEnds`).
- Statistics: the counters, which nothing keeps together, add up but for requests that a
  reset disturbed (`CountsAddUp`), and so does what is shown (`ShownAddsUp`).

## 2. Modules

| Module | Models | Proofs |
|---|---|---|
| `Stores` | The contents of the stores as functions, validation, and for each mutation route its guard (`PolicyAccepted`, `DataGuard`, `SchemaGuard`, ...) and its effect (`PolicyResult`, `DataResult`, `SchemaResult`), as pure operators | `StoresProofs` |
| `CedarAgent` | The mutation path: one task per client, the lock, the steps of every handler, invalidation, rollback, cache, start-up | `CedarAgentProofs` |
| `StrictStore` | The abstract specification: an atomic store whose requests are committed or refused | refined by `CedarAgent` |
| `PoltreeAuthorizer` | `POST /is_authorized/poltree` beside the mutation path: readers that use the cache and, when it is empty, rebuild it without the mutation lock; extends `CedarAgent` | `ReadPathsProofs` |
| `Invalidation` | The database targets beside the mutation path: target list, one task per target, pools, timeouts, and what the databases ask and cache; extends `CedarAgent` | `ReadPathsProofs` |
| `Stats` | The three request counters: increments of the authorization routes, reset and read, one access a step | `StatsProofs` |
| `MCCedarAgent`, `MCPoltreeAuthorizer`, `MCReadPaths` | Values and request sets for TLC; `MCReadPaths` also chooses between the readers of `PoltreeAuthorizer` and the databases of `Invalidation` | |
| `AgentApi` | The methods of the API client as requests of `Stores`, and the agent they reach, as seen from outside; extends `Stores`, and is an abstraction of `CedarAgent` | refined by `CedarAgent` |
| `PoliciesPage`, `EntitiesPage`, `SchemaPage`, `AuthorizationPage`, `Overview` | One page each: its state, its handlers, its calls in flight, other clients; each extends `AgentApi` | `PoliciesPageProofs`, `AuthorizationPageProofs`, `DashboardProofs` |
| `Settings` | The settings page, localStorage and the two environments | `DashboardProofs` |
| `Dashboard` | The composition: one page at a time on one agent, fairness, properties of several pages | `DashboardProofs` |
| `PolicyText` | Pure operators: Cedar text to the fields of the policy form and back, and which texts parse | `FormsProofs` |
| `PolicyForm` | The policy dialog: every control, `handleSubmit`, the text that is stored; extends `PolicyText` | `FormsProofs` |
| `ContextBuilder` | The context editor of the authorization page, builder and JSON mode | `FormsProofs` |
| `MCDashboard`, `MCForms` | Values for TLC; `MCForms` also chooses which of the two editors is used | |

### Stores and CedarAgent

Data is abstracted to what the properties tell apart. A policy text is a member of
`Contents`, and the constant `ValidContents` says under which schema Cedar's validator
accepts it; the only assumption is that a text valid under some schema at least parses
(`ValidContentsAssumption`). An entity has a type, an id and attributes with values of a
kind. A schema declares attributes, with a kind and whether they are required, for
some types. `Conforms` is Cedar's entity conformance (external code): declared
type, no undeclared attribute, required attributes present, kinds match. Parents of
entities are left out here: no mutation route decides anything by them (see
section 5).

Three facts about schemas in the code matter and are modelled as they are:
`get_cedar_schema` turns the JSON schema `{}` into `None`, no validation at all; the
schema routes instead pass `Some(schema)` on, and `Some({})` accepts no entity and,
since it declares no action, no policy; `DELETE /schema` and
`DELETE /data` validate nothing.

`CedarAgent` has one task per client. A task is at a step `pc[c]`:

    idle -> queued -> check -> flush -> rebuild -> idle          policy and data routes
                      check -> entities -> schema -> flush -> idle      schema routes
                      flush -> rollback [-> rollback_policies -> rollback_entities] -> idle

| Action | Code |
|---|---|
| `Request`, `Begin` | the request arrives; `mutation_lock.lock().await` returns; `prev_*` are read |
| `WritePolicies`, `WriteEntities`, `WriteSchema` | the store call that writes, with the checks before it |
| `RejectPolicies`, `RejectEntities`, `RejectSchema`, `AnswerStored` | early returns |
| `RevalidatePolicies`, `ReparseEntities` | `update_policies`, `update_entities` of the stored values with the new schema |
| `Flush`, `FlushFails` | `invalidate_all` returns `Ok` or `Err`; in `Invalidation`, step by step |
| `RollbackPolicies`, `RollbackEntities`, `RollbackSchema*` | the rollback, store by store |
| `RebuildCache` | `rebuild_cache`, then the answer |

A step is atomic where the code holds the `RwLock` of a store (each `update_*` parses,
validates and writes under one write lock) or where only the holder of the mutation
lock writes what it reads. Between two steps any other task may run. `Begin` reads three
stores in one step: only holders of the lock write them. Handlers run to the end: Rocket
spawns each as a task of its own, so a client that goes away does not cancel it.
`queue` is the mutation lock, its holder first: `tokio::sync::Mutex` is fair.

`DataGuard`, `DataResult`, `SchemaGuard` and `SchemaResult` each stand for several routes.
Their steps, by line, in `src/src/routes/` (the policy and data routes end by rebuilding
the cache; a route whose checks are "store" refuses what the store's `update_*` refuses):

| Route | Function | Checks | Writes | Flushes |
|---|---|---|---|---|
| `POST /policies` | `create_policy` | store | policies.rs:67 | 95 |
| `PUT /policies` | `update_policies` | store | policies.rs:142 | 183 |
| `PUT /policies/<id>` | `update_policy` | store | policies.rs:231 | 256 |
| `DELETE /policies/<id>` | `delete_policy` | store | policies.rs:301 | 310 |
| `PUT /data` | `update_entities` | 52-70 | data.rs:72 | 82 |
| `DELETE /data` | `delete_entities` | none | data.rs:126 | 129 |
| `PUT /data/entity` | `add_new_entity` | 204 | data.rs:211 | 221 |
| `PUT /data/attribute` | `update_entity_attribute` | 295 | data.rs:346 | 353 |
| `DELETE /data/attribute` | `delete_entity_attribute` | 427, 440 | data.rs:468 | 475 |
| `PATCH /data/entity/attributes` | `patch_entity_attributes` | 552 | data.rs:620 | 627 |
| `PUT /data/single` | `add_single_data_entry` | 699 | data.rs:709 | 719 |
| `PUT /data/single/<id>` | `update_single_data_entry` | 806-825 | data.rs:832 | 842 |
| `DELETE /data/single/<id>` | `delete_single_data_entry` | 894-914 | data.rs:920 | 931 |
| `PUT /schema` | `update_schema` | stores | schema.rs:58, 71, 82 | 92 |
| `DELETE /schema` | `delete_schema` | none | schema.rs:138 | 141 |
| `POST /schema/{user,resource}/attribute` | `add_entity_attribute` | 538 | schema.rs:556, 570, 582 | 190, 240 |
| `DELETE /schema/user/attribute/<name>` | `delete_user_attribute` | 303 | schema.rs:321, 334, 345 | 355 |
| `DELETE /schema/resource/attribute/<name>` | `delete_table_attribute` | 418 | schema.rs:435, 449, 461 | 471 |
| `POST /schema/attribute` | `add_generic_attribute` | 677 | schema.rs:695, 709, 721 | 731 |
| `DELETE /schema/attribute` | `delete_generic_attribute` | 819 | schema.rs:837, 850, 861 | 871 |

A payload is a set of rows: two rows with one id and different contents stand for every
duplicate, which the code refuses even where the rows are equal.

The policy, content, attribute and type constants are sets of any size; requests are the
members of the constant `Requests`, which the assumptions require to be requests the
routes can be sent.

### PoltreeAuthorizer

A reader looks at the cache (`LookUp`); if it is empty it reads policies, then entities,
and stores the index (`ReadPolicies`, `ReadEntities`, `StoreCache`), each in a step of its
own as each is an await of `rebuild_cache` without the mutation lock; then it looks again
and answers (`Query`). The decision is Cedar's and is not modelled, nor are the two JSON
strings that `rebuild_cache` passes on to be hashed.

### Invalidation

Where `CedarAgent` lets an invalidation end or fail in one step, `Invalidation` has what
`invalidate_all` does. All other steps are those of `CedarAgent` (`OtherStep`).

| Action | Code |
|---|---|
| `ReplaceTargets` | `PUT /invalidation/targets`, which refuses a name that is there twice and takes no lock |
| `ListTargets` | `targets_store.list()`, then one task per enabled target in the `JoinSet` |
| `GetPool` | the mutex of the pools of a kind, and the pool of the dsn if there is one |
| `Connected`, `ConnectFails` | `connect`, with the mutex held; `acquire_timeout` |
| `Execute`, `Answered`, `StatementFails` | the database runs the statement, its answer arrives, or `tokio::time::timeout` is over before or after the database has run it |
| `FlushEnds`, `FlushGivesUp` | every task has ended; all succeeded, or one did not |
| `AskPolicies`, `AskEntities` | the two awaits of `POST /is_authorized` on behalf of a database |
| `CacheDecision`, `Forget` | external: the database caches the answer when it arrives, and drops it when it likes |

A list is a set of targets: two equal ones, which only `CEDAR_AGENT_INVALIDATION_TARGETS`
can hold, flush one database twice. `flushing` is one variable, since only the
holder of the mutation lock invalidates. A decision is what it was computed from.
A database has one entry; it stands for each of its questions.

The field `excused` of a decision is history and read by `StaleHasReason` only. It is set
when the agent gives up having a decision removed: its database was not an enabled target
when the mutation listed them (`FlushEnds`); it was still on its way when the statement
ran (`Execute`); it saw a change that is rolled back, or the write came with
`X-Cedar-Write-Origin: db-entity-sync` (`OtherStep`). So the property says that these are
all the ways to a stale decision. Three of them deserve a reader's attention: nothing
flushes the databases again after a rollback, although the agent flushed some of them and
they may have asked since; a `db-entity-sync` write flushes no other database than
the one that sent it; and an answer that is overtaken by the statement is cached after it
(API_DOCUMENTATION.md:1168 leaves revisions to the future).

### StrictStore

What "Strict mode" of API_DOCUMENTATION.md promises: one committed state; a request is
committed (applied once, in one step, answered `ok`) or refused (answered `error`,
nothing changes), and an acceptable request is refused only where an invalidation could
fail. The refinement mapping is in `CedarAgent`: `committed` is the snapshot of the
holder of the lock, or what is stored when nobody holds it. So a write becomes visible
to the abstract store when its request is answered, however many awaits it took.

### Stats

`Arrive`, `Decide` and `Refuse` are the three moments at which an authorization request
counts, or returns without counting again; `StoreZero` is one of the three stores of a
reset and `Load` one of the three loads of a read, in any order, since the accesses are
relaxed. A call that arrives in the middle of a reset is counted before or after the
store. `refused`, `overlapping` and the fields `moved` and `crossed` of a view are
history. The counters depend on nothing else of the agent and are a module of their own.

### The dashboard

The agent is seen from a browser. A call is `sent`; the agent refuses it (`Refuses`), or
writes it (`Writes`) and then makes it final (`Commits`) or takes it back (`RollsBack`),
one mutation at a time, as `CedarAgent` has it. `agentUndo` is what the rollback restores.
That the agent looks like this from outside is a refinement: `CedarAgent` implements
`AgentSpec` (`ImplementsAgentApi`) with what is stored for `agent` and, from the write of a
task to the end of its rollback or its answer, the snapshot of the task for `agentUndo`
(`Undo`). A schema change stores policies and entities again with the values they have, so
what a `GET` can see of it is one step, `WriteSchema`; the same goes for its rollback.
A `GET` takes no lock and returns what is written, final or not. An answer may be lost:
`Commits` may leave the call `failed` although it is stored. What a request writes, and
when it is accepted, are `PolicyResult`, `DataAccepted` and so on of `Stores`; other
clients write whatever the stores may contain.

A page has one action per handler and, where the handler awaits, one per piece between
two awaits:

| Piece of code | Action |
|---|---|
| a control of the page or dialog: its `onClick` or `onChange` | `OpenEditPolicy`, `EnterUid`, `TypeInEditor`, `LoadExample`, ... |
| a handler up to its first `await` | `SubmitPolicy`, `ConfirmDeletePolicy`, `StartCheck`, ... |
| the request at the agent | `AgentSavesPolicy`, `AgentReadsSchema`, `AgentDecides`, ... |
| the rest of the `try`, and `finally` | `PolicySaved`, `PoliciesArrive`, `ResultArrives`, ... |
| `catch`, and `finally` | `PolicyNotSaved`, `PoliciesFail`, `CheckFails`, ... |
| mutations of other clients | `OthersChangePolicies`, `OthersEnd`, ... |

A control is guarded by what makes it reachable: it is rendered, it is not disabled and
no modal dialog is in front of it. A modal can be closed while its call is in flight
(Escape and the buttons are not disabled), and then the rest of the page is in use
again; that is where calls overlap. Fetches and deletions in flight are sets of records
with a number, so that two equal calls are two; a save is at most one, since its button
is disabled while `loading`. A page that is left and opened again is a new page:
`DashboardInit` starts each page from any content of `Contents0`.

Some variables are not the program's but history the properties need, and no guard
reads them: `policyUnseen` (something the page cannot know of changed the policies),
`newestFetch`, `shownFetch`, `authOf` (which check a result belongs to and what was
stored while it was in flight), `entitySave.alone`, `schemaHad`, `statsDisturbed`,
`otherTab`.

`PolicyText` abstracts a text to its parts: an effect, a clause for each variable and the
conditions, with spaces as the dashboard writes them. What the regular expressions of
`convertFromCedarPolicy` do with parts is modelled, because the properties are about it:
they search the whole text, conditions included (`Says`), cut off a namespace in a list
(`BaseName`) and refuse one elsewhere (`Plain`), skip an empty id, and take a condition
up to its first brace (`ToFirstBrace`). `Parses` is what the Cedar parser (external)
makes of the texts the dialog can write, such as `principal in [...]`, `!=`, `not in` and
two conditions.

`ContextBuilder` has the context as a function from keys to JSON values, and the fields of
the builder beside it, as the component has `value` and `fields`. `addField` and
`removeField` set the list before the loop that writes the text: a value that was read from
JSON and cannot be parsed back (`odd` in `MCForms`, an extension call with a list as its
argument) makes the loop throw, and the context stays what it was (`SetFields`,
`Writable`). `Settings` has
`getConfig` as it is: localStorage before the environment in the page before the one of
the build, each field on its own.

Values that only travel are model values: a policy's text in `PoliciesPage` is a member of
`Contents`, a question of `AuthorizationPage` a member of `Asks` with a context text, and
`Allows` is Cedar's decision, any function of question, policies and entities.

## 3. Runs

All passing runs but `dashboard` check deadlock. A visit of a dashboard page may just
end: when the bounds are used up and no call is in flight nothing need happen.

| Run | Clients, requests | Checks |
|---|---|---|
| `data` | 2 clients, 14 data requests | `TypeOK`, `CacheFresh`, `CedarCopyCurrent`, `StrictSafety` |
| `policies_and_schema` | 2 clients, 8 policy and 9 schema requests | `StoresValid`, `CedarCopyCurrent`, `ErrorChangesNothing`, `RollbackFailsOnlyWithoutSchema` |
| `mixed` | 2 clients, 8 requests of all kinds | `IInv`, of which `StoresValid` is a part, `ImplementsStrictStore` (with fairness: every request is answered), `ImplementsAgentApi` |
| `stats` | 2 requests at a time, 3 in all, 2 resets, 1 reader | `CountsAddUp`, `ShownAddsUp` |
| `doc_rollback` | 1 client, which puts the first schema on an agent with a policy and an entity | `ChangeRolledBack`: violated |
| `doc_put_single` | 1 client | `PutSingleStoresPayload`: violated |
| `doc_delete_single` | 1 client | `DeleteSingleRemovesOne`: violated |
| `poltree` | 1 client, 6 requests, 2 readers; or 1 client, 5 requests, 2 targets, one of which asks | `WarmStaysWarm`, `OnlyColdReadersSpoil` (readers), `StaleHasReason` and, with fairness, `InvalidationEnds` (databases) |
| `doc_second_writer` | 1 client, 1 reader | `SecondWriterAgrees`: violated |
| `forms` | one dialog, one context editor | `TypeOK`, `ChosenIsWritten`, `DriftSettles`, `UntouchedPartsKept`, `SavedIsShown`, `OnlySimpleSaved` (policy dialog), `KeysAgree`, `EditsKeepTheRest` (context editor) |
| `dashboard` | one visit of each page, other clients | `PoliciesTypeOK`, `ListFollowsAgent`, `SpinnersMeanFetching`, `ConfirmationsAreNamed`, `EditorConsistent`, `NoFirstSchema`, `ResultOfLastCheck`, `DecisionFromStored`, `StatsComplete`, `SavedMeansUsed`, `SavedAsEntered`, `SavesNeverRemove`, `RequiredNeverCreated`, `OnlyStringsSaved`, `BusyEnds` (with fairness) |
| `doc_unchanged_edit` | one dialog, no edit, one save | `UnchangedEditKeepsPolicy`: violated |

Bounds and why they are enough. Two clients: the lock admits one task at a time, so a
third only lengthens the queue; the proofs cover every number. Two policy ids, two entity
types with one id: enough for a duplicate, for a bare id that names two entities and for
a store in which one entity conforms and the other does not. Four texts: valid under
every schema; valid only where `User.dept` is a string; valid but not indexable; not
parsing. One attribute that can be absent, of the right kind or of another. The start-up
files (`MCFiles`) put the system into states no sequence of the run's own requests
reaches, such as stored entities in the `policies_and_schema` run. Nothing grows
without bound: a client sends its next request when the last is answered.

One client is enough in the `poltree` runs, since a reader does not see how mutations
wait for each other; two readers let a second rebuild start before the first ends. The
start-up files are one set whose policies cannot be indexed (the cache starts empty) and
one complete deployment. The readers and the databases do not see each other, so the run
has one or the other (`readers`). Two targets are enough for one to fail while the other
is flushed and for one to wait for the mutex of the other; of the three target lists one
has both on the same kind, one disables the first, one gives both one name on two kinds.
One database asks: what databases cache does not depend on each other. The requests
change policies and entities, with and without the `db-entity-sync` header.

In `stats`, two requests at a time and two resets are the least with which a request is in
flight in one reset and ends in another, and with which a reset joins one that is half
done; the third request comes after. `CacheFresh` and `StrictSafety` are not repeated in
`policies_and_schema`: `data` and `mixed` check them, the theorems cover the rest.

In `dashboard`, per visit: two writes of the policies page (`MaxWrites`), so that a save or
a deletion overlaps another and three fetches overlap; two changes of entities, by this
page or others (`MaxEntityChanges`); two of the schema (`MaxSchemaChanges`); two checks
(`MaxChecks`), the least with which a result can be the wrong one, and two mutations of
others (`MaxAuthForeign`), the least with which the two reads of a check can be of
moments that never were one; one mutation of another client beside the policies page and
the overview (`MaxForeign`, `MaxOverviewForeign`); one new deployment (`MaxDeploys`). Two
policies let a confirmation be about another one; one entity with one attribute, with
strings, a number and a string that looks like one, is enough for the conversions of the
entity dialog, whose form has one entity. The schemas are none, one without attributes
and one with an attribute that is required or of another kind.

In `forms`, every one of nine stored texts is opened, edited by two controls (`MaxEdits`)
and saved (`MaxSaves`), or a policy is created the same way. The texts hold each
form of scope the dialog reads, misreads or does not read, conditions that compare a
variable, and an annotation. Two edits are what it takes to leave a list behind another
operator or to choose operator and entity in either order; the proofs cover any number.
`DriftSettles` is evaluated on everything that gets stored. The context has two keys and
four values, one of which the builder cannot write back; the builder has up to two fields
(`MaxFields`).

Fairness. `Fairness` is weak fairness of each task's next step, once its request has
arrived. The code justifies it: tokio polls every ready task, the mutex hands the lock
over in arrival order, and `invalidate_all` ends because each connect and each statement
has a timeout. No fairness is assumed of clients, nor that an invalidation ever
succeeds: `Flush` and `FlushFails` are a choice.

`InvalidationFairness` is what stands behind that end: the tasks of targets that can have
the pool's mutex are polled, and the timers of `connect` and of the statement fire, each
weak fairness of one action. Nothing is assumed of a database, not even that it ever
refuses: the mutant whose timeout ends when the statement has been sent breaks
`InvalidationEnds`.

`DashboardFairness` is weak fairness of `PageCalls`: while calls of the open page are in
flight, one of them goes on. It is weaker than fairness of each call, and enough: a visit
sends finitely many. The code justifies it: the agent answers or the connection breaks,
`fetch` then resolves or rejects, and the event loop runs what waits for it. Nothing is
assumed of the user, of other clients, or of success.

Findings (also in `PROJECT.json`):

- `doc_rollback`: the first schema is put on an agent that has policies, and a target is
  down. The rollback (`routes/schema.rs:913`) restores the schema, validates the previous
  policies against `Some({})` where it should be `None`, is refused, and answers "rollback
  failed"; it does not get to the entities, and leaves their cedar copy parsed with the
  refused schema. Policies, entities and the JSON schema are as before, so
  `ErrorChangesNothing` holds all the same. A `DELETE /schema` where there is no schema
  meets the same refusal, but had parsed nothing.
- `doc_put_single`: `PUT /data/single/<id>` documents an upsert and ignores the
  payload when the entity exists.
- `doc_delete_single`: `DELETE /data/single/<id>` documents the deletion of one entity
  and deletes those of every type with that id.
- `doc_second_writer`: a comment says that a second rebuild of an empty cache overwrites
  the first "with an equivalent cache". The rebuild of a poltree request takes no lock: a
  mutation may fill the cache while it reads, and what it then stores can be an older
  state, a mix of two, or a change that is rolled back. It takes a start whose policies
  could not be indexed.
- `doc_unchanged_edit`: opening a policy in the edit dialog and saving it unchanged can
  widen it. `lib/api.ts` says that it converts the text "back to structured Policy
  format"; a scope it does not recognise becomes `All` (`lib/api.ts:48`, brackets are
  expected after `in`), so `permit(principal in Role::"Admin", action, resource)` is
  saved as `permit(principal, action, resource)`.

Other disagreements of the dashboard with its documents follow from properties that hold,
and have no run of their own:

- `NoFirstSchema`: QUICK_START.md:59 begins with "Click Create Schema", and
  `app/schema/page.tsx:111` says "Click Save to apply changes"; without a stored schema
  the page shows no editor and no Save.
- `OnlySimpleSaved`: DASHBOARD_OVERVIEW.md:42 and :47 list conditions and the operators
  `!=` and `in`; the agent refuses the text of all but `==`, lists of actions and a single
  condition.
- `OnlyStringsSaved`: DASHBOARD_OVERVIEW.md:62 lists "JSON value support for complex types"
  and :67 "JSON parsing for complex values" in the entity dialog, and
  `components/entity-dialog.tsx:203` says "Try to parse as JSON for complex types". The dialog
  parses what is typed and then sends the text of every value that is no string (lines 152
  and 170). An array or a number is stored as a string, and the save reported as a success;
  under a schema that declares the attribute as anything but a string the save is refused,
  even if all the user did was open the entity and press Save.
- `SavesNeverRemove`: removing an attribute in the entity dialog is answered with
  "Entity updated successfully", and the attribute stays.
- `SavedMeansUsed`: `app/settings/page.tsx:138` says that environment variables take
  precedence over the settings; they do not. DASHBOARD_OVERVIEW.md:300 says that a change
  "requires page refresh to apply"; it applies to the next call.
- `Overview` has no timer: the health check of DASHBOARD_OVERVIEW.md:29 is not refreshed.

Every property of a passing run has a mutant (`PROJECT.json`): a definition replaced by a
plausible slip, kept in the modules and marked `Mutant of`, with which TLC finds the
property violated.

## 4. Proofs

Every safety property of a passing run is a theorem, for all values of the constants that
satisfy the assumptions. These say:

| Assumption | Content |
|---|---|
| `StoresAssumption`, `AgentAssumption`, `AgentApiAssumption`, `PoliciesPageAssumption`, `InvalidationAssumption` | the markers for "none" (`Absent`, `EmptySchema`, `NoSchema`, ...) are not values; start-up files and target lists have the form the code reads |
| `ValidContentsAssumption` | a policy that is valid under some schema is valid under none |
| `StatsAssumption` | finitely many requests at a time |
| `SchemaPageAssumption`, `EntitiesPageAssumption`, `AuthorizationPageAssumption`, `DashboardAssumption` | drafts are schemas or texts that are none, conversions of values return what they should, examples are questions, a visit starts with an agent that stores something |
| `PolicyTextAssumption` | cutting a type at its last `::`, or a condition at its first brace, a second time changes nothing; what a condition says of a variable is a clause |
| `PolicyFormAssumption`, `ContextAssumption` | stored texts are texts, types and actions from the schema are types and ids; contexts have finitely many keys, and `parseValueForType` returns a JSON value or throws |

TLC evaluates each of them in the runs.

### The agent

`CedarAgentProofs`, under `StoresAssumption`, `ValidContentsAssumption` and
`AgentAssumption`, for every set of clients, requests, policy texts, entity types,
attributes, values and start-up files:

| Theorem | Statement |
|---|---|
| `Invariance` | `Spec => []IInv` |
| `TypeCorrect` | `Spec => []TypeOK` |
| `StoresStayValid` | `Spec => []StoresValid` |
| `StrictMode` | `Spec => ErrorChangesNothing` |
| `RollbackSucceeds` | `Spec => RollbackFailsOnlyWithoutSchema` |
| `Refinement` | `Spec => StrictSafety`: `CedarAgent` implements the safety of `StrictStore` |
| `CacheServesCommitted` | `Spec => []CacheFresh` |
| `CopyStaysCurrent` | `Spec => []CedarCopyCurrent` |
| `AgentImplementsApi` | `Spec => ImplementsAgentApi`: `CedarAgent` implements `AgentApi!AgentSpec`, the agent the dashboard's modules build on |

The argument. `StoresValid` is not inductive: whether a rollback leaves valid stores
depends on what the task remembered. `IInv` adds `MutualExclusion` and, for the task that
holds the lock, `TaskKnows`: its snapshot is of a valid state; the stores its route does
not write are still the snapshot's; between the steps of a schema change what was checked
against the new schema is still so; after its write the stores are the result of its
request on the snapshot. Because one task holds the lock, no step of another disturbs any
of this (`GotoKeepsLock`, `FinishFreesLock`). From `TaskKnows` follow that an error answer
finds the snapshot stored again (`ErrorRestores`), that a success finds the result
(`OkCommits`), and so the refinement; and that only `RebuildCache` changes what the cache
mirrors (`RouteMirrors`), and so `CacheFresh`. The one hard case of `StoresValid` is a
schema change to no schema: what is valid under some schema is valid under none
(`ValidWithoutSchema`), which is where `ValidContentsAssumption` is used.

`CedarCopyCurrent` speaks of the moments when the lock is free. `CopyInv` adds the moments
when it is not: the copy is of another schema only between `ReparseEntities` and
`WriteSchema`, where it is of the new one, and inside the rollback of a schema change.
That rollback re-parses the copy or fails, and `TaskKnows` says that it fails only where
there was no schema (`SchemaStepCopy`), so that the copy is current again when the lock is
free.

`AgentImplementsApi` maps each step of the mutation path to a write, a commit, a rollback
or a stutter of `AgentApi`. That a rollback arrives at the snapshot is `TaskKnows` again;
so is that the steps of a schema change and of its rollback which store policies and
entities change neither.

### Beside the mutation path

`ReadPathsProofs`, under `InvalidationAssumption` as well, for every set of databases,
target lists and readers:

| Theorem | Statement |
|---|---|
| `MutationsUnchanged` | `InvalidationSpec => Init /\ [][Next]_vars`: the invariants above hold beside the databases too |
| `StalenessExplained` | `InvalidationSpec => []StaleHasReason` |
| `MutationsBesideReaders` | `PSpec => [](IInv /\ ReadersTypeOK) /\ StrictSafety`: readers that rebuild the cache disturb no mutation |
| `IndexStays` | `PSpec => WarmStaysWarm` |
| `MutationsNeverSpoil` | `PSpec => OnlyColdReadersSpoil` |
| `WarmServerServesCommitted` | `PSpec /\ cache # Absent => []CacheFresh` |

`StaleHasReason` lets a decision be of the committed or of the stored state, so it is not
inductive: `DatabasesInv` adds that a database whose target has run its statement is
current, that is of the stored state or excused (`FlushingInv`), and that all are once
the invalidation is over (`RebuildingInv`), which is what makes it safe to commit.
`CedarAgentProofs` supplies the rest: only `RebuildCache` changes what is committed of
policies and entities, and while an invalidation is under way no other task has the lock
(`StepWhileFlushing`). That a request may read its policies before a write and its
entities after it does no harm, since a mutation writes one of the two (`OneStore`).

Readers write the cache and nothing else, so `PoltreeInv` is `IInv` beside what readers have
read (`ReadersInv`), and every lemma about a mutation's step holds beside them.
`WarmServerServesCommitted` is the consequence an operator will want: the stale cache of
`doc_second_writer` needs a start without an index. `CacheFresh` alone is not kept by a
reader that is about to store; `Warm` adds that there is an index and no reader is
rebuilding it, and a reader starts to rebuild only where there is none.

`StatsProofs`, under `StatsAssumption`, for any number of requests, resets and reads:

| Theorem | Statement |
|---|---|
| `CountsStayTogether` | `StatsSpec => []CountsAddUp` |
| `ShownStaysTogether` | `StatsSpec => ShownAddsUp` |

`CountsAddUp` says nothing while a reset runs, so it is not inductive. `ResetInv` says what
a counter holds once every reset under way has stored its zero in it (`Settled`): only
requests that overlap the resets. With the last store all three are settled. For
`ShownAddsUp`, `ViewInv` says that a counter a read has loaded has gone on since by what
requests have moved (`Behind`).

`StoresProofs` has the lemmas on the operators: the fields of each request, the type of
what each route leaves, and that what a route accepts is valid.

### The dashboard

Each page for its own specification, then the composition, for every value of the
constants: any number of calls in flight, other clients, visits and edits.

| Theorem | Module | Statement |
|---|---|---|
| `PoliciesTypeCorrect` | `PoliciesPageProofs` | `PoliciesSpec => []PoliciesTypeOK` |
| `PageReadsItsWrites` | `PoliciesPageProofs` | `PoliciesSpec => []ListFollowsAgent` |
| `PageStaysUsable` | `PoliciesPageProofs` | `PoliciesSpec => [](SpinnerMeansFetching /\ ConfirmNamesPolicy)` |
| `LastCheckShown` | `AuthorizationPageProofs` | `AuthSpec => []ResultOfLastCheck` |
| `DecisionsFromStored` | `AuthorizationPageProofs` | `AuthSpec => []DecisionFromStored` |
| `OverviewComplete` | `DashboardProofs` | `OverviewSpec => []StatsComplete` |
| `EditorFollowsPage` | `DashboardProofs` | `SchemaSpec => []EditorConsistent` |
| `NeverFirstSchema` | `DashboardProofs` | `SchemaSpec => []NoFirstSchema` |
| `SettingsSaved` | `DashboardProofs` | `SettingsSpec => []SavedMeansUsed` |
| `NoSpinnerLeftOver` | `DashboardProofs` | `DashboardSpec => []SpinnersMeanFetching` |
| `NoEmptyConfirmation` | `DashboardProofs` | `DashboardSpec => []ConfirmationsAreNamed` |
| `PagesKeepTheirPromises` | `DashboardProofs` | under `DashboardSpec` every invariant of a page holds that is proved for the page alone |
| `SavesAsEntered`, `SavesOnlyAdd`, `RequiredBlocksCreation`, `StringsOnly` | `DashboardProofs` | `DashboardSpec` implies `SavedAsEntered`, `SavesNeverRemove`, `RequiredNeverCreated`, `OnlyStringsSaved` |
| `DialogTyped` | `FormsProofs` | `Spec => []TypeOK` |
| `ReadingSettles` | `FormsProofs` | `Spec => []DriftSettles` |
| `WhatIsShownIsWritten` | `FormsProofs` | `Spec => []ChosenIsWritten` |
| `OnlySimplePoliciesSaved` | `FormsProofs` | `Spec => OnlySimpleSaved` |
| `EditingKeepsTheRest` | `FormsProofs` | `Spec => UntouchedPartsKept` |
| `EnteredIsShown` | `FormsProofs` | `Spec => SavedIsShown` |
| `BuilderShowsContext` | `FormsProofs` | `ContextSpec => []KeysAgree` |
| `OtherValuesSurvive` | `FormsProofs` | `ContextSpec => EditsKeepTheRest` |

Policies. `ListFollowsAgent` speaks of the newest fetch once it is shown. `PageInv` adds
what is true of it before: numbers of fetches in flight are at most the newest one, and no
two are equal (`NumbersInv`); an answer the agent has already given to the newest fetch is
what it stores as long as no write of the page is waiting and nothing is unseen
(`NewestInv`); and at most one mutation is written and not final (`LockInv`), without which
a rollback could take back more than its own write. A write that ends starts a fetch with a
greater number, which is why the mutant that skips it breaks the property.

Authorization. `DecisionFromStored` needs a fact about sets of states: one mutation writes
policies or entities, never both, so that two states that follow each other are `Near`, and
a set of two at most that grows by near states stays `Close` (`SeenGrows`). `CheckReads`
carries this through the two reads of the agent.

Overview. `StatsComplete` looks at the four counts when all have arrived; `OverviewInv` says
of each that has arrived that it is what the agent has, unless another client wrote.

Schema. `NoFirstSchema` is about an agent that had no schema when the page was opened and was
given none by another client. `SchemalessAgent` and `SchemalessPage` say why the page cannot
make one: the agent has none, neither stored nor to roll back to, no fetch brings one, and
so the page has no editor, no modal and no call in flight. `EditorConsistent` is inductive once the
calls are typed.

Entities. A save is two calls, and anyone may write between them. `SaveGoesOn` follows a save
that nobody disturbed (`alone`): what may have been applied so far is stored, as it was
entered (`SavedSoFar`), and a new entity whose first call was accepted is of a type that
requires no attribute. The four properties follow from it with what one accepted call does
(`AddApplied`, `PatchApplied`).

The composition. One page is open at a time; `DashboardInv` has the invariant of the open
page and says of every other that it is as it starts, so that opening it establishes its
invariant (`PoliciesInit` implies `PageInv`, and so on). `SpinnersMeanFetching` and
`ConfirmationsAreNamed` need it of three pages at once.

The policy dialog. `DialogInv` says of the form, and of the policy it is reset to, that a
scope has an entity or a list and never both, which every control keeps (`FormInv`,
`ScopeInv`, `ActionInv`); that an open edit dialog edits a policy the agent has, as it is
shown (`EditingInv`); and that what is stored are texts (`StoredInv`). `OnlySimpleSaved`
follows from the first: the texts that are written have at most one entity for principal
and resource, or brackets the agent refuses. `UntouchedPartsKept` needs the second.
`DriftSettles` and `SavedIsShown` are about reading what was written. What is read has one of
few shapes; a clause of such a shape is read again as it was written unless a condition says
something stronger, and then the next reading is the last (`ThirdTimeSame`). The lists of the
form are selected by the rank of an index (`At` in `PolicyText`) and not with `SelectSeq`,
which is recursive, so that what they contain can be proved (`Min`, `Max` and `Cardinality` of
sets of indices).

The context editor. `KeysAgree` is not enough for `EditsKeepTheRest`: `ContextInv` adds that
values which have a type in the builder are what the last field of their key is written as
(`ValuesAgree`). Adding or removing a field of another key does not change which is the last.

Settings. `SavedMeansUsed` is inductive as it stands.

### Only model-checked

Liveness, which is out of this prover's reach: `InvalidationEnds`, `BusyEnds`, and the
liveness half of `ImplementsStrictStore`, that every request is answered (its safety half is
`Refinement`).

## 5. Not modelled, and the plan

Not modelled, of the agent: the text of answers and log lines (`errors/`, `logger.rs`,
`common.rs`), the API key comparison (`authn.rs`), OpenAPI, the benchmarks
(`bench_dataset.rs`, `bin/`); inline and additional entities of an authorization request.
Parents of entities: the routes hand them to the Cedar library and read them back from it,
and whether direct parents or all ancestors come back is not to be seen in `src/`; a model
of what a mutation does to memberships would rest on that.

Not modelled, of the dashboard: parents of an entity; the lists that fill the select boxes
of the authorization page (`loadData`: a question is a member of a set instead); export
of the schema to a file; methods of `lib/api.ts` that no page calls; toasts, formatting
and layout; `components/ui` (generated), the theme, `hooks/use-mobile.ts` and
`app/api/config/route.ts`, which hold no state of a page.

Plan, in order:

1. `Startup`: the merge of configuration sources, and the fairings as steps.
2. Parents of entities, once it is settled what the Cedar library hands back.
