-------------------------- MODULE PoltreeAuthorizer --------------------------
(***************************************************************************)
(* POST /is_authorized/poltree beside the mutation path.  A request is     *)
(* answered from the authorizer's cache.  One that finds the cache empty   *)
(* builds it first, from the stores, without the mutation lock: it reads   *)
(* the policies, then the entities, and later stores the index it made of  *)
(* them, whatever has happened in between (src/routes/authorization.rs,    *)
(* src/services/authorizer.rs).  The cache is empty while no index could   *)
(* be built since the start.                                               *)
(***************************************************************************)
EXTENDS CedarAgent

CONSTANT Readers            \* poltree requests in flight

VARIABLES at,               \* where each reader is
          seen              \* what a reader that rebuilds has read so far

rvars == <<at, seen>>
pvars == <<vars, rvars>>

ReaderSteps == {"idle", "policies", "entities", "store", "query"}
Seen == [policies : Policies, entities : Entities \cup {Absent}, conv : CedarSchemas]

ReadersTypeOK ==
    /\ at \in [Readers -> ReaderSteps]
    /\ seen \in [Readers -> Seen \cup {Absent}]

PInit ==
    /\ Init
    /\ at = [r \in Readers |-> "idle"]
    /\ seen = [r \in Readers |-> Absent]

ReaderGoes(r, step) == at' = [at EXCEPT ![r] = step]

\* The first look at the cache.
LookUp(r) ==
    /\ at[r] = "idle"
    /\ ReaderGoes(r, IF cache = Absent THEN "policies" ELSE "query")
    /\ UNCHANGED <<vars, seen>>

\* rebuild_cache, called without mutation_lock.
ReadPolicies(r) ==
    /\ at[r] = "policies"
    /\ seen' = [seen EXCEPT ![r] = [policies |-> policies, entities |-> Absent,
                                    conv |-> NoSchema]]
    /\ ReaderGoes(r, "entities")
    /\ UNCHANGED vars

ReadEntities(r) ==
    /\ at[r] = "entities"
    /\ seen' = [seen EXCEPT ![r].entities = entities, ![r].conv = conv]
    /\ ReaderGoes(r, "store")
    /\ UNCHANGED vars

\* Mutant of StoreCache: a rebuild that finds no index to make drops the old one.
StoreOrDrop(r) ==
    /\ at[r] = "store"
    /\ cache' = Rebuilt(Absent, seen[r].policies, seen[r].entities, seen[r].conv)
    /\ seen' = [seen EXCEPT ![r] = Absent]
    /\ ReaderGoes(r, "query")
    /\ UNCHANGED <<stores, tasks>>

StoreCache(r) ==
    /\ at[r] = "store"
    /\ cache' = Rebuilt(cache, seen[r].policies, seen[r].entities, seen[r].conv)
    /\ seen' = [seen EXCEPT ![r] = Absent]
    /\ ReaderGoes(r, "query")
    /\ UNCHANGED <<stores, tasks>>

\* The second look: the answer, or 400 if there is still no cache.
Query(r) ==
    /\ at[r] = "query"
    /\ ReaderGoes(r, "idle")
    /\ UNCHANGED <<vars, seen>>

Read(r) == LookUp(r) \/ ReadPolicies(r) \/ ReadEntities(r) \/ StoreCache(r) \/ Query(r)

PNext == (Next /\ UNCHANGED rvars) \/ \E r \in Readers : Read(r)

\* Every request that has arrived is polled until it is answered.
PFairness ==
    /\ \A c \in Clients : WF_pvars(Task(c) /\ UNCHANGED rvars)
    /\ \A r \in Readers : WF_pvars(at[r] # "idle" /\ Read(r))

PSpec == PInit /\ [][PNext]_pvars /\ PFairness

-----------------------------------------------------------------------------
(* Properties. *)

Rebuilding == {r \in Readers : at[r] \in {"policies", "entities", "store"}}

\* Once there is an index, every poltree request can be answered from one: no
\* failed rebuild, of a mutation or of a reader, leaves the cache empty again.
WarmStaysWarm == [][cache # Absent => cache' # Absent]_pvars

\* A cache that is not the committed state is the work of a reader that found the
\* cache empty, and of no mutation: a server that starts with policies that can be
\* indexed never serves a stale index.
OnlyColdReadersSpoil ==
    [][CacheFresh /\ ~CacheFresh' =>
          \E r \in Rebuilding : at[r] = "store" /\ at'[r] = "query"]_pvars

\* "The second writer will just overwrite with an equivalent cache"
\* (src/src/routes/authorization.rs:135): a reader that rebuilt a cache which is no
\* longer empty stores what is there already.
SecondWriterAgrees ==
    [][\A r \in Readers :
          at[r] = "store" /\ at'[r] = "query" /\ cache # Absent =>
              /\ cache'.policies = cache.policies
              /\ cache'.entities = cache.entities]_pvars
=============================================================================
