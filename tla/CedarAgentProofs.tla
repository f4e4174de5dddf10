-------------------------- MODULE CedarAgentProofs --------------------------
(***************************************************************************)
(* Proofs about CedarAgent, for every set of clients, requests, entity     *)
(* types and policy texts.  The inductive invariant IInv says what a task  *)
(* knows while it holds the mutation lock; StoresValid, ErrorChangesNothing *)
(* and RollbackFailsOnlyWithoutSchema follow from it.                      *)
(***************************************************************************)
EXTENDS CedarAgent, StoresProofs

Locked == Steps \ {"idle", "queued"}

TasksTypeOK ==
    /\ queue \in Seq(Clients)
    /\ pc \in [Clients -> Steps]
    /\ req \in [Clients -> Requests \cup {Absent}]
    /\ prev \in [Clients -> Contained \cup {Absent}]
    /\ answer \in [Clients -> Answers]

\* The part of IInv that concerns the tasks and the lock.
TasksInv ==
    /\ TasksTypeOK
    /\ MutualExclusion
    /\ \A c \in Clients : pc[c] = "idle" => req[c] = Absent
    /\ \A c \in Clients : pc[c] = "queued" => req[c] \in Requests

-----------------------------------------------------------------------------
(* The lock. *)

\* A task that goes on keeps the lock, alone.
LEMMA GotoKeepsLock ==
    ASSUME TasksInv, NEW c \in Clients, pc[c] \in Locked, NEW step \in Locked, Goto(c, step)
    PROVE  /\ TasksInv'
           /\ Holding' = {c}
           /\ pc'[c] = step /\ req' = req /\ prev' = prev
<1>1. Holding = {c} /\ HasLock(c)
  BY DEF TasksInv, MutualExclusion, Holding, Locked
<1>2. Holding' = {c}
  BY <1>1 DEF Goto, Holding, TasksInv, TasksTypeOK, Locked
<1>3. HasLock(c)'
  BY <1>1 DEF Goto, HasLock
<1>4. TasksTypeOK'
  BY DEF Goto, TasksInv, TasksTypeOK, Locked
<1>5. /\ \A d \in Clients : pc'[d] = "idle" => req'[d] = Absent
      /\ \A d \in Clients : pc'[d] = "queued" => req'[d] \in Requests
  BY DEF Goto, TasksInv, TasksTypeOK, Locked
<1> QED
  BY <1>2, <1>3, <1>4, <1>5 DEF Goto, TasksInv, TasksTypeOK, MutualExclusion

\* A task that answers leaves the lock free.
LEMMA FinishFreesLock ==
    ASSUME TasksInv, NEW c \in Clients, pc[c] \in Locked, NEW how \in Answers, Finish(c, how)
    PROVE  TasksInv' /\ Holding' = {}
<1>1. Holding = {c} /\ HasLock(c)
  BY DEF TasksInv, MutualExclusion, Holding, Locked
<1>2. Holding' = {}
  BY <1>1 DEF Finish, Holding, TasksInv, TasksTypeOK
<1>3. queue' \in Seq(Clients)
  BY <1>1 DEF Finish, HasLock, TasksInv, TasksTypeOK
<1>4. TasksTypeOK'
  BY <1>3 DEF Finish, TasksInv, TasksTypeOK, Steps
<1>5. /\ \A d \in Clients : pc'[d] = "idle" => req'[d] = Absent
      /\ \A d \in Clients : pc'[d] = "queued" => req'[d] \in Requests
  BY DEF Finish, TasksInv, TasksTypeOK
<1> QED
  BY <1>2, <1>4, <1>5 DEF TasksInv, MutualExclusion

-----------------------------------------------------------------------------
(* The invariant, in the form the steps use it. *)

StoresTypeOK ==
    /\ policies \in Policies
    /\ entities \in Entities
    /\ conv \in CedarSchemas
    /\ schema \in Schemas
    /\ cache \in Caches \cup {Absent}

LEMMA IInvParts ==
    IInv <=> /\ StoresTypeOK /\ TasksInv /\ StoresValid
             /\ \A c \in Holding : TaskKnows(c)
BY DEF IInv, TypeOK, StoresTypeOK, TasksInv, TasksTypeOK

\* A task that answers has only to leave valid stores.
LEMMA FinishInv ==
    ASSUME IInv, NEW c \in Clients, pc[c] \in Locked, NEW how \in Answers, Finish(c, how),
           StoresTypeOK', StoresValid'
    PROVE  IInv'
<1>1. TasksInv' /\ Holding' = {}
  BY FinishFreesLock, IInvParts
<1> QED
  BY <1>1 DEF IInv, TypeOK, StoresTypeOK, TasksInv, TasksTypeOK

\* A task that goes on has to know what the next step needs, too.
LEMMA GotoInv ==
    ASSUME IInv, NEW c \in Clients, pc[c] \in Locked, NEW step \in Locked, Goto(c, step),
           StoresTypeOK', StoresValid', TaskKnows(c)'
    PROVE  IInv'
<1>1. TasksInv' /\ Holding' = {c}
  BY GotoKeepsLock, IInvParts
<1> QED
  BY <1>1 DEF IInv, TypeOK, StoresTypeOK, TasksInv, TasksTypeOK

\* Stores that did not change, or are the snapshot again, are valid.
LEMMA SameStores ==
    ASSUME IInv, UNCHANGED <<stores, cache>>
    PROVE  StoresTypeOK' /\ StoresValid'
BY IInvParts DEF StoresTypeOK, StoresValid, Snapshot, stores

\* What the holder of the lock knows, and what follows from its type.
LEMMA HolderKnows ==
    ASSUME IInv, NEW c \in Clients, pc[c] \in Locked
    PROVE  /\ TaskKnows(c)
           /\ req[c] \in Requests
           /\ prev[c] \in Contained
           /\ prev[c].policies \in Policies
           /\ prev[c].entities \in Entities
           /\ prev[c].schema \in Schemas
           /\ ContentValid(prev[c])
<1>1. c \in Holding
  BY DEF Holding, Locked
<1>2. TaskKnows(c)
  BY <1>1 DEF IInv
<1>3. req[c] \in Requests /\ prev[c] \in Contained /\ ContentValid(prev[c])
  BY <1>2 DEF TaskKnows
<1> QED
  BY <1>2, <1>3 DEF Contained

-----------------------------------------------------------------------------
(* Init. *)

LEMMA InitInv == Init => IInv
<1> SUFFICES ASSUME Init
             PROVE  IInv
  OBVIOUS
<1>1. PICK f \in Files :
         /\ schema = LoadSchema(f)
         /\ entities = LoadEntities(f)
         /\ conv = IF EntitiesLoad(f) THEN CedarSchema(LoadSchema(f)) ELSE NoSchema
         /\ policies = LoadPolicies(f)
  BY DEF Init
<1>2. /\ f.entities # Absent => f.entities \in SUBSET EntityPayload
      /\ f.policies # Absent => f.policies \in SUBSET PolicyPayload
  BY AgentAssumption DEF FileContents
<1>3. schema \in Schemas
  BY <1>1 DEF LoadSchema, Schemas
<1>4. entities \in Entities /\ EntitiesValid(entities, CedarSchema(schema))
  <2>1. CASE EntitiesLoad(f)
    BY <1>1, <1>2, <2>1, EntitiesOfType DEF LoadEntities, EntitiesLoad
  <2>2. CASE ~EntitiesLoad(f)
    BY <1>1, <2>2 DEF LoadEntities, NoEntities, Entities, EntitiesValid
  <2> QED
    BY <2>1, <2>2
<1>5. policies \in Policies /\ PoliciesValid(policies, CedarSchema(schema))
  <2>1. CASE PoliciesLoad(f)
    BY <1>1, <1>2, <2>1, PoliciesOfType DEF LoadPolicies, PoliciesLoad
  <2>2. CASE ~PoliciesLoad(f)
    BY <1>1, <2>2 DEF LoadPolicies, NoPolicies, Policies, PoliciesValid
  <2> QED
    BY <2>1, <2>2
<1>6. conv \in CedarSchemas
  BY <1>1, <1>3 DEF CedarSchema, CedarSchemas
<1>7. cache \in Caches \cup {Absent}
  BY <1>4, <1>5, <1>6 DEF Init, Rebuilt, Caches
<1>8. TasksInv /\ Holding = {}
  BY DEF Init, TasksInv, TasksTypeOK, MutualExclusion, Holding, Steps, Answers
<1>9. StoresValid
  BY <1>4, <1>5 DEF StoresValid, ContentValid, Snapshot
<1> QED
  BY <1>3, <1>4, <1>5, <1>6, <1>7, <1>8, <1>9, IInvParts DEF StoresTypeOK

-----------------------------------------------------------------------------
(* The steps of every task: the request, the lock, the invalidation, the   *)
(* cache.                                                                  *)

LEMMA RequestInv ==
    ASSUME IInv, NEW c \in Clients, Request(c)
    PROVE  IInv'
<1>1. StoresTypeOK' /\ StoresValid'
  BY SameStores DEF Request
<1>2. Holding' = Holding
  BY IInvParts DEF Request, Holding, TasksInv, TasksTypeOK
<1>3. TasksTypeOK'
  BY IInvParts DEF Request, TasksInv, TasksTypeOK, Steps, Answers
<1>4. MutualExclusion'
  <2>1. ASSUME NEW d \in Holding
        PROVE  HasLock(d)'
    BY <2>1, IInvParts DEF Request, MutualExclusion, HasLock, TasksInv, TasksTypeOK
  <2> QED
    BY <1>2, <2>1, IInvParts DEF MutualExclusion, TasksInv
<1>5. /\ \A d \in Clients : pc'[d] = "idle" => req'[d] = Absent
      /\ \A d \in Clients : pc'[d] = "queued" => req'[d] \in Requests
  BY IInvParts DEF Request, TasksInv, TasksTypeOK
<1>6. ASSUME NEW d \in Holding
      PROVE  TaskKnows(d)'
  <2>1. d \in Clients /\ TaskKnows(d) /\ d # c
    BY IInvParts DEF Request, Holding
  <2>2. req'[d] = req[d] /\ pc'[d] = pc[d] /\ UNCHANGED <<policies, entities, schema, prev>>
    BY <2>1, IInvParts DEF Request, TasksInv, TasksTypeOK, stores
  <2> QED
    BY <2>1, <2>2 DEF TaskKnows, Snapshot, At, NewSchema
<1> QED
  BY <1>1, <1>2, <1>3, <1>4, <1>5, <1>6 DEF IInv, TypeOK, StoresTypeOK, TasksTypeOK

LEMMA BeginInv ==
    ASSUME IInv, NEW c \in Clients, Begin(c)
    PROVE  IInv'
<1>1. StoresTypeOK' /\ StoresValid'
  BY SameStores DEF Begin
<1>2. Holding = {}
  BY IInvParts DEF Begin, TasksInv, MutualExclusion, HasLock, Holding
<1>3. Holding' = {c}
  BY <1>2, IInvParts DEF Begin, Holding, TasksInv, TasksTypeOK
<1>4. Snapshot \in Contained /\ ContentValid(Snapshot)
  BY IInvParts DEF StoresTypeOK, StoresValid, Snapshot, Contained
<1>5. TasksTypeOK'
  BY <1>4, IInvParts DEF Begin, TasksInv, TasksTypeOK, Steps
<1>6. /\ MutualExclusion'
      /\ \A d \in Clients : pc'[d] = "idle" => req'[d] = Absent
      /\ \A d \in Clients : pc'[d] = "queued" => req'[d] \in Requests
  BY <1>3, IInvParts DEF Begin, MutualExclusion, HasLock, TasksInv, TasksTypeOK
<1>7. TaskKnows(c)'
  <2>1. /\ prev'[c] = Snapshot /\ pc'[c] = "check" /\ req'[c] \in Requests
        /\ UNCHANGED <<policies, entities, schema>>
    BY IInvParts DEF Begin, TasksInv, TasksTypeOK, stores
  <2> QED
    BY <1>4, <2>1 DEF TaskKnows, Snapshot
<1> QED
  BY <1>1, <1>3, <1>5, <1>6, <1>7 DEF IInv, TypeOK, StoresTypeOK, TasksTypeOK

LEMMA FlushInv ==
    ASSUME IInv, NEW c \in Clients, Flush(c) \/ FlushFails(c)
    PROVE  IInv'
<1>1. pc[c] \in Locked /\ pc[c] = "flush" /\ UNCHANGED <<stores, cache>>
  BY DEF Flush, FlushFails, Locked, Steps
<1>2. StoresTypeOK' /\ StoresValid'
  BY <1>1, SameStores
<1>3. CASE Finish(c, "ok")
  BY <1>1, <1>2, <1>3, FinishInv DEF Answers
<1>4. ASSUME NEW step \in {"rebuild", "rollback"}, Goto(c, step),
             step = "rebuild" => req[c].op \notin SchemaOps
      PROVE  IInv'
  <2>1. step \in Locked
    BY DEF Locked, Steps
  <2>2. pc'[c] = step /\ req' = req /\ prev' = prev
    BY <1>1, <1>4, <2>1, GotoKeepsLock, IInvParts
  <2>3. TaskKnows(c)
    BY <1>1, HolderKnows
  <2>4. TaskKnows(c)'
    BY <1>1, <1>4, <2>2, <2>3 DEF TaskKnows, Snapshot, stores
  <2> QED
    BY <1>1, <1>2, <1>4, <2>1, <2>4, GotoInv
<1> QED
  BY <1>3, <1>4 DEF Flush, FlushFails

LEMMA RebuildInv ==
    ASSUME IInv, NEW c \in Clients, RebuildCache(c)
    PROVE  IInv'
<1>1. pc[c] \in Locked /\ Finish(c, "ok") /\ UNCHANGED stores
  BY DEF RebuildCache, Locked, Steps
<1>2. StoresTypeOK'
  BY IInvParts DEF RebuildCache, StoresTypeOK, stores, Rebuilt, Caches
<1>3. StoresValid'
  BY <1>1, IInvParts DEF StoresValid, Snapshot, stores
<1> QED
  BY <1>1, <1>2, <1>3, FinishInv DEF Answers

-----------------------------------------------------------------------------
(* The routes of one kind, and what they are not. *)

LEMMA KindsDisjoint ==
    /\ PolicyOps \cap DataOps = {}
    /\ PolicyOps \cap SchemaOps = {}
    /\ DataOps \cap SchemaOps = {}
BY DEF PolicyOps, DataOps, SchemaOps

LEMMA PolicyStepInv ==
    ASSUME IInv, NEW c \in Clients, PolicyStep(c)
    PROVE  IInv'
<1> USE KindsDisjoint
<1>1. pc[c] \in Locked /\ req[c].op \in PolicyOps
  BY DEF PolicyStep, WritePolicies, RejectPolicies, RollbackPolicies, At, Locked, Steps
<1>2. /\ TaskKnows(c) /\ req[c] \in Requests /\ prev[c].policies \in Policies
      /\ ContentValid(prev[c])
      /\ entities = prev[c].entities /\ schema = prev[c].schema
  BY <1>1, HolderKnows DEF TaskKnows
<1>3. StoresTypeOK /\ StoresValid
  BY IInvParts
<1>4. CedarSchema(schema) \in CedarSchemas
  BY <1>3 DEF StoresTypeOK, CedarSchema, CedarSchemas
<1>5. CASE WritePolicies(c)
  <2>1. policies' \in Policies
    BY <1>1, <1>2, <1>3, <1>5, PolicyResultType DEF WritePolicies, StoresTypeOK
  <2>2. PoliciesValid(policies', CedarSchema(schema))
    BY <1>1, <1>2, <1>3, <1>4, <1>5, PolicyResultValid
    DEF WritePolicies, StoresTypeOK, StoresValid, ContentValid, Snapshot, SchemaRead
  <2>3. StoresTypeOK' /\ StoresValid'
    BY <1>3, <1>5, <2>1, <2>2 DEF WritePolicies, StoresTypeOK, StoresValid, ContentValid, Snapshot
  <2>4. Goto(c, "flush") /\ "flush" \in Locked
    BY <1>5 DEF WritePolicies, Locked, Steps
  <2>5. pc'[c] = "flush" /\ req' = req /\ prev' = prev
    BY <1>1, <2>4, GotoKeepsLock, IInvParts
  <2>6. policies = prev[c].policies /\ prev[c] \in Contained
    BY <1>1, <1>2, <1>5, HolderKnows DEF WritePolicies, At, TaskKnows, Snapshot
  <2>7. Accepted(req[c], prev[c]) /\ Snapshot' = Result(req[c], prev[c])
    BY <1>1, <1>2, <1>5, <2>6 DEF WritePolicies, SchemaRead, Accepted, Result, Snapshot, Contained
  <2>8. ~SkipsInvalidation(req[c])
    BY <1>1 DEF SkipsInvalidation, DataOps
  <2>9. TaskKnows(c)'
    BY <1>1, <1>2, <1>5, <2>5, <2>7, <2>8 DEF WritePolicies, TaskKnows, Snapshot
  <2> QED
    BY <1>1, <2>3, <2>4, <2>9, GotoInv
<1>6. CASE RejectPolicies(c)
  BY <1>1, <1>6, SameStores, FinishInv DEF RejectPolicies, Answers
<1>7. CASE RollbackPolicies(c)
  <2>1. PoliciesValid(prev[c].policies, CedarSchema(schema))
    BY <1>2 DEF ContentValid
  <2>2. StoresTypeOK' /\ StoresValid'
    BY <1>2, <1>3, <1>7, <2>1
    DEF RollbackPolicies, StoresTypeOK, StoresValid, ContentValid, Snapshot
  <2> QED
    BY <1>1, <1>7, <2>1, <2>2, FinishInv DEF RollbackPolicies, Answers
<1> QED
  BY <1>5, <1>6, <1>7 DEF PolicyStep

LEMMA DataStepInv ==
    ASSUME IInv, NEW c \in Clients, DataStep(c)
    PROVE  IInv'
<1> USE KindsDisjoint
<1>1. pc[c] \in Locked /\ req[c].op \in DataOps
  BY DEF DataStep, WriteEntities, AnswerStored, RejectEntities, RollbackEntities, At, Locked, Steps
<1>2. /\ TaskKnows(c) /\ req[c] \in Requests /\ prev[c].entities \in Entities
      /\ ContentValid(prev[c])
      /\ policies = prev[c].policies /\ schema = prev[c].schema
  BY <1>1, HolderKnows DEF TaskKnows
<1>3. StoresTypeOK /\ StoresValid
  BY IInvParts
<1>4. CedarSchema(schema) \in CedarSchemas /\ NoSchema \in CedarSchemas
  BY <1>3 DEF StoresTypeOK, CedarSchema, CedarSchemas
<1>5. CASE WriteEntities(c)
  <2>1. entities' \in Entities
    BY <1>1, <1>2, <1>3, <1>5, DataResultType DEF WriteEntities, DataAccepted, StoresTypeOK
  <2>2. EntitiesValid(entities', CedarSchema(schema))
    BY <1>2, <1>5 DEF WriteEntities, DataAccepted, SchemaRead
  <2>3. StoresTypeOK'
    BY <1>2, <1>3, <1>4, <1>5, <2>1 DEF WriteEntities, StoresTypeOK, SchemaRead
  <2>4. StoresValid'
    BY <1>3, <1>5, <2>2 DEF WriteEntities, StoresValid, ContentValid, Snapshot
  <2>5. PICK step \in {"flush", "rebuild"} :
           Goto(c, step) /\ (step = "flush" => ~SkipsInvalidation(req[c]))
    BY <1>5 DEF WriteEntities
  <2>6. step \in Locked
    BY DEF Locked, Steps
  <2>7. pc'[c] = step /\ req' = req /\ prev' = prev
    BY <1>1, <2>5, <2>6, GotoKeepsLock, IInvParts
  <2>8. entities = prev[c].entities /\ prev[c] \in Contained
    BY <1>1, <1>2, <1>5, HolderKnows DEF WriteEntities, At, TaskKnows, Snapshot
  <2>9. Accepted(req[c], prev[c]) /\ Snapshot' = Result(req[c], prev[c])
    BY <1>1, <1>2, <1>5, <2>8 DEF WriteEntities, SchemaRead, Accepted, Result, Snapshot, Contained
  <2>10. TaskKnows(c)'
    BY <1>1, <1>2, <1>5, <2>5, <2>7, <2>9 DEF WriteEntities, TaskKnows, Snapshot
  <2> QED
    BY <1>1, <2>3, <2>4, <2>5, <2>6, <2>10, GotoInv
<1>6. CASE AnswerStored(c) \/ RejectEntities(c)
  BY <1>1, <1>6, SameStores, FinishInv DEF AnswerStored, RejectEntities, Answers
<1>7. CASE RollbackEntities(c)
  <2>1. EntitiesValid(prev[c].entities, CedarSchema(schema))
    BY <1>2 DEF ContentValid
  <2>2. StoresTypeOK' /\ StoresValid'
    BY <1>2, <1>3, <1>4, <1>7, <2>1
    DEF RollbackEntities, StoresTypeOK, StoresValid, ContentValid, Snapshot
  <2> QED
    BY <1>1, <1>7, <2>1, <2>2, FinishInv DEF RollbackEntities, Answers
<1> QED
  BY <1>5, <1>6, <1>7 DEF DataStep

-----------------------------------------------------------------------------
(* The schema routes. *)

LEMMA SchemaStepInv ==
    ASSUME IInv, NEW c \in Clients, SchemaStep(c)
    PROVE  IInv'
<1> USE KindsDisjoint
<1>1. pc[c] \in Locked
  BY DEF SchemaStep, RejectSchema, RevalidatePolicies, ReparseEntities, WriteSchema,
         RollbackSchema, RollbackSchemaPolicies, RollbackSchemaEntities, At, Locked, Steps
<1>2. /\ TaskKnows(c) /\ req[c] \in Requests /\ ContentValid(prev[c])
      /\ prev[c].policies \in Policies /\ prev[c].entities \in Entities
      /\ prev[c].schema \in Schemas
  BY <1>1, HolderKnows
<1>3. StoresTypeOK /\ StoresValid /\ TasksInv
  BY IInvParts
<1>4. ASSUME NEW step \in Locked, Goto(c, step)
      PROVE  pc'[c] = step /\ req' = req /\ prev' = prev
  BY <1>1, <1>3, <1>4, GotoKeepsLock
<1>5. CASE RejectSchema(c)
  BY <1>1, <1>5, SameStores, FinishInv DEF RejectSchema, Answers
<1>6. CASE RevalidatePolicies(c)
  <2>1. Goto(c, "entities") /\ "entities" \in Locked
    BY <1>6 DEF RevalidatePolicies, Locked, Steps
  <2>2. StoresTypeOK' /\ StoresValid'
    BY <1>6, SameStores DEF RevalidatePolicies
  <2>3. TaskKnows(c)'
    BY <1>2, <1>4, <1>6, <2>1 DEF RevalidatePolicies, TaskKnows, At, NewSchema, Snapshot, stores
  <2> QED
    BY <1>1, <2>1, <2>2, <2>3, GotoInv
<1>7. CASE ReparseEntities(c)
  <2>1. Goto(c, "schema") /\ "schema" \in Locked
    BY <1>7 DEF ReparseEntities, Locked, Steps
  <2>2. req[c].op \in SchemaOps /\ SchemaGuard(req[c], schema)
    BY <1>2, <1>7 DEF ReparseEntities, TaskKnows, At
  <2>3. NewSchema(c) \in CedarSchemas
    BY <1>2, <1>3, <2>2, SchemaResultType DEF NewSchema, CedarSchemas, StoresTypeOK
  <2>4. StoresTypeOK' /\ StoresValid'
    BY <1>3, <1>7, <2>3 DEF ReparseEntities, StoresTypeOK, StoresValid, Snapshot
  <2>5. TaskKnows(c)'
    BY <1>2, <1>4, <1>7, <2>1 DEF ReparseEntities, TaskKnows, At, NewSchema, Snapshot
  <2> QED
    BY <1>1, <2>1, <2>4, <2>5, GotoInv
<1>8. CASE WriteSchema(c)
  <2>1. Goto(c, "flush") /\ "flush" \in Locked
    BY <1>8 DEF WriteSchema, Locked, Steps
  <2>2. req[c].op \in SchemaOps /\ SchemaGuard(req[c], schema)
    BY <1>2, <1>8 DEF WriteSchema, TaskKnows, At, SchemaGuard, SchemaOps
  <2>3. NewSchema(c) \in Schemas
    BY <1>2, <1>3, <2>2, SchemaResultType DEF NewSchema, StoresTypeOK
  <2>4. /\ PoliciesValid(policies, CedarSchema(NewSchema(c)))
        /\ EntitiesValid(entities, CedarSchema(NewSchema(c)))
    <3>1. CASE pc[c] = "schema"
      BY <1>2, <1>3, <2>3, <3>1, ValidOnceStored DEF TaskKnows, StoresTypeOK
    <3>2. CASE req[c].op = "delete_schema"
      <4>1. CedarSchema(NewSchema(c)) = NoSchema
        BY <3>2 DEF NewSchema, SchemaResult, CedarSchema
      <4>2. CedarSchema(schema) \in CedarSchemas
        BY <1>3 DEF StoresTypeOK, CedarSchema, CedarSchemas
      <4> QED
        BY <1>3, <4>1, <4>2, ValidWithoutSchema
        DEF StoresTypeOK, StoresValid, ContentValid, Snapshot
    <3> QED
      BY <1>8, <3>1, <3>2 DEF WriteSchema, At
  <2>5. StoresTypeOK' /\ StoresValid'
    BY <1>3, <1>8, <2>3, <2>4 DEF WriteSchema, StoresTypeOK, StoresValid, ContentValid, Snapshot
  <2>6. /\ policies = prev[c].policies /\ entities = prev[c].entities
        /\ schema = prev[c].schema /\ prev[c] \in Contained
    BY <1>1, <1>2, <1>8, <2>2, HolderKnows DEF WriteSchema, At, TaskKnows
  <2>7. Accepted(req[c], prev[c])
    BY <1>2, <1>8, <2>2, <2>6 DEF WriteSchema, At, TaskKnows, NewSchema, Accepted, SchemaAccepted
  <2>8. Snapshot' = Result(req[c], prev[c])
    BY <1>8, <2>2, <2>6 DEF WriteSchema, NewSchema, Result, Snapshot, Contained
  <2>9. ~SkipsInvalidation(req[c])
    BY <2>2 DEF SkipsInvalidation, DataOps
  <2>10. TaskKnows(c)'
    BY <1>2, <1>4, <1>8, <2>1, <2>2, <2>7, <2>8, <2>9 DEF WriteSchema, TaskKnows, Snapshot
  <2> QED
    BY <1>1, <2>1, <2>5, <2>10, GotoInv
<1>9. CASE RollbackSchema(c)
  <2>1. Goto(c, "rollback_policies") /\ "rollback_policies" \in Locked
    BY <1>9 DEF RollbackSchema, Locked, Steps
  <2>2. req[c].op \in SchemaOps /\ policies = prev[c].policies /\ entities = prev[c].entities
    BY <1>2, <1>9 DEF RollbackSchema, At, TaskKnows
  <2>3. StoresTypeOK' /\ StoresValid'
    BY <1>2, <1>3, <1>9, <2>2 DEF RollbackSchema, StoresTypeOK, StoresValid, ContentValid, Snapshot
  <2>4. TaskKnows(c)'
    BY <1>2, <1>4, <1>9, <2>1, <2>2 DEF RollbackSchema, TaskKnows
  <2> QED
    BY <1>1, <2>1, <2>3, <2>4, GotoInv
<1>10. CASE RollbackSchemaPolicies(c) \/ RollbackSchemaEntities(c)
  <2>1. /\ req[c].op \in SchemaOps /\ schema = prev[c].schema
        /\ policies = prev[c].policies /\ entities = prev[c].entities
    BY <1>2, <1>10 DEF RollbackSchemaPolicies, RollbackSchemaEntities, TaskKnows
  <2>2. policies' = policies /\ entities' = entities /\ schema' = schema /\ cache' = cache
    BY <1>10, <2>1 DEF RollbackSchemaPolicies, RollbackSchemaEntities
  <2>3. conv' \in CedarSchemas
    BY <1>2, <1>3, <1>10 DEF RollbackSchemaPolicies, RollbackSchemaEntities, StoresTypeOK, CedarSchemas
  <2>4. StoresTypeOK' /\ StoresValid'
    BY <1>3, <2>2, <2>3 DEF StoresTypeOK, StoresValid, Snapshot
  <2>5. CASE \E how \in Answers : Finish(c, how)
    BY <1>1, <2>4, <2>5, FinishInv
  <2>6. CASE Goto(c, "rollback_entities")
    <3>1. "rollback_entities" \in Locked
      BY DEF Locked, Steps
    <3>2. TaskKnows(c)'
      BY <1>2, <1>4, <2>1, <2>2, <2>6, <3>1 DEF TaskKnows
    <3> QED
      BY <1>1, <2>4, <2>6, <3>1, <3>2, GotoInv
  <2> QED
    BY <1>10, <2>5, <2>6 DEF RollbackSchemaPolicies, RollbackSchemaEntities, Answers
<1> QED
  BY <1>5, <1>6, <1>7, <1>8, <1>9, <1>10 DEF SchemaStep

-----------------------------------------------------------------------------
(* The theorems. *)

LEMMA NextInv == IInv /\ [Next]_vars => IInv'
<1> SUFFICES ASSUME IInv, [Next]_vars
             PROVE  IInv'
  OBVIOUS
<1>1. CASE Next
  <2>1. PICK c \in Clients : Request(c) \/ Task(c)
    BY <1>1 DEF Next
  <2> QED
    BY <2>1, RequestInv, BeginInv, PolicyStepInv, DataStepInv, SchemaStepInv, FlushInv,
       RebuildInv DEF Task
<1>2. CASE UNCHANGED vars
  BY <1>2 DEF vars, stores, tasks, IInv, TypeOK, MutualExclusion, Holding, HasLock,
              StoresValid, Snapshot, TaskKnows, At, NewSchema
<1> QED
  BY <1>1, <1>2

\* What a task knows under the lock is an invariant of every behaviour.
THEOREM Invariance == Spec => []IInv
<1>1. Init => IInv
  BY InitInv
<1>2. IInv /\ [Next]_vars => IInv'
  BY NextInv
<1> QED
  BY <1>1, <1>2, PTL DEF Spec

\* Every variable keeps its type.
THEOREM TypeCorrect == Spec => []TypeOK
<1>1. IInv => TypeOK
  BY DEF IInv
<1> QED
  BY <1>1, Invariance, PTL

\* At every moment, what the policy and the entity store hold is valid under the
\* stored schema: no interleaving of routes, failed invalidations and rollbacks
\* lets an unvalidated policy or entity be served.
THEOREM StoresStayValid == Spec => []StoresValid
<1>1. IInv => StoresValid
  BY DEF IInv
<1> QED
  BY <1>1, Invariance, PTL

-----------------------------------------------------------------------------
(* How a task ends, and what a step of one task leaves to the others.      *)

LEMMA OthersUntouched ==
    ASSUME IInv, NEW c \in Clients, Request(c) \/ Task(c), NEW d \in Clients, d # c
    PROVE  pc'[d] = pc[d] /\ answer'[d] = answer[d]
<1> USE IInvParts DEF TasksInv, TasksTypeOK
<1>1. CASE \E step \in Steps : Goto(c, step)
  BY <1>1 DEF Goto
<1>2. CASE \E how \in Answers : Finish(c, how)
  BY <1>2 DEF Finish
<1>3. CASE Request(c) \/ Begin(c)
  BY <1>3 DEF Request, Begin
<1> QED
  BY <1>1, <1>2, <1>3
  DEF Task, PolicyStep, DataStep, SchemaStep, WritePolicies, RejectPolicies, RollbackPolicies,
      WriteEntities, AnswerStored, RejectEntities, RollbackEntities, RejectSchema,
      RevalidatePolicies, ReparseEntities, WriteSchema, RollbackSchema, RollbackSchemaPolicies,
      RollbackSchemaEntities, Flush, FlushFails, RebuildCache, Steps, Answers

\* An error answer is given where the stores are the snapshot again.
LEMMA ErrorRestores ==
    ASSUME IInv, NEW c \in Clients, Task(c), pc[c] # "idle", pc'[c] = "idle", answer'[c] # "ok"
    PROVE  Snapshot' = prev[c]
<1> USE KindsDisjoint
<1>1. pc[c] \in Locked
  BY IInvParts
  DEF Task, Begin, PolicyStep, DataStep, SchemaStep, WritePolicies, RejectPolicies,
      RollbackPolicies, WriteEntities, AnswerStored, RejectEntities, RollbackEntities,
      RejectSchema, RevalidatePolicies, ReparseEntities, WriteSchema, RollbackSchema,
      RollbackSchemaPolicies, RollbackSchemaEntities, Flush, FlushFails, RebuildCache, At,
      Steps, Locked, TasksInv, TasksTypeOK
<1>2. TaskKnows(c) /\ prev[c] \in Contained /\ ContentValid(prev[c])
  BY <1>1, HolderKnows
<1>3. ASSUME NEW how \in Answers, Finish(c, how)
      PROVE  answer'[c] = how
  BY <1>3, IInvParts DEF Finish, TasksInv, TasksTypeOK
<1>4. ASSUME NEW step \in Locked, Goto(c, step)
      PROVE  FALSE
  BY <1>1, <1>4, GotoKeepsLock, IInvParts DEF Locked
<1>5. CASE PolicyStep(c)
  <2>1. ~WritePolicies(c)
    BY <1>4 DEF WritePolicies, Locked, Steps
  <2>2. CASE RejectPolicies(c)
    BY <1>2, <2>2 DEF RejectPolicies, At, TaskKnows, stores, Snapshot
  <2>3. CASE RollbackPolicies(c)
    BY <1>2, <2>3 DEF RollbackPolicies, At, TaskKnows, Snapshot, ContentValid, Contained
  <2> QED
    BY <1>5, <2>1, <2>2, <2>3 DEF PolicyStep
<1>6. CASE DataStep(c)
  <2>1. ~WriteEntities(c)
    BY <1>4 DEF WriteEntities, Locked, Steps
  <2>2. CASE AnswerStored(c) \/ RejectEntities(c)
    BY <1>2, <2>2 DEF AnswerStored, RejectEntities, At, TaskKnows, stores, Snapshot
  <2>3. CASE RollbackEntities(c)
    BY <1>2, <2>3 DEF RollbackEntities, At, TaskKnows, Snapshot, ContentValid, Contained
  <2> QED
    BY <1>6, <2>1, <2>2, <2>3 DEF DataStep
<1>7. CASE SchemaStep(c)
  <2>1. ~RevalidatePolicies(c) /\ ~ReparseEntities(c) /\ ~WriteSchema(c) /\ ~RollbackSchema(c)
    BY <1>4 DEF RevalidatePolicies, ReparseEntities, WriteSchema, RollbackSchema, Locked, Steps
  <2>2. CASE RejectSchema(c)
    BY <1>2, <2>2 DEF RejectSchema, At, TaskKnows, stores, Snapshot, Contained
  <2>3. CASE RollbackSchemaPolicies(c) \/ RollbackSchemaEntities(c)
    BY <1>2, <2>3
    DEF RollbackSchemaPolicies, RollbackSchemaEntities, TaskKnows, Snapshot, Contained
  <2> QED
    BY <1>7, <2>1, <2>2, <2>3 DEF SchemaStep
<1>8. CASE Flush(c) \/ FlushFails(c) \/ RebuildCache(c)
  BY <1>3, <1>4, <1>8 DEF Flush, FlushFails, RebuildCache, Locked, Steps, Answers
<1>9. ~Begin(c)
  BY <1>1 DEF Begin, Locked
<1> QED
  BY <1>5, <1>6, <1>7, <1>8, <1>9 DEF Task

\* Strict mode: a request answered with an error has changed nothing.
THEOREM StrictMode == Spec => ErrorChangesNothing
<1>1. ASSUME IInv, [Next]_vars, NEW c \in Clients,
             pc[c] # "idle", pc'[c] = "idle", answer'[c] # "ok"
      PROVE  Snapshot' = prev[c]
  <2>1. CASE UNCHANGED vars
    BY <1>1, <2>1 DEF vars, tasks
  <2>2. ASSUME NEW d \in Clients, Request(d) \/ Task(d)
        PROVE  Snapshot' = prev[c]
    <3>1. c = d
      BY <1>1, <2>2, OthersUntouched
    <3>2. ~Request(c)
      BY <1>1 DEF Request
    <3> QED
      BY <1>1, <2>2, <3>1, <3>2, ErrorRestores
  <2> QED
    BY <1>1, <2>1, <2>2 DEF Next
<1>2. IInv /\ [Next]_vars =>
          [\A c \in Clients :
              pc[c] # "idle" /\ pc'[c] = "idle" /\ answer'[c] # "ok" => Snapshot' = prev[c]]_vars
  BY <1>1
<1> QED
  BY <1>2, Invariance, PTL DEF Spec, ErrorChangesNothing

-----------------------------------------------------------------------------
(* Rollbacks. *)

\* The only rollback that can fail is that of a schema change made where there was
\* no schema: the snapshot is valid under the schema it was taken with.
LEMMA RollbackFailure ==
    ASSUME IInv, NEW c \in Clients, Task(c),
           answer'[c] = "rollback_failed", answer[c] # "rollback_failed"
    PROVE  req[c].op \in SchemaOps /\ prev[c].schema = EmptySchema
<1> USE KindsDisjoint
<1>1. ASSUME NEW how \in Answers, Finish(c, how)
      PROVE  how = "rollback_failed"
  BY <1>1, IInvParts DEF Finish, TasksInv, TasksTypeOK
<1>2. ~UNCHANGED answer
  OBVIOUS
<1>3. CASE PolicyStep(c)
  <2>1. RollbackPolicies(c)
    BY <1>1, <1>2, <1>3 DEF PolicyStep, WritePolicies, RejectPolicies, Goto, Answers
  <2>2. TaskKnows(c) /\ ContentValid(prev[c])
    BY <2>1, HolderKnows DEF RollbackPolicies, At, Locked, Steps
  <2>3. PoliciesValid(prev[c].policies, CedarSchema(schema))
    BY <2>1, <2>2 DEF RollbackPolicies, At, TaskKnows, ContentValid
  <2> QED
    BY <1>1, <2>1, <2>3 DEF RollbackPolicies, Answers
<1>4. CASE DataStep(c)
  <2>1. RollbackEntities(c)
    BY <1>1, <1>2, <1>4 DEF DataStep, WriteEntities, AnswerStored, RejectEntities, Goto, Answers
  <2>2. TaskKnows(c) /\ ContentValid(prev[c])
    BY <2>1, HolderKnows DEF RollbackEntities, At, Locked, Steps
  <2>3. EntitiesValid(prev[c].entities, CedarSchema(schema))
    BY <2>1, <2>2 DEF RollbackEntities, At, TaskKnows, ContentValid
  <2> QED
    BY <1>1, <2>1, <2>3 DEF RollbackEntities, Answers
<1>5. CASE SchemaStep(c)
  <2>1. RollbackSchemaPolicies(c) \/ RollbackSchemaEntities(c)
    BY <1>1, <1>2, <1>5
    DEF SchemaStep, RejectSchema, RevalidatePolicies, ReparseEntities, WriteSchema,
        RollbackSchema, Goto, Answers
  <2>2. TaskKnows(c) /\ ContentValid(prev[c])
    BY <2>1, HolderKnows DEF RollbackSchemaPolicies, RollbackSchemaEntities, Locked, Steps
  <2>3. req[c].op \in SchemaOps
    BY <2>1, <2>2 DEF RollbackSchemaPolicies, RollbackSchemaEntities, TaskKnows
  <2>4. CASE prev[c].schema # EmptySchema
    <3>1. /\ PoliciesValid(prev[c].policies, prev[c].schema)
          /\ EntitiesValid(prev[c].entities, prev[c].schema)
      BY <2>2, <2>4 DEF ContentValid, CedarSchema
    <3> QED
      BY <1>1, <1>2, <2>1, <3>1
      DEF RollbackSchemaPolicies, RollbackSchemaEntities, Goto, Answers
  <2> QED
    BY <2>3, <2>4
<1>6. ~(Begin(c) \/ Flush(c) \/ FlushFails(c) \/ RebuildCache(c))
  BY <1>1, <1>2 DEF Begin, Flush, FlushFails, RebuildCache, Goto, Answers
<1> QED
  BY <1>3, <1>4, <1>5, <1>6 DEF Task

\* No policy or data change is ever left half undone.
THEOREM RollbackSucceeds == Spec => RollbackFailsOnlyWithoutSchema
<1>1. ASSUME IInv, [Next]_vars, NEW c \in Clients,
             answer'[c] = "rollback_failed", answer[c] # "rollback_failed"
      PROVE  req[c].op \in SchemaOps /\ prev[c].schema = EmptySchema
  <2>1. CASE UNCHANGED vars
    BY <1>1, <2>1 DEF vars, tasks
  <2>2. ASSUME NEW d \in Clients, Request(d) \/ Task(d)
        PROVE  req[c].op \in SchemaOps /\ prev[c].schema = EmptySchema
    <3>1. c = d
      BY <1>1, <2>2, OthersUntouched
    <3>2. ~Request(c)
      BY <1>1, IInvParts DEF Request, TasksInv, TasksTypeOK
    <3> QED
      BY <1>1, <2>2, <3>1, <3>2, RollbackFailure
  <2> QED
    BY <1>1, <2>1, <2>2 DEF Next
<1>2. IInv /\ [Next]_vars =>
          [\A c \in Clients :
              answer'[c] = "rollback_failed" /\ answer[c] # "rollback_failed" =>
                  req[c].op \in SchemaOps /\ prev[c].schema = EmptySchema]_vars
  BY <1>1
<1> QED
  BY <1>2, Invariance, PTL DEF Spec, RollbackFailsOnlyWithoutSchema

-----------------------------------------------------------------------------
(* Refinement: the steps of a task are one step of StrictStore.  While the *)
(* lock is held, what is committed is the snapshot of its holder.          *)

LEMMA CommittedIs ==
    ASSUME IInv
    PROVE  /\ LockFree => Committed = Snapshot
           /\ \A c \in Holding : Committed = prev[c] /\ ~LockFree
BY IInvParts DEF Committed, LockFree, TasksInv, MutualExclusion, HasLock

\* A task that answers shows its stores.
LEMMA CommittedAfterFinish ==
    ASSUME IInv, NEW c \in Clients, pc[c] \in Locked, NEW how \in Answers, Finish(c, how)
    PROVE  /\ Committed = prev[c]
           /\ Committed' = Snapshot'
<1>1. Committed = prev[c]
  BY CommittedIs DEF Holding, Locked
<1>2. Holding' = {}
  BY FinishFreesLock, IInvParts
<1> QED
  BY <1>1, <1>2 DEF Committed, LockFree

\* A task that goes on shows nothing.
LEMMA GotoStutters ==
    ASSUME IInv, NEW c \in Clients, pc[c] \in Locked, NEW step \in Locked, Goto(c, step)
    PROVE  UNCHANGED Strict!avars
<1>1. Committed = prev[c]
  BY CommittedIs DEF Holding, Locked
<1>2. Holding' = {c} /\ prev' = prev /\ queue' = queue
  BY GotoKeepsLock, IInvParts DEF Goto
<1>3. HasLock(c)
  BY IInvParts DEF TasksInv, MutualExclusion, Holding, Locked
<1>4. Committed' = prev[c]
  BY <1>2, <1>3 DEF Committed, LockFree, HasLock
<1> QED
  BY <1>1, <1>4 DEF Goto, Strict!avars

LEMMA OutcomeAfterFinish ==
    ASSUME IInv, NEW c \in Clients, NEW how \in Answers, Finish(c, how)
    PROVE  Strict!Reply(c, Outcome(how))
BY IInvParts DEF Finish, Strict!Reply, TasksInv, TasksTypeOK

\* A successful answer commits the request.
LEMMA OkCommits ==
    ASSUME IInv, NEW c \in Clients, pc[c] \in Locked, Finish(c, "ok"),
           Accepted(req[c], prev[c]), Snapshot' = Result(req[c], prev[c])
    PROVE  Strict!Commit(c)
<1>1. req[c] # Absent
  BY HolderKnows, StoresAssumption
<1>2. Committed = prev[c] /\ Committed' = Snapshot'
  BY CommittedAfterFinish DEF Answers
<1>3. Strict!Reply(c, "ok")
  BY OutcomeAfterFinish DEF Answers, Outcome
<1> QED
  BY <1>1, <1>2, <1>3 DEF Strict!Commit

\* An error answer refuses it.
LEMMA ErrorRefuses ==
    ASSUME IInv, NEW c \in Clients, Task(c), pc[c] \in Locked,
           NEW how \in Answers \ {"none", "ok"}, Finish(c, how),
           Accepted(req[c], prev[c]) => ~SkipsInvalidation(req[c])
    PROVE  Strict!Refuse(c)
<1>1. req[c] # Absent
  BY HolderKnows, StoresAssumption
<1>2. Committed = prev[c] /\ Committed' = Snapshot'
  BY CommittedAfterFinish
<1>3. Snapshot' = prev[c]
  <2>1. pc[c] # "idle" /\ pc'[c] = "idle" /\ answer'[c] # "ok"
    BY IInvParts DEF Finish, TasksInv, TasksTypeOK, Locked
  <2> QED
    BY <2>1, ErrorRestores
<1>4. Strict!Reply(c, "error")
  BY OutcomeAfterFinish DEF Outcome
<1> QED
  BY <1>1, <1>2, <1>3, <1>4 DEF Strict!Refuse

LEMMA RequestSubmits ==
    ASSUME IInv, NEW c \in Clients, Request(c)
    PROVE  Strict!Submit(c)
<1>1. Holding' = Holding
  BY IInvParts DEF Request, Holding, TasksInv, TasksTypeOK
<1>2. Committed' = Committed
  <2>1. CASE LockFree
    BY <1>1, <2>1 DEF Committed, LockFree, Snapshot, Request, stores
  <2>2. CASE ~LockFree
    <3>1. queue # <<>>
      BY <2>2, IInvParts DEF LockFree, TasksInv, MutualExclusion, HasLock
    <3>2. Head(queue') = Head(queue)
      BY <3>1, IInvParts DEF Request, TasksInv, TasksTypeOK
    <3> QED
      BY <1>1, <2>2, <3>2 DEF Committed, LockFree, Request
  <2> QED
    BY <2>1, <2>2
<1>3. req[c] = Absent
  BY IInvParts DEF Request, TasksInv
<1>4. [d \in Clients |-> Outcome(answer'[d])]
        = [[d \in Clients |-> Outcome(answer[d])] EXCEPT ![c] = "none"]
  BY IInvParts DEF Request, Outcome, TasksInv, TasksTypeOK
<1> QED
  BY <1>2, <1>3, <1>4 DEF Strict!Submit, Request

LEMMA BeginStutters ==
    ASSUME IInv, NEW c \in Clients, Begin(c)
    PROVE  UNCHANGED Strict!avars
<1>1. Holding = {}
  BY IInvParts DEF Begin, TasksInv, MutualExclusion, HasLock, Holding
<1>2. c \in Holding' /\ Head(queue') = c /\ prev'[c] = Snapshot
  BY IInvParts DEF Begin, HasLock, Holding, TasksInv, TasksTypeOK
<1>3. Committed' = Committed
  BY <1>1, <1>2 DEF Committed, LockFree
<1> QED
  BY <1>3 DEF Begin, Strict!avars

\* A policy route that does not answer shows nothing; one that does, before the
\* invalidation or after a rollback, refuses.
LEMMA PolicyStepRefines ==
    ASSUME IInv, NEW c \in Clients, PolicyStep(c)
    PROVE  Strict!Refuse(c) \/ UNCHANGED Strict!avars
<1> USE KindsDisjoint
<1>1. pc[c] \in Locked /\ req[c].op \in PolicyOps /\ Task(c)
  BY DEF PolicyStep, WritePolicies, RejectPolicies, RollbackPolicies, At, Locked, Steps, Task
<1>2. ~SkipsInvalidation(req[c])
  BY <1>1 DEF SkipsInvalidation, DataOps
<1>3. CASE WritePolicies(c)
  BY <1>1, <1>3, GotoStutters DEF WritePolicies, Locked, Steps
<1>4. CASE RejectPolicies(c) \/ RollbackPolicies(c)
  <2>1. PICK how \in Answers \ {"none", "ok"} : Finish(c, how)
    BY <1>4 DEF RejectPolicies, RollbackPolicies, Answers
  <2> QED
    BY <1>1, <1>2, <2>1, ErrorRefuses
<1> QED
  BY <1>3, <1>4 DEF PolicyStep

LEMMA DataStepRefines ==
    ASSUME IInv, NEW c \in Clients, DataStep(c)
    PROVE  Strict!Commit(c) \/ Strict!Refuse(c) \/ UNCHANGED Strict!avars
<1> USE KindsDisjoint
<1>1. pc[c] \in Locked /\ req[c].op \in DataOps /\ Task(c)
  BY DEF DataStep, WriteEntities, AnswerStored, RejectEntities, RollbackEntities, At, Locked,
         Steps, Task
<1>2. TaskKnows(c) /\ req[c] \in Requests /\ prev[c] \in Contained
  BY <1>1, HolderKnows
<1>3. CASE WriteEntities(c)
  <2>1. PICK step \in {"flush", "rebuild"} : Goto(c, step)
    BY <1>3 DEF WriteEntities
  <2> QED
    BY <1>1, <2>1, GotoStutters DEF Locked, Steps
<1>4. CASE AnswerStored(c)
  <2>1. Snapshot = prev[c] /\ Snapshot' = Snapshot
    BY <1>2, <1>4 DEF AnswerStored, At, TaskKnows, Snapshot, stores
  <2>2. DataResult(req[c], entities) = entities
    BY <1>1, <1>2, <1>4, IInvParts, StoredUntouched DEF AnswerStored, StoresTypeOK
  <2>3. DataAccepted(req[c], entities, CedarSchema(schema))
    BY <1>4, <2>2, IInvParts
    DEF AnswerStored, DataAccepted, StoresValid, ContentValid, Snapshot
  <2>4. Accepted(req[c], prev[c]) /\ Snapshot' = Result(req[c], prev[c])
    BY <1>1, <2>1, <2>2, <2>3 DEF Accepted, Result, Snapshot
  <2> QED
    BY <1>1, <1>4, <2>4, OkCommits DEF AnswerStored
<1>5. CASE RejectEntities(c)
  <2>1. Snapshot = prev[c]
    BY <1>2, <1>5 DEF RejectEntities, At, TaskKnows
  <2>2. ~Accepted(req[c], prev[c])
    BY <1>1, <1>5, <2>1 DEF RejectEntities, Accepted, DataAccepted, Snapshot, SchemaRead
  <2> QED
    BY <1>1, <1>5, <2>2, ErrorRefuses DEF RejectEntities, Answers
<1>6. CASE RollbackEntities(c)
  <2>1. ~SkipsInvalidation(req[c])
    BY <1>2, <1>6 DEF RollbackEntities, At, TaskKnows
  <2>2. PICK how \in Answers \ {"none", "ok"} : Finish(c, how)
    BY <1>6 DEF RollbackEntities, Answers
  <2> QED
    BY <1>1, <2>1, <2>2, ErrorRefuses
<1> QED
  BY <1>3, <1>4, <1>5, <1>6 DEF DataStep

LEMMA SchemaStepRefines ==
    ASSUME IInv, NEW c \in Clients, SchemaStep(c)
    PROVE  Strict!Refuse(c) \/ UNCHANGED Strict!avars
<1> USE KindsDisjoint
<1>1. pc[c] \in Locked /\ Task(c)
  BY DEF SchemaStep, RejectSchema, RevalidatePolicies, ReparseEntities, WriteSchema,
         RollbackSchema, RollbackSchemaPolicies, RollbackSchemaEntities, At, Locked, Steps, Task
<1>2. TaskKnows(c)
  BY <1>1, HolderKnows
<1>3. CASE \E how \in {"rejected", "rolled_back", "rollback_failed"} : Finish(c, how)
  <2>1. req[c].op \in SchemaOps
    <3>1. \/ pc[c] \in {"entities", "schema", "rollback_policies", "rollback_entities"}
          \/ req[c].op \in SchemaOps
      BY DEF SchemaStep, RejectSchema, RevalidatePolicies, ReparseEntities, WriteSchema,
             RollbackSchema, RollbackSchemaPolicies, RollbackSchemaEntities, At, SchemaOps
    <3>2. pc[c] \in {"entities", "schema"} => req[c].op \in SchemaOps
      BY <1>2 DEF TaskKnows, At
    <3> QED
      BY <1>2, <3>1, <3>2 DEF TaskKnows
  <2>2. ~SkipsInvalidation(req[c])
    BY <2>1 DEF SkipsInvalidation, SchemaOps
  <2> QED
    BY <1>1, <1>3, <2>2, ErrorRefuses DEF Answers
<1>4. CASE \E step \in Locked : Goto(c, step)
  BY <1>1, <1>4, GotoStutters
<1> QED
  BY <1>3, <1>4
  DEF SchemaStep, RejectSchema, RevalidatePolicies, ReparseEntities, WriteSchema,
      RollbackSchema, RollbackSchemaPolicies, RollbackSchemaEntities, Locked, Steps

LEMMA FlushRefines ==
    ASSUME IInv, NEW c \in Clients, Flush(c) \/ FlushFails(c) \/ RebuildCache(c)
    PROVE  Strict!Commit(c) \/ UNCHANGED Strict!avars
<1>1. pc[c] \in Locked /\ pc[c] \in {"flush", "rebuild"} /\ UNCHANGED stores
  BY DEF Flush, FlushFails, RebuildCache, Locked, Steps
<1>2. Accepted(req[c], prev[c]) /\ Snapshot = Result(req[c], prev[c])
  BY <1>1, HolderKnows DEF TaskKnows
<1>3. Snapshot' = Snapshot
  BY <1>1 DEF stores, Snapshot
<1>4. CASE Finish(c, "ok")
  BY <1>1, <1>2, <1>3, <1>4, OkCommits
<1>5. CASE \E step \in Locked : Goto(c, step)
  BY <1>1, <1>5, GotoStutters
<1> QED
  BY <1>4, <1>5 DEF Flush, FlushFails, RebuildCache, Locked, Steps

LEMMA StartIsStrict == Init => Strict!Init
<1> SUFFICES ASSUME Init
             PROVE  Strict!Init
  OBVIOUS
<1>1. IInv /\ Holding = {}
  BY InitInv DEF Init, Holding
<1>2. Committed = Snapshot /\ Snapshot \in Contained /\ ContentValid(Snapshot)
  BY <1>1, CommittedIs, IInvParts DEF LockFree, StoresValid, StoresTypeOK, Snapshot, Contained
<1> QED
  BY <1>2 DEF Init, Strict!Init, Outcome

\* A step that leaves stores and tasks alone, whatever it does to the cache.
LEMMA CacheIsInner == UNCHANGED <<stores, tasks>> => UNCHANGED Strict!avars
BY DEF stores, tasks, Strict!avars, Committed, LockFree, Holding, Snapshot

LEMMA NextIsStrict == IInv /\ [Next]_vars => [Strict!Next]_(Strict!avars)
<1> SUFFICES ASSUME IInv, [Next]_vars
             PROVE  Strict!Next \/ UNCHANGED Strict!avars
  OBVIOUS
<1>1. CASE UNCHANGED vars
  BY <1>1, CacheIsInner DEF vars
<1>2. ASSUME NEW c \in Clients, Request(c) \/ Task(c)
      PROVE  Strict!Next \/ UNCHANGED Strict!avars
  BY <1>2, RequestSubmits, BeginStutters, PolicyStepRefines, DataStepRefines,
     SchemaStepRefines, FlushRefines DEF Task, Strict!Next
<1> QED
  BY <1>1, <1>2 DEF Next

\* Every mutation takes effect at one moment between its request and its answer,
\* exactly once if it is answered with a success and not at all otherwise.
THEOREM Refinement == Spec => StrictSafety
BY StartIsStrict, NextIsStrict, Invariance, PTL DEF Spec, StrictSafety, Strict!Safety

-----------------------------------------------------------------------------
(* The cache.  A route that commits policies or entities ends in           *)
(* RebuildCache; every other end leaves what was committed, or its schema. *)

\* Both parts of the committed state that the cache mirrors, and the cache.
Mirrored == <<Committed.policies, Committed.entities, cache>>

LEMMA RequestMirrors ==
    ASSUME IInv, NEW c \in Clients, Request(c) \/ Begin(c)
    PROVE  UNCHANGED Mirrored
<1>1. UNCHANGED Committed
  BY RequestSubmits, BeginStutters DEF Strict!Submit, Strict!avars
<1> QED
  BY <1>1 DEF Mirrored, Request, Begin

\* A task that goes on changes neither what is committed nor the cache.
LEMMA GotoMirrors ==
    ASSUME IInv, NEW c \in Clients, pc[c] \in Locked, NEW step \in Locked, Goto(c, step),
           UNCHANGED cache
    PROVE  UNCHANGED Mirrored
BY GotoStutters DEF Strict!avars, Mirrored

\* A task that answers with the snapshot of policies and entities stored again.
LEMMA FinishMirrors ==
    ASSUME IInv, NEW c \in Clients, pc[c] \in Locked, NEW how \in Answers, Finish(c, how),
           policies' = prev[c].policies, entities' = prev[c].entities, UNCHANGED cache
    PROVE  UNCHANGED Mirrored
<1>1. Committed = prev[c] /\ Committed' = Snapshot'
  BY CommittedAfterFinish
<1> QED
  BY <1>1 DEF Mirrored, Snapshot

\* An error answer does so.
LEMMA ErrorMirrors ==
    ASSUME IInv, NEW c \in Clients, Task(c), pc[c] \in Locked,
           NEW how \in Answers \ {"ok"}, Finish(c, how), UNCHANGED cache
    PROVE  UNCHANGED Mirrored
<1>1. pc[c] # "idle" /\ pc'[c] = "idle" /\ answer'[c] # "ok"
  BY IInvParts DEF Finish, TasksInv, TasksTypeOK, Locked
<1>2. Snapshot' = prev[c]
  BY <1>1, ErrorRestores
<1>3. policies' = prev[c].policies /\ entities' = prev[c].entities
  BY <1>2 DEF Snapshot
<1> QED
  BY <1>3, FinishMirrors

LEMMA HoldersStep ==
    ASSUME NEW c \in Clients, PolicyStep(c) \/ DataStep(c) \/ SchemaStep(c)
    PROVE  pc[c] \in Locked /\ Task(c) /\ UNCHANGED cache
<1>1. pc[c] \in Locked
  BY DEF PolicyStep, DataStep, SchemaStep, WritePolicies, RejectPolicies, RollbackPolicies,
         WriteEntities, AnswerStored, RejectEntities, RollbackEntities, RejectSchema,
         RevalidatePolicies, ReparseEntities, WriteSchema, RollbackSchema,
         RollbackSchemaPolicies, RollbackSchemaEntities, At, Locked, Steps
<1>2. UNCHANGED cache
  BY DEF PolicyStep, DataStep, SchemaStep, WritePolicies, RejectPolicies, RollbackPolicies,
         WriteEntities, AnswerStored, RejectEntities, RollbackEntities, RejectSchema,
         RevalidatePolicies, ReparseEntities, WriteSchema, RollbackSchema,
         RollbackSchemaPolicies, RollbackSchemaEntities
<1> QED
  BY <1>1, <1>2 DEF Task

LEMMA RouteMirrors ==
    ASSUME IInv, NEW c \in Clients, PolicyStep(c) \/ DataStep(c) \/ SchemaStep(c)
    PROVE  UNCHANGED Mirrored
<1>1. pc[c] \in Locked /\ Task(c) /\ UNCHANGED cache
  BY HoldersStep
<1>2. CASE AnswerStored(c)
  <2>1. TaskKnows(c)
    BY <1>1, HolderKnows
  <2>2. policies' = prev[c].policies /\ entities' = prev[c].entities
    BY <1>2, <2>1 DEF AnswerStored, At, TaskKnows, Snapshot, stores
  <2> QED
    BY <1>1, <1>2, <2>2, FinishMirrors DEF AnswerStored, Answers
<1>3. CASE \E how \in {"rejected", "rolled_back", "rollback_failed"} : Finish(c, how)
  BY <1>1, <1>3, ErrorMirrors DEF Answers
<1>4. CASE \E step \in Locked : Goto(c, step)
  BY <1>1, <1>4, GotoMirrors
<1> QED
  BY <1>2, <1>3, <1>4
  DEF PolicyStep, DataStep, SchemaStep, WritePolicies, RejectPolicies, RollbackPolicies,
      WriteEntities, RejectEntities, RollbackEntities, RejectSchema,
      RevalidatePolicies, ReparseEntities, WriteSchema, RollbackSchema, RollbackSchemaPolicies,
      RollbackSchemaEntities, Locked, Steps

LEMMA FlushMirrors ==
    ASSUME IInv, NEW c \in Clients, Flush(c) \/ FlushFails(c)
    PROVE  UNCHANGED Mirrored
<1> USE KindsDisjoint
<1>1. pc[c] \in Locked /\ pc[c] = "flush" /\ UNCHANGED <<stores, cache>>
  BY DEF Flush, FlushFails, Locked, Steps
<1>2. CASE \E step \in Locked : Goto(c, step)
  BY <1>1, <1>2, GotoMirrors
<1>3. CASE req[c].op \in SchemaOps /\ Finish(c, "ok")
  <2>1. TaskKnows(c)
    BY <1>1, HolderKnows
  <2>2. policies' = prev[c].policies /\ entities' = prev[c].entities
    BY <1>1, <1>3, <2>1 DEF TaskKnows, stores
  <2> QED
    BY <1>1, <1>3, <2>2, FinishMirrors DEF Answers
<1> QED
  BY <1>2, <1>3 DEF Flush, FlushFails, Locked, Steps

\* The rebuild indexes exactly what its task commits.
LEMMA RebuildMirrors ==
    ASSUME IInv, NEW c \in Clients, RebuildCache(c)
    PROVE  CacheFresh'
<1>1. pc[c] \in Locked /\ Finish(c, "ok") /\ UNCHANGED stores
  BY DEF RebuildCache, Locked, Steps
<1>2. Committed' = Snapshot'
  BY <1>1, CommittedAfterFinish DEF Answers
<1>3. Committed'.policies = policies /\ Committed'.entities = entities
  BY <1>1, <1>2 DEF Snapshot, stores
<1>4. ASSUME Buildable(policies)
      PROVE  cache' = [policies |-> policies, entities |-> entities, conv |-> conv]
  BY <1>4 DEF RebuildCache, Rebuilt
<1>5. [policies |-> policies, entities |-> entities, conv |-> conv] \in Caches
  BY IInvParts DEF StoresTypeOK, Caches
<1>6. Buildable(Committed'.policies) => cache' # Absent
  BY <1>3, <1>4, <1>5, AgentAssumption
<1> QED
  BY <1>3, <1>4, <1>6 DEF CacheFresh, Buildable

LEMMA MirroredFresh ==
    ASSUME CacheFresh, UNCHANGED Mirrored
    PROVE  CacheFresh'
BY DEF CacheFresh, Mirrored, Buildable

\* No step of the mutation path makes the cache stale.
LEMMA FreshNext == IInv /\ CacheFresh /\ [Next]_vars => CacheFresh'
<1> SUFFICES ASSUME IInv, CacheFresh, [Next]_vars
             PROVE  CacheFresh'
  OBVIOUS
<1>1. CASE UNCHANGED vars
  <2>1. UNCHANGED Mirrored
    BY <1>1 DEF vars, stores, tasks, Mirrored, Committed, LockFree, Holding, Snapshot
  <2> QED
    BY <2>1, MirroredFresh
<1>2. ASSUME NEW c \in Clients, Request(c) \/ Task(c)
      PROVE  CacheFresh'
  <2>1. CASE RebuildCache(c)
    BY <2>1, RebuildMirrors
  <2>2. CASE UNCHANGED Mirrored
    BY <2>2, MirroredFresh
  <2> QED
    BY <1>2, <2>1, <2>2, RequestMirrors, RouteMirrors, FlushMirrors DEF Task
<1> QED
  BY <1>1, <1>2 DEF Next

LEMMA InitFresh == Init => CacheFresh
<1> SUFFICES ASSUME Init
             PROVE  CacheFresh
  OBVIOUS
<1>1. IInv /\ Holding = {}
  BY InitInv DEF Init, Holding
<1>2. Committed = Snapshot
  BY <1>1, CommittedIs DEF LockFree
<1>3. Committed.policies = policies /\ Committed.entities = entities
  BY <1>2 DEF Snapshot
<1>4. cache \in Caches \cup {Absent}
  BY <1>1, IInvParts DEF StoresTypeOK
<1>5. [policies |-> policies, entities |-> entities, conv |-> conv] \in Caches
  BY <1>1, IInvParts DEF StoresTypeOK, Caches
<1>6. Buildable(policies) =>
          cache = [policies |-> policies, entities |-> entities, conv |-> conv]
  BY DEF Init, Rebuilt
<1>7. Buildable(policies) => cache # Absent
  BY <1>5, <1>6, AgentAssumption
<1> QED
  BY <1>3, <1>6, <1>7 DEF CacheFresh

\* The poltree cache never serves anything but the committed state.
THEOREM CacheServesCommitted == Spec => []CacheFresh
BY InitFresh, FreshNext, Invariance, PTL DEF Spec

-----------------------------------------------------------------------------
(* The cedar copy of the entities.  Three steps of a schema change have it *)
(* parsed with another schema than the stored one.                         *)

Between == {"schema", "rollback_policies", "rollback_entities"}
Copied == schema = EmptySchema \/ entities = NoEntities \/ conv = schema

TaskCopy(c) ==
    /\ pc[c] \notin Between => Copied
    /\ pc[c] = "schema" => conv = NewSchema(c)

CopyInv == (LockFree => Copied) /\ \A c \in Holding : TaskCopy(c)

\* A task that goes on, or answers, is at the step it says.
LEMMA StepTaken ==
    ASSUME IInv, NEW c \in Clients
    PROVE  /\ \A step : Goto(c, step) => pc'[c] = step /\ UNCHANGED <<req, prev>>
           /\ \A how : Finish(c, how) => pc'[c] = "idle"
BY IInvParts DEF Goto, Finish, TasksInv, TasksTypeOK

LEMMA PolicyStepCopy ==
    ASSUME IInv, NEW c \in Clients, TaskCopy(c), PolicyStep(c)
    PROVE  TaskCopy(c)'
<1>1. pc[c] \in {"check", "rollback"} /\ UNCHANGED <<entities, conv, schema>>
  BY DEF PolicyStep, WritePolicies, RejectPolicies, RollbackPolicies, At, stores
<1>2. pc'[c] \in {"flush", "idle"}
  BY StepTaken DEF PolicyStep, WritePolicies, RejectPolicies, RollbackPolicies
<1> QED
  BY <1>1, <1>2 DEF TaskCopy, Copied, Between

\* A data route parses with the stored schema, or stores no entity.
LEMMA DataStepCopy ==
    ASSUME IInv, NEW c \in Clients, TaskCopy(c), DataStep(c)
    PROVE  TaskCopy(c)'
<1> USE KindsDisjoint
<1>1. pc[c] \in {"check", "rollback"} /\ req[c].op \in DataOps /\ UNCHANGED schema
  BY DEF DataStep, WriteEntities, AnswerStored, RejectEntities, RollbackEntities, At, stores
<1>2. schema = prev[c].schema
  BY <1>1, HolderKnows DEF TaskKnows, Locked, Steps
<1>3. pc'[c] \in {"flush", "rebuild", "idle"}
  BY StepTaken DEF DataStep, WriteEntities, AnswerStored, RejectEntities, RollbackEntities
<1>4. Copied
  BY <1>1 DEF TaskCopy, Between
<1>5. CASE WriteEntities(c)
  <2>1. req[c].op = "delete_entities" => entities' = NoEntities
    BY <1>5 DEF WriteEntities, DataResult
  <2>2. req[c].op # "delete_entities" => conv' = CedarSchema(schema)
    BY <1>2, <1>5 DEF WriteEntities, SchemaRead
  <2>3. Copied'
    BY <1>1, <2>1, <2>2 DEF Copied, CedarSchema
  <2> QED
    BY <1>3, <2>3 DEF TaskCopy
<1>6. CASE RollbackEntities(c)
  <2>1. conv' = CedarSchema(schema) \/ UNCHANGED <<entities, conv>>
    BY <1>6 DEF RollbackEntities
  <2>2. Copied'
    BY <1>1, <1>4, <2>1 DEF Copied, CedarSchema
  <2> QED
    BY <1>3, <2>2 DEF TaskCopy
<1>7. CASE AnswerStored(c) \/ RejectEntities(c)
  <2>1. Copied'
    BY <1>4, <1>7 DEF AnswerStored, RejectEntities, stores, Copied
  <2> QED
    BY <1>3, <2>1 DEF TaskCopy
<1> QED
  BY <1>5, <1>6, <1>7 DEF DataStep

\* A schema route parses the entities before it stores the schema, and its rollback
\* after it has; where that fails there was no schema, and there is none again.
LEMMA SchemaStepCopy ==
    ASSUME IInv, NEW c \in Clients, TaskCopy(c), SchemaStep(c)
    PROVE  TaskCopy(c)'
<1> USE KindsDisjoint
<1>1. CASE RejectSchema(c)
  <2>1. pc[c] \in {"check", "entities"} /\ UNCHANGED <<entities, conv, schema>> /\ pc'[c] = "idle"
    BY <1>1, StepTaken DEF RejectSchema, At, stores
  <2> QED
    BY <2>1 DEF TaskCopy, Copied, Between
<1>2. CASE RevalidatePolicies(c)
  <2>1. pc[c] = "check" /\ UNCHANGED <<entities, conv, schema>> /\ pc'[c] = "entities"
    BY <1>2, StepTaken DEF RevalidatePolicies, At, stores
  <2> QED
    BY <2>1 DEF TaskCopy, Copied, Between
<1>3. CASE ReparseEntities(c)
  <2>1. pc'[c] = "schema" /\ conv' = NewSchema(c) /\ UNCHANGED <<req, schema>>
    BY <1>3, StepTaken DEF ReparseEntities
  <2> QED
    BY <2>1 DEF TaskCopy, NewSchema, Between
<1>4. CASE WriteSchema(c)
  <2>1. pc'[c] = "flush" /\ schema' = NewSchema(c) /\ UNCHANGED conv
    BY <1>4, StepTaken DEF WriteSchema
  <2>2. CASE pc[c] = "schema"
    BY <2>1, <2>2 DEF TaskCopy, Copied
  <2>3. CASE req[c].op = "delete_schema"
    BY <2>1, <2>3 DEF TaskCopy, Copied, NewSchema, SchemaResult
  <2> QED
    BY <1>4, <2>2, <2>3 DEF WriteSchema, At
<1>5. CASE RollbackSchema(c)
  BY <1>5, StepTaken DEF RollbackSchema, TaskCopy, Between
<1>6. CASE RollbackSchemaPolicies(c) \/ RollbackSchemaEntities(c)
  <2>1. pc[c] \in {"rollback_policies", "rollback_entities"} /\ UNCHANGED schema
    BY <1>6 DEF RollbackSchemaPolicies, RollbackSchemaEntities
  <2>2. TaskKnows(c) /\ ContentValid(prev[c])
    BY <2>1, HolderKnows DEF Locked, Steps
  <2>3. schema = prev[c].schema
    BY <2>1, <2>2 DEF TaskKnows
  <2>4. schema # EmptySchema =>
            /\ PoliciesValid(prev[c].policies, prev[c].schema)
            /\ EntitiesValid(prev[c].entities, prev[c].schema)
    BY <2>2, <2>3 DEF ContentValid, CedarSchema
  <2>5. CASE RollbackSchemaPolicies(c)
    <3>1. \/ pc'[c] = "rollback_entities"
          \/ pc'[c] = "idle" /\ schema = EmptySchema
      BY <2>3, <2>4, <2>5, StepTaken DEF RollbackSchemaPolicies
    <3> QED
      BY <2>1, <3>1 DEF TaskCopy, Between, Copied
  <2>6. CASE RollbackSchemaEntities(c)
    <3>1. pc'[c] = "idle" /\ (conv' = prev[c].schema \/ schema = EmptySchema)
      BY <2>3, <2>4, <2>6, StepTaken DEF RollbackSchemaEntities
    <3> QED
      BY <2>1, <2>3, <3>1 DEF TaskCopy, Copied
  <2> QED
    BY <1>6, <2>5, <2>6
<1> QED
  BY <1>1, <1>2, <1>3, <1>4, <1>5, <1>6 DEF SchemaStep

LEMMA FlushCopy ==
    ASSUME IInv, NEW c \in Clients, TaskCopy(c), Flush(c) \/ FlushFails(c) \/ RebuildCache(c)
    PROVE  TaskCopy(c)'
<1>1. pc[c] \in {"flush", "rebuild"} /\ UNCHANGED <<entities, conv, schema>>
  BY DEF Flush, FlushFails, RebuildCache, stores
<1>2. pc'[c] \in {"rollback", "rebuild", "idle"}
  BY StepTaken DEF Flush, FlushFails, RebuildCache
<1> QED
  BY <1>1, <1>2 DEF TaskCopy, Copied, Between

\* A step of the holder of the lock leaves the lock with it, or free.
LEMMA HoldersLock ==
    ASSUME IInv, NEW c \in Clients, Task(c), ~Begin(c)
    PROVE  c \in Holding /\ (Holding' = {c} \/ (Holding' = {} /\ pc'[c] = "idle"))
<1>1. pc[c] \in Locked
  BY HoldersStep DEF Task, Flush, FlushFails, RebuildCache, Locked, Steps
<1>2. \/ \E step \in Locked : Goto(c, step)
      \/ \E how \in Answers : Finish(c, how)
  BY DEF Task, PolicyStep, DataStep, SchemaStep, WritePolicies, RejectPolicies,
     RollbackPolicies, WriteEntities, AnswerStored, RejectEntities, RollbackEntities,
     RejectSchema, RevalidatePolicies, ReparseEntities, WriteSchema, RollbackSchema,
     RollbackSchemaPolicies, RollbackSchemaEntities, Flush, FlushFails, RebuildCache,
     Locked, Steps, Answers
<1> QED
  BY <1>1, <1>2, GotoKeepsLock, FinishFreesLock, StepTaken, IInvParts DEF Holding, Locked

LEMMA CopyNext == IInv /\ CopyInv /\ [Next]_vars => CopyInv'
<1> SUFFICES ASSUME IInv, CopyInv, [Next]_vars
             PROVE  CopyInv'
  OBVIOUS
<1>1. CASE UNCHANGED vars
  BY <1>1 DEF vars, stores, tasks, CopyInv, TaskCopy, Copied, LockFree, Holding, NewSchema
<1>2. ASSUME NEW c \in Clients, Request(c)
      PROVE  CopyInv'
  <2>1. /\ Holding' = Holding /\ UNCHANGED <<entities, conv, schema>>
        /\ \A d \in Holding : pc'[d] = pc[d] /\ req'[d] = req[d]
    BY <1>2, IInvParts DEF Request, Holding, TasksInv, TasksTypeOK, stores
  <2> QED
    BY <2>1 DEF CopyInv, TaskCopy, Copied, LockFree, NewSchema, Holding
<1>3. ASSUME NEW c \in Clients, Begin(c)
      PROVE  CopyInv'
  <2>1. Holding = {} /\ UNCHANGED <<entities, conv, schema>>
    BY <1>3, IInvParts DEF Begin, TasksInv, MutualExclusion, HasLock, Holding, stores
  <2>2. Copied'
    BY <2>1 DEF CopyInv, LockFree, Copied
  <2>3. \A d \in Holding' : pc'[d] = "check"
    BY <1>3, <2>1, IInvParts DEF Begin, Holding, TasksInv, TasksTypeOK
  <2> QED
    BY <2>2, <2>3 DEF CopyInv, TaskCopy
<1>4. ASSUME NEW c \in Clients, Task(c), ~Begin(c)
      PROVE  CopyInv'
  <2>1. c \in Holding /\ (Holding' = {c} \/ (Holding' = {} /\ pc'[c] = "idle"))
    BY <1>4, HoldersLock
  <2>2. TaskCopy(c)'
    BY <1>4, <2>1, PolicyStepCopy, DataStepCopy, SchemaStepCopy, FlushCopy DEF Task, CopyInv
  <2> QED
    BY <2>1, <2>2 DEF CopyInv, TaskCopy, LockFree, Between
<1> QED
  BY <1>1, <1>2, <1>3, <1>4 DEF Next

\* Whenever no mutation is under way, the entities the authorizer evaluates are those
\* parsed with the stored schema: no route, and no rollback, leaves another copy.
THEOREM CopyStaysCurrent == Spec => []CedarCopyCurrent
<1>1. Init => CopyInv
  <2> SUFFICES ASSUME Init
               PROVE  CopyInv
    OBVIOUS
  <2>1. Copied
    BY DEF Init, Copied, LoadEntities, LoadSchema, CedarSchema
  <2>2. Holding = {}
    BY DEF Init, Holding
  <2> QED
    BY <2>1, <2>2 DEF CopyInv
<1>2. IInv /\ CopyInv /\ [Next]_vars => CopyInv'
  BY CopyNext
<1>3. CopyInv => CedarCopyCurrent
  BY DEF CopyInv, Copied, CedarCopyCurrent
<1> QED
  BY <1>1, <1>2, <1>3, Invariance, PTL DEF Spec

-----------------------------------------------------------------------------
(* The agent of AgentApi.  A write is the first step after which the task  *)
(* may have to restore something, RollbackSchema the only one that         *)
(* restores everything and goes on.                                        *)

LEMMA UndoIs ==
    ASSUME IInv
    PROVE  /\ LockFree => Undo = Absent
           /\ \A c \in Holding : Undo = IF pc[c] \in Written THEN prev[c] ELSE Absent
<1>1. \A c \in Clients : pc[c] \in Written => c \in Holding
  BY DEF Written, Holding
<1>2. \A c \in Holding : Head(queue) = c /\ Holding = {c}
  BY IInvParts DEF TasksInv, MutualExclusion, HasLock
<1> QED
  BY <1>1, <1>2 DEF Undo, LockFree, Holding

\* The same before and after a step of the task that has the lock.
LEMMA UndoSteps ==
    ASSUME IInv, NEW c \in Clients, pc[c] \in Locked,
           \/ \E step \in Locked : Goto(c, step)
           \/ \E how \in Answers : Finish(c, how)
    PROVE  /\ Undo = IF pc[c] \in Written THEN prev[c] ELSE Absent
           /\ Undo' = IF pc'[c] \in Written THEN prev[c] ELSE Absent
<1>1. c \in Holding
  BY DEF Holding, Locked
<1>2. CASE \E step \in Locked : Goto(c, step)
  <2>1. Holding' = {c} /\ prev' = prev /\ queue' = queue
    BY <1>2, GotoKeepsLock, IInvParts DEF Goto
  <2>2. Head(queue) = c
    BY <1>1, IInvParts DEF TasksInv, MutualExclusion, HasLock
  <2>3. \A d \in Clients : pc'[d] \in Written => d = c
    BY <2>1 DEF Written, Holding
  <2> QED
    BY <1>1, <2>1, <2>2, <2>3, UndoIs DEF Undo
<1>3. CASE \E how \in Answers : Finish(c, how)
  <2>1. Holding' = {}
    BY <1>3, FinishFreesLock, IInvParts
  <2>2. \A d \in Clients : pc'[d] \notin Written
    BY <2>1 DEF Written, Holding
  <2> QED
    BY <1>1, <2>2, UndoIs DEF Undo
<1> QED
  BY <1>2, <1>3

\* The routes of AgentApi are those of Stores.
LEMMA SameRoutes ==
    ASSUME NEW r, NEW st
    PROVE  Api!Accepted(r, st) = Accepted(r, st) /\ Api!Result(r, st) = Result(r, st)
<1>1. Api!Result(r, st) = Result(r, st)
  BY DEF PolicyOps, Api!PolicyOps, DataOps, Api!DataOps, PolicyResult, Api!PolicyResult,
      PoliciesOf, Api!PoliciesOf, DataResult, Api!DataResult, EntitiesOf, Api!EntitiesOf,
      NoEntities, Api!NoEntities, EmptyBody, Api!EmptyBody, Patched, Api!Patched, Names,
      Api!Names, Uids, Api!Uids, SchemaResult, Api!SchemaResult, Result, Api!Result
<1>2. Api!Accepted(r, st) = Accepted(r, st)
  BY DEF PolicyOps, Api!PolicyOps, DataOps, Api!DataOps, DataResult, Api!DataResult,
      EntitiesOf, Api!EntitiesOf, NoEntities, Api!NoEntities, EmptyBody, Api!EmptyBody,
      Patched, Api!Patched, Names, Api!Names, Uids, Api!Uids, SchemaResult,
      Api!SchemaResult, PolicyAccepted, Api!PolicyAccepted, PolicyValid, Api!PolicyValid,
      SameId, Api!SameId, DataAccepted, Api!DataAccepted, DataGuard, Api!DataGuard,
      SameUid, Api!SameUid, EntityPayload, Api!EntityPayload, Bodies, Api!Bodies,
      HasShape, Api!HasShape, SchemaGuard, Api!SchemaGuard, SchemaAccepted,
      Api!SchemaAccepted, PoliciesValid, Api!PoliciesValid, EntitiesValid,
      Api!EntitiesValid, Conforms, Api!Conforms, AttrConforms, Api!AttrConforms,
      CedarSchema, Api!CedarSchema, Accepted, Api!Accepted
<1> QED
  BY <1>1, <1>2

\* A task that writes has found what is stored.
LEMMA WriteIsWrite ==
    ASSUME IInv, IInv', NEW c \in Clients, pc[c] \in Locked \ Written, Snapshot = prev[c],
           NEW step \in {"flush", "rebuild"}, Goto(c, step)
    PROVE  Api!AgentNext
<1>1. step \in Locked /\ step \in Written
  BY DEF Locked, Steps, Written
<1>2. /\ c \in Holding' /\ pc'[c] = step /\ UNCHANGED <<req, prev>>
  BY <1>1, GotoKeepsLock, IInvParts DEF Goto
<1>3. Undo = Absent /\ Undo' = prev[c]
  BY <1>1, <1>2, UndoSteps
<1>4. TaskKnows(c)'
  BY <1>2 DEF IInv
<1>5. Accepted(req[c], prev[c]) /\ Snapshot' = Result(req[c], prev[c]) /\ req[c] \in Requests
  BY <1>2, <1>4 DEF TaskKnows
<1> QED
  BY <1>3, <1>5, SameRoutes DEF Api!AgentNext, Api!OthersWrite

\* A task that has written answers, or restores what it had found.
LEMMA EndIsEnd ==
    ASSUME IInv, NEW c \in Clients, pc[c] \in Locked \cap Written, pc'[c] \notin Written,
           \/ \E step \in Locked : Goto(c, step)
           \/ \E how \in Answers : Finish(c, how),
           Snapshot' \in {Snapshot, prev[c]}
    PROVE  Api!AgentNext
<1>1. Undo = prev[c] /\ Undo' = Absent
  BY UndoSteps
<1>2. prev[c] # Absent
  BY HolderKnows, AgentAssumption
<1> QED
  BY <1>1, <1>2 DEF Api!AgentNext, Api!OthersCommit, Api!OthersRollBack

\* Any other step changes nothing a client of the agent could see.
LEMMA InnerStutters ==
    ASSUME IInv, NEW c \in Clients, pc[c] \in Locked, pc[c] \in Written <=> pc'[c] \in Written,
           \/ \E step \in Locked : Goto(c, step)
           \/ \E how \in Answers : Finish(c, how),
           Snapshot' = Snapshot
    PROVE  UNCHANGED Api!agentVars
BY UndoSteps DEF Api!agentVars

LEMMA PolicyStepIsApi ==
    ASSUME IInv, IInv', NEW c \in Clients, PolicyStep(c)
    PROVE  Api!AgentNext \/ UNCHANGED Api!agentVars
<1>1. pc[c] \in Locked /\ Task(c) /\ TaskKnows(c)
  BY HoldersStep, HolderKnows
<1>2. CASE WritePolicies(c)
  <2>1. pc[c] = "check" /\ pc[c] \in Locked \ Written /\ Goto(c, "flush")
    BY <1>2 DEF WritePolicies, At, Locked, Steps, Written
  <2>2. Snapshot = prev[c]
    BY <1>1, <2>1 DEF TaskKnows
  <2> QED
    BY <2>1, <2>2, WriteIsWrite
<1>3. CASE RejectPolicies(c)
  <2>1. pc[c] \in Locked \ Written /\ Finish(c, "rejected") /\ UNCHANGED stores
    BY <1>3 DEF RejectPolicies, At, Locked, Steps, Written
  <2>2. Snapshot' = Snapshot /\ pc'[c] \notin Written
    BY <2>1, IInvParts DEF stores, Snapshot, Finish, Written, TasksInv, TasksTypeOK
  <2> QED
    BY <2>1, <2>2, InnerStutters DEF Answers
<1>4. CASE RollbackPolicies(c)
  <2>1. pc[c] \in Locked \cap Written /\ \E how \in {"rolled_back", "rollback_failed"} : Finish(c, how)
    BY <1>4 DEF RollbackPolicies, At, Locked, Steps, Written
  <2>2. pc'[c] = "idle" /\ pc'[c] \notin Written /\ answer'[c] # "ok"
    BY <2>1, IInvParts DEF Finish, Written, TasksInv, TasksTypeOK
  <2>3. Snapshot' = prev[c]
    BY <1>1, <2>2, ErrorRestores DEF Locked
  <2> QED
    BY <2>1, <2>2, <2>3, EndIsEnd DEF Answers
<1> QED
  BY <1>2, <1>3, <1>4 DEF PolicyStep

LEMMA DataStepIsApi ==
    ASSUME IInv, IInv', NEW c \in Clients, DataStep(c)
    PROVE  Api!AgentNext \/ UNCHANGED Api!agentVars
<1>1. pc[c] \in Locked /\ Task(c) /\ TaskKnows(c)
  BY HoldersStep, HolderKnows
<1>2. CASE WriteEntities(c)
  <2>1. pc[c] = "check" /\ pc[c] \in Locked \ Written
    BY <1>2 DEF WriteEntities, At, Locked, Steps, Written
  <2>2. \E step \in {"flush", "rebuild"} : Goto(c, step)
    BY <1>2 DEF WriteEntities
  <2>3. Snapshot = prev[c]
    BY <1>1, <2>1 DEF TaskKnows
  <2> QED
    BY <2>1, <2>2, <2>3, WriteIsWrite
<1>3. CASE AnswerStored(c) \/ RejectEntities(c)
  <2>1. pc[c] \in Locked \ Written /\ UNCHANGED stores /\ \E how \in Answers : Finish(c, how)
    BY <1>3 DEF AnswerStored, RejectEntities, At, Locked, Steps, Written, Answers
  <2>2. Snapshot' = Snapshot /\ pc'[c] \notin Written
    BY <2>1, IInvParts DEF stores, Snapshot, Finish, Written, TasksInv, TasksTypeOK
  <2> QED
    BY <2>1, <2>2, InnerStutters
<1>4. CASE RollbackEntities(c)
  <2>1. pc[c] \in Locked \cap Written /\ \E how \in {"rolled_back", "rollback_failed"} : Finish(c, how)
    BY <1>4 DEF RollbackEntities, At, Locked, Steps, Written
  <2>2. pc'[c] = "idle" /\ pc'[c] \notin Written /\ answer'[c] # "ok"
    BY <2>1, IInvParts DEF Finish, Written, TasksInv, TasksTypeOK
  <2>3. Snapshot' = prev[c]
    BY <1>1, <2>2, ErrorRestores DEF Locked
  <2> QED
    BY <2>1, <2>2, <2>3, EndIsEnd DEF Answers
<1> QED
  BY <1>2, <1>3, <1>4 DEF DataStep

\* The snapshot is restored with the schema: a schema change has left the rest alone.
LEMMA SchemaStepIsApi ==
    ASSUME IInv, IInv', NEW c \in Clients, SchemaStep(c)
    PROVE  Api!AgentNext \/ UNCHANGED Api!agentVars
<1> USE KindsDisjoint
<1>1. pc[c] \in Locked /\ TaskKnows(c) /\ prev[c] \in Contained
  BY HoldersStep, HolderKnows
<1>2. /\ \/ pc[c] \in {"entities", "schema", "rollback_policies", "rollback_entities"}
         \/ pc[c] \in {"check", "rollback"} /\ req[c].op \in SchemaOps
      /\ req[c].op \in SchemaOps
  BY <1>1
  DEF SchemaStep, RejectSchema, RevalidatePolicies, ReparseEntities, WriteSchema, RollbackSchema,
      RollbackSchemaPolicies, RollbackSchemaEntities, At, TaskKnows, SchemaOps
<1>3. policies = prev[c].policies /\ entities = prev[c].entities
  BY <1>1, <1>2 DEF TaskKnows
<1>4. CASE RejectSchema(c) \/ RevalidatePolicies(c) \/ ReparseEntities(c)
  <2>1. /\ pc[c] \in Locked \ Written /\ UNCHANGED <<policies, entities, schema>>
        /\ \/ \E step \in Locked \ Written : Goto(c, step)
           \/ \E how \in Answers : Finish(c, how)
    BY <1>4 DEF RejectSchema, RevalidatePolicies, ReparseEntities, At, Locked, Steps, Written,
                Answers, stores
  <2>2. Snapshot' = Snapshot /\ pc'[c] \notin Written
    BY <2>1, IInvParts DEF Snapshot, Finish, Goto, Written, TasksInv, TasksTypeOK
  <2> QED
    BY <2>1, <2>2, InnerStutters
<1>5. CASE WriteSchema(c)
  <2>1. pc[c] \in Locked \ Written /\ Goto(c, "flush")
    BY <1>5 DEF WriteSchema, At, Locked, Steps, Written
  <2>2. schema = prev[c].schema
    BY <1>1, <2>1 DEF TaskKnows, Written
  <2>3. Snapshot = prev[c]
    BY <1>1, <1>3, <2>2 DEF Snapshot, Contained
  <2> QED
    BY <2>1, <2>3, WriteIsWrite
<1>6. CASE RollbackSchema(c)
  <2>1. pc[c] \in Locked \cap Written /\ Goto(c, "rollback_policies")
    BY <1>6 DEF RollbackSchema, At, Locked, Steps, Written
  <2>2. pc'[c] \notin Written /\ "rollback_policies" \in Locked
    BY <2>1, IInvParts DEF Goto, Written, Locked, Steps, TasksInv, TasksTypeOK
  <2>3. Snapshot' = prev[c]
    BY <1>1, <1>3, <1>6 DEF RollbackSchema, Snapshot, Contained
  <2> QED
    BY <2>1, <2>2, <2>3, EndIsEnd
<1>7. CASE RollbackSchemaPolicies(c) \/ RollbackSchemaEntities(c)
  <2>1. /\ pc[c] \in Locked \ Written
        /\ \/ \E step \in Locked \ Written : Goto(c, step)
           \/ \E how \in Answers : Finish(c, how)
    BY <1>7 DEF RollbackSchemaPolicies, RollbackSchemaEntities, Locked, Steps, Written, Answers
  <2>2. UNCHANGED <<policies, entities, schema>>
    BY <1>3, <1>7 DEF RollbackSchemaPolicies, RollbackSchemaEntities
  <2>3. Snapshot' = Snapshot /\ pc'[c] \notin Written
    BY <2>1, <2>2, IInvParts DEF Snapshot, Finish, Goto, Written, TasksInv, TasksTypeOK
  <2> QED
    BY <2>1, <2>3, InnerStutters
<1> QED
  BY <1>4, <1>5, <1>6, <1>7 DEF SchemaStep

LEMMA FlushIsApi ==
    ASSUME IInv, NEW c \in Clients, Flush(c) \/ FlushFails(c) \/ RebuildCache(c)
    PROVE  Api!AgentNext \/ UNCHANGED Api!agentVars
<1>1. pc[c] \in Locked \cap Written /\ UNCHANGED stores
  BY DEF Flush, FlushFails, RebuildCache, Locked, Steps, Written
<1>2. Snapshot' = Snapshot
  BY <1>1 DEF stores, Snapshot
<1>3. CASE Finish(c, "ok")
  <2>1. pc'[c] \notin Written
    BY <1>3, IInvParts DEF Finish, Written, TasksInv, TasksTypeOK
  <2> QED
    BY <1>1, <1>2, <1>3, <2>1, EndIsEnd DEF Answers
<1>4. CASE \E step \in {"rebuild", "rollback"} : Goto(c, step)
  <2>1. pc'[c] \in Written /\ \E step \in Locked : Goto(c, step)
    BY <1>4, IInvParts DEF Goto, Written, Locked, Steps, TasksInv, TasksTypeOK
  <2> QED
    BY <1>1, <1>2, <2>1, InnerStutters
<1> QED
  BY <1>3, <1>4 DEF Flush, FlushFails, RebuildCache

\* A request that arrives, and a task that gets the lock, have written nothing.
LEMMA BeginIsApi ==
    ASSUME IInv, NEW c \in Clients, Request(c) \/ Begin(c)
    PROVE  UNCHANGED Api!agentVars
<1>1. Snapshot' = Snapshot
  BY DEF Request, Begin, stores, Snapshot
<1>2. \A d \in Clients : pc'[d] \in Written <=> pc[d] \in Written
  BY IInvParts DEF Request, Begin, Written, TasksInv, TasksTypeOK
<1>3. CASE LockFree
  <2>1. \A d \in Clients : pc[d] \notin Written
    BY <1>3 DEF LockFree, Holding, Written
  <2> QED
    BY <1>1, <1>2, <2>1 DEF Undo, Api!agentVars
<1>4. ASSUME NEW d \in Holding
      PROVE  UNCHANGED Undo
  <2>1. Head(queue) = d /\ queue # <<>> /\ d \in Clients /\ pc[d] \notin {"idle", "queued"}
    BY <1>4, IInvParts DEF TasksInv, MutualExclusion, HasLock, Holding
  <2>2. Request(c) /\ c # d
    BY <2>1 DEF Request, Begin, HasLock
  <2>3. Head(queue') = d /\ prev' = prev
    BY <2>1, <2>2, IInvParts DEF Request, TasksInv, TasksTypeOK
  <2> QED
    BY <1>2, <2>1, <2>3 DEF Undo
<1> QED
  BY <1>1, <1>3, <1>4 DEF LockFree, Api!agentVars

\* Seen from outside, the stores are the agent the dashboard is modelled with: one write
\* at a time, of an acceptable request, and then its end, or all that was there before.
THEOREM AgentImplementsApi == Spec => ImplementsAgentApi
<1>1. Init => Api!AgentInit
  <2> SUFFICES ASSUME Init
               PROVE  Api!AgentInit
    OBVIOUS
  <2>1. IInv /\ LockFree
    BY InitInv DEF Init, LockFree, Holding
  <2>2. Undo = Absent /\ Snapshot \in Contained
    BY <2>1, UndoIs, IInvParts DEF StoresTypeOK, Snapshot, Contained
  <2> QED
    BY <2>2
    DEF Api!AgentInit, Api!Contained, Api!Policies, Api!Entities, Api!Schemas, Api!Shapes,
        Api!Decls, Api!Bodies, Api!Uids, Contained, Policies, Entities, Schemas, Shapes, Decls,
        Bodies, Uids
<1>2. IInv /\ IInv' /\ [Next]_vars => [Api!AgentNext]_(Api!agentVars)
  <2> SUFFICES ASSUME IInv, IInv', [Next]_vars
               PROVE  Api!AgentNext \/ UNCHANGED Api!agentVars
    OBVIOUS
  <2>1. CASE UNCHANGED vars
    BY <2>1 DEF vars, stores, tasks, Api!agentVars, Undo, Snapshot
  <2>2. ASSUME NEW c \in Clients, Request(c) \/ Task(c)
        PROVE  Api!AgentNext \/ UNCHANGED Api!agentVars
    BY <2>2, BeginIsApi, PolicyStepIsApi, DataStepIsApi, SchemaStepIsApi, FlushIsApi DEF Task
  <2> QED
    BY <2>1, <2>2 DEF Next
<1> QED
  BY <1>1, <1>2, Invariance, PTL DEF Spec, ImplementsAgentApi, Api!AgentSpec
=============================================================================
