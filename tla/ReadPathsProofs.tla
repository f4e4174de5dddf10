-------------------------- MODULE ReadPathsProofs --------------------------
(***************************************************************************)
(* Proofs about the readers beside the mutation path, for every number of  *)
(* clients: the databases of Invalidation, for every set of databases and  *)
(* of target lists, and the poltree requests of PoltreeAuthorizer.  The    *)
(* steps of either are steps of CedarAgent, or leave its stores alone, so  *)
(* that what is proved of the mutation path holds beside them, too.        *)
(***************************************************************************)
EXTENDS Invalidation, PoltreeAuthorizer, CedarAgentProofs

\* What a database has is of the state that is stored.
UpToDate(decision) == decision = Absent \/ decision.excused \/ Agrees(decision, Snapshot)
Current(d) == UpToDate(held[d]) /\ UpToDate(asked[d])

\* The invalidation under way is that of the task that has the lock, and the
\* database of a target that has run its statement is current.
FlushingInv ==
    flushing # Absent =>
        /\ \E c \in Clients : pc[c] = "flush"
        /\ \A t \in DOMAIN flushing : flushing[t] \in {"executed", "done"} => Current(t.dsn)

\* Once the invalidation is over, every database is.
RebuildingInv == \A c \in Clients : pc[c] = "rebuild" => \A d \in Databases : Current(d)

DatabasesInv ==
    IInv /\ InvalidationTypeOK /\ StaleHasReason /\ FlushingInv /\ RebuildingInv

-----------------------------------------------------------------------------
(* The steps of the mutation path. *)

LEMMA NextIsNext == [InvalidationNext]_allvars => [Next]_vars
<1> SUFFICES ASSUME [InvalidationNext]_allvars
             PROVE  [Next]_vars
  OBVIOUS
<1>1. CASE UNCHANGED allvars
  BY <1>1 DEF allvars
<1>2. CASE ReplaceTargets
  BY <1>2 DEF ReplaceTargets
<1>3. ASSUME NEW d \in Databases,
             AskPolicies(d) \/ AskEntities(d) \/ CacheDecision(d) \/ Forget(d)
      PROVE  UNCHANGED vars
  BY <1>3 DEF AskPolicies, AskEntities, CacheDecision, Forget
<1>4. ASSUME NEW t \in Targets, TargetTask(t)
      PROVE  UNCHANGED vars
  BY <1>4 DEF TargetTask, GetPool, Connected, ConnectFails, Execute, Answered, StatementFails
<1>5. ASSUME NEW c \in Clients, ListTargets(c) \/ FlushEnds(c) \/ FlushGivesUp(c) \/ OtherStep(c)
      PROVE  [Next]_vars
  <2>1. CASE ListTargets(c)
    BY <2>1 DEF ListTargets
  <2>2. CASE FlushEnds(c) \/ FlushGivesUp(c)
    BY <2>2 DEF FlushEnds, FlushGivesUp, Next, Task
  <2>3. CASE OtherStep(c)
    BY <2>3 DEF OtherStep, Next
  <2> QED
    BY <1>5, <2>1, <2>2, <2>3
<1> QED
  BY <1>1, <1>2, <1>3, <1>4, <1>5 DEF InvalidationNext

\* Beside databases and target lists, the mutation path takes no step it does not
\* take in CedarAgent: the invariants proved of it hold of the composed system.
THEOREM MutationsUnchanged == InvalidationSpec => Init /\ [][Next]_vars
<1>1. InvalidationInit => Init
  BY DEF InvalidationInit
<1>2. [InvalidationNext]_allvars => [Next]_vars
  BY NextIsNext
<1> QED
  BY <1>1, <1>2, PTL DEF InvalidationSpec

-----------------------------------------------------------------------------
(* What the databases have. *)

DecisionMaps == [Databases -> Decisions \cup {Absent}]

LEMMA ExcuseType ==
    ASSUME NEW f \in DecisionMaps, NEW ds, NEW state
    PROVE  Excuse(f, ds, state) \in DecisionMaps
<1>1. ASSUME NEW d \in Databases, f[d] # Absent
      PROVE  [f[d] EXCEPT !.excused = TRUE] \in Decisions
  <2>1. f[d] \in Decisions
    BY <1>1 DEF DecisionMaps
  <2> QED
    BY <2>1 DEF Decisions
<1> QED
  BY <1>1 DEF Excuse, DecisionMaps

\* A decision that is excused is still there, and one that is not is as it was.
LEMMA ExcuseKeeps ==
    ASSUME NEW f \in DecisionMaps, NEW ds, NEW state, NEW d \in Databases
    PROVE  \/ Excuse(f, ds, state)[d] = f[d] /\ (d \in ds /\ f[d] # Absent => Agrees(f[d], state))
           \/ Excuse(f, ds, state)[d] # Absent /\ Excuse(f, ds, state)[d].excused
<1>1. CASE d \in ds /\ f[d] # Absent /\ ~Agrees(f[d], state)
  <2>1. Excuse(f, ds, state)[d] = [f[d] EXCEPT !.excused = TRUE]
    BY <1>1 DEF Excuse
  <2>2. f[d] \in Decisions
    BY <1>1 DEF DecisionMaps
  <2>3. Excuse(f, ds, state)[d] \in Decisions /\ Excuse(f, ds, state)[d].excused
    BY <2>1, <2>2 DEF Decisions
  <2> QED
    BY <2>3, InvalidationAssumption
<1>2. CASE ~(d \in ds /\ f[d] # Absent /\ ~Agrees(f[d], state))
  BY <1>2 DEF Excuse
<1> QED
  BY <1>1, <1>2

-----------------------------------------------------------------------------
(* What is stored and what is committed. *)

SameState == Snapshot' = Snapshot /\ Committed' = Committed /\ Holding' = Holding

LEMMA UnchangedState ==
    ASSUME UNCHANGED vars
    PROVE  SameState /\ pc' = pc
BY DEF SameState, vars, stores, tasks, Snapshot, Committed, LockFree, Holding

\* A mutation changes policies or entities, not both.
LEMMA OneStore ==
    ASSUME IInv
    PROVE  policies = Committed.policies \/ entities = Committed.entities
<1>1. CASE LockFree
  BY <1>1, CommittedIs DEF Snapshot
<1>2. ASSUME NEW c \in Holding
      PROVE  policies = Committed.policies \/ entities = Committed.entities
  <2>1. Committed = prev[c] /\ TaskKnows(c)
    BY <1>2, CommittedIs DEF IInv
  <2>2. req[c].op \notin PolicyOps \/ req[c].op \notin DataOps
    BY KindsDisjoint
  <2> QED
    BY <2>1, <2>2 DEF TaskKnows
<1> QED
  BY <1>1, <1>2 DEF LockFree

\* What is stored changes with the first write of a mutation and its rollback only.
LEMMA ContentChanges ==
    ASSUME IInv, NEW c \in Clients, Request(c) \/ Task(c), pc[c] # "rollback"
    PROVE  \/ policies' = policies /\ entities' = entities
           \/ Committed = Snapshot
<1>1. CASE pc[c] = "check"
  <2>1. c \in Holding /\ TaskKnows(c)
    BY <1>1 DEF Holding, IInv
  <2> QED
    BY <1>1, <2>1, CommittedIs DEF TaskKnows
<1>2. CASE pc[c] = "rollback_policies" \/ pc[c] = "rollback_entities"
  <2>1. TaskKnows(c) /\ req[c].op \in SchemaOps
    BY <1>2, HolderKnows DEF TaskKnows, Locked, Steps
  <2>2. policies = prev[c].policies /\ entities = prev[c].entities
    BY <2>1, KindsDisjoint DEF TaskKnows
  <2>3. RollbackSchemaPolicies(c) \/ RollbackSchemaEntities(c) =>
            policies' = policies /\ entities' = entities
    BY <2>2 DEF RollbackSchemaPolicies, RollbackSchemaEntities
  <2> QED
    BY <1>2, <2>3 DEF Request, Task, PolicyStep, DataStep, SchemaStep, Begin, WritePolicies,
       RejectPolicies, RollbackPolicies, WriteEntities, AnswerStored, RejectEntities,
       RollbackEntities, RejectSchema, RevalidatePolicies, ReparseEntities, WriteSchema,
       RollbackSchema, Flush, FlushFails, RebuildCache, At, stores
<1>3. CASE pc[c] \notin {"check", "rollback_policies", "rollback_entities"}
  BY <1>3 DEF Request, Task, PolicyStep, DataStep, SchemaStep, Begin, WritePolicies,
     RejectPolicies, RollbackPolicies, WriteEntities, AnswerStored, RejectEntities,
     RollbackEntities, RejectSchema, RevalidatePolicies, ReparseEntities, WriteSchema,
     RollbackSchema, RollbackSchemaPolicies, RollbackSchemaEntities, Flush, FlushFails,
     RebuildCache, At, stores
<1> QED
  BY <1>1, <1>2, <1>3

-----------------------------------------------------------------------------
(* The steps, which leave everything typed.                                *)

LEMMA TypeStep ==
    ASSUME DatabasesInv, InvalidationNext
    PROVE  InvalidationTypeOK'
<1> USE DEF InvalidationTypeOK
<1>1. CASE ReplaceTargets
  BY <1>1 DEF ReplaceTargets, DatabasesInv, dvars
<1>2. ASSUME NEW d \in Databases,
             AskPolicies(d) \/ AskEntities(d) \/ CacheDecision(d) \/ Forget(d)
      PROVE  InvalidationTypeOK'
  <2>1. policies \in Policies /\ entities \in Entities
    BY IInvParts DEF DatabasesInv, StoresTypeOK
  <2>2. CASE AskPolicies(d)
    <3>1. [policies |-> policies, entities |-> Absent, excused |-> FALSE] \in Decisions
      BY <2>1 DEF Decisions
    <3> QED
      BY <2>2, <3>1 DEF AskPolicies, DatabasesInv, ivars
  <2>3. CASE AskEntities(d)
    <3>1. asked[d] \in Decisions
      BY <2>3 DEF AskEntities, DatabasesInv
    <3>2. [asked[d] EXCEPT !.entities = entities] \in Decisions
      BY <2>1, <3>1 DEF Decisions
    <3> QED
      BY <2>3, <3>2 DEF AskEntities, DatabasesInv, ivars
  <2>4. CASE CacheDecision(d) \/ Forget(d)
    BY <2>4 DEF CacheDecision, Forget, DatabasesInv, ivars
  <2> QED
    BY <1>2, <2>2, <2>3, <2>4
<1>3. ASSUME NEW t \in Targets, TargetTask(t)
      PROVE  InvalidationTypeOK'
  <2>1. t.kind \in {"postgres", "mysql"} /\ t.dsn \in Databases
    BY InvalidationAssumption DEF Targets
  <2>2. ASSUME NEW step \in TaskSteps, TaskGoes(t, step), flushing # Absent
        PROVE  flushing' \in Flushings
    <3>1. PICK ts \in SUBSET Targets : flushing \in [ts -> TaskSteps]
      BY <2>2 DEF DatabasesInv, Flushings
    <3>2. flushing' \in [ts -> TaskSteps]
      BY <2>2, <3>1 DEF TaskGoes
    <3> QED
      BY <3>2 DEF Flushings
  <2>3. CASE Execute(t)
    <3>1. asked' \in DecisionMaps
      BY <2>3, ExcuseType DEF Execute, DatabasesInv, DecisionMaps
    <3> QED
      BY <2>2, <2>3, <3>1 DEF Execute, TaskAt, TaskSteps, DatabasesInv, DecisionMaps
  <2>4. CASE Connected(t)
    BY <2>1, <2>2, <2>4 DEF Connected, TaskAt, TaskSteps, DatabasesInv, dvars
  <2>5. CASE GetPool(t)
    BY <2>2, <2>5 DEF GetPool, TaskAt, TaskSteps, DatabasesInv, dvars
  <2>6. CASE ConnectFails(t) \/ Answered(t) \/ StatementFails(t)
    BY <2>2, <2>6 DEF ConnectFails, Answered, StatementFails, TaskAt, TaskSteps,
       DatabasesInv, dvars
  <2> QED
    BY <1>3, <2>3, <2>4, <2>5, <2>6 DEF TargetTask
<1>4. ASSUME NEW c \in Clients, ListTargets(c)
      PROVE  InvalidationTypeOK'
  <2>1. Enabled(targets) \in SUBSET Targets
    BY DEF Enabled, Targets, DatabasesInv
  <2>2. flushing' \in [Enabled(targets) -> TaskSteps]
    BY <1>4 DEF ListTargets, TaskSteps
  <2>3. flushing' \in Flushings
    BY <2>1, <2>2 DEF Flushings
  <2> QED
    BY <1>4, <2>3 DEF ListTargets, DatabasesInv, dvars
<1>5. ASSUME NEW c \in Clients, FlushEnds(c) \/ FlushGivesUp(c) \/ OtherStep(c)
      PROVE  InvalidationTypeOK'
  <2>1. held \in DecisionMaps /\ asked \in DecisionMaps
    BY DEF DatabasesInv, DecisionMaps
  <2>2. held' \in DecisionMaps /\ asked' \in DecisionMaps
    BY <1>5, <2>1, ExcuseType DEF FlushEnds, FlushGivesUp, OtherStep, dvars
  <2>3. UNCHANGED <<targets, pools>> /\ flushing' \in {flushing, Absent}
    BY <1>5 DEF FlushEnds, FlushGivesUp, OtherStep, ivars
  <2> QED
    BY <2>2, <2>3 DEF DecisionMaps, DatabasesInv
<1> QED
  BY <1>1, <1>2, <1>3, <1>4, <1>5 DEF InvalidationNext

-----------------------------------------------------------------------------
(* The steps of databases and targets: nothing is stored.                  *)

\* A decision that stays, or is excused, stays justified and up to date.
LEMMA ExcuseJustified ==
    ASSUME NEW f \in DecisionMaps, NEW ds, NEW d \in Databases
    PROVE  /\ Justified(f[d]) => Justified(Excuse(f, ds, Snapshot)[d])
           /\ UpToDate(f[d]) => UpToDate(Excuse(f, ds, Snapshot)[d])
           /\ d \in ds => UpToDate(Excuse(f, ds, Snapshot)[d])
BY ExcuseKeeps DEF Justified, UpToDate

\* Only the decisions matter to what is left of the invariant.
LEMMA DecisionsStep ==
    ASSUME DatabasesInv, UNCHANGED <<vars, flushing>>,
           \A d \in Databases :
               /\ Justified(held'[d]) /\ Justified(asked'[d])
               /\ Current(d) => UpToDate(held'[d]) /\ UpToDate(asked'[d])
    PROVE  StaleHasReason' /\ FlushingInv' /\ RebuildingInv'
<1>1. SameState /\ pc' = pc
  BY UnchangedState
<1>2. ASSUME NEW d \in Databases
      PROVE  Justified(held[d])' /\ Justified(asked[d])' /\ (Current(d) => Current(d)')
  BY <1>1, <1>2 DEF SameState, Justified, Current, UpToDate
<1>3. flushing # Absent => \A t \in DOMAIN flushing : t.dsn \in Databases
  <2> SUFFICES ASSUME flushing # Absent, NEW t \in DOMAIN flushing
               PROVE  t.dsn \in Databases
    OBVIOUS
  <2>1. t \in Targets
    BY DEF DatabasesInv, InvalidationTypeOK, Flushings
  <2> QED
    BY <2>1, InvalidationAssumption DEF Targets
<1> QED
  BY <1>1, <1>2, <1>3 DEF DatabasesInv, StaleHasReason, FlushingInv, RebuildingInv

LEMMA DatabaseStep ==
    ASSUME DatabasesInv, NEW d \in Databases,
           AskPolicies(d) \/ AskEntities(d) \/ CacheDecision(d) \/ Forget(d)
    PROVE  StaleHasReason' /\ FlushingInv' /\ RebuildingInv'
<1>0. held \in DecisionMaps /\ asked \in DecisionMaps
  BY DEF DatabasesInv, InvalidationTypeOK, DecisionMaps
<1>1. ASSUME NEW x \in Databases
      PROVE  Justified(held[x]) /\ Justified(asked[x])
  BY DEF DatabasesInv, StaleHasReason
<1>2. Snapshot.policies = policies /\ Snapshot.entities = entities
  BY DEF Snapshot
<1>3. UNCHANGED <<vars, flushing>>
  BY DEF AskPolicies, AskEntities, CacheDecision, Forget, ivars
<1>4. CASE AskPolicies(d)
  <2>1. UpToDate([policies |-> policies, entities |-> Absent, excused |-> FALSE])
    BY <1>2 DEF UpToDate, Agrees
  <2>2. Justified([policies |-> policies, entities |-> Absent, excused |-> FALSE])
    BY <1>2 DEF Justified, Agrees
  <2>3. \A x \in Databases :
          asked'[x] \in {asked[x], [policies |-> policies, entities |-> Absent, excused |-> FALSE]}
    BY <1>0, <1>4 DEF AskPolicies, DecisionMaps
  <2> QED
    BY <1>1, <1>3, <1>4, <2>1, <2>2, <2>3, DecisionsStep DEF AskPolicies, Current
<1>5. CASE AskEntities(d)
  <2> DEFINE new == [asked[d] EXCEPT !.entities = entities]
  <2>1. /\ asked[d] \in Decisions /\ asked[d].entities = Absent
        /\ \A x \in Databases : asked'[x] = IF x = d THEN new ELSE asked[x]
    BY <1>0, <1>5 DEF AskEntities, DecisionMaps
  <2>2. /\ new.policies = asked[d].policies /\ new.entities = entities
        /\ new.excused = asked[d].excused
    BY <2>1 DEF Decisions
  <2>3. asked[d] # Absent
    BY <1>5 DEF AskEntities
  <2>4. UpToDate(asked[d]) => UpToDate(new)
    BY <1>2, <2>2, <2>3 DEF UpToDate, Agrees
  <2>5. Justified(new)
    <3>1. CASE asked[d].excused \/ Agrees(asked[d], Snapshot)
      BY <1>2, <2>2, <3>1 DEF Justified, Agrees
    <3>2. CASE Agrees(asked[d], Committed)
      <4>1. policies = Committed.policies \/ entities = Committed.entities
        BY OneStore DEF DatabasesInv
      <4> QED
        BY <1>2, <2>2, <3>2, <4>1 DEF Justified, Agrees
    <3> QED
      BY <1>1, <2>3, <3>1, <3>2 DEF Justified
  <2> HIDE DEF new
  <2> QED
    BY <1>1, <1>3, <1>5, <2>1, <2>4, <2>5, DecisionsStep DEF AskEntities, Current
<1>6. CASE CacheDecision(d)
  <2>1. \A x \in Databases : /\ held'[x] \in {held[x], asked[x]}
                            /\ asked'[x] \in {asked[x], Absent}
    BY <1>0, <1>6 DEF CacheDecision, DecisionMaps
  <2> QED
    BY <1>1, <1>3, <2>1, DecisionsStep DEF Current, UpToDate, Justified
<1>7. CASE Forget(d)
  <2>1. \A x \in Databases : held'[x] \in {held[x], Absent} /\ asked'[x] = asked[x]
    BY <1>0, <1>7 DEF Forget, DecisionMaps
  <2> QED
    BY <1>1, <1>3, <2>1, DecisionsStep DEF Current, UpToDate, Justified
<1> QED
  BY <1>4, <1>5, <1>6, <1>7

LEMMA TargetStep ==
    ASSUME DatabasesInv, NEW t \in Targets, TargetTask(t)
    PROVE  StaleHasReason' /\ FlushingInv' /\ RebuildingInv'
<1>0. /\ held \in DecisionMaps /\ asked \in DecisionMaps
      /\ t.dsn \in Databases
  BY InvalidationAssumption DEF DatabasesInv, InvalidationTypeOK, DecisionMaps, Targets
<1>1. PICK step : /\ UNCHANGED vars /\ flushing # Absent /\ t \in DOMAIN flushing
                  /\ TaskGoes(t, step)
                  /\ \/ Execute(t)
                     \/ UNCHANGED dvars /\ (step = "done" => flushing[t] = "executed")
                                        /\ step # "executed"
  BY DEF TargetTask, GetPool, Connected, ConnectFails, Execute, Answered, StatementFails, TaskAt
<1>2. SameState /\ pc' = pc
  BY <1>1, UnchangedState
<1>3. ASSUME NEW d \in Databases
      PROVE  /\ Justified(held[d])' /\ Justified(asked[d])'
             /\ Current(d) => Current(d)'
             /\ Execute(t) /\ d = t.dsn => Current(d)'
  <2>1. Justified(held[d]) /\ Justified(asked[d])
    BY DEF DatabasesInv, StaleHasReason
  <2>2. CASE UNCHANGED dvars /\ ~Execute(t)
    BY <1>2, <2>1, <2>2 DEF SameState, Justified, Current, UpToDate, dvars
  <2>3. CASE Execute(t)
    <3>1. held'[d] = (IF d = t.dsn THEN Absent ELSE held[d])
      BY <1>0, <2>3 DEF Execute, DecisionMaps
    <3>2. /\ Justified(asked'[d])
          /\ UpToDate(asked[d]) => UpToDate(asked'[d])
          /\ d = t.dsn => UpToDate(asked'[d])
      BY <1>0, <2>1, <2>3, ExcuseJustified DEF Execute
    <3> QED
      BY <1>2, <2>1, <3>1, <3>2 DEF SameState, Justified, Current, UpToDate
  <2> QED
    BY <1>1, <2>2, <2>3
<1>4. PICK ts \in SUBSET Targets : flushing \in [ts -> TaskSteps]
  BY <1>1 DEF DatabasesInv, InvalidationTypeOK, Flushings
<1>5. /\ DOMAIN flushing' = ts
      /\ \A u \in ts : flushing'[u] = IF u = t THEN step ELSE flushing[u]
  BY <1>1, <1>4 DEF TaskGoes
<1>6. ASSUME NEW u \in ts, flushing'[u] \in {"executed", "done"}
      PROVE  Current(u.dsn)'
  <2>1. u.dsn \in Databases
    BY <1>4, InvalidationAssumption DEF Targets
  <2>2. CASE u # t \/ flushing[u] \in {"executed", "done"}
    <3>1. flushing[u] \in {"executed", "done"}
      BY <1>5, <1>6, <2>2
    <3>2. Current(u.dsn)
      BY <1>1, <1>4, <3>1 DEF DatabasesInv, FlushingInv
    <3> QED
      BY <1>3, <2>1, <3>2
  <2>3. CASE u = t /\ flushing[u] \notin {"executed", "done"}
    <3>1. Execute(t)
      BY <1>1, <1>5, <1>6, <2>3
    <3> QED
      BY <1>3, <2>1, <2>3, <3>1
  <2> QED
    BY <2>2, <2>3
<1>7. FlushingInv'
  BY <1>1, <1>2, <1>5, <1>6 DEF DatabasesInv, FlushingInv
<1> QED
  BY <1>2, <1>3, <1>7 DEF DatabasesInv, StaleHasReason, RebuildingInv

LEMMA ListStep ==
    ASSUME DatabasesInv, ReplaceTargets \/ (\E c \in Clients : ListTargets(c))
    PROVE  StaleHasReason' /\ FlushingInv' /\ RebuildingInv'
<1>1. UNCHANGED <<vars, dvars>>
  BY DEF ReplaceTargets, ListTargets
<1>2. SameState /\ pc' = pc /\ held' = held /\ asked' = asked
  BY <1>1, UnchangedState DEF dvars
<1>3. StaleHasReason' /\ RebuildingInv'
  BY <1>2 DEF SameState, DatabasesInv, StaleHasReason, RebuildingInv, Justified, Current, UpToDate
<1>4. CASE ReplaceTargets
  BY <1>2, <1>3, <1>4 DEF ReplaceTargets, SameState, DatabasesInv, FlushingInv, Current, UpToDate
<1>5. ASSUME NEW c \in Clients, ListTargets(c)
      PROVE  FlushingInv'
  BY <1>2, <1>5 DEF ListTargets, FlushingInv
<1> QED
  BY <1>3, <1>4, <1>5

-----------------------------------------------------------------------------
(* The steps of the mutations. *)

\* At its end an invalidation leaves every database current; what is committed
\* next is what is stored.
LEMMA FlushEndsStep ==
    ASSUME DatabasesInv, NEW c \in Clients, FlushEnds(c)
    PROVE  StaleHasReason' /\ FlushingInv' /\ RebuildingInv'
<1>0. held \in DecisionMaps /\ asked \in DecisionMaps
  BY DEF DatabasesInv, InvalidationTypeOK, DecisionMaps
<1>1. Snapshot' = Snapshot
  BY DEF FlushEnds, Flush, stores, Snapshot
<1>2. ASSUME NEW d \in Databases
      PROVE  Current(d)'
  <2>1. CASE d \in Dsns(DOMAIN flushing)
    <3>1. PICK t \in DOMAIN flushing : d = t.dsn
      BY <2>1 DEF Dsns
    <3>2. Current(d)
      BY <3>1 DEF FlushEnds, AllDone, Over, DatabasesInv, FlushingInv
    <3>3. UpToDate(held'[d]) /\ UpToDate(asked'[d])
      BY <1>0, <3>2, ExcuseJustified DEF FlushEnds, Current
    <3> QED
      BY <1>1, <3>3 DEF Current, UpToDate
  <2>2. CASE d \notin Dsns(DOMAIN flushing)
    <3>1. UpToDate(held'[d]) /\ UpToDate(asked'[d])
      BY <1>0, <2>2, ExcuseJustified DEF FlushEnds
    <3> QED
      BY <1>1, <3>1 DEF Current, UpToDate
  <2> QED
    BY <2>1, <2>2
<1>3. StaleHasReason'
  BY <1>2 DEF Current, UpToDate, StaleHasReason, Justified
<1> QED
  BY <1>2, <1>3 DEF FlushEnds, FlushingInv, RebuildingInv

\* An invalidation that failed changes nothing yet.
LEMMA FlushGivesUpStep ==
    ASSUME DatabasesInv, NEW c \in Clients, FlushGivesUp(c)
    PROVE  StaleHasReason' /\ FlushingInv' /\ RebuildingInv'
<1>1. FlushFails(c) /\ UNCHANGED dvars /\ flushing' = Absent
  BY DEF FlushGivesUp
<1>2. Snapshot' = Snapshot /\ held' = held /\ asked' = asked
  BY <1>1 DEF FlushFails, stores, Snapshot, dvars
<1>3. /\ Committed'.policies = Committed.policies
      /\ Committed'.entities = Committed.entities
  BY <1>1, FlushMirrors DEF Mirrored, DatabasesInv
<1>4. StaleHasReason'
  BY <1>2, <1>3 DEF DatabasesInv, StaleHasReason, Justified, Agrees
<1>5. \A d \in Clients : pc'[d] = "rebuild" => pc[d] = "rebuild"
  BY <1>1, IInvParts DEF FlushFails, Goto, DatabasesInv, TasksInv, TasksTypeOK
<1>6. RebuildingInv'
  BY <1>2, <1>5 DEF DatabasesInv, RebuildingInv, Current, UpToDate
<1> QED
  BY <1>1, <1>4, <1>6 DEF FlushingInv

\* While an invalidation is under way nothing happens but that a request arrives.
LEMMA StepWhileFlushing ==
    ASSUME DatabasesInv, flushing # Absent, NEW c \in Clients, OtherStep(c)
    PROVE  Request(c)
<1>1. PICK x \in Clients : pc[x] = "flush"
  BY DEF DatabasesInv, FlushingInv
<1>2. HasLock(x) /\ Holding = {x}
  BY <1>1, IInvParts DEF DatabasesInv, TasksInv, MutualExclusion, Holding
<1>3. x # c
  BY <1>1 DEF OtherStep
<1>4. ~Begin(c)
  BY <1>2, <1>3 DEF Begin, HasLock
<1>5. pc[c] \notin Locked
  BY <1>2, <1>3 DEF Holding, Locked
<1> QED
  BY <1>4, <1>5, HoldersStep DEF OtherStep, Task, Flush, FlushFails, RebuildCache, Locked, Steps

\* A task comes to its rebuild by a write that skips the invalidation.
LEMMA RebuildsUnflushed ==
    ASSUME DatabasesInv, NEW c \in Clients, OtherStep(c), NEW x \in Clients, pc'[x] = "rebuild"
    PROVE  \/ pc[x] = "rebuild" /\ UNCHANGED <<Snapshot, dvars>>
           \/ Unflushed(c)
<1> USE DEF DatabasesInv
<1>1. Request(c) \/ Task(c)
  BY DEF OtherStep
<1>2. CASE x # c
  <2>1. pc[x] = "rebuild"
    BY <1>1, <1>2, OthersUntouched
  <2>2. HasLock(x) /\ Holding = {x}
    BY <2>1, IInvParts DEF TasksInv, MutualExclusion, Holding
  <2>3. ~Begin(c) /\ pc[c] \notin Locked
    BY <1>2, <2>2 DEF Begin, HasLock, Holding, Locked
  <2>4. Request(c)
    BY <1>1, <2>3, HoldersStep DEF Task, Flush, FlushFails, RebuildCache, Locked, Steps
  <2>5. UNCHANGED Snapshot
    BY <2>4 DEF Request, stores, Snapshot
  <2>6. ~Unflushed(c)
    BY <2>4 DEF Unflushed, Request
  <2> QED
    BY <2>1, <2>5, <2>6 DEF OtherStep
<1>3. CASE x = c
  <2>1. ~Request(c) /\ ~Begin(c) /\ ~RebuildCache(c)
    BY <1>3, IInvParts DEF Request, Begin, RebuildCache, Finish, TasksInv, TasksTypeOK
  <2>2. PolicyStep(c) \/ DataStep(c) \/ SchemaStep(c)
    BY <1>1, <2>1 DEF Task, OtherStep, Flush, FlushFails
  <2>3. pc[c] = "check"
    BY <1>3, <2>2, IInvParts
    DEF PolicyStep, DataStep, SchemaStep, WritePolicies, RejectPolicies, RollbackPolicies,
        WriteEntities, AnswerStored, RejectEntities, RollbackEntities, RejectSchema,
        RevalidatePolicies, ReparseEntities, WriteSchema, RollbackSchema,
        RollbackSchemaPolicies, RollbackSchemaEntities, At, Goto, Finish, TasksInv, TasksTypeOK
  <2> QED
    BY <1>3, <2>3 DEF Unflushed
<1> QED
  BY <1>2, <1>3

LEMMA OtherSteps ==
    ASSUME DatabasesInv, NEW c \in Clients, OtherStep(c)
    PROVE  StaleHasReason' /\ FlushingInv' /\ RebuildingInv'
<1> USE DEF DatabasesInv
<1>0. held \in DecisionMaps /\ asked \in DecisionMaps /\ (Request(c) \/ Task(c))
  BY DEF InvalidationTypeOK, DecisionMaps, OtherStep
<1>1. FlushingInv'
  <2> SUFFICES ASSUME flushing # Absent
               PROVE  FlushingInv'
    BY DEF OtherStep, ivars, FlushingInv
  <2>1. Request(c)
    BY StepWhileFlushing
  <2>2. ~Unflushed(c) /\ Snapshot' = Snapshot
    BY <2>1 DEF Unflushed, Request, stores, Snapshot
  <2>3. UNCHANGED <<flushing, held, asked>>
    BY <2>2 DEF OtherStep, ivars, dvars
  <2>4. \A x \in Clients : pc[x] = "flush" => pc'[x] = "flush"
    BY <2>1, IInvParts DEF Request, TasksInv, TasksTypeOK
  <2> QED
    BY <2>2, <2>3, <2>4 DEF FlushingInv, Current, UpToDate
<1>2. CASE Unflushed(c)
  <2>1. ASSUME NEW d \in Databases
        PROVE  Current(d)'
    BY <1>0, <1>2, ExcuseKeeps DEF OtherStep, Current, UpToDate
  <2> QED
    BY <1>1, <2>1 DEF RebuildingInv, StaleHasReason, Justified, Current, UpToDate
<1>3. CASE ~Unflushed(c)
  <2>1. held' = held /\ asked' = asked
    BY <1>3 DEF OtherStep, dvars
  <2>2. RebuildingInv'
    BY <1>3, <2>1, RebuildsUnflushed DEF RebuildingInv, Current, UpToDate
  <2>3. CASE RebuildCache(c)
    <3>1. pc[c] = "rebuild" /\ Snapshot' = Snapshot
      BY <2>3 DEF RebuildCache, stores, Snapshot
    <3>2. \A d \in Databases : Current(d)
      BY <3>1 DEF RebuildingInv
    <3> QED
      BY <1>1, <2>1, <2>2, <3>1, <3>2 DEF StaleHasReason, Justified, Current, UpToDate
  <2>4. CASE ~RebuildCache(c)
    <3>1. UNCHANGED Mirrored
      BY <1>0, <2>4, RequestMirrors, RouteMirrors, FlushMirrors DEF Task
    <3>2. /\ Committed'.policies = Committed.policies
          /\ Committed'.entities = Committed.entities
      BY <3>1 DEF Mirrored
    <3>3. \/ Snapshot'.policies = Snapshot.policies /\ Snapshot'.entities = Snapshot.entities
          \/ Committed = Snapshot
      BY <1>0, <1>3, ContentChanges DEF Unflushed, Snapshot
    <3> QED
      BY <1>1, <2>1, <2>2, <3>2, <3>3 DEF StaleHasReason, Justified, Agrees
  <2> QED
    BY <2>3, <2>4
<1> QED
  BY <1>2, <1>3

-----------------------------------------------------------------------------
(* The theorem. *)

LEMMA InvalidationInitInv == InvalidationInit => DatabasesInv
<1> SUFFICES ASSUME InvalidationInit
             PROVE  DatabasesInv
  OBVIOUS
<1>1. IInv
  BY InitInv DEF InvalidationInit
<1>2. InvalidationTypeOK
  BY DEF InvalidationInit, InvalidationTypeOK
<1>3. StaleHasReason
  BY DEF InvalidationInit, StaleHasReason, Justified
<1>4. FlushingInv /\ RebuildingInv
  BY DEF InvalidationInit, Init, FlushingInv, RebuildingInv
<1> QED
  BY <1>1, <1>2, <1>3, <1>4 DEF DatabasesInv

LEMMA InvalidationNextInv == DatabasesInv /\ [InvalidationNext]_allvars => DatabasesInv'
<1> SUFFICES ASSUME DatabasesInv, [InvalidationNext]_allvars
             PROVE  DatabasesInv'
  OBVIOUS
<1>1. IInv'
  BY NextIsNext, NextInv DEF DatabasesInv
<1>2. CASE UNCHANGED allvars
  <2>1. SameState /\ pc' = pc
    BY <1>2, UnchangedState DEF allvars
  <2>2. UNCHANGED <<targets, flushing, pools, held, asked>>
    BY <1>2 DEF allvars, ivars, dvars
  <2>3. InvalidationTypeOK'
    BY <2>2 DEF DatabasesInv, InvalidationTypeOK
  <2>4. StaleHasReason' /\ FlushingInv' /\ RebuildingInv'
    BY <2>1, <2>2 DEF DatabasesInv, SameState, StaleHasReason, FlushingInv, RebuildingInv,
       Justified, Current, UpToDate
  <2> QED
    BY <1>1, <2>3, <2>4 DEF DatabasesInv
<1>3. CASE InvalidationNext
  <2>1. InvalidationTypeOK'
    BY <1>3, TypeStep
  <2>2. StaleHasReason' /\ FlushingInv' /\ RebuildingInv'
    BY <1>3, ListStep, DatabaseStep, TargetStep, FlushEndsStep, FlushGivesUpStep, OtherSteps
    DEF InvalidationNext
  <2> QED
    BY <1>1, <2>1, <2>2 DEF DatabasesInv
<1> QED
  BY <1>2, <1>3

\* Whatever the targets, and however invalidations, asking databases and replaced
\* target lists interleave: a database whose decision is older than the last answered
\* mutation has one of the reasons StaleHasReason names.
THEOREM StalenessExplained == InvalidationSpec => []StaleHasReason
<1>1. InvalidationInit => DatabasesInv
  BY InvalidationInitInv
<1>2. DatabasesInv /\ [InvalidationNext]_allvars => DatabasesInv'
  BY InvalidationNextInv
<1>3. DatabasesInv => StaleHasReason
  BY DEF DatabasesInv
<1> QED
  BY <1>1, <1>2, <1>3, PTL DEF InvalidationSpec

-----------------------------------------------------------------------------
(* The poltree requests.  A reader that rebuilds has read the stores: what *)
(* it stores in the end is an index of what they held, typed, if no longer *)
(* current.                                                                *)

ReadersInv ==
    /\ ReadersTypeOK
    /\ \A r \in Readers :
         /\ at[r] = "entities" => seen[r] \in Seen
         /\ at[r] = "store" => seen[r] \in Seen /\ seen[r].entities \in Entities

PoltreeInv == IInv /\ ReadersInv

\* What a reader does: it looks, or stores an index of what it has read.
LEMMA ReadersDo ==
    ASSUME PoltreeInv, NEW r \in Readers, Read(r)
    PROVE  /\ UNCHANGED <<stores, tasks>>
           /\ \/ UNCHANGED cache
              \/ /\ at[r] = "store" /\ at'[r] = "query"
                 /\ cache' = Rebuilt(cache, seen[r].policies, seen[r].entities, seen[r].conv)
<1>1. CASE StoreCache(r)
  <2>1. at' = [at EXCEPT ![r] = "query"] /\ at \in [Readers -> ReaderSteps]
    BY <1>1 DEF StoreCache, ReaderGoes, PoltreeInv, ReadersInv, ReadersTypeOK
  <2>2. at'[r] = "query"
    BY <2>1
  <2> QED
    BY <1>1, <2>2 DEF StoreCache
<1>2. CASE LookUp(r) \/ ReadPolicies(r) \/ ReadEntities(r) \/ Query(r)
  BY <1>2 DEF LookUp, ReadPolicies, ReadEntities, Query, vars
<1> QED
  BY <1>1, <1>2 DEF Read

\* An index of what was stored is a cache, and there is one once it is built.
LEMMA RebuiltTyped ==
    ASSUME NEW old \in Caches \cup {Absent}, NEW ps \in Policies, NEW es \in Entities,
           NEW cs \in CedarSchemas
    PROVE  /\ Rebuilt(old, ps, es, cs) \in Caches \cup {Absent}
           /\ old # Absent => Rebuilt(old, ps, es, cs) # Absent
<1>1. [policies |-> ps, entities |-> es, conv |-> cs] \in Caches
  BY DEF Caches
<1> QED
  BY <1>1, AgentAssumption DEF Rebuilt

LEMMA ReaderTyped ==
    ASSUME PoltreeInv, NEW r \in Readers, Read(r)
    PROVE  cache' \in Caches \cup {Absent} /\ (cache # Absent => cache' # Absent)
<1>1. cache \in Caches \cup {Absent}
  BY IInvParts DEF PoltreeInv, StoresTypeOK
<1>2. CASE UNCHANGED cache
  BY <1>1, <1>2
<1>3. CASE /\ at[r] = "store"
           /\ cache' = Rebuilt(cache, seen[r].policies, seen[r].entities, seen[r].conv)
  <2>1. /\ seen[r].policies \in Policies /\ seen[r].entities \in Entities
        /\ seen[r].conv \in CedarSchemas
    BY <1>3 DEF PoltreeInv, ReadersInv, Seen
  <2> QED
    BY <1>1, <1>3, <2>1, RebuiltTyped
<1> QED
  BY <1>2, <1>3, ReadersDo

\* A reader changes nothing a mutation relies on.
LEMMA ReaderKeepsIInv ==
    ASSUME PoltreeInv, NEW r \in Readers, Read(r)
    PROVE  IInv'
<1>1. UNCHANGED <<stores, tasks>> /\ cache' \in Caches \cup {Absent}
  BY ReadersDo, ReaderTyped
<1>2. StoresTypeOK' /\ TasksInv'
  BY <1>1, IInvParts
  DEF PoltreeInv, StoresTypeOK, TasksInv, TasksTypeOK, MutualExclusion, Holding, HasLock,
      stores, tasks
<1>3. Snapshot' = Snapshot /\ Holding' = Holding
  BY <1>1 DEF stores, tasks, Snapshot, Holding
<1>4. ASSUME NEW c \in Holding
      PROVE  TaskKnows(c)'
  <2>1. TaskKnows(c)
    BY <1>4 DEF PoltreeInv, IInv
  <2> QED
    BY <1>1, <1>3, <2>1 DEF TaskKnows, stores, tasks, At, NewSchema
<1>5. StoresValid'
  BY <1>3 DEF PoltreeInv, IInv, StoresValid
<1> QED
  BY <1>2, <1>3, <1>4, <1>5 DEF IInv, TypeOK, StoresTypeOK, TasksInv, TasksTypeOK

LEMMA ReaderKeepsReaders ==
    ASSUME PoltreeInv, NEW r \in Readers, Read(r)
    PROVE  ReadersInv'
<1> USE DEF PoltreeInv, ReadersInv, ReadersTypeOK, ReaderGoes
<1>0. /\ policies \in Policies /\ entities \in Entities /\ conv \in CedarSchemas
  BY IInvParts DEF StoresTypeOK
<1>1. CASE LookUp(r) \/ Query(r)
  BY <1>1 DEF LookUp, Query, ReaderSteps
<1>2. CASE ReadPolicies(r)
  <2>1. [policies |-> policies, entities |-> Absent, conv |-> NoSchema] \in Seen
    BY <1>0 DEF Seen, CedarSchemas
  <2>2. /\ seen' \in [Readers -> Seen \cup {Absent}] /\ seen'[r] \in Seen
        /\ \A x \in Readers \ {r} : seen'[x] = seen[x]
    BY <1>2, <2>1 DEF ReadPolicies
  <2>3. /\ at' \in [Readers -> ReaderSteps] /\ at'[r] = "entities"
        /\ \A x \in Readers \ {r} : at'[x] = at[x]
    BY <1>2 DEF ReadPolicies, ReaderSteps
  <2> QED
    BY <2>2, <2>3
<1>3. CASE ReadEntities(r)
  <2>1. /\ seen[r] \in Seen
        /\ seen' = [seen EXCEPT ![r] = [seen[r] EXCEPT !.entities = entities, !.conv = conv]]
    BY <1>3 DEF ReadEntities
  <2>2. /\ [seen[r] EXCEPT !.entities = entities, !.conv = conv] \in Seen
        /\ [seen[r] EXCEPT !.entities = entities, !.conv = conv].entities = entities
    BY <1>0, <2>1 DEF Seen
  <2>3. /\ seen' \in [Readers -> Seen \cup {Absent}]
        /\ seen'[r] \in Seen /\ seen'[r].entities \in Entities
        /\ \A x \in Readers \ {r} : seen'[x] = seen[x]
    BY <1>0, <2>1, <2>2
  <2>4. /\ at' \in [Readers -> ReaderSteps] /\ at'[r] = "store"
        /\ \A x \in Readers \ {r} : at'[x] = at[x]
    BY <1>3 DEF ReadEntities, ReaderSteps
  <2> QED
    BY <2>3, <2>4
<1>4. CASE StoreCache(r)
  <2>1. /\ seen' \in [Readers -> Seen \cup {Absent}]
        /\ \A x \in Readers \ {r} : seen'[x] = seen[x]
    BY <1>4 DEF StoreCache
  <2>2. /\ at' \in [Readers -> ReaderSteps] /\ at'[r] = "query"
        /\ \A x \in Readers \ {r} : at'[x] = at[x]
    BY <1>4 DEF StoreCache, ReaderSteps
  <2> QED
    BY <2>1, <2>2
<1> QED
  BY <1>1, <1>2, <1>3, <1>4 DEF Read

LEMMA PoltreeNextInv == PoltreeInv /\ [PNext]_pvars => PoltreeInv'
<1> SUFFICES ASSUME PoltreeInv, [PNext]_pvars
             PROVE  PoltreeInv'
  OBVIOUS
<1>1. CASE (Next /\ UNCHANGED rvars) \/ UNCHANGED pvars
  <2>1. IInv'
    BY <1>1, NextInv DEF PoltreeInv, pvars
  <2> QED
    BY <1>1, <2>1 DEF PoltreeInv, ReadersInv, ReadersTypeOK, pvars, rvars
<1>2. ASSUME NEW r \in Readers, Read(r)
      PROVE  PoltreeInv'
  BY <1>2, ReaderKeepsIInv, ReaderKeepsReaders DEF PoltreeInv
<1> QED
  BY <1>1, <1>2 DEF PNext

LEMMA PoltreeInvariance == PSpec => []PoltreeInv
<1>1. PInit => PoltreeInv
  BY InitInv DEF PInit, PoltreeInv, ReadersInv, ReadersTypeOK, ReaderSteps
<1> QED
  BY <1>1, PoltreeNextInv, PTL DEF PSpec

\* Poltree requests, however many of them rebuild the cache without the mutation lock,
\* leave the mutation path what it relies on, and what it promises: every mutation still
\* takes effect at one moment, once or not at all.
THEOREM MutationsBesideReaders == PSpec => [](IInv /\ ReadersTypeOK) /\ StrictSafety
<1>1. PoltreeInv => IInv /\ ReadersTypeOK
  BY DEF PoltreeInv, ReadersInv
<1>2. PInit => Strict!Init
  BY StartIsStrict DEF PInit
<1>3. PoltreeInv /\ [PNext]_pvars => [Strict!Next]_(Strict!avars)
  <2> SUFFICES ASSUME PoltreeInv, [PNext]_pvars
               PROVE  [Strict!Next]_(Strict!avars)
    OBVIOUS
  <2>1. CASE Next \/ UNCHANGED pvars
    BY <2>1, NextIsStrict DEF PoltreeInv, pvars
  <2>2. ASSUME NEW r \in Readers, Read(r)
        PROVE  UNCHANGED Strict!avars
    BY <2>2, ReadersDo, CacheIsInner
  <2> QED
    BY <2>1, <2>2 DEF PNext
<1> QED
  BY <1>1, <1>2, <1>3, PoltreeInvariance, PTL DEF PSpec, StrictSafety, Strict!Safety

\* No mutation leaves the cache empty that was not: a rebuild that fails keeps it.
LEMMA RoutesKeepIndex ==
    ASSUME IInv, Next
    PROVE  cache # Absent => cache' # Absent
<1>1. PICK c \in Clients : Request(c) \/ Task(c)
  BY DEF Next
<1>2. CASE RebuildCache(c)
  BY <1>2, RebuiltTyped, IInvParts DEF RebuildCache, StoresTypeOK
<1>3. CASE Request(c) \/ Begin(c) \/ Flush(c) \/ FlushFails(c)
  BY <1>3 DEF Request, Begin, Flush, FlushFails
<1> QED
  BY <1>1, <1>2, <1>3, HoldersStep DEF Task

\* Once there is an index there is one for ever: neither a mutation nor a reader whose
\* rebuild fails drops the cache, so that no later request is refused for want of it.
THEOREM IndexStays == PSpec => WarmStaysWarm
<1>1. ASSUME PoltreeInv, [PNext]_pvars
      PROVE  cache # Absent => cache' # Absent
  <2>1. CASE Next \/ UNCHANGED pvars
    BY <1>1, <2>1, RoutesKeepIndex DEF PoltreeInv, pvars, vars
  <2>2. ASSUME NEW r \in Readers, Read(r)
        PROVE  cache # Absent => cache' # Absent
    BY <1>1, <2>2, ReaderTyped
  <2> QED
    BY <1>1, <2>1, <2>2 DEF PNext
<1> QED
  BY <1>1, PoltreeInvariance, PTL DEF PSpec, WarmStaysWarm

\* A reader that stores no index leaves the cache as fresh as it was.
LEMMA ReaderMirrors ==
    ASSUME PoltreeInv, NEW r \in Readers, Read(r), UNCHANGED cache, CacheFresh
    PROVE  CacheFresh'
<1>1. UNCHANGED <<stores, tasks, cache>>
  BY ReadersDo
<1> QED
  BY <1>1, MirroredFresh DEF stores, tasks, Mirrored, Committed, LockFree, Holding, Snapshot

\* A cache that stops to be the committed state was stored by a reader that had found
\* it empty: no mutation, and no reader that found an index, makes it stale.
THEOREM MutationsNeverSpoil == PSpec => OnlyColdReadersSpoil
<1>1. ASSUME PoltreeInv, [PNext]_pvars, CacheFresh, ~CacheFresh'
      PROVE  \E r \in Rebuilding : at[r] = "store" /\ at'[r] = "query"
  <2>1. ~(Next \/ UNCHANGED pvars)
    BY <1>1, FreshNext DEF PoltreeInv, pvars
  <2>2. PICK r \in Readers : Read(r)
    BY <1>1, <2>1 DEF PNext
  <2>3. at[r] = "store" /\ at'[r] = "query"
    BY <1>1, <2>2, ReadersDo, ReaderMirrors
  <2> QED
    BY <2>3 DEF Rebuilding
<1> QED
  BY <1>1, PoltreeInvariance, PTL DEF PSpec, OnlyColdReadersSpoil

\* What no reader can spoil: there is an index, and no reader is about to make one.
Warm == cache # Absent /\ CacheFresh /\ Rebuilding = {}

LEMMA StaysWarm == PoltreeInv /\ Warm /\ [PNext]_pvars => Warm'
<1> SUFFICES ASSUME PoltreeInv, Warm, [PNext]_pvars
             PROVE  Warm'
  OBVIOUS
<1>1. CASE (Next /\ UNCHANGED rvars) \/ UNCHANGED pvars
  BY <1>1, RoutesKeepIndex, FreshNext DEF PoltreeInv, Warm, pvars, rvars, vars, Rebuilding
<1>2. ASSUME NEW r \in Readers, Read(r)
      PROVE  Warm'
  <2>1. at[r] \notin {"policies", "entities", "store"}
    BY DEF Warm, Rebuilding
  <2>2. LookUp(r) \/ Query(r)
    BY <1>2, <2>1 DEF Read, ReadPolicies, ReadEntities, StoreCache
  <2>3. UNCHANGED cache /\ (at' = [at EXCEPT ![r] = "query"] \/ at' = [at EXCEPT ![r] = "idle"])
    BY <2>2 DEF LookUp, Query, ReaderGoes, Warm, vars
  <2>4. Rebuilding' = {}
    BY <2>3 DEF Warm, Rebuilding, PoltreeInv, ReadersInv, ReadersTypeOK
  <2> QED
    BY <1>2, <2>3, <2>4, ReaderMirrors DEF Warm
<1> QED
  BY <1>1, <1>2 DEF PNext

\* A server that starts with policies that can be indexed answers every poltree
\* request, at every moment, from the committed policies and entities.
THEOREM WarmServerServesCommitted == PSpec /\ cache # Absent => []CacheFresh
<1>1. PInit /\ cache # Absent => Warm
  BY InitFresh DEF PInit, Warm, Rebuilding
<1>2. Warm => CacheFresh
  BY DEF Warm
<1> QED
  BY <1>1, <1>2, PoltreeInvariance, StaysWarm, PTL DEF PSpec
=============================================================================
