---------------------------- MODULE Invalidation ----------------------------
(***************************************************************************)
(* The database targets beside the mutation path.  The extension of a      *)
(* database asks the agent for a decision and caches what it is told; the  *)
(* agent empties that cache when policies, entities or the schema change.  *)
(*                                                                         *)
(* In CedarAgent an invalidation ends or fails in one step.  Here a        *)
(* mutation reads the target list, starts one task per enabled target, and *)
(* each task takes a connection pool from its kind's mutex and sends one   *)
(* statement (src/services/invalidation/mod.rs), while PUT                 *)
(* /invalidation/targets, which does not take mutation_lock, replaces the  *)
(* list, and while the databases ask.  Of a database the code shows only   *)
(* the statement it is sent: the rest of it is external.                   *)
(***************************************************************************)
EXTENDS CedarAgent

CONSTANTS Databases,        \* the databases, by their dsn
          TargetLists       \* the target lists clients may send

VARIABLES targets,          \* InvalidationTargetsStore
          flushing,         \* the tasks of the invalidation under way, by target
          pools,            \* pg_pools and mysql_pools
          held,             \* external: what the cache of a database was filled from
          asked             \* what the request of a database has been answered from

ivars == <<targets, flushing, pools>>
dvars == <<held, asked>>
allvars == <<vars, ivars, dvars>>

Targets == UNION TargetLists
TaskSteps == {"pool", "connect", "execute", "executed", "done", "failed"}
Flushings == UNION {[ts -> TaskSteps] : ts \in SUBSET Targets}

\* What a decision is made of.  A decision is excused when the agent could not
\* have it removed: nothing but StaleHasReason reads this field.
Decisions == [policies : Policies, entities : Entities \cup {Absent}, excused : BOOLEAN]

ASSUME InvalidationAssumption ==
    /\ TargetLists # {}
    /\ \A list \in TargetLists : \A t \in list :
          t.kind \in {"postgres", "mysql"} /\ t.dsn \in Databases /\ t.enabled \in BOOLEAN
    /\ Absent \notin Entities
    /\ Absent \notin Decisions
    /\ Absent \notin Flushings

InvalidationTypeOK ==
    /\ targets \in TargetLists
    /\ flushing \in Flushings \cup {Absent}
    /\ pools \subseteq {"postgres", "mysql"} \X Databases
    /\ held \in [Databases -> Decisions \cup {Absent}]
    /\ asked \in [Databases -> Decisions \cup {Absent}]

InvalidationInit ==
    /\ Init
    /\ targets \in TargetLists
    /\ flushing = Absent
    /\ pools = {}
    /\ held = [d \in Databases |-> Absent]
    /\ asked = [d \in Databases |-> Absent]

-----------------------------------------------------------------------------
(* PUT /invalidation/targets. *)

UniqueNames(list) == \A t, u \in list : t.name = u.name => t = u

ReplaceTargets ==
    /\ \E list \in TargetLists : UniqueNames(list) /\ targets' = list
    /\ UNCHANGED <<vars, flushing, pools, dvars>>

-----------------------------------------------------------------------------
(* The databases ask, through POST /is_authorized, which reads the         *)
(* policies and the entities in two awaits.                                *)

Agrees(decision, state) ==
    /\ decision.policies = state.policies
    /\ decision.entities \in {Absent, state.entities}

\* The decisions of ds that are not of state can no longer be removed.
Excuse(decisions, ds, state) ==
    [d \in Databases |->
        IF d \in ds /\ decisions[d] # Absent /\ ~Agrees(decisions[d], state)
        THEN [decisions[d] EXCEPT !.excused = TRUE]
        ELSE decisions[d]]

AskPolicies(d) ==
    /\ asked[d] = Absent
    /\ asked' = [asked EXCEPT ![d] = [policies |-> policies, entities |-> Absent,
                                      excused |-> FALSE]]
    /\ UNCHANGED <<vars, ivars, held>>

AskEntities(d) ==
    /\ asked[d] # Absent /\ asked[d].entities = Absent
    /\ asked' = [asked EXCEPT ![d].entities = entities]
    /\ UNCHANGED <<vars, ivars, held>>

\* The answer reaches the database, which caches it.
CacheDecision(d) ==
    /\ asked[d] # Absent /\ asked[d].entities # Absent
    /\ held' = [held EXCEPT ![d] = asked[d]]
    /\ asked' = [asked EXCEPT ![d] = Absent]
    /\ UNCHANGED <<vars, ivars>>

\* The database drops what it caches by itself: an expiry, the flush it makes for
\* a DDL sync, or a statement that reaches it after the agent has given it up.
Forget(d) ==
    /\ held[d] # Absent
    /\ held' = [held EXCEPT ![d] = Absent]
    /\ UNCHANGED <<vars, ivars, asked>>

-----------------------------------------------------------------------------
(* invalidate_all: one task per enabled target. *)

Enabled(list) == {t \in list : t.enabled}
Dsns(ts) == {t.dsn : t \in ts}

ListTargets(c) ==
    /\ pc[c] = "flush"
    /\ flushing = Absent
    /\ flushing' = [t \in Enabled(targets) |-> "pool"]
    /\ UNCHANGED <<vars, targets, pools, dvars>>

TaskAt(t, step) == flushing # Absent /\ t \in DOMAIN flushing /\ flushing[t] = step
TaskGoes(t, step) == flushing' = [flushing EXCEPT ![t] = step]

\* The pools of a kind are behind one mutex, which a task that makes a new pool
\* keeps while it connects.
PoolsLocked(kind) == \E t \in Targets : t.kind = kind /\ TaskAt(t, "connect")

GetPool(t) ==
    /\ TaskAt(t, "pool")
    /\ ~PoolsLocked(t.kind)
    /\ TaskGoes(t, IF <<t.kind, t.dsn>> \in pools THEN "execute" ELSE "connect")
    /\ UNCHANGED <<vars, targets, pools, dvars>>

Connected(t) ==
    /\ TaskAt(t, "connect")
    /\ pools' = pools \cup {<<t.kind, t.dsn>>}
    /\ TaskGoes(t, "execute")
    /\ UNCHANGED <<vars, targets, dvars>>

\* The database refuses, or acquire_timeout is over.
ConnectFails(t) ==
    /\ TaskAt(t, "connect")
    /\ TaskGoes(t, "failed")
    /\ UNCHANGED <<vars, targets, pools, dvars>>

\* The database runs the statement.  A decision on its way is not in the cache yet.
Execute(t) ==
    /\ TaskAt(t, "execute")
    /\ held' = [held EXCEPT ![t.dsn] = Absent]
    /\ asked' = Excuse(asked, {t.dsn}, Snapshot)
    /\ TaskGoes(t, "executed")
    /\ UNCHANGED <<vars, targets, pools>>

Answered(t) ==
    /\ TaskAt(t, "executed")
    /\ TaskGoes(t, "done")
    /\ UNCHANGED <<vars, targets, pools, dvars>>

\* Mutant of StatementFails: the timeout is over once the statement is sent.
SendFails(t) ==
    /\ TaskAt(t, "execute")
    /\ TaskGoes(t, "failed")
    /\ UNCHANGED <<vars, targets, pools, dvars>>

\* The statement fails, or the timeout is over: before it has run, or after.
StatementFails(t) ==
    /\ TaskAt(t, "execute") \/ TaskAt(t, "executed")
    /\ TaskGoes(t, "failed")
    /\ UNCHANGED <<vars, targets, pools, dvars>>

Over == flushing # Absent /\ \A t \in DOMAIN flushing : flushing[t] \in {"done", "failed"}

\* Mutant of AllDone: one task that succeeded is enough.
AnyDone ==
    Over /\ (DOMAIN flushing # {} => \E t \in DOMAIN flushing : flushing[t] = "done")

AllDone == Over /\ \A t \in DOMAIN flushing : flushing[t] = "done"

\* What a database that was not listed caches stays there.
FlushEnds(c) ==
    /\ AllDone
    /\ Flush(c)
    /\ held' = Excuse(held, Databases \ Dsns(DOMAIN flushing), Snapshot)
    /\ asked' = Excuse(asked, Databases \ Dsns(DOMAIN flushing), Snapshot)
    /\ flushing' = Absent
    /\ UNCHANGED <<targets, pools>>

FlushGivesUp(c) ==
    /\ Over /\ ~AllDone
    /\ FlushFails(c)
    /\ flushing' = Absent
    /\ UNCHANGED <<targets, pools, dvars>>

TargetTask(t) ==
    \/ GetPool(t) \/ Connected(t) \/ ConnectFails(t)
    \/ Execute(t) \/ Answered(t) \/ StatementFails(t)

-----------------------------------------------------------------------------
(* The other steps of the mutations are those of CedarAgent.  A rollback,  *)
(* and a write that skips the invalidation, leave behind the decisions     *)
(* that were made before them.                                             *)

Unflushed(c) == pc[c] = "rollback" \/ (pc[c] = "check" /\ pc'[c] = "rebuild")

OtherStep(c) ==
    /\ pc[c] # "flush"
    /\ Request(c) \/ Task(c)
    /\ IF Unflushed(c)
       THEN /\ held' = Excuse(held, Databases, Snapshot')
            /\ asked' = Excuse(asked, Databases, Snapshot')
       ELSE UNCHANGED dvars
    /\ UNCHANGED ivars

InvalidationNext ==
    \/ ReplaceTargets
    \/ \E d \in Databases : AskPolicies(d) \/ AskEntities(d) \/ CacheDecision(d) \/ Forget(d)
    \/ \E t \in Targets : TargetTask(t)
    \/ \E c \in Clients :
          ListTargets(c) \/ FlushEnds(c) \/ FlushGivesUp(c) \/ OtherStep(c)

\* The tasks are polled and the agent's own timers fire; a database need not answer.
InvalidationFairness ==
    /\ \A t \in Targets :
          /\ WF_allvars(GetPool(t))
          /\ WF_allvars(ConnectFails(t))
          /\ WF_allvars(StatementFails(t))
    /\ \A c \in Clients : WF_allvars(FlushEnds(c) \/ FlushGivesUp(c))

InvalidationSpec == InvalidationInit /\ [][InvalidationNext]_allvars /\ InvalidationFairness

-----------------------------------------------------------------------------
(* Properties. *)

Justified(decision) ==
    decision = Absent \/ decision.excused
        \/ Agrees(decision, Committed) \/ Agrees(decision, Snapshot)

\* "Cedar-Agent can push authorization-cache invalidations to configured database
\* targets when policies/schema/entities change" (API_DOCUMENTATION.md:1138): once a
\* mutation is answered, a database decides by nothing older, unless it was not an
\* enabled target when the mutation listed them, the mutation skipped the
\* invalidation, it had asked before the change and was answered after its cache
\* was emptied, or it asked for a change that was rolled back.
StaleHasReason == \A d \in Databases : Justified(held[d]) /\ Justified(asked[d])

\* An invalidation ends whatever the databases do: one that never answers does not
\* hold mutation_lock, nor the pools the other targets of its kind wait for, for ever.
InvalidationEnds == flushing # Absent ~> flushing = Absent
=============================================================================
