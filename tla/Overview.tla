------------------------------ MODULE Overview ------------------------------
(***************************************************************************)
(* The first page of the dashboard (frontend/app/page.tsx): four reads in  *)
(* parallel, of which three turn a failure into nothing and the fourth,    *)
(* the health check, into "Offline".                                       *)
(***************************************************************************)
EXTENDS AgentApi

CONSTANT MaxOverviewForeign \* bound: changes by other clients

VARIABLES stats,            \* stats
          statsLoading,     \* loading
          statsCalls,       \* the reads in flight
          statsGot,         \* what Promise.all has so far
          statsDisturbed,   \* history: a read failed, or the stores changed meanwhile
          statsForeign      \* counts the changes by other clients

overviewVars == <<agentVars, stats, statsLoading, statsCalls, statsGot, statsDisturbed,
                  statsForeign>>

-----------------------------------------------------------------------------
Reads == {"policies", "entities", "hasSchema", "isHealthy"}
StoredCount(f) == Cardinality({x \in DOMAIN f : f[x] # Absent})

NoStats == [policies |-> 0, entities |-> 0, hasSchema |-> FALSE, isHealthy |-> FALSE]
StatsOf(st) == [policies |-> StoredCount(st.policies), entities |-> StoredCount(st.entities),
                hasSchema |-> st.schema # EmptySchema, isHealthy |-> TRUE]

OverviewInit ==
    /\ stats = NoStats
    /\ statsLoading = TRUE
    /\ statsCalls = Reads
    /\ statsGot = NoStats
    /\ statsDisturbed = FALSE
    /\ statsForeign = 0

\* One of the four is served, or fails.
ReadEnds ==
    /\ \E r \in statsCalls :
         /\ statsCalls' = statsCalls \ {r}
         /\ \/ /\ statsGot' = [statsGot EXCEPT ![r] = StatsOf(agent)[r]]
               /\ UNCHANGED statsDisturbed
            \/ /\ UNCHANGED statsGot
               /\ statsDisturbed' = TRUE
    /\ UNCHANGED <<agentVars, stats, statsLoading, statsForeign>>

\* Mutant of StatsArrive: what is there is shown without waiting for the rest.
StatsArriveEarly ==
    /\ statsLoading
    /\ stats' = statsGot
    /\ statsLoading' = FALSE
    /\ UNCHANGED <<agentVars, statsCalls, statsGot, statsDisturbed, statsForeign>>

\* Promise.all.
StatsArrive ==
    /\ statsLoading
    /\ statsCalls = {}
    /\ stats' = statsGot
    /\ statsLoading' = FALSE
    /\ UNCHANGED <<agentVars, statsCalls, statsGot, statsDisturbed, statsForeign>>

OthersChangeAgent ==
    /\ \/ /\ statsForeign < MaxOverviewForeign
          /\ statsForeign' = statsForeign + 1
          /\ \/ \E p \in PolicyIds, text \in Contents \cup {Absent} :
                   OthersWrite([agent EXCEPT !.policies[p] = text])
             \/ OthersWrite([agent EXCEPT !.schema = EmptySchema])
       \/ /\ OthersCommit \/ OthersRollBack
          /\ UNCHANGED statsForeign
    /\ statsDisturbed' = TRUE
    /\ UNCHANGED <<stats, statsLoading, statsCalls, statsGot>>

OverviewNext == ReadEnds \/ StatsArrive \/ OthersChangeAgent

OverviewSpec == AgentInit /\ OverviewInit /\ [][OverviewNext]_overviewVars

-----------------------------------------------------------------------------
\* The page says what the agent has, all four of it, unless a read failed or the
\* agent changed since the page was opened: it waits for every one of its reads.
StatsComplete == ~statsLoading /\ ~statsDisturbed => stats = StatsOf(agent)
=============================================================================
