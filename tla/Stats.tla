------------------------------- MODULE Stats -------------------------------
(***************************************************************************)
(* The counters of authorization requests (src/services/stats/memory.rs).  *)
(* Both authorization routes count a request when it arrives and again     *)
(* when it is decided (src/routes/authorization.rs); GET /stats loads the  *)
(* three counters and POST /stats/reset stores zero in each.  Nothing      *)
(* makes these steps of one request one step, and the accesses are         *)
(* relaxed, so that the loads of a GET, and the stores of a reset, take    *)
(* effect in any order.                                                    *)
(*                                                                         *)
(* The counters are u64 and no run of the agent reaches 2^64 requests.     *)
(***************************************************************************)
EXTENDS Integers, FiniteSets

CONSTANTS Calls,            \* authorization requests, one at a time each
          Resets,           \* POST /stats/reset, likewise
          Views,            \* GET /stats, likewise
          MaxCalls          \* bound: authorization requests counted

VARIABLES count,            \* MemoryStatsStore
          inFlight,         \* the calls that are counted and not yet decided
          toReset,          \* the counters each reset has still to store
          views,            \* the counters each GET has still to load, and what it loaded
          arrived,          \* counts the calls
          refused,          \* history: calls refused since the last reset began
          overlapping       \* history: calls in flight at some time during the last reset

Counters == {"total_requests", "allows", "denies"}
Verdicts == {"allows", "denies"}

statsHistory == <<refused, overlapping>>
statsVars == <<count, inFlight, toReset, views, arrived, statsHistory>>

ASSUME StatsAssumption == IsFiniteSet(Calls) /\ MaxCalls \in Nat

\* moved and crossed are history: how many steps calls have taken while a GET was
\* under way, and whether it saw a reset.
ViewRecords == [toLoad : SUBSET Counters, shown : [Counters -> Nat], moved : Nat,
                crossed : BOOLEAN]

StatsTypeOK ==
    /\ count \in [Counters -> Nat]
    /\ inFlight \subseteq Calls
    /\ toReset \in [Resets -> SUBSET Counters]
    /\ views \in [Views -> ViewRecords]
    /\ arrived \in Nat
    /\ refused \in Nat
    /\ overlapping \in Nat

NoCounts == [k \in Counters |-> 0]

StatsInit ==
    /\ count = NoCounts
    /\ inFlight = {}
    /\ toReset = [r \in Resets |-> {}]
    /\ views = [v \in Views |-> [toLoad |-> {}, shown |-> NoCounts, moved |-> 0,
                                 crossed |-> FALSE]]
    /\ arrived = 0
    /\ refused = 0
    /\ overlapping = 0

-----------------------------------------------------------------------------
(* The authorization routes. *)

Resetting == \E r \in Resets : toReset[r] # {}

\* fetch_add(1)
Increment(k) == count' = [count EXCEPT ![k] = @ + 1]

Loading(v) == views[v].toLoad # {}

\* History: a call has taken a step beside every GET under way.
Moves ==
    views' = [v \in Views |-> IF Loading(v) THEN [views[v] EXCEPT !.moved = @ + 1] ELSE views[v]]

Arrive(c) ==
    /\ c \notin inFlight
    /\ arrived < MaxCalls
    /\ arrived' = arrived + 1
    /\ Increment("total_requests")
    /\ inFlight' = inFlight \cup {c}
    /\ overlapping' = IF Resetting THEN overlapping + 1 ELSE overlapping
    /\ Moves
    /\ UNCHANGED <<toReset, refused>>

\* The decision lies between the two increments of a request, so that they take effect
\* in this order.
Decide(c) ==
    /\ c \in inFlight
    /\ \E k \in Verdicts : Increment(k)
    /\ inFlight' = inFlight \ {c}
    /\ Moves
    /\ UNCHANGED <<toReset, arrived, statsHistory>>

\* 400: the request does not parse, or there is no poltree cache.
Refuse(c) ==
    /\ c \in inFlight
    /\ inFlight' = inFlight \ {c}
    /\ refused' = refused + 1
    /\ Moves
    /\ UNCHANGED <<count, toReset, arrived, overlapping>>

-----------------------------------------------------------------------------
(* POST /stats/reset. *)

\* Mutant of Zeroed: one counter is forgotten.
ZeroedMost == {"total_requests", "allows"}

Zeroed == Counters

Crosses ==
    views' = [v \in Views |-> IF Loading(v) THEN [views[v] EXCEPT !.crossed = TRUE] ELSE views[v]]

\* A reset that starts while another is under way counts as one with it.
StartReset(r) ==
    /\ toReset[r] = {}
    /\ toReset' = [toReset EXCEPT ![r] = Zeroed]
    /\ refused' = IF Resetting THEN refused ELSE 0
    /\ overlapping' = IF Resetting THEN overlapping ELSE Cardinality(inFlight)
    /\ Crosses
    /\ UNCHANGED <<count, inFlight, arrived>>

StoreZero(r) ==
    /\ \E k \in toReset[r] :
         /\ count' = [count EXCEPT ![k] = 0]
         /\ toReset' = [toReset EXCEPT ![r] = @ \ {k}]
    /\ Crosses
    /\ UNCHANGED <<inFlight, arrived, statsHistory>>

-----------------------------------------------------------------------------
(* GET /stats. *)

StartView(v) ==
    /\ ~Loading(v)
    /\ views' = [views EXCEPT ![v] = [toLoad |-> Counters, shown |-> NoCounts,
                                      moved |-> 0, crossed |-> Resetting]]
    /\ UNCHANGED <<count, inFlight, toReset, arrived, statsHistory>>

\* Mutant of Loaded: the field denies is filled from the counter allows.
LoadedTwice(k) == IF k = "denies" THEN count["allows"] ELSE count[k]

Loaded(k) == count[k]

\* The load of one counter; with the third the answer is complete.
LoadInto(view, k) ==
    [view EXCEPT !.toLoad = @ \ {k},
                 !.shown[k] = Loaded(k),
                 !.moved = IF view.toLoad = {k} THEN 0 ELSE @,
                 !.crossed = IF view.toLoad = {k} THEN FALSE ELSE @]

Load(v) ==
    /\ \E k \in views[v].toLoad : views' = [views EXCEPT ![v] = LoadInto(views[v], k)]
    /\ UNCHANGED <<count, inFlight, toReset, arrived, statsHistory>>

-----------------------------------------------------------------------------
StatsNext ==
    \/ \E c \in Calls : Arrive(c) \/ Decide(c) \/ Refuse(c)
    \/ \E r \in Resets : StartReset(r) \/ StoreZero(r)
    \/ \E v \in Views : StartView(v) \/ Load(v)

StatsSpec == StatsInit /\ [][StatsNext]_statsVars

-----------------------------------------------------------------------------
(* Properties. *)

\* What the counters leave unexplained: requests that are neither decided, nor
\* refused, nor in flight, or, below zero, decisions of requests nobody counted.
Gap(counts) ==
    counts["total_requests"] - counts["allows"] - counts["denies"]
        - refused - Cardinality(inFlight)

Within(n, bound) == -bound <= n /\ n <= bound

\* The three counters add up, although nothing keeps them together: requests that
\* were in flight while the last reset ran may be counted in one and not in another,
\* for good, but no other request, and the next reset that meets none repairs it
\* (increment_*, reset).
CountsAddUp == ~Resetting => Within(Gap(count), overlapping)

\* What GET /stats shows is of no one moment.  It is off by no more than the requests
\* that moved while it loaded, and not at all if none did, unless a reset ran meanwhile.
ShownAddsUp ==
    [][\A v \in Views :
          Loading(v) /\ ~Loading(v)' /\ ~views[v].crossed =>
              Within(Gap(views'[v].shown), overlapping + views[v].moved)]_statsVars
=============================================================================
