---------------------------- MODULE StatsProofs ----------------------------
(***************************************************************************)
(* Theorems about Stats, for any number of authorization requests, resets  *)
(* and GETs at once.                                                       *)
(***************************************************************************)
EXTENDS Stats, FiniteSetTheorems, TLAPS

Open == Cardinality(inFlight)

\* What a counter holds of the requests since the last reset began: nothing is known
\* of it until that reset, and every other one under way, has stored its zero.
Settled(k) == \A r \in Resets : k \notin toReset[r]
Since(k) == IF Settled(k) THEN count[k] ELSE 0

\* While resets run: what has been counted again is of requests that overlap them.
ResetInv ==
    Resetting =>
        /\ Since("total_requests") <= overlapping
        /\ Since("allows") + Since("denies") + refused + Open <= overlapping

StatsInv == StatsTypeOK /\ CountsAddUp /\ ResetInv

-----------------------------------------------------------------------------
LEMMA OpenCount ==
    ASSUME StatsTypeOK
    PROVE  /\ Open \in Nat
           /\ \A c \in Calls \ inFlight : Cardinality(inFlight \cup {c}) = Open + 1
           /\ \A c \in inFlight : Cardinality(inFlight \ {c}) = Open - 1
<1>1. IsFiniteSet(inFlight)
  BY StatsAssumption, FS_Subset DEF StatsTypeOK
<1> QED
  BY <1>1, FS_CardinalityType, FS_AddElement, FS_RemoveElement DEF Open

\* The history of a GET under way.
LEMMA ViewHistory ==
    ASSUME NEW w \in ViewRecords
    PROVE  /\ [w EXCEPT !.moved = @ + 1] \in ViewRecords
           /\ [w EXCEPT !.crossed = TRUE] \in ViewRecords
<1>1. [w EXCEPT !.moved = @ + 1] \in ViewRecords
  BY DEF ViewRecords
<1>2. [w EXCEPT !.crossed = TRUE] \in ViewRecords
  BY DEF ViewRecords
<1> QED
  BY <1>1, <1>2

\* A load fills in one counter, and ends a GET with the third.
LEMMA LoadEffect ==
    ASSUME StatsTypeOK, NEW w \in ViewRecords, NEW k \in w.toLoad
    PROVE  /\ LoadInto(w, k) \in ViewRecords
           /\ LoadInto(w, k).toLoad = w.toLoad \ {k}
           /\ LoadInto(w, k).shown = [w.shown EXCEPT ![k] = count[k]]
           /\ w.toLoad # {k} =>
                  LoadInto(w, k).moved = w.moved /\ LoadInto(w, k).crossed = w.crossed
<1>1. k \in Counters /\ count[k] \in Nat
  BY DEF ViewRecords, StatsTypeOK
<1>2. LoadInto(w, k).shown = [w.shown EXCEPT ![k] = count[k]]
  BY DEF LoadInto, Loaded, ViewRecords
<1>3. LoadInto(w, k).toLoad = w.toLoad \ {k}
  BY DEF LoadInto, ViewRecords
<1>4. w.toLoad # {k} => LoadInto(w, k).moved = w.moved /\ LoadInto(w, k).crossed = w.crossed
  BY DEF LoadInto, ViewRecords
<1>5. LoadInto(w, k) \in ViewRecords
  BY <1>1 DEF LoadInto, Loaded, ViewRecords
<1> QED
  BY <1>2, <1>3, <1>4, <1>5

\* The same, as the step of a GET.
LEMMA LoadTaken ==
    ASSUME StatsTypeOK, NEW v \in Views, Load(v)
    PROVE  \E k \in views[v].toLoad :
               /\ views'[v].toLoad = views[v].toLoad \ {k}
               /\ views'[v].shown = [views[v].shown EXCEPT ![k] = count[k]]
               /\ views[v].toLoad # {k} =>
                      views'[v].moved = views[v].moved /\ views'[v].crossed = views[v].crossed
<1>1. views[v] \in ViewRecords
  BY DEF StatsTypeOK
<1>2. PICK k \in views[v].toLoad : views' = [views EXCEPT ![v] = LoadInto(views[v], k)]
  BY DEF Load
<1>3. views'[v] = LoadInto(views[v], k)
  BY <1>2 DEF StatsTypeOK
<1>4. /\ LoadInto(views[v], k).toLoad = views[v].toLoad \ {k}
      /\ LoadInto(views[v], k).shown = [views[v].shown EXCEPT ![k] = count[k]]
      /\ views[v].toLoad # {k} =>
             /\ LoadInto(views[v], k).moved = views[v].moved
             /\ LoadInto(views[v], k).crossed = views[v].crossed
  BY <1>1, LoadEffect
<1> QED
  BY <1>3, <1>4

LEMMA StatsTyped == StatsTypeOK /\ [StatsNext]_statsVars => StatsTypeOK'
<1> SUFFICES ASSUME StatsTypeOK, [StatsNext]_statsVars
             PROVE  StatsTypeOK'
  OBVIOUS
<1> USE DEF StatsTypeOK
<1>1. CASE UNCHANGED statsVars
  BY <1>1 DEF statsVars, statsHistory
<1>2. ASSUME NEW c \in Calls, Arrive(c) \/ Decide(c) \/ Refuse(c)
      PROVE  StatsTypeOK'
  <2>1. count' \in [Counters -> Nat]
    BY <1>2 DEF Arrive, Decide, Refuse, Increment, Counters, Verdicts
  <2>2. views' \in [Views -> ViewRecords]
    BY <1>2, ViewHistory DEF Arrive, Decide, Refuse, Moves
  <2>3. inFlight' \subseteq Calls /\ UNCHANGED toReset
    BY <1>2 DEF Arrive, Decide, Refuse
  <2>4. arrived' \in Nat /\ refused' \in Nat /\ overlapping' \in Nat
    BY <1>2 DEF Arrive, Decide, Refuse, statsHistory
  <2> QED
    BY <2>1, <2>2, <2>3, <2>4
<1>3. ASSUME NEW r \in Resets, StartReset(r) \/ StoreZero(r)
      PROVE  StatsTypeOK'
  <2>1. count' \in [Counters -> Nat] /\ toReset' \in [Resets -> SUBSET Counters]
    BY <1>3 DEF StartReset, StoreZero, Zeroed
  <2>2. views' \in [Views -> ViewRecords]
    <3>1. Crosses
      BY <1>3 DEF StartReset, StoreZero
    <3> QED
      BY <3>1, ViewHistory DEF Crosses
  <2>3. Cardinality(inFlight) \in Nat
    BY OpenCount DEF Open
  <2>4. refused' \in Nat /\ overlapping' \in Nat
    BY <1>3, <2>3 DEF StartReset, StoreZero, statsHistory
  <2>5. UNCHANGED <<inFlight, arrived>>
    BY <1>3 DEF StartReset, StoreZero
  <2> QED
    BY <2>1, <2>2, <2>4, <2>5
<1>4. ASSUME NEW v \in Views, StartView(v) \/ Load(v)
      PROVE  StatsTypeOK'
  <2>1. CASE StartView(v)
    BY <2>1 DEF StartView, ViewRecords, NoCounts, Resetting, statsHistory
  <2>2. CASE Load(v)
    <3>1. \A k \in views[v].toLoad : LoadInto(views[v], k) \in ViewRecords
      BY LoadEffect
    <3>2. views' \in [Views -> ViewRecords]
      BY <2>2, <3>1 DEF Load
    <3> QED
      BY <2>2, <3>2 DEF Load, statsHistory
  <2> QED
    BY <1>4, <2>1, <2>2
<1> QED
  BY <1>1, <1>2, <1>3, <1>4 DEF StatsNext

\* A step of a call moves at most one request from one place to the next.
LEMMA CallCounts ==
    ASSUME StatsInv, NEW c \in Calls, Arrive(c) \/ Decide(c) \/ Refuse(c)
    PROVE  CountsAddUp' /\ ResetInv'
<1> USE DEF StatsInv, StatsTypeOK
<1>1. toReset' = toReset /\ Resetting' = Resetting
  BY DEF Arrive, Decide, Refuse, Resetting
<1>2. \A k \in Counters : Settled(k)' = Settled(k)
  BY <1>1 DEF Settled
<1>3. CASE Arrive(c)
  <2>1. Open' = Open + 1
    BY <1>3, OpenCount DEF Arrive, Open
  <2>2. /\ count'["total_requests"] = count["total_requests"] + 1
        /\ count'["allows"] = count["allows"] /\ count'["denies"] = count["denies"]
        /\ refused' = refused
        /\ overlapping' = IF Resetting THEN overlapping + 1 ELSE overlapping
    BY <1>3 DEF Arrive, Increment, Counters
  <2> QED
    BY <1>1, <1>2, <2>1, <2>2, OpenCount
    DEF CountsAddUp, ResetInv, Gap, Within, Since, Counters, Open
<1>4. CASE Decide(c)
  <2>1. Open' = Open - 1
    BY <1>4, OpenCount DEF Decide, Open
  <2>2. /\ count'["total_requests"] = count["total_requests"]
        /\ \/ count'["allows"] = count["allows"] + 1 /\ count'["denies"] = count["denies"]
           \/ count'["allows"] = count["allows"] /\ count'["denies"] = count["denies"] + 1
        /\ refused' = refused /\ overlapping' = overlapping
    BY <1>4 DEF Decide, Increment, Counters, Verdicts, statsHistory
  <2> QED
    BY <1>1, <1>2, <2>1, <2>2, OpenCount
    DEF CountsAddUp, ResetInv, Gap, Within, Since, Counters, Open
<1>5. CASE Refuse(c)
  <2>1. Open' = Open - 1
    BY <1>5, OpenCount DEF Refuse, Open
  <2>2. count' = count /\ refused' = refused + 1 /\ overlapping' = overlapping
    BY <1>5 DEF Refuse
  <2> QED
    BY <1>1, <1>2, <2>1, <2>2, OpenCount
    DEF CountsAddUp, ResetInv, Gap, Within, Since, Counters, Open
<1> QED
  BY <1>3, <1>4, <1>5

\* A reset forgets what was counted, and with its last store all of it.
LEMMA ResetCounts ==
    ASSUME StatsInv, NEW r \in Resets, StartReset(r) \/ StoreZero(r)
    PROVE  CountsAddUp' /\ ResetInv'
<1> USE DEF StatsInv, StatsTypeOK
<1>1. Open' = Open /\ Open \in Nat
  BY OpenCount DEF StartReset, StoreZero, Open
<1>2. CASE StartReset(r)
  <2>1. Resetting' /\ \A k \in Counters : ~Settled(k)'
    BY <1>2 DEF StartReset, Zeroed, Resetting, Settled, Counters
  <2>2. \A k \in Counters : Since(k)' = 0 /\ Since(k) >= 0
    BY <2>1 DEF Since
  <2>3. /\ refused' = (IF Resetting THEN refused ELSE 0)
        /\ overlapping' = (IF Resetting THEN overlapping ELSE Open)
    BY <1>2 DEF StartReset, Open
  <2>4. Since("allows") \in Nat /\ Since("denies") \in Nat
    BY DEF Since, Counters
  <2>5. refused' + Open <= overlapping'
    BY <1>1, <2>3, <2>4 DEF ResetInv
  <2>6. overlapping' \in Nat
    BY <1>1, <2>3
  <2> QED
    BY <1>1, <2>1, <2>2, <2>3, <2>5, <2>6 DEF CountsAddUp, ResetInv, Counters
<1>3. CASE StoreZero(r)
  <2>1. PICK k \in toReset[r] : /\ count' = [count EXCEPT ![k] = 0]
                                /\ toReset' = [toReset EXCEPT ![r] = @ \ {k}]
    BY <1>3 DEF StoreZero
  <2>2. k \in Counters /\ Resetting /\ refused' = refused /\ overlapping' = overlapping
    BY <1>3, <2>1 DEF StoreZero, statsHistory, Resetting
  <2>3. \A j \in Counters : Since(j)' \in Nat /\ Since(j) \in Nat /\ Since(j)' <= Since(j)
    BY <2>1, <2>2 DEF Since, Settled
  <2>4. /\ Since("total_requests")' <= overlapping
        /\ Since("allows")' + Since("denies")' + refused + Open <= overlapping
    BY <1>1, <2>2, <2>3 DEF ResetInv, Counters
  <2>5. ResetInv'
    BY <1>1, <2>2, <2>4 DEF ResetInv
  <2>6. CASE ~Resetting'
    <3>1. \A j \in Counters : Since(j)' = count'[j]
      BY <2>6 DEF Resetting, Settled, Since
    <3>2. \A j \in Counters : count'[j] \in Nat
      BY <2>1
    <3> QED
      BY <1>1, <2>2, <2>4, <2>5, <3>1, <3>2 DEF CountsAddUp, Gap, Within, Open, Counters
  <2> QED
    BY <2>5, <2>6 DEF CountsAddUp
<1> QED
  BY <1>2, <1>3

LEMMA StatsInvNext == StatsInv /\ [StatsNext]_statsVars => StatsInv'
<1> SUFFICES ASSUME StatsInv, [StatsNext]_statsVars
             PROVE  StatsInv'
  OBVIOUS
<1>1. StatsTypeOK'
  BY StatsTyped DEF StatsInv
<1>2. ASSUME UNCHANGED <<count, inFlight, toReset, statsHistory>>
      PROVE  CountsAddUp' /\ ResetInv'
  BY <1>2 DEF StatsInv, CountsAddUp, ResetInv, Gap, Since, Settled, Resetting, Open,
              statsHistory
<1>3. CASE UNCHANGED statsVars
  BY <1>1, <1>2, <1>3 DEF statsVars, StatsInv
<1>4. ASSUME NEW v \in Views, StartView(v) \/ Load(v)
      PROVE  CountsAddUp' /\ ResetInv'
  BY <1>2, <1>4 DEF StartView, Load
<1> QED
  BY <1>1, <1>3, <1>4, CallCounts, ResetCounts DEF StatsNext, StatsInv

LEMMA StatsInvInit == StatsInit => StatsInv
<1> SUFFICES ASSUME StatsInit
             PROVE  StatsInv
  OBVIOUS
<1>1. StatsTypeOK
  BY DEF StatsInit, StatsTypeOK, NoCounts, ViewRecords
<1>2. ~Resetting
  BY DEF StatsInit, Resetting
<1>3. Gap(count) = 0
  BY FS_EmptySet DEF StatsInit, Gap, NoCounts, Counters
<1> QED
  BY <1>1, <1>2, <1>3 DEF StatsInv, CountsAddUp, ResetInv, Within, StatsInit

\* Reading the three counters at a moment when no reset runs, a request is missing in
\* one of them, or counted in one of them alone, only if it overlapped the last reset.
THEOREM CountsStayTogether == StatsSpec => []CountsAddUp
<1>1. StatsInit => StatsInv
  BY StatsInvInit
<1>2. StatsInv /\ [StatsNext]_statsVars => StatsInv'
  BY StatsInvNext
<1>3. StatsInv => CountsAddUp
  BY DEF StatsInv
<1> QED
  BY <1>1, <1>2, <1>3, PTL DEF StatsSpec

-----------------------------------------------------------------------------
(* What GET /stats shows.                                                  *)

\* How far a counter has gone on since a GET loaded it: one for each step of a call.
Behind(v, k) == IF k \in views[v].toLoad THEN 0 ELSE count[k] - views[v].shown[k]

ViewInv(v) ==
    Loading(v) /\ ~views[v].crossed =>
        /\ ~Resetting
        /\ \A k \in Counters : Behind(v, k) >= 0
        /\ Behind(v, "total_requests") + Behind(v, "allows") + Behind(v, "denies")
               <= views[v].moved

ShownInv == \A v \in Views : ViewInv(v)

LEMMA CallBeside ==
    ASSUME StatsTypeOK, ShownInv, NEW c \in Calls, Arrive(c) \/ Decide(c) \/ Refuse(c)
    PROVE  ShownInv'
<1> SUFFICES ASSUME NEW v \in Views, Loading(v)', ~views'[v].crossed
             PROVE  ViewInv(v)'
  BY DEF ShownInv, ViewInv
<1> USE DEF StatsTypeOK
<1>1. Moves /\ Resetting' = Resetting
  BY DEF Arrive, Decide, Refuse, Resetting
<1>2. /\ Loading(v) /\ ~views[v].crossed
      /\ views'[v].toLoad = views[v].toLoad /\ views'[v].shown = views[v].shown
      /\ views'[v].moved = views[v].moved + 1
  BY <1>1 DEF Moves, Loading, ViewRecords
<1>3. ViewInv(v)
  BY DEF ShownInv
<1>4. PICK i \in Counters : UNCHANGED count \/ count' = [count EXCEPT ![i] = @ + 1]
  BY DEF Arrive, Decide, Refuse, Increment, Counters, Verdicts
<1>5. \A k \in Counters :
          Behind(v, k)' = Behind(v, k) \/ (k = i /\ Behind(v, k)' = Behind(v, k) + 1)
  BY <1>2, <1>4 DEF Behind, ViewRecords
<1>6. \A k \in Counters : Behind(v, k) \in Int
  BY DEF Behind, ViewRecords
<1>7. views[v].moved \in Nat
  BY DEF ViewRecords
<1> QED
  BY <1>1, <1>2, <1>3, <1>5, <1>6, <1>7 DEF ViewInv, Counters

LEMMA ResetBeside ==
    ASSUME StatsTypeOK, NEW r \in Resets, StartReset(r) \/ StoreZero(r)
    PROVE  ShownInv'
<1> SUFFICES ASSUME NEW v \in Views
             PROVE  ~Loading(v)' \/ views'[v].crossed
  BY DEF ShownInv, ViewInv
<1>1. Crosses
  BY DEF StartReset, StoreZero
<1> QED
  BY <1>1 DEF Crosses, Loading, StatsTypeOK, ViewRecords

LEMMA ViewSteps ==
    ASSUME StatsTypeOK, ShownInv, NEW w \in Views, StartView(w) \/ Load(w)
    PROVE  ShownInv'
<1> SUFFICES ASSUME NEW v \in Views, Loading(v)', ~views'[v].crossed
             PROVE  ViewInv(v)'
  BY DEF ShownInv, ViewInv
<1> USE DEF StatsTypeOK
<1>1. Resetting' = Resetting /\ count' = count
  BY DEF StartView, Load, Resetting
<1>2. ViewInv(v)
  BY DEF ShownInv
<1>3. CASE v # w
  <2>1. views'[v] = views[v]
    BY <1>3 DEF StartView, Load
  <2> QED
    BY <1>1, <1>2, <2>1 DEF ViewInv, Loading, Behind
<1>4. CASE v = w /\ StartView(w)
  <2>1. views'[v].toLoad = Counters /\ views'[v].moved = 0 /\ views'[v].crossed = Resetting
    BY <1>4 DEF StartView
  <2>2. \A k \in Counters : Behind(v, k)' = 0
    BY <2>1 DEF Behind
  <2> QED
    BY <1>1, <2>1, <2>2 DEF ViewInv, Counters
<1>5. CASE v = w /\ Load(w)
  <2>1. PICK k \in views[v].toLoad :
            /\ views'[v].toLoad = views[v].toLoad \ {k}
            /\ views'[v].shown = [views[v].shown EXCEPT ![k] = count[k]]
            /\ views[v].toLoad # {k} =>
                   views'[v].moved = views[v].moved /\ views'[v].crossed = views[v].crossed
    BY <1>5, LoadTaken
  <2>2. views[v].toLoad # {k}
    BY <2>1 DEF Loading
  <2>3. Loading(v) /\ ~views[v].crossed /\ views'[v].moved = views[v].moved
    BY <2>1, <2>2 DEF Loading
  <2>4. \A j \in Counters : Behind(v, j)' = Behind(v, j)
    BY <1>1, <2>1 DEF Behind, ViewRecords
  <2> QED
    BY <1>1, <1>2, <2>3, <2>4 DEF ViewInv, Counters
<1> QED
  BY <1>3, <1>4, <1>5

LEMMA ShownNext == StatsTypeOK /\ ShownInv /\ [StatsNext]_statsVars => ShownInv'
<1> SUFFICES ASSUME StatsTypeOK, ShownInv, [StatsNext]_statsVars
             PROVE  ShownInv'
  OBVIOUS
<1>1. CASE UNCHANGED statsVars
  BY <1>1 DEF statsVars, ShownInv, ViewInv, Loading, Resetting, Behind
<1> QED
  BY <1>1, CallBeside, ResetBeside, ViewSteps DEF StatsNext

\* With the third load, the sum is off by what moved since the first.
LEMMA LastLoad ==
    ASSUME StatsInv, ShownInv, [StatsNext]_statsVars,
           NEW v \in Views, Loading(v), ~Loading(v)', ~views[v].crossed
    PROVE  Within(Gap(views'[v].shown), overlapping + views[v].moved)
<1> USE DEF StatsInv, StatsTypeOK
<1>1. Load(v)
  <2>1. ASSUME NEW w \in Views, StartView(w) \/ (Load(w) /\ w # v)
        PROVE  FALSE
    BY <2>1 DEF StartView, Load, Loading, ViewRecords, Counters
  <2>2. ASSUME NEW c \in Calls, Arrive(c) \/ Decide(c) \/ Refuse(c)
        PROVE  FALSE
    <3>1. Moves
      BY <2>2 DEF Arrive, Decide, Refuse
    <3> QED
      BY <3>1 DEF Moves, Loading, ViewRecords
  <2>3. ASSUME NEW r \in Resets, StartReset(r) \/ StoreZero(r)
        PROVE  FALSE
    <3>1. Crosses
      BY <2>3 DEF StartReset, StoreZero
    <3> QED
      BY <3>1 DEF Crosses, Loading, ViewRecords
  <2>4. ~UNCHANGED statsVars
    BY DEF statsVars, Loading
  <2> QED
    BY <2>1, <2>2, <2>3, <2>4 DEF StatsNext
<1>2. PICK k \in views[v].toLoad :
          /\ views'[v].toLoad = views[v].toLoad \ {k}
          /\ views'[v].shown = [views[v].shown EXCEPT ![k] = count[k]]
  BY <1>1, LoadTaken
<1>3. views[v].toLoad = {k}
  BY <1>2 DEF Loading
<1>4. \A j \in Counters : views'[v].shown[j] = count[j] - Behind(v, j)
  BY <1>2, <1>3 DEF Behind, ViewRecords
<1>5. refused' = refused /\ Open' = Open /\ ~Resetting /\ Open \in Nat
  BY <1>1, OpenCount DEF Load, statsHistory, ShownInv, ViewInv, Open
<1>6. Within(Gap(count), overlapping) /\ ViewInv(v)
  BY <1>5 DEF CountsAddUp, ShownInv
<1>7. \A j \in Counters : Behind(v, j) \in Int
  BY DEF Behind, ViewRecords
<1>8. views[v].moved \in Nat /\ \A j \in Counters : count[j] \in Nat
  BY DEF ViewRecords
<1>9. Gap(views'[v].shown) =
          Gap(count) - Behind(v, "total_requests") + Behind(v, "allows") + Behind(v, "denies")
  BY <1>4, <1>5, <1>7, <1>8 DEF Gap, Counters, Open
<1>10. Gap(count) \in Int
  BY <1>5, <1>8 DEF Gap, Counters, Open
<1> QED
  BY <1>5, <1>6, <1>7, <1>8, <1>9, <1>10 DEF Within, ViewInv, Counters

\* What GET /stats shows adds up but for the requests that moved while it loaded, and
\* those of the last reset.
THEOREM ShownStaysTogether == StatsSpec => ShownAddsUp
<1>1. StatsInit => ShownInv
  BY DEF StatsInit, ShownInv, ViewInv, Loading
<1>2. StatsInv /\ ShownInv /\ [StatsNext]_statsVars => ShownInv'
  BY ShownNext DEF StatsInv
<1>3. StatsInv /\ ShownInv /\ [StatsNext]_statsVars =>
          [\A v \in Views :
              Loading(v) /\ ~Loading(v)' /\ ~views[v].crossed =>
                  Within(Gap(views'[v].shown), overlapping + views[v].moved)]_statsVars
  BY LastLoad
<1> QED
  BY <1>1, <1>2, <1>3, StatsInvInit, StatsInvNext, PTL DEF StatsSpec, ShownAddsUp
=============================================================================
