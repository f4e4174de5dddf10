---------------------- MODULE AuthorizationPageProofs ----------------------
(***************************************************************************)
(* Proofs about AuthorizationPage, for every set of questions, policies    *)
(* and entities, whatever Cedar answers.  CheckInv says that at most one   *)
(* check is in flight, ReadsInv what it has read of what was stored.       *)
(***************************************************************************)
EXTENDS AuthorizationPage, FiniteSetTheorems, TLAPS

Moments   == [policies : Policies, entities : Entities]
Questions == [ask : Asks, context : ContextTexts]
Checks ==
    [n : Nat, step : {"sent", "reading", "decided"}, question : Questions,
     policies : Policies \cup {Absent}, decision : {"Allow", "Deny", Absent},
     seen : SUBSET Moments]

AuthTypeOK ==
    /\ agent \in Contained
    /\ agentUndo \in Contained \cup {Absent}
    /\ authAsk \in Asks
    /\ authContext \in ContextTexts
    /\ authLoading \in BOOLEAN
    /\ authChecks \subseteq Checks
    /\ authSent \in Nat

\* The button is disabled during a check, so that there is one at most.
CheckInv ==
    /\ \A c \in authChecks : c.n = authSent
    /\ \A c, d \in authChecks : c = d
    /\ authChecks # {} => authLoading
    /\ authLoading => authResult = Absent

\* One mutation writes one store.
Near(s, t) == s.policies = t.policies \/ s.entities = t.entities
UndoInv == agentUndo # Absent => Near(agentUndo, agent)

Close(seen) ==
    /\ IsFiniteSet(seen)
    /\ Cardinality(seen) <= 2 => \A s, t \in seen : Near(s, t)

Explained(decision, q, seen) ==
    /\ \E s, t \in seen : decision = Decision(q, s.policies, t.entities)
    /\ Cardinality(seen) <= 2 => \E s \in seen : decision = Decision(q, s.policies, s.entities)

CheckReads(c) ==
    /\ Close(c.seen)
    /\ c.step # "decided" => Stored \in c.seen
    /\ c.step = "reading" => \E s \in c.seen : c.policies = s.policies
    /\ c.step = "decided" => Explained(c.decision, c.question, c.seen)

ReadsInv ==
    /\ UndoInv
    /\ \A c \in authChecks : CheckReads(c)

AuthInv == AuthTypeOK /\ CheckInv /\ ReadsInv /\ ResultOfLastCheck /\ DecisionFromStored

-----------------------------------------------------------------------------
(* What a check has seen. *)

\* A set of two moments at most that grows by a near one stays close.
LEMMA SeenGrows ==
    ASSUME NEW seen, Close(seen), NEW now \in seen, NEW next, Near(now, next)
    PROVE  Close(seen \cup {next})
<1>1. /\ IsFiniteSet(seen \cup {next}) /\ Cardinality(seen) \in Nat
      /\ Cardinality(seen \cup {next}) =
             IF next \in seen THEN Cardinality(seen) ELSE Cardinality(seen) + 1
  BY FS_AddElement, FS_CardinalityType DEF Close
<1>2. CASE next \in seen
  <2>1. seen \cup {next} = seen
    BY <1>2
  <2> QED
    BY <2>1
<1>3. CASE next \notin seen
  <2>1. SUFFICES ASSUME Cardinality(seen \cup {next}) <= 2
                 PROVE  \A s, t \in seen \cup {next} : Near(s, t)
    BY <1>1 DEF Close
  <2>2. Cardinality(seen) <= 1
    BY <1>1, <1>3, <2>1
  <2>3. /\ IsFiniteSet(seen \ {now})
        /\ Cardinality(seen \ {now}) = Cardinality(seen) - 1
        /\ Cardinality(seen \ {now}) \in Nat
    BY FS_RemoveElement, FS_CardinalityType DEF Close
  <2>4. seen \ {now} = {}
    BY <1>1, <2>2, <2>3, FS_EmptySet
  <2> QED
    BY <2>4 DEF Near
<1> QED
  BY <1>2, <1>3

\* Policies of one of the moments and the entities of another: one of them explains
\* the decision if there are two at most.
LEMMA DecisionExplained ==
    ASSUME NEW seen, Close(seen), NEW s \in seen, NEW t \in seen, NEW q
    PROVE  Explained(Decision(q, s.policies, t.entities), q, seen)
BY DEF Close, Near, Explained

-----------------------------------------------------------------------------
(* The steps. *)

LEMMA AuthStarts == AgentInit /\ AuthInit => AuthInv
<1> SUFFICES ASSUME AgentInit, AuthInit
             PROVE  AuthInv
  OBVIOUS
<1> USE DEF AgentInit, AuthInit
<1>1. AuthTypeOK
  BY AuthorizationPageAssumption DEF AuthTypeOK
<1>2. CheckInv /\ ReadsInv /\ ResultOfLastCheck /\ DecisionFromStored
  BY DEF CheckInv, ReadsInv, UndoInv, ResultOfLastCheck, DecisionFromStored
<1> QED
  BY <1>1, <1>2 DEF AuthInv

\* The form: what is shown stays, or is taken away.
LEMMA FormSteps ==
    ASSUME AuthInv, EnterAsk \/ EnterContext \/ LoadExample \/ RejectContext
    PROVE  AuthInv'
<1> USE DEF LeaveChecks, agentVars, authForm
<1>1. UNCHANGED <<agentVars, authLoading, authChecks, authSent>>
  BY DEF EnterAsk, EnterContext, LoadExample, RejectContext
<1>2. authAsk' \in Asks /\ authContext' \in ContextTexts
  BY AuthorizationPageAssumption
     DEF EnterAsk, EnterContext, LoadExample, RejectContext, AuthInv, AuthTypeOK
<1>3. authResult' = Absent \/ UNCHANGED <<authResult, authOf>>
  BY DEF EnterAsk, EnterContext, LoadExample, RejectContext
<1>4. AuthTypeOK'
  BY <1>1, <1>2 DEF AuthInv, AuthTypeOK
<1>5. CheckInv' /\ ReadsInv'
  BY <1>1, <1>3 DEF AuthInv, CheckInv, ReadsInv, UndoInv, CheckReads, Stored
<1>6. ResultOfLastCheck' /\ DecisionFromStored'
  BY <1>1, <1>3 DEF AuthInv, ResultOfLastCheck, DecisionFromStored
<1> QED
  BY <1>4, <1>5, <1>6 DEF AuthInv

\* A check is sent while none is in flight, and takes the result away.
LEMMA StartSteps ==
    ASSUME AuthInv, StartCheck
    PROVE  AuthInv'
<1> USE DEF agentVars, authForm
<1> DEFINE check == CheckOf(authSent + 1)
<1>1. /\ authChecks = {} /\ authChecks' = {check}
      /\ authLoading' = TRUE /\ authResult' = Absent /\ authSent' = authSent + 1
      /\ UNCHANGED <<agentVars, authForm>>
  BY DEF StartCheck, MayCheck, AuthInv, CheckInv
<1>2. Stored \in Moments /\ Question \in Questions
  BY DEF AuthInv, AuthTypeOK, Contained, Stored, Moments, Question, Questions
<1>3. check \in Checks /\ check.n = authSent + 1 /\ check.step = "sent" /\ check.seen = {Stored}
  BY <1>2 DEF CheckOf, Checks, AuthInv, AuthTypeOK
<1>4. Close({Stored})
  BY FS_Singleton DEF Close, Near
<1> HIDE DEF check
<1>5. AuthTypeOK'
  BY <1>1, <1>3 DEF AuthInv, AuthTypeOK
<1>6. CheckInv'
  BY <1>1, <1>3 DEF CheckInv
<1>7. ReadsInv'
  BY <1>1, <1>3, <1>4 DEF AuthInv, ReadsInv, UndoInv, CheckReads, Stored
<1>8. ResultOfLastCheck' /\ DecisionFromStored'
  BY <1>1 DEF ResultOfLastCheck, DecisionFromStored
<1> QED
  BY <1>5, <1>6, <1>7, <1>8 DEF AuthInv

\* The agent reads the policies, then the entities.
LEMMA AgentSteps ==
    ASSUME AuthInv, AgentReadsForCheck \/ AgentDecides
    PROVE  AuthInv'
<1> USE DEF agentVars, authForm, LeaveForm
<1>1. UNCHANGED <<agentVars, authForm, authSent, authLoading, authResult, authOf>>
  BY DEF AgentReadsForCheck, AgentDecides
<1>2. \E c \in authChecks, over \in Checks :
          /\ CheckGoes(c, over)
          /\ over.n = c.n
          /\ CheckReads(over)
  <2>1. CASE AgentReadsForCheck
    <3>1. PICK c \in authChecks :
              /\ c.step = "sent"
              /\ CheckGoes(c, [c EXCEPT !.step = "reading", !.policies = agent.policies])
      BY <2>1 DEF AgentReadsForCheck
    <3> DEFINE over == [c EXCEPT !.step = "reading", !.policies = agent.policies]
    <3>2. c \in Checks /\ agent.policies \in Policies /\ CheckReads(c)
      BY DEF AuthInv, AuthTypeOK, Contained, ReadsInv
    <3>3. /\ over \in Checks /\ over.n = c.n /\ over.step = "reading"
          /\ over.seen = c.seen /\ over.policies = agent.policies
      BY <3>2 DEF Checks
    <3>4. Stored.policies = agent.policies
      BY DEF Stored
    <3> HIDE DEF over
    <3>5. CheckReads(over)
      BY <3>1, <3>2, <3>3, <3>4 DEF CheckReads
    <3> QED
      BY <3>1, <3>3, <3>5 DEF over
  <2>2. CASE AgentDecides
    <3>1. PICK c \in authChecks : c.step = "reading" /\ CheckGoes(c, DecideFor(c))
      BY <2>2 DEF AgentDecides
    <3> DEFINE decided == Decision(c.question, c.policies, agent.entities)
    <3>2. c \in Checks /\ CheckReads(c)
      BY DEF AuthInv, AuthTypeOK, ReadsInv
    <3>3. PICK s \in c.seen : c.policies = s.policies
      BY <3>1, <3>2 DEF CheckReads
    <3>4. Stored \in c.seen /\ Stored.entities = agent.entities /\ Close(c.seen)
      BY <3>1, <3>2 DEF CheckReads, Stored
    <3>5. Explained(decided, c.question, c.seen)
      BY <3>3, <3>4, DecisionExplained
    <3>6. decided \in {"Allow", "Deny"}
      BY DEF Decision
    <3> HIDE DEF decided
    <3>7. /\ DecideFor(c) \in Checks /\ DecideFor(c).n = c.n /\ DecideFor(c).step = "decided"
          /\ DecideFor(c).seen = c.seen /\ DecideFor(c).question = c.question
          /\ DecideFor(c).decision = decided
      BY <3>2, <3>6 DEF DecideFor, Checks, decided
    <3>8. CheckReads(DecideFor(c))
      BY <3>4, <3>5, <3>7 DEF CheckReads
    <3> QED
      BY <3>1, <3>7, <3>8
  <2> QED
    BY <2>1, <2>2
<1>3. AuthTypeOK'
  BY <1>1, <1>2 DEF AuthInv, AuthTypeOK, CheckGoes
<1>4. CheckInv'
  BY <1>1, <1>2 DEF AuthInv, CheckInv, CheckGoes
<1>5. ReadsInv'
  <2>1. UNCHANGED Stored
    BY <1>1 DEF Stored
  <2>2. \A c \in authChecks' : CheckReads(c)
    BY <1>2 DEF AuthInv, ReadsInv, CheckGoes
  <2> QED
    BY <1>1, <2>1, <2>2 DEF AuthInv, ReadsInv, UndoInv, CheckReads
<1>6. ResultOfLastCheck' /\ DecisionFromStored'
  BY <1>1 DEF AuthInv, ResultOfLastCheck, DecisionFromStored
<1> QED
  BY <1>3, <1>4, <1>5, <1>6 DEF AuthInv

\* The answer, or an error, arrives.
LEMMA AnswerSteps ==
    ASSUME AuthInv, ResultArrives \/ CheckFails
    PROVE  AuthInv'
<1> USE DEF agentVars, authForm, LeaveForm
<1>1. /\ UNCHANGED <<agentVars, authForm, authSent>>
      /\ authLoading' = FALSE /\ authChecks' = {}
  BY DEF ResultArrives, CheckFails, AuthInv, CheckInv
<1>2. CheckInv' /\ ReadsInv' /\ AuthTypeOK'
  BY <1>1 DEF AuthInv, CheckInv, ReadsInv, UndoInv, AuthTypeOK
<1>3. ResultOfLastCheck' /\ DecisionFromStored'
  <2>1. CASE ResultArrives
    <3>1. PICK c \in authChecks : c.step = "decided" /\ authResult' = c.decision /\ authOf' = c
      BY <2>1 DEF ResultArrives
    <3>2. c.n = authSent /\ Explained(c.decision, c.question, c.seen)
      BY <3>1 DEF AuthInv, CheckInv, ReadsInv, CheckReads
    <3> QED
      BY <1>1, <3>1, <3>2 DEF ResultOfLastCheck, DecisionFromStored, Explained
  <2>2. CASE CheckFails
    BY <1>1, <2>2 DEF CheckFails, AuthInv, ResultOfLastCheck, DecisionFromStored
  <2> QED
    BY <2>1, <2>2
<1> QED
  BY <1>2, <1>3 DEF AuthInv

\* Another client changes one of the stores, or the change is taken back.
LEMMA OthersAuthSteps ==
    ASSUME AuthInv, OthersChangeStores
    PROVE  AuthInv'
<1> USE DEF authForm
<1>1. /\ authChecks' = {Seen(c) : c \in authChecks}
      /\ UNCHANGED <<authForm, authLoading, authResult, authOf, authSent>>
  BY DEF OthersChangeStores
<1>2. /\ agent' \in Contained /\ agentUndo' \in Contained \cup {Absent}
      /\ Near(agent, agent') /\ UndoInv'
  <2>1. ASSUME NEW p \in PolicyIds, NEW text \in Contents \cup {Absent},
               OthersWrite([agent EXCEPT !.policies[p] = text])
        PROVE  <1>2
    BY <2>1 DEF OthersWrite, AuthInv, AuthTypeOK, Contained, Policies, Near, UndoInv
  <2>2. ASSUME NEW u \in Uids, NEW body \in {Absent, EmptyBody},
               OthersWrite([agent EXCEPT !.entities[u] = body])
        PROVE  <1>2
    BY <2>2 DEF OthersWrite, AuthInv, AuthTypeOK, Contained, Entities, Bodies, EmptyBody, Near,
                UndoInv
  <2>3. ASSUME OthersCommit \/ OthersRollBack
        PROVE  <1>2
    BY <2>3 DEF OthersCommit, OthersRollBack, AuthInv, AuthTypeOK, ReadsInv, UndoInv, Near
  <2> QED
    BY <2>1, <2>2, <2>3 DEF OthersChangeStores
<1>3. Stored' \in Moments /\ Near(Stored, Stored')
  BY <1>2 DEF Stored, Moments, Contained, Near
<1>4. ASSUME NEW c \in authChecks, NEW over, over = Seen(c)
      PROVE  over \in Checks /\ over.n = c.n /\ CheckReads(over)'
  <2>1. c \in Checks /\ CheckReads(c)
    BY DEF AuthInv, AuthTypeOK, ReadsInv
  <2>2. CASE c.step = "decided"
    BY <1>4, <2>1, <2>2 DEF Seen, CheckReads
  <2>3. CASE c.step # "decided"
    <3>1. over = [c EXCEPT !.seen = c.seen \cup {Stored'}]
      BY <1>4, <2>3 DEF Seen, Stored
    <3>2. /\ over \in Checks /\ over.n = c.n /\ over.step = c.step
          /\ over.policies = c.policies /\ over.seen = c.seen \cup {Stored'}
      BY <1>3, <2>1, <3>1 DEF Checks
    <3>3. Close(c.seen \cup {Stored'})
      BY <1>3, <2>1, <2>3, SeenGrows DEF CheckReads
    <3> QED
      BY <2>1, <2>3, <3>2, <3>3 DEF CheckReads
  <2> QED
    BY <2>2, <2>3
<1>5. AuthTypeOK' /\ CheckInv'
  BY <1>1, <1>2, <1>4 DEF AuthInv, AuthTypeOK, CheckInv
<1>6. ReadsInv'
  BY <1>1, <1>2, <1>4 DEF ReadsInv
<1>7. ResultOfLastCheck' /\ DecisionFromStored'
  BY <1>1 DEF AuthInv, ResultOfLastCheck, DecisionFromStored
<1> QED
  BY <1>5, <1>6, <1>7 DEF AuthInv

LEMMA AuthStep ==
    ASSUME AuthInv, [AuthNext]_authVars
    PROVE  AuthInv'
<1>1. CASE UNCHANGED authVars
  BY <1>1 DEF authVars, authForm, agentVars, AuthInv, AuthTypeOK, CheckInv, ReadsInv, UndoInv,
              CheckReads, Stored, ResultOfLastCheck, DecisionFromStored
<1>2. CASE AuthNext
  BY <1>2, FormSteps, StartSteps, AgentSteps, AnswerSteps, OthersAuthSteps
     DEF AuthNext, CheckCalls
<1> QED
  BY <1>1, <1>2

LEMMA AuthInvariance == AuthSpec => []AuthInv
BY AuthStarts, AuthStep, PTL DEF AuthSpec

-----------------------------------------------------------------------------
\* The result that is shown is the answer of the check that was sent last.
THEOREM LastCheckShown == AuthSpec => []ResultOfLastCheck
<1>1. AuthInv => ResultOfLastCheck
  BY DEF AuthInv
<1> QED
  BY <1>1, AuthInvariance, PTL

\* A decision rests on stored policies and stored entities, and on those of one moment
\* if the stores had two contents at most while the check was in flight.
THEOREM DecisionsFromStored == AuthSpec => []DecisionFromStored
<1>1. AuthInv => DecisionFromStored
  BY DEF AuthInv
<1> QED
  BY <1>1, AuthInvariance, PTL
=============================================================================
