------------------------- MODULE PoliciesPageProofs -------------------------
(***************************************************************************)
(* Proofs about PoliciesPage, for every set of policies, however many      *)
(* calls are in flight.  TypeInv is the type invariant, PageInv what the   *)
(* fetches in flight and the list have to do with the agent.               *)
(***************************************************************************)
EXTENDS PoliciesPage, TLAPS

SaveReqs   == [op : {"create_policy", "update_policy"}, id : PolicyIds, content : Contents]
DeleteReqs == [op : {"delete_policy"}, id : PolicyIds]
SaveCalls  == [req : SaveReqs, step : CallSteps]
DeleteCallRecords == [req : DeleteReqs, step : CallSteps, n : Nat]

TypeInv ==
    /\ PoliciesTypeOK
    /\ agent \in Contained
    /\ agentUndo \in Contained \cup {Absent}
    /\ policyDialog \in [open : BOOLEAN, editing : PolicyIds \cup {Absent}]
    /\ policyConfirm \in [open : BOOLEAN, id : PolicyIds \cup {Absent}]
    /\ policySave \in SaveCalls \cup {Absent}
    /\ policyDeletes \subseteq DeleteCallRecords
    /\ policyWrites \in Nat

\* No write of the page is applied and not yet followed by its fetch.
Quiet ==
    /\ ~MaybeApplied(policySave)
    /\ \A d \in policyDeletes : ~MaybeApplied(d)

\* The agent restores something as long as it applies a call of the page, and it
\* applies one at a time.
LockInv ==
    /\ InStep(policySave, "written") =>
           agentUndo # Absent /\ \A d \in policyDeletes : ~InStep(d, "written")
    /\ \A d \in policyDeletes : InStep(d, "written") =>
           agentUndo # Absent /\ \A e \in policyDeletes : InStep(e, "written") => e = d

\* Fetches have numbers of their own, none above newestFetch.
NumbersInv ==
    /\ shownFetch <= newestFetch
    /\ \A f \in policyFetches : f.n <= newestFetch /\ f.n # shownFetch
    /\ \A f, g \in policyFetches : f.n = g.n => f = g

\* What the newest fetch has read is what the agent stores.
NewestInv ==
    Quiet /\ ~policyUnseen =>
        \A f \in policyFetches :
            f.n = newestFetch /\ f.step = "read" => f.got = agent.policies

PageInv ==
    /\ TypeInv
    /\ LockInv
    /\ NumbersInv
    /\ NewestInv
    /\ ListFollowsAgent
    /\ SpinnerMeansFetching
    /\ ConfirmNamesPolicy

-----------------------------------------------------------------------------
(* The agent. *)

\* A request of the page leaves policies of the right type.
LEMMA PageRequestTyped ==
    ASSUME NEW r \in SaveReqs \cup DeleteReqs, NEW st \in Contained
    PROVE  Result(r, st) \in Contained
<1>1. r.op \in PolicyOps
  BY DEF SaveReqs, DeleteReqs, PolicyOps
<1>2. PolicyResult(r, st.policies) \in Policies
  BY DEF PolicyResult, SaveReqs, DeleteReqs, Contained, Policies
<1> QED
  BY <1>1, <1>2 DEF Result, Contained

\* A step of the agent changes the step of the call and keeps the types.
LEMMA AgentStepTyped ==
    ASSUME agent \in Contained, agentUndo \in Contained \cup {Absent},
           NEW call, call.req \in SaveReqs \cup DeleteReqs,
           InStep(call, "written") => agentUndo # Absent,
           NEW over, AgentStep(call, over)
    PROVE  agent' \in Contained /\ agentUndo' \in Contained \cup {Absent}
<1>1. CASE Refuses(call, over)
  BY <1>1 DEF Refuses, agentVars
<1>2. CASE Writes(call, over)
  BY <1>2, PageRequestTyped DEF Writes
<1>3. CASE Commits(call, over)
  BY <1>3 DEF Commits
<1>4. CASE RollsBack(call, over)
  BY <1>4 DEF RollsBack
<1> QED
  BY <1>1, <1>2, <1>3, <1>4 DEF AgentStep

\* The list, what is unseen and the fetches, when none of them changes and neither
\* does the agent, and no write of the page becomes quiet.
LEMMA NothingRead ==
    ASSUME NumbersInv, NewestInv, ListFollowsAgent, policyUnseen' \in BOOLEAN,
           UNCHANGED <<policyList, policyFetches, newestFetch, shownFetch>>,
           \/ policyUnseen' = TRUE
           \/ ~Quiet'
           \/ /\ UNCHANGED policyUnseen
              /\ agent'.policies = agent.policies
              /\ Quiet
    PROVE  NumbersInv' /\ NewestInv' /\ ListFollowsAgent'
<1>1. NumbersInv'
  BY DEF NumbersInv
<1>2. CASE policyUnseen' = TRUE \/ ~Quiet'
  <2>1. NewestInv'
    BY <1>2 DEF NewestInv
  <2>2. ListFollowsAgent'
    BY <1>2 DEF ListFollowsAgent, Quiet
  <2> QED
    BY <1>1, <2>1, <2>2
<1>3. CASE UNCHANGED policyUnseen /\ agent'.policies = agent.policies /\ Quiet
  <2>1. NewestInv'
    BY <1>3 DEF NewestInv
  <2>2. ListFollowsAgent'
    BY <1>3 DEF ListFollowsAgent, Quiet
  <2> QED
    BY <1>1, <2>1, <2>2
<1> QED
  BY <1>2, <1>3

\* A fetch starts when a write of the page is over, or when nothing else changes.
LEMMA FetchStarts ==
    ASSUME TypeInv, NumbersInv, StartPolicyFetch, UNCHANGED <<shownFetch, policyList>>
    PROVE  NumbersInv' /\ NewestInv' /\ ListFollowsAgent' /\ SpinnerMeansFetching'
           /\ policyFetches' \subseteq FetchRecords /\ newestFetch' \in Nat
           /\ policiesLoading' \in BOOLEAN
<1>1. newestFetch \in Nat /\ shownFetch \in Nat /\ policyFetches \subseteq FetchRecords
  BY DEF TypeInv, PoliciesTypeOK
<1>2. \A f \in policyFetches : f.n \in Nat
  BY <1>1 DEF FetchRecords
<1>3. Asked(newestFetch + 1) \in FetchRecords
  BY <1>1 DEF Asked, FetchRecords
<1>4. /\ Asked(newestFetch + 1).n = newestFetch + 1
      /\ Asked(newestFetch + 1).step = "sent"
  BY DEF Asked
<1>5. newestFetch' = newestFetch + 1
      /\ policyFetches' = policyFetches \cup {Asked(newestFetch + 1)}
      /\ policiesLoading' = TRUE
  BY DEF StartPolicyFetch
<1>6. NumbersInv'
  BY <1>1, <1>2, <1>4, <1>5 DEF NumbersInv
<1>7. NewestInv'
  BY <1>1, <1>2, <1>4, <1>5 DEF NumbersInv, NewestInv
<1>8. ListFollowsAgent'
  BY <1>1, <1>5 DEF NumbersInv, ListFollowsAgent
<1>9. SpinnerMeansFetching'
  BY <1>5 DEF SpinnerMeansFetching
<1> QED
  BY <1>1, <1>3, <1>5, <1>6, <1>7, <1>8, <1>9

-----------------------------------------------------------------------------
(* The steps. *)

LEMMA PageStarts == AgentInit /\ PoliciesInit => PageInv
<1> SUFFICES ASSUME AgentInit, PoliciesInit
             PROVE  PageInv
  OBVIOUS
<1> USE DEF AgentInit, PoliciesInit
<1>1. TypeInv
  <2>1. agent.policies \in Policies /\ policyList \in Policies
    BY DEF Contained, NoPolicies, Policies
  <2>2. policyFetches \subseteq FetchRecords
    BY DEF FetchRecords, Asked
  <2>3. /\ policyDialog \in [open : BOOLEAN, editing : PolicyIds \cup {Absent}]
        /\ policyConfirm \in [open : BOOLEAN, id : PolicyIds \cup {Absent}]
    OBVIOUS
  <2> QED
    BY <2>1, <2>2, <2>3 DEF TypeInv, PoliciesTypeOK
<1>2. LockInv
  BY DEF LockInv, InStep
<1>3. NumbersInv /\ NewestInv
  BY DEF NumbersInv, NewestInv, Asked
<1>4. ListFollowsAgent /\ SpinnerMeansFetching /\ ConfirmNamesPolicy
  BY DEF ListFollowsAgent, SpinnerMeansFetching, ConfirmNamesPolicy
<1> QED
  BY <1>1, <1>2, <1>3, <1>4 DEF PageInv

\* The user opens and closes dialogs: a confirmation is opened for a policy of the table.
LEMMA ModalSteps ==
    ASSUME PageInv,
           \/ OpenCreatePolicy \/ OpenEditPolicy \/ ClosePolicyDialog
           \/ OpenDeletePolicy \/ CloseDeletePolicy
    PROVE  PageInv'
<1> USE DEF LeavePolicyCalls, policyFetching, policyWriting, agentVars
<1>1. UNCHANGED <<agentVars, policiesLoading, policyFetching, policyWriting, policyUnseen>>
  BY DEF OpenCreatePolicy, OpenEditPolicy, ClosePolicyDialog, OpenDeletePolicy,
         CloseDeletePolicy
<1>2. /\ policyDialog' \in [open : BOOLEAN, editing : PolicyIds \cup {Absent}]
      /\ policyConfirm' \in [open : BOOLEAN, id : PolicyIds \cup {Absent}]
  <2> USE DEF PageInv, TypeInv
  <2>1. CASE OpenCreatePolicy
    BY <2>1 DEF OpenCreatePolicy
  <2>2. CASE OpenEditPolicy
    BY <2>2 DEF OpenEditPolicy
  <2>3. CASE ClosePolicyDialog
    BY <2>3 DEF ClosePolicyDialog
  <2>4. CASE OpenDeletePolicy
    BY <2>4 DEF OpenDeletePolicy
  <2>5. CASE CloseDeletePolicy
    BY <2>5 DEF CloseDeletePolicy
  <2> QED
    BY <2>1, <2>2, <2>3, <2>4, <2>5
<1>3. ConfirmNamesPolicy'
  BY PoliciesPageAssumption
     DEF PageInv, TypeInv, ConfirmNamesPolicy, OpenCreatePolicy, OpenEditPolicy,
         ClosePolicyDialog, OpenDeletePolicy, CloseDeletePolicy
<1>4. TypeInv' /\ LockInv'
  BY <1>1, <1>2 DEF PageInv, TypeInv, PoliciesTypeOK, LockInv
<1>5. NumbersInv' /\ NewestInv' /\ ListFollowsAgent' /\ SpinnerMeansFetching'
  BY <1>1 DEF PageInv, NumbersInv, NewestInv, Quiet, ListFollowsAgent, SpinnerMeansFetching
<1> QED
  BY <1>3, <1>4, <1>5 DEF PageInv

\* The agent serves a fetch, and its answer, or an error, arrives.
LEMMA FetchSteps ==
    ASSUME PageInv, FetchCalls
    PROVE  PageInv'
<1> USE DEF policyWriting, policyModals, agentVars
<1> DEFINE Rest == UNCHANGED <<agentVars, policyWriting, policyModals, newestFetch>>
<1>1. Rest
  BY DEF FetchCalls, AgentReadsPolicies, PoliciesArrive, PoliciesFail
<1>2. /\ newestFetch \in Nat /\ shownFetch \in Nat /\ policyFetches \subseteq FetchRecords
      /\ agent.policies \in Policies /\ policyList \in Policies
      /\ policyUnseen \in BOOLEAN
  BY DEF PageInv, TypeInv, PoliciesTypeOK
<1>3. /\ policyList' \in Policies /\ policiesLoading' \in BOOLEAN
      /\ policyFetches' \subseteq FetchRecords /\ policyUnseen' \in BOOLEAN
      /\ shownFetch' \in Nat
  <2>1. CASE AgentReadsPolicies
    <3>1. PICK f \in policyFetches :
              /\ f.step = "sent"
              /\ policyFetches' = (policyFetches \ {f}) \cup {Answered(f, getPolicies)}
              /\ policyUnseen' = (policyUnseen /\ f.n # newestFetch)
      BY <2>1 DEF AgentReadsPolicies
    <3>2. Answered(f, getPolicies) \in FetchRecords
      BY <1>2, <3>1 DEF Answered, getPolicies, FetchRecords
    <3> QED
      BY <1>2, <2>1, <3>1, <3>2 DEF AgentReadsPolicies, PageInv, TypeInv, PoliciesTypeOK
  <2>2. CASE PoliciesArrive
    BY <1>2, <2>2 DEF PoliciesArrive, FetchRecords
  <2>3. CASE PoliciesFail
    BY <1>2, <2>3 DEF PoliciesFail
  <2> QED
    BY <2>1, <2>2, <2>3 DEF FetchCalls
<1>4. TypeInv' /\ LockInv' /\ ConfirmNamesPolicy'
  BY <1>1, <1>3 DEF PageInv, TypeInv, PoliciesTypeOK, LockInv, ConfirmNamesPolicy
<1>5. Quiet' <=> Quiet
  BY <1>1 DEF Quiet
<1>6. CASE AgentReadsPolicies
  <2>1. PICK f \in policyFetches :
            /\ f.step = "sent"
            /\ policyFetches' = (policyFetches \ {f}) \cup {Answered(f, getPolicies)}
            /\ policyUnseen' = (policyUnseen /\ f.n # newestFetch)
    BY <1>6 DEF AgentReadsPolicies
  <2>2. /\ Answered(f, getPolicies).n = f.n
        /\ Answered(f, getPolicies).got = agent.policies
    BY DEF Answered, getPolicies
  <2>3. UNCHANGED <<policyList, policiesLoading, shownFetch>>
    BY <1>6 DEF AgentReadsPolicies
  <2>4. NumbersInv'
    BY <1>1, <2>1, <2>2, <2>3 DEF PageInv, NumbersInv
  <2>5. NewestInv'
    <3>1. CASE f.n = newestFetch
      BY <1>1, <2>1, <2>2, <3>1 DEF PageInv, NumbersInv, NewestInv
    <3>2. CASE f.n # newestFetch
      BY <1>1, <1>2, <1>5, <2>1, <2>2, <3>2 DEF PageInv, NewestInv
    <3> QED
      BY <3>1, <3>2
  <2>6. ListFollowsAgent'
    <3>1. CASE f.n = newestFetch
      BY <1>1, <2>1, <2>3, <3>1 DEF PageInv, NumbersInv, ListFollowsAgent
    <3>2. CASE f.n # newestFetch
      BY <1>1, <1>2, <2>1, <2>3, <3>2 DEF PageInv, ListFollowsAgent
    <3> QED
      BY <3>1, <3>2
  <2>7. SpinnerMeansFetching'
    BY <2>1 DEF SpinnerMeansFetching
  <2> QED
    BY <1>4, <2>4, <2>5, <2>6, <2>7 DEF PageInv
<1>7. CASE PoliciesArrive
  <2>1. PICK f \in policyFetches :
            /\ f.step = "read"
            /\ policyList' = f.got
            /\ shownFetch' = f.n
            /\ policyFetches' = policyFetches \ {f}
    BY <1>7 DEF PoliciesArrive
  <2>2. policyUnseen' = policyUnseen /\ policiesLoading' = FALSE
    BY <1>7 DEF PoliciesArrive
  <2>3. NumbersInv'
    BY <1>1, <2>1 DEF PageInv, NumbersInv
  <2>4. NewestInv'
    BY <1>1, <1>5, <2>1, <2>2 DEF PageInv, NewestInv
  <2>5. ListFollowsAgent'
    BY <1>1, <2>1, <2>2 DEF PageInv, NewestInv, Quiet, ListFollowsAgent
  <2>6. SpinnerMeansFetching'
    BY <2>2 DEF SpinnerMeansFetching
  <2> QED
    BY <1>4, <2>3, <2>4, <2>5, <2>6 DEF PageInv
<1>8. CASE PoliciesFail
  <2>1. PICK f \in policyFetches : policyFetches' = policyFetches \ {f}
    BY <1>8 DEF PoliciesFail
  <2>2. UNCHANGED <<policyList, shownFetch, policyUnseen>> /\ policiesLoading' = FALSE
    BY <1>8 DEF PoliciesFail
  <2>3. NumbersInv' /\ NewestInv'
    BY <1>1, <1>5, <2>1, <2>2 DEF PageInv, NumbersInv, NewestInv
  <2>4. ListFollowsAgent' /\ SpinnerMeansFetching'
    BY <1>1, <2>2 DEF PageInv, ListFollowsAgent, SpinnerMeansFetching
  <2> QED
    BY <1>4, <2>3, <2>4 DEF PageInv
<1> QED
  BY <1>6, <1>7, <1>8 DEF FetchCalls

\* A step of the agent on a call takes it from one step to another.
LEMMA CallGoes ==
    ASSUME NEW call, NEW over, over \in Outcomes(call), AgentStep(call, over)
    PROVE  /\ call # Absent /\ over # Absent
           /\ over = [call EXCEPT !.step = over.step]
           /\ over.step \in CallSteps
           /\ \/ over.step = "failed" /\ call.step = "sent" /\ UNCHANGED agentVars
              \/ /\ over.step = "written" /\ call.step = "sent"
                 /\ agentUndo = Absent /\ agentUndo' = agent
              \/ call.step = "written" /\ over.step = "served" /\ agentUndo' = Absent
              \/ call.step = "written" /\ over.step = "failed" /\ agentUndo' = Absent
<1>1. call # Absent /\ \E st \in CallSteps : over = [call EXCEPT !.step = st]
  BY DEF Outcomes
<1>2. CASE Refuses(call, over)
  BY <1>1, <1>2 DEF Refuses, Pending, Failed, InStep
<1>3. CASE Writes(call, over)
  BY <1>1, <1>3 DEF Writes, Pending, InStep
<1>4. CASE Commits(call, over)
  BY <1>1, <1>4 DEF Commits, Succeeded, Failed, InStep
<1>5. CASE RollsBack(call, over)
  BY <1>1, <1>5 DEF RollsBack, Failed, InStep
<1> QED
  BY <1>2, <1>3, <1>4, <1>5 DEF AgentStep

\* A save is sent, served, and its continuation runs.
LEMMA SaveSteps ==
    ASSUME PageInv, SubmitPolicy \/ SaveCall
    PROVE  PageInv'
<1> USE DEF policyFetching, policyModals, agentVars
<1>1. CASE SubmitPolicy
  <2>1. PICK p \in PolicyIds, text \in Contents :
            policySave' = CallOf(IF policyDialog.editing = Absent
                                 THEN createPolicy(p, text) ELSE updatePolicy(p, text))
    BY <1>1 DEF SubmitPolicy
  <2>2. policySave' \in SaveCalls /\ policySave'.step = "sent"
    BY <2>1 DEF CallOf, createPolicy, updatePolicy, SaveCalls, SaveReqs, CallSteps
  <2>3. policyWrites' \in Nat /\ policySave = Absent
    BY <1>1 DEF SubmitPolicy, PageInv, TypeInv
  <2>4. UNCHANGED <<agentVars, policiesLoading, policyFetching, policyModals, policyDeletes,
                    policyUnseen>>
    BY <1>1 DEF SubmitPolicy
  <2>5. TypeInv' /\ LockInv'
    BY <2>2, <2>3, <2>4 DEF PageInv, TypeInv, PoliciesTypeOK, LockInv, InStep
  <2>6. Quiet' <=> Quiet
    BY <2>2, <2>3, <2>4 DEF Quiet, MaybeApplied, InStep
  <2>7. NumbersInv' /\ NewestInv' /\ ListFollowsAgent'
    BY <2>4, <2>6 DEF PageInv, NumbersInv, NewestInv, ListFollowsAgent, Quiet
  <2> QED
    BY <2>4, <2>5, <2>7 DEF PageInv, SpinnerMeansFetching, ConfirmNamesPolicy
<1>2. CASE AgentSavesPolicy
  <2>1. PICK over \in Outcomes(policySave) :
            /\ AgentStep(policySave, over)
            /\ policySave' = over
            /\ policyUnseen' = (policyUnseen \/ Unreported(policySave, over))
    BY <1>2 DEF AgentSavesPolicy
  <2>2. UNCHANGED <<policiesLoading, policyFetching, policyModals, policyDeletes,
                    policyWrites>>
    BY <1>2 DEF AgentSavesPolicy
  <2>3. policySave \in SaveCalls /\ over \in SaveCalls /\ policyUnseen' \in BOOLEAN
    BY <2>1, CallGoes DEF PageInv, TypeInv, PoliciesTypeOK, SaveCalls
  <2>4. InStep(policySave, "written") => agentUndo # Absent
    BY DEF PageInv, LockInv
  <2>5. agent' \in Contained /\ agentUndo' \in Contained \cup {Absent}
    BY <2>1, <2>3, <2>4, AgentStepTyped DEF PageInv, TypeInv, SaveCalls
  <2>6. TypeInv'
    BY <2>1, <2>2, <2>3, <2>5 DEF PageInv, TypeInv, PoliciesTypeOK, Contained
  <2>7. LockInv'
    <3>1. over # Absent /\ agentUndo = Absent /\ over.step = "written" => agentUndo' # Absent
      BY <2>1, <2>3, CallGoes, AgentApiAssumption DEF PageInv, TypeInv, SaveCalls
    <3>2. over.step = "written" => agentUndo = Absent /\ policySave.step = "sent"
      BY <2>1, CallGoes
    <3>3. policySave.step = "sent" \/ policySave.step = "written"
      BY <2>1, CallGoes
    <3>4. CASE over.step = "written"
      BY <2>1, <2>2, <3>1, <3>2, <3>4 DEF PageInv, LockInv, InStep
    <3>5. CASE over.step = "failed" /\ policySave.step = "sent"
      BY <2>1, <2>2, <3>5, CallGoes DEF PageInv, LockInv, InStep
    <3>6. CASE over.step # "written" /\ policySave.step = "written"
      BY <2>1, <2>2, <3>6, CallGoes DEF PageInv, LockInv, InStep
    <3> QED
      BY <2>1, <3>2, <3>3, <3>4, <3>5, <3>6, CallGoes
  <2>8. \/ policyUnseen' = TRUE
        \/ ~Quiet'
        \/ UNCHANGED policyUnseen /\ agent'.policies = agent.policies /\ Quiet
    <3>1. policySave # Absent /\ over # Absent
      BY <2>1, CallGoes
    <3>2. CASE over.step \in {"written", "served"}
      BY <2>1, <3>1, <3>2 DEF Quiet, MaybeApplied, InStep
    <3>3. CASE over.step = "failed" /\ policySave.step = "written"
      BY <2>1, <3>1, <3>3 DEF Unreported, InStep, Failed
    <3>4. CASE over.step = "failed" /\ policySave.step = "sent"
      <4>1. UNCHANGED agentVars
        BY <2>1, <3>4, CallGoes
      <4>2. ~Unreported(policySave, over)
        BY <3>4 DEF Unreported, InStep
      <4>3. Quiet \/ ~Quiet'
        BY <2>1, <2>2, <3>1, <3>4 DEF Quiet, MaybeApplied, InStep
      <4> QED
        BY <2>1, <4>1, <4>2, <4>3 DEF PageInv, TypeInv, PoliciesTypeOK
    <3> QED
      BY <2>1, <3>2, <3>3, <3>4, CallGoes
  <2>9. NumbersInv' /\ NewestInv' /\ ListFollowsAgent'
    BY <2>2, <2>3, <2>8, NothingRead DEF PageInv
  <2> QED
    BY <2>2, <2>6, <2>7, <2>9 DEF PageInv, SpinnerMeansFetching, ConfirmNamesPolicy
<1>3. CASE PolicySaved
  <2>1. /\ StartPolicyFetch
        /\ policySave' = Absent
        /\ policyDialog' = [policyDialog EXCEPT !.open = FALSE]
        /\ UNCHANGED <<agentVars, policyList, policyConfirm, policyDeletes, shownFetch,
                       policyUnseen, policyWrites>>
    BY <1>3 DEF PolicySaved
  <2>2. /\ NumbersInv' /\ NewestInv' /\ ListFollowsAgent' /\ SpinnerMeansFetching'
        /\ policyFetches' \subseteq FetchRecords /\ newestFetch' \in Nat
        /\ policiesLoading' \in BOOLEAN
    BY <2>1, FetchStarts DEF PageInv
  <2>3. TypeInv' /\ LockInv'
    BY <2>1, <2>2 DEF PageInv, TypeInv, PoliciesTypeOK, LockInv, InStep
  <2> QED
    BY <2>1, <2>2, <2>3 DEF PageInv, ConfirmNamesPolicy
<1>4. CASE PolicyNotSaved
  <2>1. /\ Failed(policySave) /\ policySave' = Absent
        /\ UNCHANGED <<agentVars, policiesLoading, policyFetching, policyModals,
                       policyDeletes, policyUnseen, policyWrites>>
    BY <1>4 DEF PolicyNotSaved
  <2>2. TypeInv' /\ LockInv'
    BY <2>1 DEF PageInv, TypeInv, PoliciesTypeOK, LockInv, InStep
  <2>3. Quiet' <=> Quiet
    BY <2>1 DEF Quiet, MaybeApplied, Failed, InStep
  <2>4. NumbersInv' /\ NewestInv' /\ ListFollowsAgent'
    BY <2>1, <2>3 DEF PageInv, NumbersInv, NewestInv, ListFollowsAgent, Quiet
  <2> QED
    BY <2>1, <2>2, <2>4 DEF PageInv, SpinnerMeansFetching, ConfirmNamesPolicy
<1> QED
  BY <1>1, <1>2, <1>3, <1>4 DEF SaveCall

\* The end of a deletion closes the confirmation and forgets its policy, so that no
\* open confirmation is without one.
LEMMA DeleteSteps ==
    ASSUME PageInv, ConfirmDeletePolicy \/ DeleteCalls
    PROVE  PageInv'
<1> USE DEF policyFetching, policyModals, agentVars, ForgetDeletion
<1>1. CASE ConfirmDeletePolicy
  <2> DEFINE call == NumberedCall(deletePolicy(policyConfirm.id), policyWrites)
  <2>1. /\ policyDeletes' = policyDeletes \cup {call}
        /\ policyWrites' = policyWrites + 1
        /\ policyConfirm' = [policyConfirm EXCEPT !.open = FALSE]
        /\ UNCHANGED <<agentVars, policiesLoading, policyFetching, policyDialog, policySave,
                       policyUnseen>>
    BY <1>1 DEF ConfirmDeletePolicy
  <2>2. policyConfirm.id \in PolicyIds
    BY <1>1 DEF ConfirmDeletePolicy, PageInv, TypeInv
  <2>3. call \in DeleteCallRecords /\ call.step = "sent"
    BY <2>2 DEF NumberedCall, deletePolicy, DeleteCallRecords, DeleteReqs, CallSteps,
                PageInv, TypeInv
  <2> HIDE DEF call
  <2>4. TypeInv'
    <3>0. policyWrites' \in Nat
      BY <2>1 DEF PageInv, TypeInv
    <3>1. policyConfirm' \in [open : BOOLEAN, id : PolicyIds \cup {Absent}]
      <4>1. /\ policyConfirm \in [open : BOOLEAN, id : PolicyIds \cup {Absent}]
            /\ policyConfirm' = [policyConfirm EXCEPT !.open = FALSE]
        BY <2>1 DEF PageInv, TypeInv
      <4> QED
        BY <4>1
    <3>2. policyDeletes' \subseteq DeleteCallRecords
      BY <2>1, <2>3 DEF PageInv, TypeInv
    <3> QED
      BY <2>1, <3>0, <3>1, <3>2 DEF PageInv, TypeInv, PoliciesTypeOK
  <2>5. LockInv'
    BY <2>1, <2>3 DEF PageInv, LockInv, InStep
  <2>6. Quiet' <=> Quiet
    BY <2>1, <2>3 DEF Quiet, MaybeApplied, InStep
  <2>7. NumbersInv' /\ NewestInv' /\ ListFollowsAgent'
    BY <2>1, <2>6 DEF PageInv, NumbersInv, NewestInv, ListFollowsAgent, Quiet
  <2>8. ConfirmNamesPolicy'
    BY <2>1 DEF ConfirmNamesPolicy, PageInv, TypeInv
  <2> QED
    BY <2>1, <2>4, <2>5, <2>7, <2>8 DEF PageInv, SpinnerMeansFetching
<1>2. CASE AgentDeletesPolicy
  <2>0. PICK d \in policyDeletes : \E over \in Outcomes(d) :
            /\ AgentStep(d, over)
            /\ policyDeletes' = (policyDeletes \ {d}) \cup {over}
            /\ policyUnseen' = (policyUnseen \/ Unreported(d, over))
    BY <1>2 DEF AgentDeletesPolicy
  <2>1. PICK over \in Outcomes(d) :
            /\ AgentStep(d, over)
            /\ policyDeletes' = (policyDeletes \ {d}) \cup {over}
            /\ policyUnseen' = (policyUnseen \/ Unreported(d, over))
    BY <2>0
  <2>2. UNCHANGED <<policiesLoading, policyFetching, policyModals, policySave, policyWrites>>
    BY <1>2 DEF AgentDeletesPolicy
  <2>3. d \in DeleteCallRecords /\ over \in DeleteCallRecords /\ policyUnseen' \in BOOLEAN
    BY <2>1, CallGoes DEF PageInv, TypeInv, PoliciesTypeOK, DeleteCallRecords
  <2>4. InStep(d, "written") => agentUndo # Absent
    BY DEF PageInv, LockInv
  <2>5. agent' \in Contained /\ agentUndo' \in Contained \cup {Absent}
    BY <2>1, <2>3, <2>4, AgentStepTyped DEF PageInv, TypeInv, DeleteCallRecords
  <2>6. TypeInv'
    BY <2>1, <2>2, <2>3, <2>5 DEF PageInv, TypeInv, PoliciesTypeOK, Contained
  <2>7. LockInv'
    <3>1. over.step = "written" => /\ agentUndo = Absent /\ agentUndo' # Absent
                                   /\ d.step = "sent"
      BY <2>1, <2>3, CallGoes, AgentApiAssumption DEF PageInv, TypeInv
    <3>2. CASE over.step = "written"
      BY <2>1, <2>2, <3>1, <3>2 DEF PageInv, LockInv, InStep
    <3>3. CASE over.step = "failed" /\ d.step = "sent"
      BY <2>1, <2>2, <3>3, CallGoes DEF PageInv, LockInv, InStep
    <3>4. CASE over.step # "written" /\ d.step = "written"
      BY <2>1, <2>2, <3>4, CallGoes DEF PageInv, LockInv, InStep
    <3> QED
      BY <2>1, <3>1, <3>2, <3>3, <3>4, CallGoes
  <2>8. \/ policyUnseen' = TRUE
        \/ ~Quiet'
        \/ UNCHANGED policyUnseen /\ agent'.policies = agent.policies /\ Quiet
    <3>1. d # Absent /\ over # Absent
      BY <2>1, CallGoes
    <3>2. CASE over.step \in {"written", "served"}
      BY <2>1, <3>1, <3>2 DEF Quiet, MaybeApplied, InStep
    <3>3. CASE over.step = "failed" /\ d.step = "written"
      BY <2>1, <3>1, <3>3 DEF Unreported, InStep, Failed
    <3>4. CASE over.step = "failed" /\ d.step = "sent"
      <4>1. UNCHANGED agentVars
        BY <2>1, <3>4, CallGoes
      <4>2. ~Unreported(d, over)
        BY <3>4 DEF Unreported, InStep
      <4>3. Quiet \/ ~Quiet'
        BY <2>1, <2>2, <3>1, <3>4 DEF Quiet, MaybeApplied, InStep
      <4> QED
        BY <2>1, <4>1, <4>2, <4>3 DEF PageInv, TypeInv, PoliciesTypeOK
    <3> QED
      BY <2>1, <3>2, <3>3, <3>4, CallGoes
  <2>9. NumbersInv' /\ NewestInv' /\ ListFollowsAgent'
    BY <2>2, <2>3, <2>8, NothingRead DEF PageInv
  <2> QED
    BY <2>2, <2>6, <2>7, <2>9 DEF PageInv, SpinnerMeansFetching, ConfirmNamesPolicy
<1>3. CASE PolicyDeleted
  <2>1. PICK d \in policyDeletes : Succeeded(d) /\ policyDeletes' = policyDeletes \ {d}
    BY <1>3 DEF PolicyDeleted
  <2>2. /\ StartPolicyFetch
        /\ policyConfirm' = [open |-> FALSE, id |-> Absent]
        /\ UNCHANGED <<agentVars, policyList, policyDialog, policySave, shownFetch,
                       policyUnseen, policyWrites>>
    BY <1>3 DEF PolicyDeleted
  <2>3. /\ NumbersInv' /\ NewestInv' /\ ListFollowsAgent' /\ SpinnerMeansFetching'
        /\ policyFetches' \subseteq FetchRecords /\ newestFetch' \in Nat
        /\ policiesLoading' \in BOOLEAN
    BY <2>2, FetchStarts DEF PageInv
  <2>4. TypeInv' /\ LockInv'
    BY <2>1, <2>2, <2>3 DEF PageInv, TypeInv, PoliciesTypeOK, LockInv
  <2> QED
    BY <2>2, <2>3, <2>4 DEF PageInv, ConfirmNamesPolicy
<1>4. CASE PolicyNotDeleted
  <2>1. PICK d \in policyDeletes : Failed(d) /\ policyDeletes' = policyDeletes \ {d}
    BY <1>4 DEF PolicyNotDeleted
  <2>2. /\ policyConfirm' = [open |-> FALSE, id |-> Absent]
        /\ UNCHANGED <<agentVars, policiesLoading, policyFetching, policyDialog, policySave,
                       policyUnseen, policyWrites>>
    BY <1>4 DEF PolicyNotDeleted
  <2>3. TypeInv' /\ LockInv'
    BY <2>1, <2>2 DEF PageInv, TypeInv, PoliciesTypeOK, LockInv
  <2>4. Quiet' <=> Quiet
    BY <2>1, <2>2 DEF Quiet, MaybeApplied, Failed, InStep
  <2>5. NumbersInv' /\ NewestInv' /\ ListFollowsAgent'
    BY <2>2, <2>4 DEF PageInv, NumbersInv, NewestInv, ListFollowsAgent, Quiet
  <2> QED
    BY <2>2, <2>3, <2>5 DEF PageInv, SpinnerMeansFetching, ConfirmNamesPolicy
<1> QED
  BY <1>1, <1>2, <1>3, <1>4 DEF DeleteCalls

\* What another client writes, or takes back, is unseen.
LEMMA OthersSteps ==
    ASSUME PageInv, OthersChangePolicies \/ OthersEnd
    PROVE  PageInv'
<1> USE DEF policyFetching, policyModals, policyWriting
<1>1. UNCHANGED <<policiesLoading, policyFetching, policyWriting, policyModals>>
  BY DEF OthersChangePolicies, OthersEnd
<1>2. agent' \in Contained /\ agentUndo' \in Contained \cup {Absent}
  <2>1. CASE OthersChangePolicies
    <3>1. PICK p \in PolicyIds, text \in Contents \cup {Absent} :
              OthersWrite([agent EXCEPT !.policies[p] = text])
      BY <2>1 DEF OthersChangePolicies
    <3>2. [agent EXCEPT !.policies[p] = text] \in Contained
      BY DEF PageInv, TypeInv, Contained, Policies
    <3> QED
      BY <3>1, <3>2 DEF OthersWrite, PageInv, TypeInv
  <2>2. CASE OthersEnd
    BY <2>2 DEF OthersEnd, OthersCommit, OthersRollBack, PageInv, TypeInv
  <2> QED
    BY <2>1, <2>2
<1>3. LockInv'
  <2>1. CASE OthersChangePolicies
    BY <1>1, <2>1, AgentApiAssumption
       DEF OthersChangePolicies, OthersWrite, PageInv, TypeInv, LockInv
  <2>2. CASE OthersEnd
    BY <1>1, <2>2 DEF OthersEnd, LockInv
  <2> QED
    BY <2>1, <2>2
<1>4. /\ policyUnseen' \in BOOLEAN
      /\ \/ policyUnseen' = TRUE
         \/ UNCHANGED policyUnseen /\ agent'.policies = agent.policies
  BY DEF OthersChangePolicies, OthersEnd, OthersCommit, PageInv, TypeInv, PoliciesTypeOK
<1>5. Quiet' <=> Quiet
  BY <1>1 DEF Quiet
<1>6. NumbersInv' /\ NewestInv' /\ ListFollowsAgent'
  BY <1>1, <1>4, <1>5, NothingRead DEF PageInv
<1>7. TypeInv'
  BY <1>1, <1>2, <1>4 DEF PageInv, TypeInv, PoliciesTypeOK, Contained
<1> QED
  BY <1>1, <1>3, <1>6, <1>7 DEF PageInv, SpinnerMeansFetching, ConfirmNamesPolicy

LEMMA PageStep ==
    ASSUME PageInv, [PoliciesNext]_policiesVars
    PROVE  PageInv'
<1>1. CASE UNCHANGED policiesVars
  BY <1>1 DEF policiesVars, PageInv, TypeInv, PoliciesTypeOK, LockInv, NumbersInv, NewestInv,
              Quiet, ListFollowsAgent, SpinnerMeansFetching, ConfirmNamesPolicy, agentVars
<1>2. CASE PoliciesNext
  BY <1>2, ModalSteps, FetchSteps, SaveSteps, DeleteSteps, OthersSteps
     DEF PoliciesNext, PoliciesUser
<1> QED
  BY <1>1, <1>2

\* PageInv holds in every state of a visit of the page.
LEMMA PageInvariance == PoliciesSpec => []PageInv
BY PageStarts, PageStep, PTL DEF PoliciesSpec

-----------------------------------------------------------------------------
\* Every variable of the page keeps its type, and so does what the agent stores.
THEOREM PoliciesTypeCorrect == PoliciesSpec => []PoliciesTypeOK
<1>1. PageInv => PoliciesTypeOK
  BY DEF PageInv, TypeInv
<1> QED
  BY <1>1, PageInvariance, PTL

\* The page reads its own writes, whatever fetches, saves and deletions overlap: the
\* answer of the newest fetch, once it is shown, is what the agent stores, unless
\* something the page cannot know of has changed that.
THEOREM PageReadsItsWrites == PoliciesSpec => []ListFollowsAgent
<1>1. PageInv => ListFollowsAgent
  BY DEF PageInv
<1> QED
  BY <1>1, PageInvariance, PTL

\* The spinner is shown only while a fetch is in flight, and an open confirmation
\* names a policy.
THEOREM PageStaysUsable == PoliciesSpec => [](SpinnerMeansFetching /\ ConfirmNamesPolicy)
<1>1. PageInv => SpinnerMeansFetching /\ ConfirmNamesPolicy
  BY DEF PageInv
<1> QED
  BY <1>1, PageInvariance, PTL
=============================================================================
