---------------------------- MODULE PoliciesPage ----------------------------
(***************************************************************************)
(* The policies page of the dashboard (frontend/app/policies/page.tsx)     *)
(* with the calls of its dialog (frontend/components/policy-dialog.tsx):   *)
(* one visit of the page by one user, while other clients change the       *)
(* policies.  Every await is a point where other things happen: a call is  *)
(* sent in one step, served by the agent in another, and its continuation  *)
(* runs in a third.  The fetches of the page are numbered; nothing in the  *)
(* page orders their answers.                                              *)
(***************************************************************************)
EXTENDS AgentApi

CONSTANTS MaxWrites,        \* bound: saves and deletions in one visit
          MaxForeign        \* bound: changes by other clients

VARIABLES policyList,       \* policies
          policiesLoading,  \* loading
          policyFetches,    \* the fetches in flight
          policyDialog,     \* dialogOpen and the id of editingPolicy
          policySave,       \* the call of handleSubmit; loading of the dialog
          policyConfirm,    \* deleteDialogOpen and policyToDelete
          policyDeletes,    \* the calls of handleDelete in flight
          newestFetch,      \* the number of fetches so far
          shownFetch,       \* history: the fetch whose answer the list is
          policyUnseen,     \* history: a change no fetch is sure to show
          policyWrites,     \* counts saves and deletions
          foreignWrites     \* counts the changes by other clients

\* policyToDelete and editingPolicy are null, or of a policy.
ASSUME PoliciesPageAssumption == Absent \notin PolicyIds

policiesVars == <<agentVars, policyList, policiesLoading, policyFetches, policyDialog,
                  policySave, policyConfirm, policyDeletes, newestFetch, shownFetch,
                  policyUnseen, policyWrites, foreignWrites>>
policyFetching == <<policyList, policyFetches, newestFetch, shownFetch>>
policyWriting  == <<policySave, policyDeletes, policyWrites>>
policyModals   == <<policyDialog, policyConfirm>>

-----------------------------------------------------------------------------
FetchRecords == [n : Nat, step : {"sent"}, got : {Absent}]
                    \cup [n : Nat, step : {"read"}, got : Policies]

\* useEffect: the page fetches the list when it opens.
PoliciesInit ==
    /\ policyList = NoPolicies
    /\ policiesLoading = TRUE
    /\ policyFetches = {Asked(1)}
    /\ policyDialog = [open |-> FALSE, editing |-> Absent]
    /\ policySave = Absent
    /\ policyConfirm = [open |-> FALSE, id |-> Absent]
    /\ policyDeletes = {}
    /\ newestFetch = 1
    /\ shownFetch = 0
    /\ policyUnseen = FALSE
    /\ policyWrites = 0
    /\ foreignWrites = 0

-----------------------------------------------------------------------------
(* fetchPolicies. *)

StartPolicyFetch ==
    /\ newestFetch' = newestFetch + 1
    /\ policyFetches' = policyFetches \cup {Asked(newestFetch + 1)}
    /\ policiesLoading' = TRUE

\* The agent serves the GET.
AgentReadsPolicies ==
    /\ \E f \in policyFetches :
         /\ f.step = "sent"
         /\ policyFetches' = (policyFetches \ {f}) \cup {Answered(f, getPolicies)}
         /\ policyUnseen' = (policyUnseen /\ f.n # newestFetch)
    /\ UNCHANGED <<agentVars, policyList, policiesLoading, policyWriting, policyModals,
                   newestFetch, shownFetch, foreignWrites>>

PoliciesArrive ==
    /\ \E f \in policyFetches :
         /\ f.step = "read"
         /\ policyList' = f.got
         /\ shownFetch' = f.n
         /\ policyFetches' = policyFetches \ {f}
    /\ policiesLoading' = FALSE
    /\ UNCHANGED <<agentVars, policyWriting, policyModals, newestFetch, policyUnseen,
                   foreignWrites>>

\* Mutant of PoliciesFail: loading is reset on success only.
PoliciesFailLoading ==
    /\ \E f \in policyFetches : policyFetches' = policyFetches \ {f}
    /\ UNCHANGED <<agentVars, policiesLoading, policyList, policyWriting, policyModals,
                   newestFetch, shownFetch, policyUnseen, foreignWrites>>

\* The list stays as it was.
PoliciesFail ==
    /\ \E f \in policyFetches : policyFetches' = policyFetches \ {f}
    /\ policiesLoading' = FALSE
    /\ UNCHANGED <<agentVars, policyList, policyWriting, policyModals, newestFetch,
                   shownFetch, policyUnseen, foreignWrites>>

-----------------------------------------------------------------------------
(* The dialogs.  Both are modal; the table is hidden while loading, the    *)
(* button that creates a policy is not.                                    *)

NoModal == ~policyDialog.open /\ ~policyConfirm.open
InTable(p) == ~policiesLoading /\ policyList[p] # Absent
LeavePolicyCalls == UNCHANGED <<agentVars, policiesLoading, policyFetching, policyWriting,
                                policyUnseen, foreignWrites>>

OpenCreatePolicy ==
    /\ NoModal
    /\ policyDialog' = [open |-> TRUE, editing |-> Absent]
    /\ UNCHANGED policyConfirm
    /\ LeavePolicyCalls

OpenEditPolicy ==
    /\ NoModal
    /\ \E p \in PolicyIds :
         InTable(p) /\ policyDialog' = [open |-> TRUE, editing |-> p]
    /\ UNCHANGED policyConfirm
    /\ LeavePolicyCalls

\* Cancel, also while a save is in flight.
ClosePolicyDialog ==
    /\ policyDialog.open
    /\ policyDialog' = [policyDialog EXCEPT !.open = FALSE]
    /\ UNCHANGED policyConfirm
    /\ LeavePolicyCalls

OpenDeletePolicy ==
    /\ NoModal
    /\ \E p \in PolicyIds : InTable(p) /\ policyConfirm' = [open |-> TRUE, id |-> p]
    /\ UNCHANGED policyDialog
    /\ LeavePolicyCalls

CloseDeletePolicy ==
    /\ policyConfirm.open
    /\ policyConfirm' = [policyConfirm EXCEPT !.open = FALSE]
    /\ UNCHANGED policyDialog
    /\ LeavePolicyCalls

-----------------------------------------------------------------------------
(* handleSubmit of the dialog: the button is disabled while a save is in   *)
(* flight, also when the dialog was closed and opened again meanwhile.     *)

\* The write is over and not answered by a success: made final, or rolled back.
Unreported(call, over) == InStep(call, "written") /\ Failed(over)

SubmitPolicy ==
    /\ policyDialog.open
    /\ policySave = Absent
    /\ policyWrites < MaxWrites
    /\ policyWrites' = policyWrites + 1
    /\ \E p \in PolicyIds, text \in Contents :
         /\ policyDialog.editing \in {Absent, p}
         /\ policySave' = CallOf(IF policyDialog.editing = Absent
                                 THEN createPolicy(p, text) ELSE updatePolicy(p, text))
    /\ UNCHANGED <<agentVars, policiesLoading, policyFetching, policyModals, policyDeletes,
                   policyUnseen, foreignWrites>>

AgentSavesPolicy ==
    /\ \E over \in Outcomes(policySave) :
         /\ AgentStep(policySave, over)
         /\ policySave' = over
         /\ policyUnseen' = (policyUnseen \/ Unreported(policySave, over))
    /\ UNCHANGED <<policiesLoading, policyFetching, policyModals, policyDeletes,
                   policyWrites, foreignWrites>>

\* Mutant of PolicySaved: onSuccess is not called.
PolicySavedQuietly ==
    /\ Succeeded(policySave)
    /\ policySave' = Absent
    /\ policyDialog' = [policyDialog EXCEPT !.open = FALSE]
    /\ UNCHANGED <<agentVars, policyList, policyConfirm, policyDeletes, shownFetch,
                   policyUnseen, policyWrites, foreignWrites, newestFetch, policyFetches,
                   policiesLoading>>

\* onSuccess(), then onOpenChange(false): whatever is in the dialog by now.
PolicySaved ==
    /\ Succeeded(policySave)
    /\ policySave' = Absent
    /\ policyDialog' = [policyDialog EXCEPT !.open = FALSE]
    /\ StartPolicyFetch
    /\ UNCHANGED <<agentVars, policyList, policyConfirm, policyDeletes, shownFetch,
                   policyUnseen, policyWrites, foreignWrites>>

\* Mutant of PolicyNotSaved: loading is reset on success only.
PolicyNotSavedLoading == Failed(policySave) /\ UNCHANGED policiesVars

\* The dialog stays open, its fields as they were.
PolicyNotSaved ==
    /\ Failed(policySave)
    /\ policySave' = Absent
    /\ UNCHANGED <<agentVars, policiesLoading, policyFetching, policyModals, policyDeletes,
                   policyUnseen, policyWrites, foreignWrites>>

-----------------------------------------------------------------------------
(* handleDelete. *)

\* The button of the confirmation closes it.
ConfirmDeletePolicy ==
    /\ policyConfirm.open
    /\ policyConfirm.id # Absent
    /\ policyWrites < MaxWrites
    /\ policyWrites' = policyWrites + 1
    /\ policyDeletes' = policyDeletes \cup
           {NumberedCall(deletePolicy(policyConfirm.id), policyWrites)}
    /\ policyConfirm' = [policyConfirm EXCEPT !.open = FALSE]
    /\ UNCHANGED <<agentVars, policiesLoading, policyFetching, policyDialog, policySave,
                   policyUnseen, foreignWrites>>

AgentDeletesPolicy ==
    /\ \E d \in policyDeletes : \E over \in Outcomes(d) :
         /\ AgentStep(d, over)
         /\ policyDeletes' = (policyDeletes \ {d}) \cup {over}
         /\ policyUnseen' = (policyUnseen \/ Unreported(d, over))
    /\ UNCHANGED <<policiesLoading, policyFetching, policyModals, policySave,
                   policyWrites, foreignWrites>>

\* Mutant of ForgetDeletion: the confirmation is not closed a second time.
ForgetOnlyId == policyConfirm' = [policyConfirm EXCEPT !.id = Absent]

\* finally: the confirmation that is open by now is closed, and its policy forgotten.
ForgetDeletion == policyConfirm' = [open |-> FALSE, id |-> Absent]

PolicyDeleted ==
    /\ \E d \in policyDeletes : Succeeded(d) /\ policyDeletes' = policyDeletes \ {d}
    /\ StartPolicyFetch
    /\ ForgetDeletion
    /\ UNCHANGED <<agentVars, policyList, policyDialog, policySave, shownFetch, policyUnseen,
                   policyWrites, foreignWrites>>

PolicyNotDeleted ==
    /\ \E d \in policyDeletes : Failed(d) /\ policyDeletes' = policyDeletes \ {d}
    /\ ForgetDeletion
    /\ UNCHANGED <<agentVars, policiesLoading, policyFetching, policyDialog, policySave,
                   policyUnseen, policyWrites, foreignWrites>>

-----------------------------------------------------------------------------
\* Another client creates, replaces or deletes a policy.
OthersChangePolicies ==
    /\ foreignWrites < MaxForeign
    /\ foreignWrites' = foreignWrites + 1
    /\ \E p \in PolicyIds, text \in Contents \cup {Absent} :
         OthersWrite([agent EXCEPT !.policies[p] = text])
    /\ policyUnseen' = TRUE
    /\ UNCHANGED <<policiesLoading, policyFetching, policyWriting, policyModals>>

OthersEnd ==
    /\ ~InStep(policySave, "written")
    /\ \A d \in policyDeletes : ~InStep(d, "written")
    /\ \/ OthersCommit /\ UNCHANGED policyUnseen
       \/ OthersRollBack /\ policyUnseen' = TRUE
    /\ UNCHANGED <<policiesLoading, policyFetching, policyWriting, policyModals,
                   foreignWrites>>

FetchCalls  == AgentReadsPolicies \/ PoliciesArrive \/ PoliciesFail
SaveCall    == AgentSavesPolicy \/ PolicySaved \/ PolicyNotSaved
DeleteCalls == AgentDeletesPolicy \/ PolicyDeleted \/ PolicyNotDeleted

PoliciesUser ==
    \/ OpenCreatePolicy \/ OpenEditPolicy \/ ClosePolicyDialog
    \/ OpenDeletePolicy \/ CloseDeletePolicy
    \/ SubmitPolicy \/ ConfirmDeletePolicy

PoliciesNext ==
    \/ FetchCalls \/ SaveCall \/ DeleteCalls
    \/ PoliciesUser
    \/ OthersChangePolicies \/ OthersEnd

PoliciesSpec == AgentInit /\ PoliciesInit /\ [][PoliciesNext]_policiesVars

-----------------------------------------------------------------------------
(* Properties. *)

PoliciesTypeOK ==
    /\ agent.policies \in Policies
    /\ policyList \in Policies
    /\ policiesLoading \in BOOLEAN
    /\ policyFetches \subseteq FetchRecords
    /\ policyUnseen \in BOOLEAN
    /\ newestFetch \in Nat
    /\ shownFetch \in Nat

\* The page reads its own writes: once the answer of the newest fetch is shown,
\* and no write of the page is still to be answered, the list is what the agent
\* stores, unless another client, or a write of the page that was reported as
\* failed, has changed that after the fetch.
ListFollowsAgent ==
    /\ shownFetch = newestFetch
    /\ ~MaybeApplied(policySave)
    /\ \A d \in policyDeletes : ~MaybeApplied(d)
    /\ ~policyUnseen
    => policyList = agent.policies

\* The spinner that hides the table is never left over: it is shown only while a
\* fetch is in flight (fetchPolicies, whose calls overlap).
SpinnerMeansFetching == policiesLoading => policyFetches # {}

\* The confirmation always names a policy, although a deletion that returns
\* clears the policy under a confirmation that was opened meanwhile: its button
\* never does nothing (policyToDelete && handleDelete(policyToDelete)).
ConfirmNamesPolicy == policyConfirm.open => policyConfirm.id # Absent
=============================================================================
