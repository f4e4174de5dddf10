-------------------------- MODULE AuthorizationPage --------------------------
(***************************************************************************)
(* The authorization page of the dashboard                                 *)
(* (frontend/app/authorization/page.tsx) and the route it asks: POST       *)
(* /is_authorized (src/routes/authorization.rs), which reads the policies  *)
(* and the entities one after the other, without the mutation lock, while  *)
(* other clients change them.  Principal, action and resource together are *)
(* one member of Asks; what writes the context is ContextBuilder; Cedar's  *)
(* decision is external.                                                   *)
(***************************************************************************)
EXTENDS AgentApi

CONSTANTS Asks,             \* what the form can ask, without the context
          FirstAsk,         \* the form when the page opens
          Examples,         \* what "Load Example" puts in the form
          ContextTexts,     \* what the context editor may hold
          EmptyText,        \* "{}"
          InvalidText,      \* a text JSON.parse refuses
          Allows(_, _, _),  \* does Cedar allow a question, by policies and entities?
          MaxChecks,        \* bound: checks in one visit
          MaxAuthForeign    \* bound: changes by other clients

VARIABLES authAsk,          \* formData, but its context
          authContext,      \* formData.context
          authLoading,      \* loading
          authResult,       \* result: null is Absent
          authChecks,       \* the calls of handleCheck in flight
          authOf,           \* history: the check whose result is shown
          authSent,         \* counts the checks
          authForeign       \* counts the changes by other clients

ASSUME AuthorizationPageAssumption ==
    /\ FirstAsk \in Asks
    /\ Examples \subseteq Asks
    /\ EmptyText \in ContextTexts

authForm == <<authAsk, authContext>>
authVars == <<agentVars, authForm, authLoading, authResult, authChecks, authOf,
              authSent, authForeign>>

-----------------------------------------------------------------------------
AuthInit ==
    /\ authContext = EmptyText
    /\ authAsk = FirstAsk
    /\ authLoading = FALSE
    /\ authResult = Absent
    /\ authChecks = {}
    /\ authOf = Absent
    /\ authSent = 0
    /\ authForeign = 0

-----------------------------------------------------------------------------
(* The form.  Nothing is disabled during a check but the button that asks. *)

LeaveChecks == UNCHANGED <<agentVars, authLoading, authChecks, authSent, authForeign>>

\* The result of the last check stays where it is.
EnterAsk ==
    /\ authAsk' \in Asks
    /\ LeaveChecks
    /\ UNCHANGED <<authContext, authResult, authOf>>

EnterContext ==
    /\ authContext' \in ContextTexts
    /\ LeaveChecks
    /\ UNCHANGED <<authAsk, authResult, authOf>>

LoadExample ==
    /\ authAsk' \in Examples
    /\ authContext' = EmptyText
    /\ authResult' = Absent
    /\ authOf' = Absent
    /\ LeaveChecks

-----------------------------------------------------------------------------
(* handleCheck. *)

Question == [ask |-> authAsk, context |-> authContext]
Stored == [policies |-> agent.policies, entities |-> agent.entities]

\* seen is history: what was stored at any time while the check was in flight.
CheckOf(n) == [n |-> n, step |-> "sent", question |-> Question, policies |-> Absent,
               decision |-> Absent, seen |-> {Stored}]

\* Mutant of MayCheck: the button is not disabled during a check.
MayCheckTwice == authSent < MaxChecks

MayCheck == authSent < MaxChecks /\ ~authLoading

StartCheck ==
    /\ MayCheck
    /\ authContext # InvalidText
    /\ authLoading' = TRUE
    /\ authResult' = Absent
    /\ authOf' = Absent
    /\ authSent' = authSent + 1
    /\ authChecks' = authChecks \cup {CheckOf(authSent + 1)}
    /\ UNCHANGED <<agentVars, authForm, authForeign>>

\* "Invalid JSON in context field"
RejectContext ==
    /\ MayCheck
    /\ authContext = InvalidText
    /\ authResult' = Absent
    /\ authOf' = Absent
    /\ UNCHANGED <<agentVars, authForm, authLoading, authChecks, authSent,
                   authForeign>>

LeaveForm == UNCHANGED <<agentVars, authForm, authSent, authForeign>>

CheckGoes(c, over) == authChecks' = (authChecks \ {c}) \cup {over}

\* is_authorized: policy_set().await ...
AgentReadsForCheck ==
    /\ \E c \in authChecks :
         /\ c.step = "sent"
         /\ CheckGoes(c, [c EXCEPT !.step = "reading", !.policies = agent.policies])
    /\ LeaveForm
    /\ UNCHANGED <<authLoading, authResult, authOf>>

Decision(q, ps, es) == IF Allows(q, ps, es) THEN "Allow" ELSE "Deny"

\* Mutant of DecideFor: only entities sent with the request are used, and none are.
DecideOnRequest(c) ==
    [c EXCEPT !.step = "decided",
              !.decision = Decision(c.question, c.policies, NoEntities)]

\* ... then entities().await, and the decision.
DecideFor(c) ==
    [c EXCEPT !.step = "decided",
              !.decision = Decision(c.question, c.policies, agent.entities)]

AgentDecides ==
    /\ \E c \in authChecks : c.step = "reading" /\ CheckGoes(c, DecideFor(c))
    /\ LeaveForm
    /\ UNCHANGED <<authLoading, authResult, authOf>>

ResultArrives ==
    /\ \E c \in authChecks :
         /\ c.step = "decided"
         /\ authChecks' = authChecks \ {c}
         /\ authResult' = c.decision
         /\ authOf' = c
    /\ authLoading' = FALSE
    /\ LeaveForm

CheckFails ==
    /\ \E c \in authChecks : authChecks' = authChecks \ {c}
    /\ authLoading' = FALSE
    /\ LeaveForm
    /\ UNCHANGED <<authResult, authOf>>

-----------------------------------------------------------------------------
(* Other clients. *)

Seen(c) == IF c.step = "decided" THEN c
           ELSE [c EXCEPT !.seen = @ \cup {[policies |-> agent'.policies,
                                            entities |-> agent'.entities]}]

OthersChangeStores ==
    /\ \/ /\ authForeign < MaxAuthForeign
          /\ authForeign' = authForeign + 1
          /\ \/ \E p \in PolicyIds, text \in Contents \cup {Absent} :
                   OthersWrite([agent EXCEPT !.policies[p] = text])
             \/ \E u \in Uids, body \in {Absent, EmptyBody} :
                   OthersWrite([agent EXCEPT !.entities[u] = body])
       \/ /\ OthersCommit \/ OthersRollBack
          /\ UNCHANGED authForeign
    /\ authChecks' = {Seen(c) : c \in authChecks}
    /\ UNCHANGED <<authForm, authLoading, authResult, authOf, authSent>>

CheckCalls == AgentReadsForCheck \/ AgentDecides \/ ResultArrives \/ CheckFails

AuthNext ==
    \/ EnterAsk \/ EnterContext \/ LoadExample
    \/ StartCheck \/ RejectContext
    \/ CheckCalls
    \/ OthersChangeStores

AuthSpec == AgentInit /\ AuthInit /\ [][AuthNext]_authVars

-----------------------------------------------------------------------------
(* Properties. *)

\* The result that is shown answers the check that was sent last, never one before
\* it, and while a check is in flight there is none (handleCheck, loadExample).
ResultOfLastCheck ==
    authResult # Absent =>
        /\ authOf.n = authSent
        /\ ~authLoading

\* A decision is one of policies and entities that were stored while the check was
\* in flight, final or not.  They may be of two different moments: only if the
\* stores changed at most once is it the decision of one of them.
DecisionFromStored ==
    authResult # Absent =>
        LET q == authOf.question
            seen == authOf.seen
        IN  /\ \E s, t \in seen : authResult = Decision(q, s.policies, t.entities)
            /\ Cardinality(seen) <= 2 =>
                   \E s \in seen : authResult = Decision(q, s.policies, s.entities)
=============================================================================
