----------------------------- MODULE Dashboard -----------------------------
(***************************************************************************)
(* The dashboard (frontend/): one of its pages at a time, opened in one    *)
(* browser tab on one agent.  A page starts from nothing when it is opened *)
(* and takes nothing along when it is left, so that a visit of the         *)
(* dashboard is a visit of each page; the pages share the agent.           *)
(***************************************************************************)
EXTENDS PoliciesPage, EntitiesPage, SchemaPage, AuthorizationPage, Overview, Settings

CONSTANTS Pages,            \* the pages that are visited
          Contents0         \* [Pages -> what the agent may have to begin with]

VARIABLE page               \* the page that is open

ASSUME DashboardAssumption == \A p \in Pages : Contents0[p] \subseteq Contained

policiesPageVars == <<policyFetching, policiesLoading, policyWriting, policyModals,
                      policyUnseen, foreignWrites>>
entitiesPageVars == <<entityFetching, entityDialog, entityOptions, entitySave,
                      entityConfirm, entityDeletes, entityChanges>>
schemaPageVars   == <<schemaView, schemaEditor, schemaWriting, schemaModals, schemaHad>>
authPageVars     == <<authForm, authLoading, authResult, authChecks, authOf,
                      authSent, authForeign>>
overviewPageVars == <<stats, statsLoading, statsCalls, statsGot, statsDisturbed, statsForeign>>

dashboardVars == <<page, agentVars, policiesPageVars, entitiesPageVars, schemaPageVars,
                   authPageVars, overviewPageVars, settingsVars>>

DashboardInit ==
    /\ page \in Pages
    /\ agent \in Contents0[page]
    /\ agentUndo = Absent
    /\ PoliciesInit /\ EntitiesInit /\ SchemaInit /\ AuthInit /\ OverviewInit
    /\ SettingsInit

OnPoliciesPage(step) ==
    /\ page = "policies" /\ step
    /\ UNCHANGED <<page, entitiesPageVars, schemaPageVars, authPageVars, overviewPageVars,
                   settingsVars>>
OnEntitiesPage(step) ==
    /\ page = "entities" /\ step
    /\ UNCHANGED <<page, policiesPageVars, schemaPageVars, authPageVars, overviewPageVars,
                   settingsVars>>
OnSchemaPage(step) ==
    /\ page = "schema" /\ step
    /\ UNCHANGED <<page, policiesPageVars, entitiesPageVars, authPageVars, overviewPageVars,
                   settingsVars>>
OnAuthorizationPage(step) ==
    /\ page = "authorization" /\ step
    /\ UNCHANGED <<page, policiesPageVars, entitiesPageVars, schemaPageVars,
                   overviewPageVars, settingsVars>>
OnOverview(step) ==
    /\ page = "overview" /\ step
    /\ UNCHANGED <<page, policiesPageVars, entitiesPageVars, schemaPageVars, authPageVars,
                   settingsVars>>
OnSettingsPage(step) ==
    /\ page = "settings" /\ step
    /\ UNCHANGED <<page, agentVars, policiesPageVars, entitiesPageVars, schemaPageVars,
                   authPageVars, overviewPageVars>>

DashboardNext ==
    \/ OnPoliciesPage(PoliciesNext)   \/ OnEntitiesPage(EntitiesNext)
    \/ OnSchemaPage(SchemaNext)       \/ OnAuthorizationPage(AuthNext)
    \/ OnOverview(OverviewNext)       \/ OnSettingsPage(SettingsNext)

\* A call of the page that is open goes on: the agent serves it, or the browser
\* delivers the answer, or an error, and runs what follows the await.
PageCalls ==
    \/ OnPoliciesPage(FetchCalls \/ SaveCall \/ DeleteCalls)
    \/ OnEntitiesPage(EntityFetchCalls \/ EntitySaveCalls \/ EntityDeleteCalls)
    \/ OnSchemaPage(SchemaFetchCalls \/ SchemaPageCalls \/ AttributeCall)
    \/ OnAuthorizationPage(CheckCalls)
    \/ OnOverview(ReadEnds \/ StatsArrive)

\* While calls are in flight, one of them goes on.  Nothing is assumed of the user
\* and of other clients.
DashboardFairness == WF_dashboardVars(PageCalls)

DashboardSpec == DashboardInit /\ [][DashboardNext]_dashboardVars /\ DashboardFairness

-----------------------------------------------------------------------------
(* Properties of several pages. *)

\* The spinner that hides a table or the schema is never left over: it is shown only
\* while a fetch is in flight, although fetches overlap and each of them ends it.
SpinnersMeanFetching ==
    /\ SpinnerMeansFetching
    /\ entitiesLoading => entityFetches # {}
    /\ schemaLoading   => schemaFetches # {}

\* A confirmation always names what it is about, although a deletion that returns
\* clears the name under a confirmation that was opened meanwhile: its button never
\* does nothing (handleDelete, handleDeleteAttribute).
ConfirmationsAreNamed ==
    /\ ConfirmNamesPolicy
    /\ entityConfirm.open => entityConfirm.id # Absent
    /\ attrConfirm.open   => attrConfirm.target # NoTarget

Busy ==
    \/ policySave # Absent \/ entitySave # Absent \/ attrSave # Absent
    \/ authLoading
    \/ page = "overview" /\ statsLoading

\* No button stays disabled: every save, addition and check ends, with an answer or
\* an error, and so does the first load of the overview.  Only one page is open, so
\* that Busy is what disables the button of that page.
BusyEnds == Busy ~> ~Busy
=============================================================================
