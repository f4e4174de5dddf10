------------------------------ MODULE Settings ------------------------------
(***************************************************************************)
(* Where the dashboard sends its requests, and with which key: the         *)
(* settings page (frontend/app/settings/page.tsx), the configuration every *)
(* request reads (frontend/lib/config.ts) and the part of it that the      *)
(* server puts into a page it serves (frontend/app/layout.tsx).  What was  *)
(* saved lives in the localStorage of the browser, which its tabs share.   *)
(***************************************************************************)
EXTENDS Naturals

CONSTANTS BaseUrls,         \* base URLs
          ApiKeys,          \* keys
          NoSetting,        \* an empty field, or no item in localStorage
          FirstEnvironment, \* what the server is deployed with
          MaxDeploys        \* bound: changes of it

VARIABLES environment,      \* the environment of the frontend server
          runtimeConfig,    \* window.__RUNTIME_CONFIG__ of the page
          localStorage,     \* CEDAR_API_BASE_URL and CEDAR_API_KEY
          apiConfig,        \* the fields of the settings page
          saved,            \* saved
          otherTab,         \* history: another tab has saved since
          deploys           \* counts the changes of the environment

settingsVars == <<environment, runtimeConfig, localStorage, apiConfig, saved, otherTab,
                  deploys>>

-----------------------------------------------------------------------------
ConfigFields == {"baseUrl", "apiKey"}
Fields == [baseUrl : BaseUrls \cup {NoSetting}, apiKey : ApiKeys \cup {NoSetting}]
Environments == {e \in Fields : e.baseUrl # NoSetting}

OrElse(a, b) == IF a # NoSetting THEN a ELSE b

\* "user settings take precedence", field by field.
getConfig(runtime, stored) == [f \in ConfigFields |-> OrElse(stored[f], runtime[f])]

API_CONFIG == getConfig(runtimeConfig, localStorage)

SettingsInit ==
    /\ environment = FirstEnvironment
    /\ runtimeConfig = FirstEnvironment
    /\ localStorage = [f \in ConfigFields |-> NoSetting]
    /\ apiConfig = FirstEnvironment
    /\ saved = TRUE
    /\ otherTab = FALSE
    /\ deploys = 0

-----------------------------------------------------------------------------
\* The effect of the page when it is shown, and how it is after Reset.
ShowConfig(config) ==
    /\ apiConfig' = config
    /\ saved' = TRUE

\* The page is left for another one of the dashboard and shown again.
ShowSettings ==
    /\ ShowConfig(API_CONFIG)
    /\ otherTab' = FALSE
    /\ UNCHANGED <<environment, runtimeConfig, localStorage, deploys>>

\* RootLayout: the server puts its environment into the page.
ReloadPage ==
    /\ runtimeConfig' = environment
    /\ ShowConfig(getConfig(environment, localStorage))
    /\ otherTab' = FALSE
    /\ UNCHANGED <<environment, localStorage, deploys>>

handleChange ==
    /\ \E f \in ConfigFields, fields \in Fields :
         apiConfig' = [apiConfig EXCEPT ![f] = fields[f]]
    /\ saved' = FALSE
    /\ UNCHANGED <<environment, runtimeConfig, localStorage, otherTab, deploys>>

handleSave ==
    /\ ~saved
    /\ localStorage' = apiConfig
    /\ saved' = TRUE
    /\ otherTab' = FALSE
    /\ UNCHANGED <<environment, runtimeConfig, apiConfig, deploys>>

\* Mutant of ResetSettings: back to what the page was served with.
ResetToServed ==
    /\ ~saved
    /\ ShowConfig(runtimeConfig)
    /\ otherTab' = FALSE
    /\ UNCHANGED <<environment, runtimeConfig, localStorage, deploys>>

ResetSettings ==
    /\ ~saved
    /\ ShowConfig(API_CONFIG)
    /\ otherTab' = FALSE
    /\ UNCHANGED <<environment, runtimeConfig, localStorage, deploys>>

\* Another tab saves what it shows.
OtherTabSaves ==
    /\ localStorage' \in Fields
    /\ otherTab' = TRUE
    /\ UNCHANGED <<environment, runtimeConfig, apiConfig, saved, deploys>>

Redeploy ==
    /\ deploys < MaxDeploys
    /\ deploys' = deploys + 1
    /\ environment' \in Environments
    /\ UNCHANGED <<runtimeConfig, localStorage, apiConfig, saved, otherTab>>

SettingsNext ==
    \/ ShowSettings \/ ReloadPage
    \/ handleChange \/ handleSave \/ ResetSettings
    \/ OtherTabSaves \/ Redeploy

SettingsSpec == SettingsInit /\ [][SettingsNext]_settingsVars

-----------------------------------------------------------------------------
\* While the page says that its settings are saved, every field that is filled in
\* is what the next request will use, however often the page was edited, reset,
\* reloaded and the server deployed anew; another tab may save something else.
SavedMeansUsed ==
    saved /\ ~otherTab =>
        \A f \in ConfigFields : apiConfig[f] # NoSetting => apiConfig[f] = API_CONFIG[f]
=============================================================================
