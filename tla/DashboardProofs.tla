--------------------------- MODULE DashboardProofs ---------------------------
(***************************************************************************)
(* Proofs about the pages of the dashboard that have no module of proofs   *)
(* of their own, and about the dashboard as a whole.                       *)
(***************************************************************************)
EXTENDS Dashboard, StoresProofs, PoliciesPageProofs, AuthorizationPageProofs

-----------------------------------------------------------------------------
(* The agent, and the calls of a page: one that is a save, and others. *)

\* The agent restores something as long as it applies a call of the page, and it
\* applies one at a time.
Exclusive(undo, save, calls) ==
    /\ InStep(save, "written") => undo # Absent /\ \A d \in calls : ~InStep(d, "written")
    /\ \A d \in calls : InStep(d, "written") =>
           undo # Absent /\ \A e \in calls : InStep(e, "written") => e = d

AgentTyped == agent \in Contained /\ agentUndo \in Contained \cup {Absent}

LEMMA AgentKeepsTypes ==
    ASSUME AgentTyped, NEW call, NEW over, AgentStep(call, over),
           call.req \in PolicyRequests \cup DataRequests \cup SchemaRequests,
           InStep(call, "written") => agentUndo # Absent
    PROVE  AgentTyped'
<1> USE DEF AgentTyped
<1>1. CASE Refuses(call, over)
  BY <1>1 DEF Refuses, agentVars
<1>2. CASE Writes(call, over)
  BY <1>2, ResultTyped DEF Writes
<1>3. CASE Commits(call, over)
  BY <1>3 DEF Commits
<1>4. CASE RollsBack(call, over)
  BY <1>4 DEF RollsBack
<1> QED
  BY <1>1, <1>2, <1>3, <1>4 DEF AgentStep

LEMMA SaveKeepsLock ==
    ASSUME AgentTyped, NEW save, NEW calls, Exclusive(agentUndo, save, calls),
           NEW over \in Outcomes(save), AgentStep(save, over)
    PROVE  Exclusive(agentUndo', over, calls)
<1>1. agent # Absent
  BY AgentApiAssumption DEF AgentTyped
<1>2. \/ over.step = "failed" /\ save.step = "sent" /\ UNCHANGED agentVars
      \/ over.step = "written" /\ agentUndo = Absent /\ agentUndo' = agent
      \/ InStep(save, "written") /\ over.step \in {"served", "failed"}
  BY CallGoes DEF InStep
<1> QED
  BY <1>1, <1>2 DEF Exclusive, InStep, agentVars

LEMMA CallKeepsLock ==
    ASSUME AgentTyped, NEW save, NEW calls, Exclusive(agentUndo, save, calls),
           NEW call \in calls, NEW over \in Outcomes(call), AgentStep(call, over)
    PROVE  Exclusive(agentUndo', save, (calls \ {call}) \cup {over})
<1>1. agent # Absent
  BY AgentApiAssumption DEF AgentTyped
<1>2. \/ over.step = "failed" /\ call.step = "sent" /\ UNCHANGED agentVars
      \/ over.step = "written" /\ agentUndo = Absent /\ agentUndo' = agent
      \/ InStep(call, "written") /\ over.step \in {"served", "failed"}
  BY CallGoes DEF InStep
<1>3. CASE over.step = "failed" /\ call.step = "sent" /\ UNCHANGED agentVars
  BY <1>3 DEF Exclusive, InStep, agentVars
<1>4. CASE over.step = "written" /\ agentUndo = Absent /\ agentUndo' = agent
  BY <1>1, <1>4 DEF Exclusive, InStep
<1>5. CASE InStep(call, "written") /\ over.step \in {"served", "failed"}
  BY <1>5 DEF Exclusive, InStep
<1> QED
  BY <1>2, <1>3, <1>4, <1>5

\* A call that is sent has not been applied, and one that has ended is no longer.
LEMMA CallsKeepLock ==
    ASSUME NEW save, NEW calls, Exclusive(agentUndo, save, calls),
           NEW save2, NEW calls2,
           InStep(save2, "written") => save2 = save,
           \A d \in calls2 : InStep(d, "written") => d \in calls
    PROVE  Exclusive(agentUndo, save2, calls2)
BY DEF Exclusive

-----------------------------------------------------------------------------
(* The overview. *)

\* What has arrived is what the agent has, and so is what is shown.
OverviewInv ==
    /\ statsCalls \subseteq Reads
    /\ statsGot = [r \in Reads |-> statsGot[r]]
    /\ ~statsDisturbed => \A r \in Reads \ statsCalls : statsGot[r] = StatsOf(agent)[r]
    /\ StatsComplete

LEMMA OverviewStarts == OverviewInit => OverviewInv
<1>1. NoStats = [r \in Reads |-> NoStats[r]]
  BY DEF NoStats, Reads
<1> QED
  BY <1>1 DEF OverviewInit, OverviewInv, StatsComplete

LEMMA OverviewStep ==
    ASSUME OverviewInv, [OverviewNext]_overviewVars
    PROVE  OverviewInv'
<1> USE DEF agentVars
<1>1. CASE ReadEnds
  <2>1. UNCHANGED <<agent, stats, statsLoading>>
    BY <1>1 DEF ReadEnds
  <2>2. PICK r \in statsCalls :
            /\ statsCalls' = statsCalls \ {r}
            /\ \/ /\ statsGot' = [statsGot EXCEPT ![r] = StatsOf(agent)[r]]
                  /\ UNCHANGED statsDisturbed
               \/ /\ UNCHANGED statsGot
                  /\ statsDisturbed' = TRUE
    BY <1>1 DEF ReadEnds
  <2>3. statsGot' = [q \in Reads |-> statsGot'[q]]
    BY <2>2 DEF OverviewInv
  <2>4. ~statsDisturbed' => \A q \in Reads \ statsCalls' : statsGot'[q] = StatsOf(agent)[q]
    BY <2>2 DEF OverviewInv
  <2>5. ~statsDisturbed' => ~statsDisturbed
    BY <2>2
  <2> QED
    BY <2>1, <2>2, <2>3, <2>4, <2>5 DEF OverviewInv, StatsComplete, StatsOf
<1>2. CASE StatsArrive
  <2>1. ASSUME ~statsDisturbed
        PROVE  statsGot = StatsOf(agent)
    <3>1. \A r \in Reads : statsGot[r] = StatsOf(agent)[r]
      BY <1>2, <2>1 DEF StatsArrive, OverviewInv
    <3>2. StatsOf(agent) = [r \in Reads |-> StatsOf(agent)[r]]
      BY DEF StatsOf, Reads
    <3> HIDE DEF StatsOf
    <3> QED
      BY <3>1, <3>2 DEF OverviewInv
  <2> QED
    BY <1>2, <2>1 DEF StatsArrive, OverviewInv, StatsComplete, StatsOf
<1>3. CASE OthersChangeAgent
  BY <1>3 DEF OthersChangeAgent, OverviewInv, StatsComplete
<1>4. CASE UNCHANGED overviewVars
  BY <1>4 DEF overviewVars, OverviewInv, StatsComplete, StatsOf
<1> QED
  BY <1>1, <1>2, <1>3, <1>4 DEF OverviewNext

\* The overview shows what the agent has, all of it, unless it was told otherwise.
THEOREM OverviewComplete == OverviewSpec => []StatsComplete
<1>1. OverviewInv => StatsComplete
  BY DEF OverviewInv
<1> QED
  BY <1>1, OverviewStarts, OverviewStep, PTL DEF OverviewSpec

-----------------------------------------------------------------------------
(* The schema page. *)

SchemaCallRecords == [req : SchemaRequests, step : CallSteps, n : Nat]
AttributeForms   == [name : Attrs \cup {Absent}, kind : Kinds, required : BOOLEAN]
AttributeDialogs ==
    [open : BOOLEAN, type : EntityTypes \cup {Absent}, fields : AttributeForms]
AttributeConfirms ==
    [open : BOOLEAN, target : [type : EntityTypes, attr : Attrs] \cup {NoTarget}]

SchemaFetchesTyped ==
    /\ schemaShown \in Schemas \cup {Absent}
    /\ \A f \in schemaFetches : f.step = "read" => f.got \in Schemas

SchemaCallsTyped ==
    /\ AgentTyped
    /\ schemaCalls \subseteq SchemaCallRecords
    /\ attrSave \in [req : SchemaRequests, step : CallSteps] \cup {Absent}
    /\ schemaChanges \in Nat
    /\ Exclusive(agentUndo, attrSave, schemaCalls)

SchemaModalsTyped ==
    /\ attrDialog \in AttributeDialogs
    /\ attrDialog.open => attrDialog.type # Absent
    /\ attrConfirm \in AttributeConfirms
    /\ attrConfirm.open => attrConfirm.target # NoTarget

SchemaEditorTyped == schemaJson \in Schemas \cup {Malformed, NotJson, NoText}

\* What nobody has given the agent is nowhere on the page, nor on its way.
SchemalessAgent ==
    ~schemaHad =>
        /\ agent.schema = EmptySchema
        /\ agentUndo # Absent => agentUndo.schema = EmptySchema
SchemalessPage ==
    ~schemaHad =>
        /\ ~ShowsSchema
        /\ \A f \in schemaFetches : f.step = "read" => f.got = EmptySchema
        /\ schemaCalls = {} /\ attrSave = Absent
        /\ NoSchemaModal

SchemaSpinner == schemaLoading => schemaFetches # {}

SchemaInv ==
    /\ SchemaFetchesTyped /\ SchemaCallsTyped /\ SchemaModalsTyped /\ SchemaEditorTyped
    /\ SchemaSpinner /\ EditorConsistent
    /\ SchemalessAgent /\ SchemalessPage

LEMMA SchemaStarts == AgentInit /\ SchemaInit => SchemaInv
<1> SUFFICES ASSUME AgentInit, SchemaInit
             PROVE  SchemaInv
  OBVIOUS
<1> USE DEF AgentInit, SchemaInit
<1>1. SchemaFetchesTyped /\ SchemaEditorTyped
  BY DEF SchemaFetchesTyped, SchemaEditorTyped, Asked
<1>2. SchemaCallsTyped
  BY DEF SchemaCallsTyped, AgentTyped, Exclusive, InStep
<1>3. SchemaModalsTyped
  BY SchemaPageAssumption
     DEF SchemaModalsTyped, AttributeDialogs, AttributeForms, AttributeConfirms, EmptyFields
<1>4. SchemaSpinner /\ EditorConsistent
  BY DEF SchemaSpinner, EditorConsistent
<1>5. SchemalessAgent
  BY Zenon DEF SchemalessAgent
<1>6. SchemalessPage
  BY DEF SchemalessPage, ShowsSchema, NoSchemaModal, Asked
<1> QED
  BY <1>1, <1>2, <1>3, <1>4, <1>5, <1>6 DEF SchemaInv

\* The agent serves a fetch, and its answer, or an error, arrives.
LEMMA SchemaFetchSteps ==
    ASSUME SchemaInv, SchemaFetchCalls
    PROVE  SchemaInv'
<1> USE DEF agentVars, schemaEditor, schemaWriting, schemaModals
<1>1. UNCHANGED <<agentVars, schemaWriting, schemaModals, schemaHad>>
  BY DEF SchemaFetchCalls, AgentReadsSchema, SchemaArrives, SchemaFails
<1>2. SchemaCallsTyped' /\ SchemaModalsTyped' /\ SchemalessAgent'
  BY <1>1 DEF SchemaInv, SchemaCallsTyped, AgentTyped, SchemaModalsTyped, SchemalessAgent
<1>3. CASE AgentReadsSchema
  <2>1. PICK f \in schemaFetches :
            schemaFetches' = (schemaFetches \ {f}) \cup {Answered(f, agent.schema)}
    BY <1>3 DEF AgentReadsSchema, getSchema
  <2>2. UNCHANGED <<schemaShown, schemaLoading, schemaEditor>>
    BY <1>3 DEF AgentReadsSchema
  <2>3. Answered(f, agent.schema).got = agent.schema /\ agent.schema \in Schemas
    BY DEF Answered, SchemaInv, SchemaCallsTyped, AgentTyped, Contained
  <2>4. SchemaFetchesTyped' /\ SchemaEditorTyped' /\ SchemaSpinner'
    BY <2>1, <2>2, <2>3
       DEF SchemaInv, SchemaFetchesTyped, SchemaEditorTyped, SchemaSpinner
  <2>5. EditorConsistent' /\ SchemalessPage'
    BY <1>1, <2>1, <2>2, <2>3
       DEF SchemaInv, EditorConsistent, SchemalessAgent, SchemalessPage, ShowsSchema,
           NoSchemaModal
  <2> QED
    BY <1>2, <2>4, <2>5 DEF SchemaInv
<1>4. CASE SchemaArrives
  <2>1. PICK f \in schemaFetches :
            /\ f.step = "read"
            /\ schemaShown' = f.got /\ schemaJson' = f.got
            /\ schemaFetches' = schemaFetches \ {f}
    BY <1>4 DEF SchemaArrives
  <2>2. f.got \in Schemas /\ f.got # Absent
    BY <2>1, SchemaPageAssumption DEF SchemaInv, SchemaFetchesTyped
  <2>3. schemaLoading' = FALSE
    BY <1>4 DEF SchemaArrives
  <2>4. /\ SchemaFetchesTyped' /\ SchemaEditorTyped' /\ SchemaSpinner' /\ EditorConsistent'
    BY <2>1, <2>2, <2>3
       DEF SchemaInv, SchemaFetchesTyped, SchemaEditorTyped, SchemaSpinner, EditorConsistent
  <2>5. SchemalessPage'
    BY <1>1, <2>1 DEF SchemaInv, SchemalessPage, ShowsSchema, NoSchemaModal
  <2> QED
    BY <1>2, <2>4, <2>5 DEF SchemaInv
<1>5. CASE SchemaFails
  <2>1. PICK f \in schemaFetches : schemaFetches' = schemaFetches \ {f}
    BY <1>5 DEF SchemaFails
  <2>2. schemaShown' = Absent /\ schemaJson' = NoText /\ schemaLoading' = FALSE
    BY <1>5 DEF SchemaFails
  <2>3. /\ SchemaFetchesTyped' /\ SchemaEditorTyped' /\ SchemaSpinner' /\ EditorConsistent'
    BY <2>1, <2>2
       DEF SchemaInv, SchemaFetchesTyped, SchemaEditorTyped, SchemaSpinner, EditorConsistent
  <2>4. SchemalessPage'
    BY <1>1, <2>1, <2>2 DEF SchemaInv, SchemalessPage, ShowsSchema, NoSchemaModal
  <2> QED
    BY <1>2, <2>3, <2>4 DEF SchemaInv
<1> QED
  BY <1>3, <1>4, <1>5 DEF SchemaFetchCalls

\* What is typed or imported is a draft, and marked as one; Cancel drops it.
LEMMA EditorSteps ==
    ASSUME SchemaInv, TypeInEditor \/ ImportSchema \/ CreateSchema \/ CancelEdit
    PROVE  SchemaInv'
<1> USE DEF agentVars, schemaView, schemaWriting, schemaModals, LeaveSchemaCalls, Draft
<1>1. UNCHANGED <<agentVars, schemaView, schemaWriting, schemaModals, schemaHad>>
  BY DEF TypeInEditor, ImportSchema, CreateSchema, CancelEdit
<1>2. SchemaFetchesTyped' /\ SchemaCallsTyped' /\ SchemaModalsTyped' /\ SchemaSpinner'
  BY <1>1 DEF SchemaInv, SchemaFetchesTyped, SchemaCallsTyped, AgentTyped,
              SchemaModalsTyped, SchemaSpinner
<1>3. SchemalessAgent' /\ SchemalessPage'
  BY <1>1 DEF SchemaInv, SchemalessAgent, SchemalessPage, ShowsSchema, NoSchemaModal
<1>4. SchemaEditorTyped' /\ EditorConsistent'
  <2>1. CASE TypeInEditor \/ ImportSchema
    <3>1. PICK text \in Drafts : schemaJson' = text /\ schemaDraft' = text /\ schemaEditing'
      BY <2>1 DEF TypeInEditor, ImportSchema
    <3> QED
      BY <3>1, SchemaPageAssumption DEF SchemaEditorTyped, EditorConsistent
  <2>2. CASE CreateSchema
    BY <1>1, <2>2 DEF CreateSchema, SchemaInv, SchemaEditorTyped, EditorConsistent
  <2>3. CASE CancelEdit
    BY <1>1, <2>3
       DEF CancelEdit, EditorVisible, ShowsSchema, SchemaInv, SchemaFetchesTyped,
           SchemaEditorTyped, EditorConsistent
  <2> QED
    BY <2>1, <2>2, <2>3
<1> QED
  BY <1>2, <1>3, <1>4 DEF SchemaInv

\* A call is sent, from an editor or a confirmation that is only there for a schema.
LEMMA SendSteps ==
    ASSUME SchemaInv, SaveSchema \/ DeleteSchema \/ DeleteAttribute
    PROVE  SchemaInv'
<1> USE DEF agentVars, schemaView, schemaEditor
<1>1. PICK r \in SchemaRequests : Send(r)
  <2>1. CASE SaveSchema
    BY <2>1 DEF SaveSchema, updateSchema, SchemaRequests, SchemaInv, SchemaEditorTyped
  <2>2. CASE DeleteSchema
    BY <2>2 DEF DeleteSchema, deleteSchema, SchemaRequests
  <2>3. CASE DeleteAttribute
    <3>1. attrConfirm.target \in [type : EntityTypes, attr : Attrs]
      BY <2>3 DEF DeleteAttribute, SchemaInv, SchemaModalsTyped, AttributeConfirms
    <3> QED
      BY <2>3, <3>1 DEF DeleteAttribute, deleteEntityAttribute, SchemaRequests
  <2> QED
    BY <2>1, <2>2, <2>3
<1> DEFINE call == NumberedCall(r, schemaChanges)
<1>2. call \in SchemaCallRecords /\ call.step = "sent"
  BY DEF NumberedCall, SchemaCallRecords, CallSteps, SchemaInv, SchemaCallsTyped
<1>3. /\ schemaCalls' = schemaCalls \cup {call} /\ schemaChanges' = schemaChanges + 1
      /\ UNCHANGED <<agentVars, schemaView, schemaEditor, attrDialog, attrSave, schemaHad>>
  BY <1>1 DEF Send
<1> HIDE DEF call
<1>4. /\ attrConfirm'.target = attrConfirm.target
      /\ attrConfirm' \in AttributeConfirms
      /\ attrConfirm'.open => attrConfirm.open
  BY DEF SaveSchema, DeleteSchema, DeleteAttribute, SchemaInv, SchemaModalsTyped,
         AttributeConfirms
<1>5. ~InStep(call, "written")
  BY <1>2 DEF InStep
<1>6. Exclusive(agentUndo, attrSave, schemaCalls \cup {call})
  BY <1>5, CallsKeepLock DEF SchemaInv, SchemaCallsTyped
<1>7. SchemaCallsTyped'
  BY <1>2, <1>3, <1>6 DEF SchemaInv, SchemaCallsTyped, AgentTyped
<1>8. /\ SchemaFetchesTyped' /\ SchemaEditorTyped' /\ SchemaModalsTyped'
      /\ SchemaSpinner' /\ EditorConsistent'
  BY <1>3, <1>4 DEF SchemaInv, SchemaFetchesTyped, SchemaEditorTyped, SchemaModalsTyped,
                    SchemaSpinner, EditorConsistent
<1>9. schemaHad
  BY DEF SaveSchema, DeleteSchema, DeleteAttribute, EditorVisible, SchemaInv, SchemalessPage,
         NoSchemaModal
<1>10. SchemalessAgent' /\ SchemalessPage'
  BY <1>3, <1>9 DEF SchemalessAgent, SchemalessPage
<1> QED
  BY <1>7, <1>8, <1>10 DEF SchemaInv

\* A fetch starts when a call is over.
LEMMA SchemaFetchStarts ==
    ASSUME SchemaFetchesTyped, SchemalessPage, StartSchemaFetch, UNCHANGED schemaShown
    PROVE  /\ SchemaFetchesTyped' /\ SchemaSpinner' /\ EditorConsistent'
           /\ \A f \in schemaFetches' : f.step = "read" => f \in schemaFetches
<1>1. schemaFetches' = schemaFetches \cup {Asked(Fresh(schemaFetches))} /\ schemaLoading'
  BY DEF StartSchemaFetch
<1>2. \A n : Asked(n).step # "read"
  BY DEF Asked
<1> QED
  BY <1>1, <1>2 DEF SchemaFetchesTyped, SchemaSpinner, EditorConsistent

\* The agent applies the calls, and their continuations run.
LEMMA SchemaCallSteps ==
    ASSUME SchemaInv, SchemaPageCalls
    PROVE  SchemaInv'
<1> USE DEF agentVars, schemaView, schemaEditor, schemaModals
<1>1. /\ schemaHad
      /\ UNCHANGED <<schemaHad, attrSave, attrDialog, schemaShown, schemaJson, schemaChanges>>
  BY DEF SchemaPageCalls, AgentChangesSchema, SchemaCallEnds, SchemaCallFails, SchemaInv,
         SchemalessPage
<1>2. SchemalessAgent' /\ SchemalessPage'
  BY <1>1 DEF SchemalessAgent, SchemalessPage
<1>3. SchemaEditorTyped'
  BY <1>1 DEF SchemaInv, SchemaEditorTyped
<1>4. CASE AgentChangesSchema
  <2>0. PICK c \in schemaCalls : \E over \in Outcomes(c) :
            AgentStep(c, over) /\ schemaCalls' = (schemaCalls \ {c}) \cup {over}
    BY <1>4 DEF AgentChangesSchema
  <2>1. PICK over \in Outcomes(c) :
            AgentStep(c, over) /\ schemaCalls' = (schemaCalls \ {c}) \cup {over}
    BY <2>0
  <2>2. UNCHANGED <<schemaView, schemaEditor, schemaModals, schemaChanges>>
    BY <1>4 DEF AgentChangesSchema
  <2>3. c.req \in SchemaRequests /\ over \in SchemaCallRecords
    BY <2>1, CallGoes DEF SchemaInv, SchemaCallsTyped, SchemaCallRecords
  <2>4. AgentTyped'
    BY <2>1, <2>3, AgentKeepsTypes DEF SchemaInv, SchemaCallsTyped, Exclusive
  <2>5. Exclusive(agentUndo', attrSave, (schemaCalls \ {c}) \cup {over})
    BY <2>1, CallKeepsLock DEF SchemaInv, SchemaCallsTyped
  <2>6. SchemaCallsTyped'
    BY <1>1, <2>1, <2>2, <2>3, <2>4, <2>5 DEF SchemaInv, SchemaCallsTyped
  <2>7. /\ SchemaFetchesTyped' /\ SchemaModalsTyped' /\ SchemaSpinner' /\ EditorConsistent'
    BY <2>2 DEF SchemaInv, SchemaFetchesTyped, SchemaModalsTyped, SchemaSpinner,
                EditorConsistent
  <2> QED
    BY <1>2, <1>3, <2>6, <2>7 DEF SchemaInv
<1>5. ASSUME NEW c \in schemaCalls, schemaCalls' = schemaCalls \ {c}, UNCHANGED agentVars,
             ForgetAttribute(c)
      PROVE  SchemaCallsTyped' /\ SchemaModalsTyped'
  <2>1. Exclusive(agentUndo, attrSave, schemaCalls \ {c})
    BY CallsKeepLock DEF SchemaInv, SchemaCallsTyped
  <2>2. SchemaCallsTyped'
    BY <1>1, <1>5, <2>1 DEF SchemaInv, SchemaCallsTyped, AgentTyped
  <2>3. SchemaModalsTyped'
    BY <1>1, <1>5 DEF ForgetAttribute, SchemaInv, SchemaModalsTyped, AttributeConfirms
  <2> QED
    BY <2>2, <2>3
<1>6. CASE SchemaCallEnds
  <2>1. SchemaCallsTyped' /\ SchemaModalsTyped'
    BY <1>5, <1>6 DEF SchemaCallEnds
  <2>2. SchemaFetchesTyped' /\ SchemaSpinner' /\ EditorConsistent'
    BY <1>6, SchemaFetchStarts DEF SchemaCallEnds, SchemaInv
  <2> QED
    BY <1>2, <1>3, <2>1, <2>2 DEF SchemaInv
<1>7. CASE SchemaCallFails
  <2>1. SchemaCallsTyped' /\ SchemaModalsTyped'
    BY <1>5, <1>7 DEF SchemaCallFails
  <2>2. SchemaFetchesTyped' /\ SchemaSpinner' /\ EditorConsistent'
    BY <1>7 DEF SchemaCallFails, SchemaInv, SchemaFetchesTyped, SchemaSpinner,
                EditorConsistent
  <2> QED
    BY <1>2, <1>3, <2>1, <2>2 DEF SchemaInv
<1> QED
  BY <1>4, <1>6, <1>7 DEF SchemaPageCalls

\* The dialog and the confirmation are opened, filled in and closed: both are of a
\* type that the schema has.
LEMMA SchemaModalSteps ==
    ASSUME SchemaInv,
           \/ OpenAttributeDialog \/ CloseAttributeDialog \/ FillAttribute
           \/ OpenDeleteAttribute \/ CloseDeleteAttribute
    PROVE  SchemaInv'
<1> USE DEF agentVars, schemaView, schemaEditor, schemaWriting, LeaveSchemaPage
<1>1. UNCHANGED <<agentVars, schemaView, schemaEditor, schemaWriting, schemaHad>>
  BY DEF OpenAttributeDialog, CloseAttributeDialog, FillAttribute, OpenDeleteAttribute,
         CloseDeleteAttribute
<1>2. schemaHad
  BY DEF OpenAttributeDialog, CloseAttributeDialog, FillAttribute, OpenDeleteAttribute,
         CloseDeleteAttribute, EditorVisible, SchemaInv, SchemalessPage, NoSchemaModal
<1>3. SchemalessAgent' /\ SchemalessPage'
  BY <1>1, <1>2 DEF SchemalessAgent, SchemalessPage
<1>4. SchemaModalsTyped'
  <2> USE DEF SchemaInv, SchemaModalsTyped
  <2>1. CASE OpenAttributeDialog
    <3>1. PICK t \in EntityTypes :
              attrDialog' = [attrDialog EXCEPT !.open = TRUE, !.type = t]
      BY <2>1 DEF OpenAttributeDialog
    <3>2. attrDialog' \in AttributeDialogs /\ attrDialog'.type = t /\ t # Absent
      BY <3>1, SchemaPageAssumption DEF AttributeDialogs
    <3> QED
      BY <2>1, <3>2 DEF OpenAttributeDialog
  <2>2. CASE CloseAttributeDialog
    <3>1. attrDialog' \in AttributeDialogs /\ ~attrDialog'.open
      BY <2>2 DEF CloseAttributeDialog, AttributeDialogs
    <3> QED
      BY <2>2, <3>1 DEF CloseAttributeDialog
  <2>3. CASE FillAttribute
    <3>1. PICK a \in Attrs, k \in Kinds, required \in BOOLEAN :
              attrDialog' = [attrDialog EXCEPT
                                !.fields = [name |-> a, kind |-> k, required |-> required]]
      BY <2>3 DEF FillAttribute
    <3>2. [name |-> a, kind |-> k, required |-> required] \in AttributeForms
      BY DEF AttributeForms
    <3>3. /\ attrDialog' \in AttributeDialogs /\ attrDialog'.type = attrDialog.type
      BY <3>1, <3>2 DEF AttributeDialogs
    <3> QED
      BY <2>3, <3>3 DEF FillAttribute
  <2>4. CASE OpenDeleteAttribute
    <3>1. PICK t \in EntityTypes, a \in Attrs :
              attrConfirm' = [open |-> TRUE, target |-> [type |-> t, attr |-> a]]
      BY <2>4 DEF OpenDeleteAttribute
    <3>2. [type |-> t, attr |-> a] # NoTarget
      BY SchemaPageAssumption DEF NoTarget
    <3> QED
      BY <2>4, <3>1, <3>2 DEF OpenDeleteAttribute, AttributeConfirms
  <2>5. CASE CloseDeleteAttribute
    <3>1. attrConfirm' \in AttributeConfirms /\ ~attrConfirm'.open
      BY <2>5 DEF CloseDeleteAttribute, AttributeConfirms
    <3> QED
      BY <2>5, <3>1 DEF CloseDeleteAttribute
  <2> QED
    BY <2>1, <2>2, <2>3, <2>4, <2>5
<1>5. /\ SchemaFetchesTyped' /\ SchemaCallsTyped' /\ SchemaEditorTyped' /\ SchemaSpinner'
      /\ EditorConsistent'
  BY <1>1 DEF SchemaInv, SchemaFetchesTyped, SchemaCallsTyped, AgentTyped,
              SchemaEditorTyped, SchemaSpinner, EditorConsistent
<1> QED
  BY <1>3, <1>4, <1>5 DEF SchemaInv

\* The call of the dialog is sent, applied and over.
LEMMA AttributeSteps ==
    ASSUME SchemaInv, SubmitAttribute \/ AttributeCall
    PROVE  SchemaInv'
<1> USE DEF agentVars, schemaView, schemaEditor, schemaModals, LeaveSchemaPage
<1>1. schemaHad /\ UNCHANGED <<schemaHad, schemaCalls, attrConfirm, schemaEditor, schemaShown>>
  BY CallGoes
     DEF SubmitAttribute, AttributeCall, AgentAddsAttribute, AttributeAdded, AttributeNotAdded,
         Succeeded, Failed, InStep, SchemaInv, SchemalessPage, NoSchemaModal
<1>2. SchemalessAgent' /\ SchemalessPage'
  BY <1>1 DEF SchemalessAgent, SchemalessPage
<1>3. SchemaEditorTyped'
  BY <1>1 DEF SchemaInv, SchemaEditorTyped
<1>4. ASSUME UNCHANGED <<schemaView, attrDialog>>
      PROVE  SchemaFetchesTyped' /\ SchemaModalsTyped' /\ SchemaSpinner' /\ EditorConsistent'
  BY <1>1, <1>4 DEF SchemaInv, SchemaFetchesTyped, SchemaModalsTyped, SchemaSpinner,
                    EditorConsistent
<1>5. ASSUME ~InStep(attrSave', "written"), UNCHANGED agentVars,
             attrSave' \in [req : SchemaRequests, step : CallSteps] \cup {Absent},
             schemaChanges' \in Nat
      PROVE  SchemaCallsTyped'
  <2>1. Exclusive(agentUndo, attrSave', schemaCalls)
    BY <1>5, CallsKeepLock DEF SchemaInv, SchemaCallsTyped
  <2> QED
    BY <1>1, <1>5, <2>1 DEF SchemaInv, SchemaCallsTyped, AgentTyped
<1>6. CASE SubmitAttribute
  <2> DEFINE f == attrDialog.fields
             r == addEntityAttribute(attrDialog.type, f.name,
                                     [kind |-> f.kind, required |-> f.required])
  <2>1. /\ attrSave' = CallOf(r) /\ schemaChanges' = schemaChanges + 1
        /\ UNCHANGED <<agentVars, schemaView, attrDialog>>
    BY <1>6 DEF SubmitAttribute
  <2>2. /\ attrDialog.type \in EntityTypes /\ f.name \in Attrs
        /\ [kind |-> f.kind, required |-> f.required] \in Decls
    BY <1>6 DEF SubmitAttribute, SchemaInv, SchemaModalsTyped, AttributeDialogs,
                AttributeForms, Decls
  <2>3. r \in SchemaRequests
    BY <2>2 DEF addEntityAttribute, SchemaRequests
  <2> HIDE DEF r
  <2>4. /\ attrSave' \in [req : SchemaRequests, step : CallSteps]
        /\ attrSave'.step = "sent" /\ schemaChanges' \in Nat
    BY <2>1, <2>3 DEF CallOf, CallSteps, SchemaInv, SchemaCallsTyped
  <2> QED
    BY <1>2, <1>3, <1>4, <1>5, <2>1, <2>4 DEF SchemaInv, InStep
<1>7. CASE AgentAddsAttribute
  <2>1. PICK over \in Outcomes(attrSave) : AgentStep(attrSave, over) /\ attrSave' = over
    BY <1>7 DEF AgentAddsAttribute
  <2>2. UNCHANGED <<schemaView, attrDialog, schemaChanges>>
    BY <1>7 DEF AgentAddsAttribute
  <2>3. /\ attrSave.req \in SchemaRequests
        /\ over \in [req : SchemaRequests, step : CallSteps]
    BY <2>1, CallGoes DEF SchemaInv, SchemaCallsTyped
  <2>4. AgentTyped'
    BY <2>1, <2>3, AgentKeepsTypes DEF SchemaInv, SchemaCallsTyped, Exclusive
  <2>5. Exclusive(agentUndo', over, schemaCalls)
    BY <2>1, SaveKeepsLock DEF SchemaInv, SchemaCallsTyped
  <2>6. SchemaCallsTyped'
    BY <1>1, <2>1, <2>2, <2>3, <2>4, <2>5 DEF SchemaInv, SchemaCallsTyped
  <2> QED
    BY <1>2, <1>3, <1>4, <2>2, <2>6 DEF SchemaInv
<1>8. CASE AttributeAdded
  <2>1. SchemaCallsTyped'
    BY <1>5, <1>8 DEF AttributeAdded, InStep, SchemaInv, SchemaCallsTyped
  <2>2. SchemaFetchesTyped' /\ SchemaSpinner' /\ EditorConsistent'
    BY <1>8, SchemaFetchStarts DEF AttributeAdded, SchemaInv
  <2>3. attrDialog' \in AttributeDialogs /\ ~attrDialog'.open
    <3>1. EmptyFields \in AttributeForms
      BY SchemaPageAssumption DEF EmptyFields, AttributeForms
    <3> QED
      BY <1>8, <3>1 DEF AttributeAdded, SchemaInv, SchemaModalsTyped, AttributeDialogs
  <2>4. SchemaModalsTyped'
    BY <1>1, <2>3 DEF SchemaInv, SchemaModalsTyped
  <2> QED
    BY <1>2, <1>3, <2>1, <2>2, <2>4 DEF SchemaInv
<1>9. CASE AttributeNotAdded
  <2>1. SchemaCallsTyped'
    BY <1>5, <1>9 DEF AttributeNotAdded, InStep, SchemaInv, SchemaCallsTyped
  <2> QED
    BY <1>2, <1>3, <1>4, <1>9, <2>1 DEF AttributeNotAdded, SchemaInv
<1> QED
  BY <1>6, <1>7, <1>8, <1>9 DEF AttributeCall

\* Another client gives the agent a schema, or the agent takes that back.
LEMMA OthersSchemaSteps ==
    ASSUME SchemaInv, OthersChangeSchema \/ OthersEndSchema
    PROVE  SchemaInv'
<1> USE DEF schemaView, schemaEditor, schemaModals, schemaWriting
<1>1. UNCHANGED <<schemaView, schemaEditor, schemaCalls, attrSave, schemaModals>>
  BY DEF OthersChangeSchema, OthersEndSchema
<1>2. /\ SchemaFetchesTyped' /\ SchemaModalsTyped' /\ SchemaEditorTyped' /\ SchemaSpinner'
      /\ EditorConsistent'
  BY <1>1 DEF SchemaInv, SchemaFetchesTyped, SchemaModalsTyped, SchemaEditorTyped,
              SchemaSpinner, EditorConsistent
<1>3. CASE OthersChangeSchema
  <2>1. PICK s \in Schemas : /\ Accepted(updateSchema(s), agent)
                            /\ OthersWrite(Result(updateSchema(s), agent))
    BY <1>3 DEF OthersChangeSchema
  <2>2. updateSchema(s) \in SchemaRequests
    BY DEF updateSchema, SchemaRequests
  <2>3. AgentTyped'
    BY <2>1, <2>2, ResultTyped DEF OthersWrite, SchemaInv, SchemaCallsTyped, AgentTyped
  <2>4. agentUndo = Absent /\ schemaChanges' = schemaChanges + 1
    BY <1>3 DEF OthersChangeSchema, OthersWrite
  <2>5. SchemaCallsTyped'
    BY <1>1, <2>3, <2>4 DEF SchemaInv, SchemaCallsTyped, Exclusive
  <2>6. SchemalessAgent' /\ SchemalessPage'
    BY <1>3 DEF OthersChangeSchema, SchemalessAgent, SchemalessPage
  <2> QED
    BY <1>2, <2>5, <2>6 DEF SchemaInv
<1>4. CASE OthersEndSchema
  <2>1. AgentTyped'
    BY <1>4 DEF OthersEndSchema, OthersCommit, OthersRollBack, SchemaInv, SchemaCallsTyped,
                AgentTyped
  <2>2. SchemaCallsTyped'
    BY <1>1, <1>4, <2>1 DEF OthersEndSchema, SchemaInv, SchemaCallsTyped, Exclusive
  <2>3. SchemalessAgent' /\ SchemalessPage'
    BY <1>1, <1>4
       DEF OthersEndSchema, OthersCommit, OthersRollBack, SchemaInv, SchemalessAgent,
           SchemalessPage, ShowsSchema, NoSchemaModal
  <2> QED
    BY <1>2, <2>2, <2>3 DEF SchemaInv
<1> QED
  BY <1>3, <1>4

LEMMA SchemaStep ==
    ASSUME SchemaInv, [SchemaNext]_schemaVars
    PROVE  SchemaInv'
<1>1. CASE UNCHANGED schemaVars
  BY <1>1 DEF schemaVars, agentVars, SchemaInv, SchemaFetchesTyped, SchemaCallsTyped,
              AgentTyped, SchemaModalsTyped, SchemaEditorTyped, SchemaSpinner,
              EditorConsistent, SchemalessAgent, SchemalessPage, ShowsSchema, NoSchemaModal
<1>2. CASE SchemaNext
  BY <1>2, SchemaFetchSteps, EditorSteps, SendSteps, SchemaCallSteps, SchemaModalSteps,
     AttributeSteps, OthersSchemaSteps DEF SchemaNext
<1> QED
  BY <1>1, <1>2

LEMMA SchemaInvariance == SchemaSpec => []SchemaInv
BY SchemaStarts, SchemaStep, PTL DEF SchemaSpec

\* Whatever calls overlap, the editor of a page that is not loading holds the schema
\* that is shown, or a draft that is marked as one.
THEOREM EditorFollowsPage == SchemaSpec => []EditorConsistent
<1>1. SchemaInv => EditorConsistent
  BY DEF SchemaInv
<1> QED
  BY <1>1, SchemaInvariance, PTL

\* However long the visit, the page gives no agent its first schema.
THEOREM NeverFirstSchema == SchemaSpec => []NoFirstSchema
<1>1. SchemaInv => NoFirstSchema
  BY DEF SchemaInv, SchemalessAgent, NoFirstSchema
<1> QED
  BY <1>1, SchemaInvariance, PTL

-----------------------------------------------------------------------------
(* The two calls of a save on the entities page, by what they leave. *)

LEMMA TextsSent ==
    ASSUME NEW attrs \in Bodies
    PROVE  /\ StringAttributes(attrs) \in [Attrs -> Strings \cup {Absent}]
           /\ \A a \in Attrs : attrs[a] # Absent =>
                  /\ StringAttributes(attrs)[a] = AsText[attrs[a]]
                  /\ AsText[attrs[a]] \in Strings /\ AsText[attrs[a]] # Absent
<1>1. Absent \notin Strings
  BY StoresAssumption DEF Strings
<1>2. \A a \in Attrs : attrs[a] # Absent => AsText[attrs[a]] \in Strings
  BY EntitiesPageAssumption DEF Bodies
<1> QED
  BY <1>1, <1>2 DEF StringAttributes

\* What the agent says of an attribute that is declared, under a schema that is one.
LEMMA DeclaredConforms ==
    ASSUME NEW st \in Contained, NEW es \in Entities,
           EntitiesValid(es, CedarSchema(st.schema)),
           NEW u \in Uids, es[u] # Absent, HasShape(st.schema, u.type)
    PROVE  \A a \in Attrs : AttrConforms(es[u][a], st.schema[u.type][a])
<1>1. st.schema # EmptySchema /\ st.schema # NoSchema
  BY StoresAssumption DEF Contained, HasShape
<1>2. CedarSchema(st.schema) = st.schema
  BY <1>1 DEF CedarSchema
<1> QED
  BY <1>1, <1>2 DEF EntitiesValid, Conforms

LEMMA AddWritten ==
    ASSUME NEW uid \in Uids, NEW st \in Contained, Accepted(addEntity(uid), st),
           NEW new, new = Result(addEntity(uid), st)
    PROVE  /\ new \in Contained /\ new.schema = st.schema
           /\ st.entities[uid] = Absent /\ new.entities[uid] # Absent
           /\ \A u \in Uids : u # uid => new.entities[u] = st.entities[u]
           /\ ~Requires(st.schema, uid.type)
<1> DEFINE r == addEntity(uid)
<1>1. r.op = "add_new_entity" /\ r.uid = uid /\ r \in DataRequests
  BY DEF addEntity, DataRequests
<1>2. st.entities \in Entities /\ st.schema \in Schemas
  BY DEF Contained
<1>3. new \in Contained
  BY <1>1, ResultTyped
<1> HIDE DEF r
<1>4. r.op \in DataOps /\ r.op \notin PolicyOps
  BY <1>1 DEF DataOps, PolicyOps
<1>5. DataResult(r, st.entities) = [st.entities EXCEPT ![uid] = EmptyBody]
  BY <1>1 DEF DataResult
<1>6. /\ DataGuard(r, st.entities)
      /\ EntitiesValid(DataResult(r, st.entities), CedarSchema(st.schema))
  BY <1>4 DEF r, Accepted, DataAccepted
<1>7. st.entities[uid] = Absent
  BY <1>1, <1>6 DEF DataGuard
<1>8. new.entities = [st.entities EXCEPT ![uid] = EmptyBody] /\ new.schema = st.schema
  BY <1>4, <1>5 DEF r, Result, Contained
<1>9. EmptyBody \in Bodies /\ EmptyBody # Absent
  BY StoresAssumption DEF EmptyBody, Bodies
<1>10. new.entities[uid] = EmptyBody
  BY <1>2, <1>8 DEF Entities
<1>11. \A u \in Uids : u # uid => new.entities[u] = st.entities[u]
  BY <1>2, <1>8 DEF Entities
<1>12. ~Requires(st.schema, uid.type)
  <2>1. SUFFICES ASSUME HasShape(st.schema, uid.type), NEW a \in Attrs,
                        st.schema[uid.type][a] # Absent
                 PROVE  ~st.schema[uid.type][a].required
    BY DEF Requires
  <2>2. new.entities \in Entities
    BY <1>3 DEF Contained
  <2>3. AttrConforms(new.entities[uid][a], st.schema[uid.type][a])
    BY <1>5, <1>6, <1>8, <1>9, <1>10, <2>1, <2>2, DeclaredConforms
  <2>4. new.entities[uid][a] = Absent
    BY <1>10 DEF EmptyBody
  <2> QED
    BY <2>1, <2>3, <2>4 DEF AttrConforms
<1> QED
  BY <1>3, <1>7, <1>8, <1>9, <1>10, <1>11, <1>12

LEMMA PatchWritten ==
    ASSUME NEW uid \in Uids, NEW attrs \in [Attrs -> Strings \cup {Absent}],
           NEW st \in Contained, Accepted(patchEntityAttributes(uid, attrs), st),
           NEW new, new = Result(patchEntityAttributes(uid, attrs), st)
    PROVE  /\ new \in Contained /\ new.schema = st.schema
           /\ st.entities[uid] # Absent /\ new.entities[uid] # Absent
           /\ new.entities[uid] = Patched(st.entities[uid], attrs)
           /\ \A u \in Uids : u # uid => new.entities[u] = st.entities[u]
           /\ HasShape(st.schema, uid.type) =>
                  \A a \in Attrs :
                      attrs[a] # Absent /\ st.schema[uid.type][a] # Absent =>
                          st.schema[uid.type][a].kind = StringKind
<1> DEFINE r == patchEntityAttributes(uid, attrs)
<1>1. /\ r.op = "patch_entity_attributes" /\ r.uid = uid /\ r.attrs = attrs
      /\ r \in DataRequests
  BY DEF patchEntityAttributes, DataRequests
<1>2. st.entities \in Entities /\ st.schema \in Schemas
  BY DEF Contained
<1>3. new \in Contained
  BY <1>1, ResultTyped
<1> HIDE DEF r
<1>4. r.op \in DataOps /\ r.op \notin PolicyOps
  BY <1>1 DEF DataOps, PolicyOps
<1>5. DataResult(r, st.entities)
          = [st.entities EXCEPT ![uid] = Patched(st.entities[uid], attrs)]
  BY <1>1 DEF DataResult
<1>6. /\ DataGuard(r, st.entities)
      /\ EntitiesValid(DataResult(r, st.entities), CedarSchema(st.schema))
  BY <1>4 DEF r, Accepted, DataAccepted
<1>7. st.entities[uid] # Absent
  BY <1>1, <1>6 DEF DataGuard
<1>8. /\ new.entities = [st.entities EXCEPT ![uid] = Patched(st.entities[uid], attrs)]
      /\ new.schema = st.schema
  BY <1>4, <1>5 DEF r, Result, Contained
<1>9. new.entities[uid] = Patched(st.entities[uid], attrs)
  BY <1>2, <1>8 DEF Entities
<1>10. \A u \in Uids : u # uid => new.entities[u] = st.entities[u]
  BY <1>2, <1>8 DEF Entities
<1>11. new.entities[uid] # Absent
  <2>1. st.entities[uid] \in Bodies /\ Strings \subseteq Values
    BY <1>2, <1>7 DEF Entities, Strings
  <2>2. Patched(st.entities[uid], attrs) \in Bodies
    BY <2>1 DEF Patched, Bodies
  <2> QED
    BY <1>9, <2>2, StoresAssumption
<1>12. ASSUME HasShape(st.schema, uid.type), NEW a \in Attrs, attrs[a] # Absent,
              st.schema[uid.type][a] # Absent
       PROVE  st.schema[uid.type][a].kind = StringKind
  <2>1. new.entities \in Entities
    BY <1>3 DEF Contained
  <2>2. AttrConforms(new.entities[uid][a], st.schema[uid.type][a])
    BY <1>5, <1>6, <1>8, <1>11, <1>12, <2>1, DeclaredConforms
  <2>3. new.entities[uid][a] = attrs[a] /\ attrs[a] \in Strings
    BY <1>9, <1>12 DEF Patched
  <2> QED
    BY <1>12, <2>2, <2>3 DEF AttrConforms, Strings
<1> QED
  BY <1>3, <1>7, <1>8, <1>9, <1>10, <1>11, <1>12

-----------------------------------------------------------------------------
(* A save under way. *)

IsAdd(save)   == save.new /\ save.req = addEntity(save.uid)
IsPatch(save) == save.req = patchEntityAttributes(save.uid, StringAttributes(save.attrs))

\* What the agent has of an entity whose save nothing else has disturbed.
SavedSoFar(save, st) ==
    /\ MaybeApplied(save) => st.entities[save.uid] # Absent
    /\ MaybeApplied(save) /\ IsPatch(save) =>
           \A a \in Attrs : save.attrs[a] # Absent =>
               /\ st.entities[save.uid][a] = AsText[save.attrs[a]]
               /\ (HasShape(st.schema, save.uid.type) /\ st.schema[save.uid.type][a] # Absent) =>
                      st.schema[save.uid.type][a].kind = StringKind
    /\ save.new /\ (MaybeApplied(save) \/ (IsPatch(save) /\ ~Failed(save))) =>
           ~Requires(st.schema, save.uid.type)

SaveGoesOn(save, st) ==
    /\ save \in EntitySaves
    /\ IsAdd(save) \/ IsPatch(save)
    /\ save.alone => SavedSoFar(save, st)

\* It adds, or it patches.
LEMMA AddsOrPatches ==
    ASSUME NEW save \in EntitySaves
    PROVE  /\ IsAdd(save) => save.req.op = "add_new_entity" /\ ~IsPatch(save)
           /\ IsPatch(save) => save.req.op = "patch_entity_attributes" /\ ~IsAdd(save)
<1>1. /\ addEntity(save.uid).op = "add_new_entity"
      /\ patchEntityAttributes(save.uid, StringAttributes(save.attrs)).op
             = "patch_entity_attributes"
  BY DEF addEntity, patchEntityAttributes
<1> QED
  BY <1>1 DEF IsAdd, IsPatch

LEMMA AddApplied ==
    ASSUME NEW save \in EntitySaves, IsAdd(save), NEW st \in Contained,
           Accepted(save.req, st), NEW new, new = Result(save.req, st)
    PROVE  /\ SavedSoFar(save, new)
           /\ \A u \in Uids, a \in Attrs :
                  st.entities[u] # Absent /\ st.entities[u][a] # Absent =>
                      new.entities[u] # Absent /\ new.entities[u][a] # Absent
<1>1. save.uid \in Uids /\ save.req = addEntity(save.uid) /\ ~IsPatch(save)
  BY AddsOrPatches DEF EntitySaves, IsAdd
<1>2. /\ new \in Contained /\ new.schema = st.schema
      /\ st.entities[save.uid] = Absent /\ new.entities[save.uid] # Absent
      /\ \A u \in Uids : u # save.uid => new.entities[u] = st.entities[u]
      /\ ~Requires(st.schema, save.uid.type)
  BY <1>1, AddWritten
<1> QED
  BY <1>1, <1>2 DEF SavedSoFar

LEMMA PatchApplied ==
    ASSUME NEW save \in EntitySaves, IsPatch(save), NEW st \in Contained,
           Accepted(save.req, st), NEW new, new = Result(save.req, st),
           save.new /\ save.alone => ~Requires(st.schema, save.uid.type)
    PROVE  /\ save.alone => SavedSoFar(save, new)
           /\ \A u \in Uids, a \in Attrs :
                  st.entities[u] # Absent /\ st.entities[u][a] # Absent =>
                      new.entities[u] # Absent /\ new.entities[u][a] # Absent
<1> DEFINE attrs == StringAttributes(save.attrs)
<1>1. /\ save.uid \in Uids /\ save.attrs \in Bodies
      /\ save.req = patchEntityAttributes(save.uid, attrs)
  BY DEF EntitySaves, IsPatch
<1>2. /\ attrs \in [Attrs -> Strings \cup {Absent}]
      /\ \A a \in Attrs : save.attrs[a] # Absent =>
             attrs[a] = AsText[save.attrs[a]] /\ attrs[a] # Absent
  BY <1>1, TextsSent
<1> HIDE DEF attrs
<1>3. /\ new.schema = st.schema
      /\ st.entities[save.uid] # Absent /\ new.entities[save.uid] # Absent
      /\ new.entities[save.uid] = Patched(st.entities[save.uid], attrs)
      /\ \A u \in Uids : u # save.uid => new.entities[u] = st.entities[u]
      /\ HasShape(st.schema, save.uid.type) =>
             \A a \in Attrs : attrs[a] # Absent /\ st.schema[save.uid.type][a] # Absent =>
                 st.schema[save.uid.type][a].kind = StringKind
  BY <1>1, <1>2, PatchWritten
<1>4. \A a \in Attrs : Patched(st.entities[save.uid], attrs)[a] =
          IF attrs[a] = Absent THEN st.entities[save.uid][a] ELSE attrs[a]
  BY DEF Patched
<1>5. save.alone => SavedSoFar(save, new)
  BY <1>2, <1>3, <1>4 DEF SavedSoFar
<1>6. ASSUME NEW u \in Uids, NEW a \in Attrs, st.entities[u] # Absent,
             st.entities[u][a] # Absent
      PROVE  new.entities[u] # Absent /\ new.entities[u][a] # Absent
  BY <1>3, <1>4, <1>6
<1> QED
  BY <1>5, <1>6

\* A step of the agent on the save.
LEMMA SaveGoes ==
    ASSUME NEW save, AgentTyped, SaveGoesOn(save, agent),
           NEW over \in Outcomes(save), AgentStep(save, over)
    PROVE  SaveGoesOn(over, agent')
<1>1. save \in EntitySaves /\ save # Absent
  BY EntitiesPageAssumption DEF SaveGoesOn
<1>2. over = [save EXCEPT !.step = over.step] /\ over.step \in CallSteps
  BY CallGoes
<1>3. /\ over \in EntitySaves /\ over # Absent
      /\ over.req = save.req /\ over.uid = save.uid /\ over.attrs = save.attrs
      /\ over.new = save.new /\ over.alone = save.alone
  BY <1>1, <1>2, EntitiesPageAssumption DEF EntitySaves
<1>4. (IsAdd(over) <=> IsAdd(save)) /\ (IsPatch(over) <=> IsPatch(save))
  BY <1>3 DEF IsAdd, IsPatch
<1>5. SUFFICES ASSUME over.alone
               PROVE  SavedSoFar(over, agent')
  BY <1>3, <1>4 DEF SaveGoesOn
<1>6. SavedSoFar(save, agent)
  BY <1>3, <1>5 DEF SaveGoesOn
<1>7. CASE Writes(save, over)
  <2>1. /\ Accepted(over.req, agent) /\ agent' = Result(over.req, agent)
        /\ Pending(save)
    BY <1>3, <1>7 DEF Writes
  <2>2. CASE IsAdd(over)
    BY <1>3, <2>1, <2>2, AddApplied DEF AgentTyped
  <2>3. CASE IsPatch(over)
    <3>1. over.new => ~Requires(agent.schema, over.uid.type)
      BY <1>3, <1>4, <1>6, <2>1, <2>3 DEF SavedSoFar, Pending, Failed, InStep
    <3> QED
      BY <1>3, <1>5, <2>1, <2>3, <3>1, PatchApplied DEF AgentTyped
  <2> QED
    BY <1>4, <2>2, <2>3 DEF SaveGoesOn
<1>8. CASE Refuses(save, over) \/ RollsBack(save, over)
  BY <1>3, <1>8 DEF Refuses, RollsBack, SavedSoFar, MaybeApplied, Failed, InStep
<1>9. CASE Commits(save, over)
  <2>1. UNCHANGED agent /\ MaybeApplied(save)
    BY <1>9 DEF Commits, MaybeApplied
  <2> QED
    BY <1>3, <1>4, <1>6, <2>1 DEF SavedSoFar
<1> QED
  BY <1>7, <1>8, <1>9 DEF AgentStep

-----------------------------------------------------------------------------
(* The entities page. *)

EntityDeleteRecords == [req : DataRequests, step : CallSteps, n : Nat]
EntityDialogs ==
    [open : BOOLEAN, editing : Uids \cup {Absent},
     form : [uid : Uids \cup {NoUid}, attrs : Bodies]]
EntityConfirms == [open : BOOLEAN, id : Uids \cup {Absent}]

EntityFetchesTyped ==
    /\ entityList \in Entities
    /\ \A f \in entityFetches : f.step = "read" => f.got \in Entities

EntityModalsTyped ==
    /\ entityDialog \in EntityDialogs
    /\ entityOptions.schema \in Schemas
    /\ entityConfirm \in EntityConfirms
    /\ entityConfirm.open => entityConfirm.id # Absent

EntityCallsTyped ==
    /\ AgentTyped
    /\ entityDeletes \subseteq EntityDeleteRecords
    /\ entityChanges \in Nat
    /\ Exclusive(agentUndo, entitySave, entityDeletes)

EntitySpinner == entitiesLoading => entityFetches # {}
SaveInv == entitySave # Absent => SaveGoesOn(entitySave, agent)

EntitiesInv ==
    /\ EntityFetchesTyped /\ EntityModalsTyped /\ EntityCallsTyped
    /\ EntitySpinner
    /\ SaveInv

LEMMA EntitiesStart == AgentInit /\ EntitiesInit => EntitiesInv
<1> SUFFICES ASSUME AgentInit, EntitiesInit
             PROVE  EntitiesInv
  OBVIOUS
<1> USE DEF AgentInit, EntitiesInit
<1>1. EntityFetchesTyped /\ EntitySpinner
  BY DEF EntityFetchesTyped, EntitySpinner, NoEntities, Entities, Asked
<1>2. EntityCallsTyped
  BY DEF EntityCallsTyped, AgentTyped, Exclusive, InStep
<1>3. EntityModalsTyped
  <2>1. EmptyEntity \in [uid : Uids \cup {NoUid}, attrs : Bodies]
    BY DEF EmptyEntity, EmptyBody, Bodies
  <2> QED
    BY <2>1 DEF EntityModalsTyped, EntityDialogs, EntityConfirms, NoOptions, Schemas
<1> QED
  BY <1>1, <1>2, <1>3 DEF EntitiesInv, SaveInv

\* The agent serves a fetch, and its answer, or an error, arrives.
LEMMA EntityFetchSteps ==
    ASSUME EntitiesInv, EntityFetchCalls
    PROVE  EntitiesInv'
<1> USE DEF agentVars
<1>1. UNCHANGED <<agentVars, entityDialog, entityOptions, entitySave, entityConfirm,
                  entityDeletes, entityChanges>>
  BY DEF EntityFetchCalls, AgentReadsEntities, EntitiesArrive, EntitiesFail
<1>2. EntityModalsTyped' /\ EntityCallsTyped' /\ SaveInv'
  BY <1>1 DEF EntitiesInv, EntityModalsTyped, EntityCallsTyped, AgentTyped, SaveInv
<1>3. EntityFetchesTyped' /\ EntitySpinner'
  <2>1. CASE AgentReadsEntities
    <3>1. PICK f \in entityFetches :
              entityFetches' = (entityFetches \ {f}) \cup {Answered(f, agent.entities)}
      BY <2>1 DEF AgentReadsEntities, getEntities
    <3>2. Answered(f, agent.entities).got = agent.entities /\ agent.entities \in Entities
      BY DEF Answered, EntitiesInv, EntityCallsTyped, AgentTyped, Contained
    <3> QED
      BY <2>1, <3>1, <3>2
         DEF AgentReadsEntities, EntitiesInv, EntityFetchesTyped, EntitySpinner
  <2>2. CASE EntitiesArrive \/ EntitiesFail
    BY <2>2 DEF EntitiesArrive, EntitiesFail, EntitiesInv, EntityFetchesTyped, EntitySpinner
  <2> QED
    BY <2>1, <2>2 DEF EntityFetchCalls
<1> QED
  BY <1>2, <1>3 DEF EntitiesInv

\* The dialogs are opened and closed: a confirmation for an entity of the table.
LEMMA EntityModalSteps ==
    ASSUME EntitiesInv,
           \/ OpenCreateEntity \/ OpenEditEntity \/ CloseEntityDialog \/ LoadEntityOptions
           \/ OpenDeleteEntity \/ CloseDeleteEntity
    PROVE  EntitiesInv'
<1> USE DEF agentVars, entityFetching, LeaveEntityCalls
<1>1. UNCHANGED <<agentVars, entityFetching, entitySave, entityDeletes, entityChanges>>
  BY DEF OpenCreateEntity, OpenEditEntity, CloseEntityDialog, LoadEntityOptions,
         OpenDeleteEntity, CloseDeleteEntity
<1>2. EntityFetchesTyped' /\ EntityCallsTyped' /\ EntitySpinner' /\ SaveInv'
  BY <1>1 DEF EntitiesInv, EntityFetchesTyped, EntityCallsTyped, AgentTyped, EntitySpinner,
              SaveInv
<1>3. EntityModalsTyped'
  <2> USE DEF EntitiesInv, EntityModalsTyped
  <2>1. EmptyEntity \in [uid : Uids \cup {NoUid}, attrs : Bodies]
    BY DEF EmptyEntity, EmptyBody, Bodies
  <2>2. CASE OpenCreateEntity
    BY <2>1, <2>2 DEF OpenCreateEntity, EntityDialogs
  <2>3. CASE OpenEditEntity
    <3>1. PICK u \in Uids :
              /\ EntityInTable(u)
              /\ entityDialog' = [open |-> TRUE, editing |-> u,
                                  form |-> [uid |-> u, attrs |-> entityList[u]]]
      BY <2>3 DEF OpenEditEntity
    <3>2. entityList[u] \in Bodies
      BY <3>1 DEF EntityInTable, EntityFetchesTyped, Entities
    <3>3. entityDialog' \in EntityDialogs
      BY <3>1, <3>2 DEF EntityDialogs
    <3> QED
      BY <2>3, <3>3 DEF OpenEditEntity
  <2>4. CASE CloseEntityDialog
    BY <2>1, <2>4 DEF CloseEntityDialog, EntityDialogs
  <2>5. CASE LoadEntityOptions
    BY <2>5 DEF LoadEntityOptions, getSchema, EntityCallsTyped, AgentTyped, Contained
  <2>6. CASE OpenDeleteEntity
    BY <2>6, EntitiesPageAssumption DEF OpenDeleteEntity, EntityConfirms
  <2>7. CASE CloseDeleteEntity
    <3>1. entityConfirm' \in EntityConfirms /\ ~entityConfirm'.open
      BY <2>7 DEF CloseDeleteEntity, EntityConfirms
    <3> QED
      BY <2>7, <3>1 DEF CloseDeleteEntity
  <2> QED
    BY <2>2, <2>3, <2>4, <2>5, <2>6, <2>7
<1> QED
  BY <1>2, <1>3 DEF EntitiesInv

\* What is put in the form is an entity, whatever the schema declares.
LEMMA EntityFormSteps ==
    ASSUME EntitiesInv, EnterUid \/ AddAttribute \/ RemoveAttribute
    PROVE  EntitiesInv'
<1> USE DEF agentVars, entityFetching, LeaveEntityCalls
<1>1. \/ \E u \in Uids : EditEntity("uid", u)
      \/ \E body \in Bodies : EditEntity("attrs", body)
  <2>1. entityDialog.form.attrs \in Bodies /\ entityDialog.form.uid \in Uids \cup {NoUid}
    BY DEF EntitiesInv, EntityModalsTyped, EntityDialogs
  <2>2. CASE EnterUid
    BY <2>2 DEF EnterUid
  <2>3. CASE AddAttribute
    <3>1. PICK a \in Attrs, text \in Strings :
              /\ ParseValue(a, text) # Absent
              /\ EditEntity("attrs", [entityDialog.form.attrs EXCEPT ![a] = ParseValue(a, text)])
      BY <2>3 DEF AddAttribute
    <3>2. ParseValue(a, text) \in Values
      <4>1. CASE DeclaredFor(a) = Absent
        BY <3>1, <4>1, EntitiesPageAssumption DEF ParseValue
      <4>2. CASE DeclaredFor(a) # Absent
        <5>1. entityDialog.form.uid.type \in EntityTypes
          BY <2>1, <4>2 DEF DeclaredFor, Uids, NoUid
        <5>2. entityOptions.schema \in Schemas /\ HasShape(entityOptions.schema,
                                                           entityDialog.form.uid.type)
          BY <4>2 DEF DeclaredFor, EntitiesInv, EntityModalsTyped
        <5>3. entityOptions.schema[entityDialog.form.uid.type] \in Shapes
          BY <5>1, <5>2 DEF HasShape, Schemas
        <5>4. DeclaredFor(a) \in Decls
          BY <4>2, <5>3 DEF DeclaredFor, Shapes
        <5> QED
          BY <3>1, <4>2, <5>4, EntitiesPageAssumption DEF ParseValue, Decls
      <4> QED
        BY <4>1, <4>2
    <3> QED
      BY <2>1, <3>1, <3>2 DEF Bodies
  <2>4. CASE RemoveAttribute
    BY <2>1, <2>4 DEF RemoveAttribute, Bodies
  <2> QED
    BY <2>2, <2>3, <2>4
<1>2. /\ UNCHANGED <<agentVars, entityFetching, entitySave, entityDeletes, entityChanges,
                     entityOptions, entityConfirm>>
      /\ entityDialog' \in EntityDialogs
  <2>1. ASSUME NEW u \in Uids, EditEntity("uid", u)
        PROVE  <1>2
    BY <2>1 DEF EditEntity, EntitiesInv, EntityModalsTyped, EntityDialogs
  <2>2. ASSUME NEW body \in Bodies, EditEntity("attrs", body)
        PROVE  <1>2
    BY <2>2 DEF EditEntity, EntitiesInv, EntityModalsTyped, EntityDialogs
  <2> QED
    BY <1>1, <2>1, <2>2
<1> QED
  BY <1>2 DEF EntitiesInv, EntityFetchesTyped, EntityCallsTyped, AgentTyped, EntitySpinner,
              SaveInv, EntityModalsTyped

\* A fetch starts when a call is over.
LEMMA EntityFetchStarts ==
    ASSUME EntityFetchesTyped, StartEntityFetch
    PROVE  EntityFetchesTyped' /\ EntitySpinner'
<1>1. \A n : Asked(n).step # "read"
  BY DEF Asked
<1> QED
  BY <1>1 DEF StartEntityFetch, EntityFetchesTyped, EntitySpinner

\* The save: one call, or two, each of them sent, applied and over.
LEMMA EntitySaveSteps ==
    ASSUME EntitiesInv, SubmitEntity \/ EntitySaveCalls
    PROVE  EntitiesInv'
<1> USE DEF agentVars, entityFetching
<1>1. UNCHANGED <<entityOptions, entityConfirm, entityDeletes>>
  BY DEF SubmitEntity, EntitySaveCalls, AgentSavesEntity, EntityAdded, EntitySaved,
         EntityNotSaved
<1>2. ASSUME UNCHANGED <<entityFetching, entityDialog>>
      PROVE  EntityFetchesTyped' /\ EntityModalsTyped' /\ EntitySpinner'
  BY <1>1, <1>2 DEF EntitiesInv, EntityFetchesTyped, EntityModalsTyped, EntitySpinner
<1>3. ASSUME ~InStep(entitySave', "written"), UNCHANGED agentVars, entityChanges' \in Nat
      PROVE  EntityCallsTyped'
  <2>1. Exclusive(agentUndo, entitySave', entityDeletes)
    BY <1>3, CallsKeepLock DEF EntitiesInv, EntityCallsTyped
  <2> QED
    BY <1>1, <1>3, <2>1 DEF EntitiesInv, EntityCallsTyped, AgentTyped
<1>4. CASE SubmitEntity
  <2> DEFINE form == entityDialog.form
             new == entityDialog.editing = Absent
             r == IF new THEN addEntity(form.uid)
                  ELSE patchEntityAttributes(form.uid, StringAttributes(form.attrs))
             save == SaveOf(r, form, new)
  <2>1. /\ entitySave' = save /\ entityChanges' = entityChanges + 1
        /\ UNCHANGED <<agentVars, entityFetching, entityDialog>>
    BY <1>4 DEF SubmitEntity
  <2>2. form.uid \in Uids /\ form.attrs \in Bodies
    BY <1>4 DEF SubmitEntity, EntitiesInv, EntityModalsTyped, EntityDialogs
  <2>3. r \in DataRequests
    BY <2>2, TextsSent DEF addEntity, patchEntityAttributes, DataRequests
  <2>4. /\ save.req = r /\ save.uid = form.uid /\ save.attrs = form.attrs
        /\ save.new = new /\ save.step = "sent"
    BY DEF SaveOf
  <2>5. save \in EntitySaves
    <3>1. new \in BOOLEAN
      OBVIOUS
    <3> HIDE DEF r, new
    <3> QED
      BY <2>2, <2>3, <3>1 DEF SaveOf, EntitySaves, CallSteps
  <2>6. IsAdd(save) \/ IsPatch(save)
    <3>1. CASE new
      BY <2>4, <3>1 DEF IsAdd
    <3>2. CASE ~new
      BY <2>4, <3>2 DEF IsPatch
    <3> QED
      BY <3>1, <3>2
  <2>7. save.new => ~IsPatch(save)
    BY <2>4, <2>5, AddsOrPatches DEF IsAdd
  <2> HIDE DEF save
  <2>8. SaveGoesOn(save, agent)
    BY <2>4, <2>5, <2>6, <2>7 DEF SaveGoesOn, SavedSoFar, MaybeApplied, InStep
  <2>9. entityChanges' \in Nat /\ ~InStep(entitySave', "written")
    BY <2>1, <2>4 DEF EntitiesInv, EntityCallsTyped, InStep
  <2> QED
    BY <1>2, <1>3, <2>1, <2>8, <2>9 DEF EntitiesInv, SaveInv
<1>5. CASE AgentSavesEntity
  <2>1. PICK over \in Outcomes(entitySave) : AgentStep(entitySave, over) /\ entitySave' = over
    BY <1>5 DEF AgentSavesEntity
  <2>2. UNCHANGED <<entityFetching, entityDialog, entityChanges>>
    BY <1>5 DEF AgentSavesEntity
  <2>3. SaveGoesOn(entitySave, agent)
    BY <2>1, CallGoes DEF EntitiesInv, SaveInv
  <2>4. SaveGoesOn(over, agent')
    BY <2>1, <2>3, SaveGoes DEF EntitiesInv, EntityCallsTyped
  <2>5. entitySave.req \in DataRequests
    BY <2>3 DEF SaveGoesOn, EntitySaves
  <2>6. AgentTyped'
    BY <2>1, <2>5, AgentKeepsTypes DEF EntitiesInv, EntityCallsTyped, Exclusive
  <2>7. Exclusive(agentUndo', over, entityDeletes)
    BY <2>1, SaveKeepsLock DEF EntitiesInv, EntityCallsTyped
  <2>8. EntityCallsTyped' /\ SaveInv'
    BY <1>1, <2>1, <2>2, <2>4, <2>6, <2>7 DEF EntitiesInv, EntityCallsTyped, SaveInv
  <2> QED
    BY <1>2, <2>2, <2>8 DEF EntitiesInv
<1>6. CASE EntityAdded
  <2> DEFINE r == patchEntityAttributes(entitySave.uid, StringAttributes(entitySave.attrs))
  <2>1. /\ entitySave' = [entitySave EXCEPT !.req = r, !.step = "sent"]
        /\ Succeeded(entitySave)
        /\ UNCHANGED <<agentVars, entityFetching, entityDialog, entityChanges>>
    BY <1>6 DEF EntityAdded
  <2>2. SaveGoesOn(entitySave, agent) /\ entitySave \in EntitySaves
    BY <2>1 DEF EntitiesInv, SaveInv, Succeeded, InStep, SaveGoesOn
  <2>3. r \in DataRequests
    BY <2>2, TextsSent DEF EntitySaves, patchEntityAttributes, DataRequests
  <2> HIDE DEF r
  <2>4. /\ entitySave' \in EntitySaves
        /\ entitySave'.req = r /\ entitySave'.step = "sent"
        /\ entitySave'.uid = entitySave.uid /\ entitySave'.attrs = entitySave.attrs
        /\ entitySave'.new = entitySave.new /\ entitySave'.alone = entitySave.alone
    BY <2>1, <2>2, <2>3 DEF EntitySaves, CallSteps
  <2>5. SaveGoesOn(entitySave', agent)
    <3>1. IsPatch(entitySave')
      BY <2>4 DEF IsPatch, r
    <3>2. SavedSoFar(entitySave, agent) => SavedSoFar(entitySave', agent)
      BY <2>1, <2>4 DEF SavedSoFar, MaybeApplied, Succeeded, InStep
    <3> QED
      BY <2>2, <2>4, <3>1, <3>2 DEF SaveGoesOn
  <2>6. EntityCallsTyped'
    BY <1>3, <2>1, <2>4 DEF EntitiesInv, EntityCallsTyped, InStep
  <2> QED
    BY <1>2, <2>1, <2>5, <2>6 DEF EntitiesInv, SaveInv
<1>7. CASE EntitySaved
  <2>1. /\ entitySave' = Absent /\ StartEntityFetch
        /\ entityDialog' = [entityDialog EXCEPT !.open = FALSE, !.form = EmptyEntity]
        /\ UNCHANGED <<agentVars, entityChanges>>
    BY <1>7 DEF EntitySaved
  <2>2. EntityFetchesTyped' /\ EntitySpinner'
    BY <2>1, EntityFetchStarts DEF EntitiesInv
  <2>3. EmptyEntity \in [uid : Uids \cup {NoUid}, attrs : Bodies]
    BY DEF EmptyEntity, EmptyBody, Bodies
  <2>4. EntityModalsTyped'
    BY <1>1, <2>1, <2>3 DEF EntitiesInv, EntityModalsTyped, EntityDialogs
  <2>5. EntityCallsTyped' /\ SaveInv'
    BY <1>3, <2>1 DEF EntitiesInv, EntityCallsTyped, InStep, SaveInv
  <2> QED
    BY <2>2, <2>4, <2>5 DEF EntitiesInv
<1>8. CASE EntityNotSaved
  <2>1. /\ entitySave' = Absent
        /\ UNCHANGED <<agentVars, entityFetching, entityDialog, entityChanges>>
    BY <1>8 DEF EntityNotSaved
  <2>2. EntityCallsTyped' /\ SaveInv'
    BY <1>3, <2>1 DEF EntitiesInv, EntityCallsTyped, InStep, SaveInv
  <2> QED
    BY <1>2, <2>1, <2>2 DEF EntitiesInv
<1> QED
  BY <1>4, <1>5, <1>6, <1>7, <1>8 DEF EntitySaveCalls

\* A save that is disturbed promises nothing any more.
LEMMA DisturbedSave ==
    ASSUME SaveInv, Disturb
    PROVE  /\ SaveInv'
           /\ (InStep(entitySave', "written") => InStep(entitySave, "written"))
           /\ entitySave # Absent => /\ entitySave' # Absent
                                     /\ entitySave'.step = entitySave.step
<1>1. CASE entitySave = Absent
  BY <1>1 DEF Disturb, SaveInv
<1>2. CASE entitySave # Absent
  <2>1. entitySave \in EntitySaves /\ (IsAdd(entitySave) \/ IsPatch(entitySave))
    BY <1>2 DEF SaveInv, SaveGoesOn
  <2>2. entitySave' = [entitySave EXCEPT !.alone = FALSE]
    BY <1>2 DEF Disturb
  <2>3. /\ entitySave' \in EntitySaves /\ ~entitySave'.alone
        /\ entitySave'.req = entitySave.req /\ entitySave'.step = entitySave.step
        /\ entitySave'.uid = entitySave.uid /\ entitySave'.attrs = entitySave.attrs
        /\ entitySave'.new = entitySave.new
    BY <2>1, <2>2 DEF EntitySaves
  <2>4. SaveInv'
    BY <2>1, <2>3 DEF SaveInv, SaveGoesOn, IsAdd, IsPatch
  <2>5. entitySave' # Absent
    BY <2>3, EntitiesPageAssumption
  <2> QED
    BY <1>2, <2>3, <2>4, <2>5 DEF InStep
<1> QED
  BY <1>1, <1>2

\* A deletion: its end closes the confirmation, and forgets its entity.
LEMMA EntityDeleteSteps ==
    ASSUME EntitiesInv, ConfirmDeleteEntity \/ EntityDeleteCalls
    PROVE  EntitiesInv'
<1> USE DEF agentVars, entityFetching
<1>1. UNCHANGED <<entityDialog, entityOptions>>
  BY DEF ConfirmDeleteEntity, EntityDeleteCalls, AgentDeletesEntity, EntityDeleted,
         EntityNotDeleted
<1>2. CASE ConfirmDeleteEntity
  <2> DEFINE call == NumberedCall(deleteSingleEntity(entityConfirm.id), entityChanges)
  <2>1. /\ entityDeletes' = entityDeletes \cup {call}
        /\ entityChanges' = entityChanges + 1
        /\ entityConfirm' = [entityConfirm EXCEPT !.open = FALSE]
        /\ UNCHANGED <<agentVars, entityFetching, entitySave>>
    BY <1>2 DEF ConfirmDeleteEntity
  <2>2. entityConfirm.id \in Uids
    BY <1>2 DEF ConfirmDeleteEntity, EntitiesInv, EntityModalsTyped, EntityConfirms
  <2>3. deleteSingleEntity(entityConfirm.id) \in DataRequests
    BY <2>2 DEF deleteSingleEntity, DataRequests, PathIds, Uids
  <2>4. call \in EntityDeleteRecords /\ call.step = "sent"
    BY <2>3 DEF NumberedCall, EntityDeleteRecords, CallSteps, EntitiesInv, EntityCallsTyped
  <2> HIDE DEF call
  <2>5. Exclusive(agentUndo, entitySave, entityDeletes \cup {call})
    BY <2>4, CallsKeepLock DEF EntitiesInv, EntityCallsTyped, InStep
  <2>6. EntityCallsTyped'
    BY <2>1, <2>4, <2>5 DEF EntitiesInv, EntityCallsTyped, AgentTyped
  <2>7. entityConfirm' \in EntityConfirms /\ ~entityConfirm'.open
    BY <2>1 DEF EntitiesInv, EntityModalsTyped, EntityConfirms
  <2> QED
    BY <1>1, <2>1, <2>6, <2>7
       DEF EntitiesInv, EntityFetchesTyped, EntityModalsTyped, EntitySpinner, SaveInv
<1>3. CASE AgentDeletesEntity
  <2>0. PICK d \in entityDeletes : \E over \in Outcomes(d) :
            AgentStep(d, over) /\ entityDeletes' = (entityDeletes \ {d}) \cup {over}
    BY <1>3 DEF AgentDeletesEntity
  <2>1. PICK over \in Outcomes(d) :
            AgentStep(d, over) /\ entityDeletes' = (entityDeletes \ {d}) \cup {over}
    BY <2>0
  <2>2. Disturb /\ UNCHANGED <<entityFetching, entityConfirm, entityChanges>>
    BY <1>3 DEF AgentDeletesEntity
  <2>3. d.req \in DataRequests /\ over \in EntityDeleteRecords
    BY <2>1, CallGoes DEF EntitiesInv, EntityCallsTyped, EntityDeleteRecords
  <2>4. AgentTyped'
    BY <2>1, <2>3, AgentKeepsTypes DEF EntitiesInv, EntityCallsTyped, Exclusive
  <2>5. Exclusive(agentUndo', entitySave, (entityDeletes \ {d}) \cup {over})
    BY <2>1, CallKeepsLock DEF EntitiesInv, EntityCallsTyped
  <2>6. SaveInv' /\ (InStep(entitySave', "written") => InStep(entitySave, "written"))
    BY <2>2, DisturbedSave DEF EntitiesInv
  <2>7. EntityCallsTyped'
    BY <2>1, <2>2, <2>3, <2>4, <2>5, <2>6 DEF EntitiesInv, EntityCallsTyped, Exclusive
  <2> QED
    BY <1>1, <2>2, <2>6, <2>7
       DEF EntitiesInv, EntityFetchesTyped, EntityModalsTyped, EntitySpinner
<1>4. ASSUME EntityDeleted \/ EntityNotDeleted
      PROVE  EntityModalsTyped' /\ EntityCallsTyped' /\ SaveInv'
  <2>1. /\ \E d \in entityDeletes : entityDeletes' = entityDeletes \ {d}
        /\ entityConfirm' = [open |-> FALSE, id |-> Absent]
        /\ UNCHANGED <<agentVars, entitySave, entityChanges>>
    BY <1>4 DEF EntityDeleted, EntityNotDeleted
  <2>2. Exclusive(agentUndo, entitySave, entityDeletes')
    BY <2>1, CallsKeepLock DEF EntitiesInv, EntityCallsTyped
  <2> QED
    BY <1>1, <2>1, <2>2
       DEF EntitiesInv, EntityModalsTyped, EntityConfirms, EntityCallsTyped, AgentTyped, SaveInv
<1>5. CASE EntityDeleted
  BY <1>4, <1>5, EntityFetchStarts DEF EntityDeleted, EntitiesInv
<1>6. CASE EntityNotDeleted
  BY <1>4, <1>6 DEF EntityNotDeleted, EntitiesInv, EntityFetchesTyped, EntitySpinner
<1> QED
  BY <1>2, <1>3, <1>5, <1>6 DEF EntityDeleteCalls

\* Another client changes an entity, or the agent takes that back.
LEMMA OthersEntitySteps ==
    ASSUME EntitiesInv, OthersChangeEntities \/ OthersEndEntities
    PROVE  EntitiesInv'
<1> USE DEF entityFetching
<1>1. Disturb /\ UNCHANGED <<entityFetching, entityDialog, entityOptions, entityConfirm,
                             entityDeletes>>
  BY DEF OthersChangeEntities, OthersEndEntities
<1>2. SaveInv' /\ (InStep(entitySave', "written") => InStep(entitySave, "written"))
  BY <1>1, DisturbedSave DEF EntitiesInv
<1>3. AgentTyped' /\ entityChanges' \in Nat
  <2> USE DEF EntitiesInv, EntityCallsTyped, AgentTyped
  <2>1. CASE OthersChangeEntities
    <3>1. PICK u \in Uids, body \in {Absent, EmptyBody} :
              OthersWrite([agent EXCEPT !.entities[u] = body])
      BY <2>1 DEF OthersChangeEntities
    <3>2. [agent EXCEPT !.entities[u] = body] \in Contained
      BY DEF Contained, Entities, Bodies, EmptyBody
    <3> QED
      BY <2>1, <3>1, <3>2 DEF OthersChangeEntities, OthersWrite
  <2>2. CASE OthersEndEntities
    BY <2>2 DEF OthersEndEntities, OthersCommit, OthersRollBack
  <2> QED
    BY <2>1, <2>2
<1>4. EntityCallsTyped'
  BY <1>1, <1>2, <1>3
     DEF OthersChangeEntities, OthersEndEntities, OthersWrite, EntitiesInv, EntityCallsTyped,
         Exclusive
<1> QED
  BY <1>1, <1>2, <1>4 DEF EntitiesInv, EntityFetchesTyped, EntityModalsTyped, EntitySpinner

LEMMA EntitiesStep ==
    ASSUME EntitiesInv, [EntitiesNext]_entitiesVars
    PROVE  EntitiesInv'
<1>1. CASE UNCHANGED entitiesVars
  BY <1>1 DEF entitiesVars, agentVars, EntitiesInv, EntityFetchesTyped, EntityModalsTyped,
              EntityCallsTyped, AgentTyped, EntitySpinner, SaveInv
<1>2. CASE EntitiesNext
  BY <1>2, EntityFetchSteps, EntityModalSteps, EntityFormSteps, EntitySaveSteps,
     EntityDeleteSteps, OthersEntitySteps DEF EntitiesNext
<1> QED
  BY <1>1, <1>2

LEMMA EntitiesInvariance == EntitiesSpec => []EntitiesInv
BY EntitiesStart, EntitiesStep, PTL DEF EntitiesSpec

-----------------------------------------------------------------------------
(* What a save has done once it is reported. *)

\* The steps that change the save.
LEMMA SaveTouched ==
    ASSUME [EntitiesNext]_entitiesVars
    PROVE  \/ UNCHANGED entitySave \/ Disturb \/ AgentSavesEntity \/ EntityAdded
           \/ EntitySaved \/ EntityNotSaved \/ SubmitEntity
BY DEF entitiesVars, EntitiesNext, EntityFetchCalls, AgentReadsEntities, EntitiesArrive,
       EntitiesFail, EntitySaveCalls, EntityDeleteCalls, AgentDeletesEntity, EntityDeleted,
       EntityNotDeleted, OpenCreateEntity, OpenEditEntity, CloseEntityDialog,
       LoadEntityOptions, OpenDeleteEntity, CloseDeleteEntity, EnterUid, AddAttribute,
       RemoveAttribute, EditEntity, LeaveEntityCalls, ConfirmDeleteEntity,
       OthersChangeEntities, OthersEndEntities

\* A save becomes null only when it has ended and has no more to send.
LEMMA SaveEnds ==
    ASSUME EntitiesInv, [EntitiesNext]_entitiesVars, SaveReported
    PROVE  /\ SaveGoesOn(entitySave, agent) /\ SavedSoFar(entitySave, agent)
           /\ ~MoreToSave(entitySave)
<1>1. entitySave # Absent /\ Succeeded(entitySave) /\ entitySave.alone /\ entitySave' = Absent
  BY DEF SaveReported, Succeeded, InStep
<1>2. SaveGoesOn(entitySave, agent) /\ SavedSoFar(entitySave, agent)
  BY <1>1 DEF EntitiesInv, SaveInv, SaveGoesOn
<1>3. SUFFICES ASSUME MoreToSave(entitySave)
               PROVE  entitySave' # Absent
  BY <1>1, <1>2
<1>4. CASE UNCHANGED entitySave
  BY <1>1, <1>4
<1>5. CASE Disturb
  BY <1>1, <1>5, DisturbedSave DEF EntitiesInv
<1>6. CASE AgentSavesEntity
  BY <1>6, CallGoes DEF AgentSavesEntity
<1>7. CASE EntityAdded
  <2>1. entitySave' = [entitySave EXCEPT
            !.req = patchEntityAttributes(entitySave.uid, StringAttributes(entitySave.attrs)),
            !.step = "sent"]
    BY <1>7 DEF EntityAdded
  <2>2. entitySave.uid \in Uids /\ entitySave.attrs \in Bodies /\ entitySave \in EntitySaves
    BY <1>2 DEF SaveGoesOn, EntitySaves
  <2>3. patchEntityAttributes(entitySave.uid, StringAttributes(entitySave.attrs))
            \in DataRequests
    BY <2>2, TextsSent DEF patchEntityAttributes, DataRequests
  <2>4. entitySave' \in EntitySaves
    BY <2>1, <2>2, <2>3 DEF EntitySaves, CallSteps
  <2> QED
    BY <2>4, EntitiesPageAssumption
<1>8. CASE EntitySaved \/ EntityNotSaved
  BY <1>1, <1>3, <1>8 DEF EntitySaved, EntityNotSaved, Failed, Succeeded, InStep
<1>9. CASE SubmitEntity
  BY <1>1, <1>9 DEF SubmitEntity
<1>10. \/ UNCHANGED entitySave \/ Disturb \/ AgentSavesEntity \/ EntityAdded
       \/ EntitySaved \/ EntityNotSaved \/ SubmitEntity
  BY SaveTouched
<1> QED
  BY <1>4, <1>5, <1>6, <1>7, <1>8, <1>9, <1>10

\* With nothing more to send there are no attributes, or they have been sent.
LEMMA SentAll ==
    ASSUME NEW save, SaveGoesOn(save, agent), ~MoreToSave(save),
           NEW a \in Attrs, save.attrs[a] # Absent
    PROVE  IsPatch(save)
<1>1. save \in EntitySaves
  BY DEF SaveGoesOn
<1>2. CASE IsAdd(save)
  <2>1. save.attrs = EmptyBody
    BY <1>1, <1>2, AddsOrPatches DEF MoreToSave, addEntity
  <2> QED
    BY <2>1 DEF EmptyBody
<1> QED
  BY <1>2 DEF SaveGoesOn

LEMMA ReportsAreTrue ==
    ASSUME EntitiesInv, [EntitiesNext]_entitiesVars
    PROVE  ReportedIsStored /\ CreatedNeedsNothing /\ ReportedAreStrings
<1> SUFFICES ASSUME SaveReported
             PROVE  /\ agent.entities[entitySave.uid] # Absent
                    /\ \A a \in Attrs : entitySave.attrs[a] # Absent =>
                           /\ agent.entities[entitySave.uid][a] = AsText[entitySave.attrs[a]]
                           /\ DeclaredKind(a) = StringKind
                    /\ entitySave.new => ~Requires(agent.schema, entitySave.uid.type)
  BY DEF ReportedIsStored, CreatedNeedsNothing, ReportedAreStrings
<1>1. /\ SaveGoesOn(entitySave, agent) /\ SavedSoFar(entitySave, agent)
      /\ ~MoreToSave(entitySave)
  BY SaveEnds
<1>2. MaybeApplied(entitySave)
  BY DEF SaveReported, Succeeded, MaybeApplied
<1>3. \A a \in Attrs : entitySave.attrs[a] # Absent => IsPatch(entitySave)
  BY <1>1, SentAll
<1> QED
  BY <1>1, <1>2, <1>3 DEF SavedSoFar, DeclaredKind

LEMMA SavesKeep ==
    ASSUME EntitiesInv, [EntitiesNext]_entitiesVars
    PROVE  SaveKeepsAttributes
<1> SUFFICES ASSUME Pending(entitySave), InStep(entitySave', "written")
             PROVE  \A u \in Uids, a \in Attrs :
                        agent.entities[u] # Absent /\ agent.entities[u][a] # Absent =>
                            agent'.entities[u] # Absent /\ agent'.entities[u][a] # Absent
  BY DEF SaveKeepsAttributes
<1>1. SaveGoesOn(entitySave, agent) /\ entitySave # Absent /\ entitySave.step = "sent"
  BY DEF EntitiesInv, SaveInv, Pending, InStep
<1>2. CASE AgentSavesEntity
  <2>1. PICK over \in Outcomes(entitySave) : AgentStep(entitySave, over) /\ entitySave' = over
    BY <1>2 DEF AgentSavesEntity
  <2>2. Accepted(entitySave.req, agent) /\ agent' = Result(entitySave.req, agent)
    BY <2>1 DEF AgentStep, Refuses, Writes, Commits, RollsBack, Pending, Failed, InStep
  <2>3. CASE IsAdd(entitySave)
    BY <1>1, <2>2, <2>3, AddApplied DEF SaveGoesOn, EntitiesInv, EntityCallsTyped, AgentTyped
  <2>4. CASE IsPatch(entitySave)
    <3>1. entitySave.new /\ entitySave.alone => ~Requires(agent.schema, entitySave.uid.type)
      BY <1>1, <2>4 DEF SaveGoesOn, SavedSoFar, Failed, InStep
    <3> QED
      BY <1>1, <2>2, <2>4, <3>1, PatchApplied
         DEF SaveGoesOn, EntitiesInv, EntityCallsTyped, AgentTyped
  <2> QED
    BY <1>1, <2>3, <2>4 DEF SaveGoesOn
<1>3. CASE UNCHANGED entitySave
  BY <1>1, <1>3 DEF InStep
<1>4. CASE Disturb
  BY <1>1, <1>4, DisturbedSave DEF EntitiesInv, InStep
<1>5. CASE EntityAdded \/ EntitySaved \/ EntityNotSaved \/ SubmitEntity
  BY <1>1, <1>5 DEF EntityAdded, EntitySaved, EntityNotSaved, SubmitEntity, Succeeded, Failed,
                    InStep
<1>6. \/ UNCHANGED entitySave \/ Disturb \/ AgentSavesEntity \/ EntityAdded
      \/ EntitySaved \/ EntityNotSaved \/ SubmitEntity
  BY SaveTouched
<1> QED
  BY <1>2, <1>3, <1>4, <1>5, <1>6

-----------------------------------------------------------------------------
(* The settings: SavedMeansUsed is inductive as it stands. *)

\* A field that is filled in and was saved, or loaded, is the one in use.
LEMMA SavedStep ==
    ASSUME SavedMeansUsed, [SettingsNext]_settingsVars
    PROVE  SavedMeansUsed'
<1> USE DEF SavedMeansUsed, API_CONFIG
<1>1. CASE ShowSettings
  BY <1>1 DEF ShowSettings, ShowConfig
<1>2. CASE ReloadPage
  BY <1>2 DEF ReloadPage, ShowConfig
<1>3. CASE handleChange
  BY <1>3 DEF handleChange
<1>4. CASE handleSave
  <2>1. ASSUME NEW f \in ConfigFields, apiConfig'[f] # NoSetting
        PROVE  API_CONFIG'[f] = apiConfig'[f]
    BY <1>4, <2>1 DEF handleSave, getConfig, OrElse
  <2> QED
    BY <1>4, <2>1 DEF handleSave
<1>5. CASE ResetSettings
  BY <1>5 DEF ResetSettings, ShowConfig
<1>6. CASE OtherTabSaves
  BY <1>6 DEF OtherTabSaves
<1>7. CASE Redeploy
  BY <1>7 DEF Redeploy
<1>8. CASE UNCHANGED settingsVars
  BY <1>8 DEF settingsVars
<1> QED
  BY <1>1, <1>2, <1>3, <1>4, <1>5, <1>6, <1>7, <1>8 DEF SettingsNext

LEMMA SettingsStart == SettingsInit => SavedMeansUsed
<1> SUFFICES ASSUME SettingsInit, NEW f \in ConfigFields, FirstEnvironment[f] # NoSetting
             PROVE  API_CONFIG[f] = FirstEnvironment[f]
  BY DEF SettingsInit, SavedMeansUsed
<1> QED
  BY DEF SettingsInit, API_CONFIG, getConfig, OrElse

\* While the page says that its settings are saved and no other tab has saved since,
\* every field that is filled in is the one the next request uses.
THEOREM SettingsSaved == SettingsSpec => []SavedMeansUsed
BY SettingsStart, SavedStep, PTL DEF SettingsSpec

-----------------------------------------------------------------------------
(* The dashboard: the page that is open has its invariant, and the others  *)
(* are as they were before they were opened.                               *)

SchemalessStores ==
    /\ agent.schema = EmptySchema
    /\ agentUndo # Absent => agentUndo.schema = EmptySchema

\* Policy and data requests leave the schema alone.
LEMMA StaysSchemaless ==
    ASSUME SchemalessStores, AgentTyped, NEW call, NEW over, AgentStep(call, over),
           call.req \in PolicyRequests \cup DataRequests,
           InStep(call, "written") => agentUndo # Absent
    PROVE  SchemalessStores'
<1> USE DEF SchemalessStores
<1>1. CASE Refuses(call, over)
  BY <1>1 DEF Refuses, agentVars
<1>2. CASE Writes(call, over)
  <2>1. call.req.op \in PolicyOps \/ call.req.op \in DataOps
    BY DEF PolicyRequests, DataRequests, PolicyOps, DataOps
  <2>2. agent' = Result(call.req, agent) /\ agentUndo' = agent
    BY <1>2 DEF Writes
  <2>3. Result(call.req, agent).schema = agent.schema
    BY <2>1 DEF Result, AgentTyped, Contained
  <2> QED
    BY <2>2, <2>3
<1>3. CASE Commits(call, over)
  BY <1>3 DEF Commits
<1>4. CASE RollsBack(call, over)
  BY <1>4 DEF RollsBack
<1> QED
  BY <1>1, <1>2, <1>3, <1>4 DEF AgentStep

LEMMA PoliciesSchemaless ==
    ASSUME PageInv, [PoliciesNext]_policiesVars, SchemalessStores
    PROVE  SchemalessStores'
<1> USE DEF agentVars
<1>0. AgentTyped
  BY DEF PageInv, TypeInv, AgentTyped
<1>1. CASE AgentSavesPolicy
  <2>1. PICK over \in Outcomes(policySave) : AgentStep(policySave, over)
    BY <1>1 DEF AgentSavesPolicy
  <2>2. policySave.req \in PolicyRequests
    BY <2>1, CallGoes DEF PageInv, TypeInv, SaveCalls, SaveReqs, PolicyRequests
  <2> QED
    BY <1>0, <2>1, <2>2, StaysSchemaless DEF PageInv, LockInv
<1>2. CASE AgentDeletesPolicy
  <2>1. PICK d \in policyDeletes : \E over \in Outcomes(d) : AgentStep(d, over)
    BY <1>2 DEF AgentDeletesPolicy
  <2>2. PICK over \in Outcomes(d) : AgentStep(d, over)
    BY <2>1
  <2>3. d.req \in PolicyRequests
    BY DEF PageInv, TypeInv, DeleteCallRecords, DeleteReqs, PolicyRequests
  <2> QED
    BY <1>0, <2>2, <2>3, StaysSchemaless DEF PageInv, LockInv
<1>3. CASE OthersChangePolicies \/ OthersEnd
  BY <1>0, <1>3 DEF OthersChangePolicies, OthersEnd, OthersWrite, OthersCommit, OthersRollBack,
              SchemalessStores, AgentTyped, Contained
<1>4. CASE UNCHANGED agentVars
  BY <1>4 DEF SchemalessStores
<1>5. \/ AgentSavesPolicy \/ AgentDeletesPolicy \/ OthersChangePolicies \/ OthersEnd
      \/ UNCHANGED agentVars
  BY DEF policiesVars, PoliciesNext, PoliciesUser, FetchCalls, AgentReadsPolicies,
         PoliciesArrive, PoliciesFail, SaveCall, PolicySaved, PolicyNotSaved, DeleteCalls,
         PolicyDeleted, PolicyNotDeleted, OpenCreatePolicy, OpenEditPolicy, ClosePolicyDialog,
         OpenDeletePolicy, CloseDeletePolicy, LeavePolicyCalls, SubmitPolicy,
         ConfirmDeletePolicy
<1> QED
  BY <1>1, <1>2, <1>3, <1>4, <1>5

LEMMA EntitiesSchemaless ==
    ASSUME EntitiesInv, [EntitiesNext]_entitiesVars, SchemalessStores
    PROVE  SchemalessStores'
<1> USE DEF agentVars
<1>0. AgentTyped
  BY DEF EntitiesInv, EntityCallsTyped
<1>1. CASE AgentSavesEntity
  <2>1. PICK over \in Outcomes(entitySave) : AgentStep(entitySave, over)
    BY <1>1 DEF AgentSavesEntity
  <2>2. entitySave.req \in DataRequests
    BY <2>1, CallGoes DEF EntitiesInv, SaveInv, SaveGoesOn, EntitySaves
  <2> QED
    BY <1>0, <2>1, <2>2, StaysSchemaless DEF EntitiesInv, EntityCallsTyped, Exclusive
<1>2. CASE AgentDeletesEntity
  <2>1. PICK d \in entityDeletes : \E over \in Outcomes(d) : AgentStep(d, over)
    BY <1>2 DEF AgentDeletesEntity
  <2>2. PICK over \in Outcomes(d) : AgentStep(d, over)
    BY <2>1
  <2>3. d.req \in DataRequests
    BY DEF EntitiesInv, EntityCallsTyped, EntityDeleteRecords
  <2> QED
    BY <1>0, <2>2, <2>3, StaysSchemaless DEF EntitiesInv, EntityCallsTyped, Exclusive
<1>3. CASE OthersChangeEntities \/ OthersEndEntities
  BY <1>0, <1>3 DEF OthersChangeEntities, OthersEndEntities, OthersWrite, OthersCommit,
                    OthersRollBack, SchemalessStores, AgentTyped, Contained
<1>4. CASE UNCHANGED agentVars
  BY <1>4 DEF SchemalessStores
<1>5. \/ AgentSavesEntity \/ AgentDeletesEntity \/ OthersChangeEntities \/ OthersEndEntities
      \/ UNCHANGED agentVars
  BY DEF entitiesVars, EntitiesNext, EntityFetchCalls, AgentReadsEntities, EntitiesArrive,
         EntitiesFail, EntitySaveCalls, EntityAdded, EntitySaved, EntityNotSaved,
         EntityDeleteCalls, EntityDeleted, EntityNotDeleted, OpenCreateEntity, OpenEditEntity,
         CloseEntityDialog, LoadEntityOptions, OpenDeleteEntity, CloseDeleteEntity, EnterUid,
         AddAttribute, RemoveAttribute, EditEntity, LeaveEntityCalls, SubmitEntity,
         ConfirmDeleteEntity
<1> QED
  BY <1>1, <1>2, <1>3, <1>4, <1>5

LEMMA AuthSchemaless ==
    ASSUME AuthInv, [AuthNext]_authVars, SchemalessStores
    PROVE  SchemalessStores'
<1> USE DEF agentVars
<1>1. CASE OthersChangeStores
  BY <1>1 DEF OthersChangeStores, OthersWrite, OthersCommit, OthersRollBack, SchemalessStores,
              AuthInv, AuthTypeOK, Contained
<1>2. CASE UNCHANGED agentVars
  BY <1>2 DEF SchemalessStores
<1>3. OthersChangeStores \/ UNCHANGED agentVars
  BY DEF authVars, AuthNext, CheckCalls, EnterAsk, EnterContext, LoadExample, LeaveChecks,
         StartCheck, RejectContext, AgentReadsForCheck, AgentDecides, ResultArrives,
         CheckFails, LeaveForm
<1> QED
  BY <1>1, <1>2, <1>3

\* The overview changes nothing; others take a schema away, or change a policy.
LEMMA OverviewAgent ==
    ASSUME AgentTyped, [OverviewNext]_overviewVars
    PROVE  AgentTyped' /\ (SchemalessStores => SchemalessStores')
<1> USE DEF AgentTyped, SchemalessStores, agentVars
<1>1. CASE OthersChangeAgent
  <2>1. ASSUME NEW p \in PolicyIds, NEW text \in Contents \cup {Absent},
               OthersWrite([agent EXCEPT !.policies[p] = text])
        PROVE  AgentTyped' /\ (SchemalessStores => SchemalessStores')
    BY <2>1 DEF OthersWrite, Contained, Policies
  <2>2. CASE OthersWrite([agent EXCEPT !.schema = EmptySchema])
    BY <2>2 DEF OthersWrite, Contained, Schemas
  <2>3. CASE OthersCommit \/ OthersRollBack
    BY <2>3 DEF OthersCommit, OthersRollBack
  <2> QED
    BY <1>1, <2>1, <2>2, <2>3 DEF OthersChangeAgent
<1>2. CASE UNCHANGED agentVars
  BY <1>2
<1>3. OthersChangeAgent \/ UNCHANGED agentVars
  BY DEF overviewVars, OverviewNext, ReadEnds, StatsArrive
<1> QED
  BY <1>1, <1>2, <1>3

\* A page that is not open is as it was, but for what the agent had before.
SchemaIdle ==
    /\ schemaLoading /\ schemaFetches = {Asked(0)}
    /\ attrSave = Absent /\ ~attrConfirm.open

AgentInv == AgentTyped /\ (~schemaHad => SchemalessStores)

DashboardInv ==
    /\ AgentInv
    /\ IF page = "policies"      THEN PageInv     ELSE PoliciesInit
    /\ IF page = "entities"      THEN EntitiesInv ELSE EntitiesInit
    /\ IF page = "schema"        THEN SchemaInv   ELSE SchemaIdle
    /\ IF page = "authorization" THEN AuthInv     ELSE AuthInit
    /\ IF page = "overview"      THEN OverviewInv ELSE OverviewInit
    /\ SavedMeansUsed

LEMMA DashboardStarts == DashboardInit => DashboardInv
<1> SUFFICES ASSUME DashboardInit
             PROVE  DashboardInv
  OBVIOUS
<1>1. AgentInit
  BY DashboardAssumption DEF DashboardInit, AgentInit
<1>2. /\ PoliciesInit /\ EntitiesInit /\ SchemaInit /\ AuthInit /\ OverviewInit
      /\ SettingsInit
  BY DEF DashboardInit
<1>3. PageInv /\ EntitiesInv /\ SchemaInv /\ AuthInv /\ OverviewInv /\ SavedMeansUsed
  BY <1>1, <1>2, PageStarts, EntitiesStart, SchemaStarts, AuthStarts, OverviewStarts,
     SettingsStart
<1>4. SchemaIdle
  BY <1>2 DEF SchemaInit, SchemaIdle
<1>5. AgentInv
  BY <1>3 DEF SchemaInv, SchemaCallsTyped, SchemalessAgent, AgentInv, SchemalessStores
<1> QED
  BY <1>2, <1>3, <1>4, <1>5 DEF DashboardInv

LEMMA DashboardStep ==
    ASSUME DashboardInv, [DashboardNext]_dashboardVars
    PROVE  DashboardInv'
<1> USE DEF dashboardVars, policiesPageVars, entitiesPageVars, schemaPageVars, authPageVars,
            overviewPageVars
<1>1. UNCHANGED policiesPageVars => (PoliciesInit => PoliciesInit')
  BY DEF PoliciesInit, policyFetching, policyWriting, policyModals
<1>2. UNCHANGED entitiesPageVars => (EntitiesInit => EntitiesInit')
  BY DEF EntitiesInit, entityFetching
<1>3. UNCHANGED schemaPageVars => UNCHANGED schemaHad /\ (SchemaIdle => SchemaIdle')
  BY DEF SchemaIdle, schemaView, schemaEditor, schemaWriting, schemaModals
<1>4. UNCHANGED authPageVars => (AuthInit => AuthInit')
  BY DEF AuthInit, authForm
<1>5. UNCHANGED overviewPageVars => (OverviewInit => OverviewInit')
  BY DEF OverviewInit
<1>6. UNCHANGED settingsVars => (SavedMeansUsed => SavedMeansUsed')
  BY SavedStep
<1>7. CASE OnPoliciesPage(PoliciesNext)
  <2>1. /\ page = "policies" /\ UNCHANGED <<page, entitiesPageVars, schemaPageVars, authPageVars,
                                            overviewPageVars, settingsVars>>
        /\ PoliciesNext
    BY <1>7 DEF OnPoliciesPage
  <2>2. PageInv /\ PageInv'
    BY <2>1, PageStep DEF DashboardInv
  <2>3. AgentInv'
    BY <1>3, <2>1, <2>2, PoliciesSchemaless DEF DashboardInv, AgentInv, AgentTyped, PageInv, TypeInv
  <2> QED
    BY <1>2, <1>3, <1>4, <1>5, <1>6, <2>1, <2>2, <2>3 DEF DashboardInv
<1>8. CASE OnEntitiesPage(EntitiesNext)
  <2>1. /\ page = "entities" /\ UNCHANGED <<page, policiesPageVars, schemaPageVars, authPageVars,
                                            overviewPageVars, settingsVars>>
        /\ EntitiesNext
    BY <1>8 DEF OnEntitiesPage
  <2>2. EntitiesInv /\ EntitiesInv'
    BY <2>1, EntitiesStep DEF DashboardInv
  <2>3. AgentInv'
    BY <1>3, <2>1, <2>2, EntitiesSchemaless
       DEF DashboardInv, AgentInv, EntitiesInv, EntityCallsTyped
  <2> QED
    BY <1>1, <1>3, <1>4, <1>5, <1>6, <2>1, <2>2, <2>3 DEF DashboardInv
<1>9. CASE OnSchemaPage(SchemaNext)
  <2>1. /\ page = "schema" /\ UNCHANGED <<page, policiesPageVars, entitiesPageVars, authPageVars,
                                          overviewPageVars, settingsVars>>
        /\ SchemaNext
    BY <1>9 DEF OnSchemaPage
  <2>2. SchemaInv'
    BY <2>1, SchemaStep DEF DashboardInv
  <2>3. AgentInv'
    BY <2>2 DEF SchemaInv, SchemaCallsTyped, SchemalessAgent, AgentInv, SchemalessStores
  <2> QED
    BY <1>1, <1>2, <1>4, <1>5, <1>6, <2>1, <2>2, <2>3 DEF DashboardInv
<1>10. CASE OnAuthorizationPage(AuthNext)
  <2>1. /\ page = "authorization" /\ UNCHANGED <<page, policiesPageVars, entitiesPageVars,
                                                 schemaPageVars, overviewPageVars, settingsVars>>
        /\ AuthNext
    BY <1>10 DEF OnAuthorizationPage
  <2>2. AuthInv /\ AuthInv'
    BY <2>1, AuthStep DEF DashboardInv
  <2>3. AgentInv'
    BY <1>3, <2>1, <2>2, AuthSchemaless DEF DashboardInv, AgentInv, AgentTyped, AuthInv, AuthTypeOK
  <2> QED
    BY <1>1, <1>2, <1>3, <1>5, <1>6, <2>1, <2>2, <2>3 DEF DashboardInv
<1>11. CASE OnOverview(OverviewNext)
  <2>1. /\ page = "overview" /\ UNCHANGED <<page, policiesPageVars, entitiesPageVars,
                                            schemaPageVars, authPageVars, settingsVars>>
        /\ OverviewNext
    BY <1>11 DEF OnOverview
  <2>2. OverviewInv'
    BY <2>1, OverviewStep DEF DashboardInv
  <2>3. AgentInv'
    BY <1>3, <2>1, OverviewAgent DEF DashboardInv, AgentInv
  <2> QED
    BY <1>1, <1>2, <1>3, <1>4, <1>6, <2>1, <2>2, <2>3 DEF DashboardInv
<1>12. CASE OnSettingsPage(SettingsNext)
  <2>1. /\ page = "settings" /\ UNCHANGED <<page, agentVars, policiesPageVars, entitiesPageVars,
                                            schemaPageVars, authPageVars, overviewPageVars>>
        /\ SettingsNext
    BY <1>12 DEF OnSettingsPage
  <2>2. SavedMeansUsed'
    BY <2>1, SavedStep DEF DashboardInv
  <2>3. AgentInv'
    BY <1>3, <2>1 DEF DashboardInv, AgentInv, AgentTyped, SchemalessStores, agentVars
  <2> QED
    BY <1>1, <1>2, <1>3, <1>4, <1>5, <2>1, <2>2, <2>3 DEF DashboardInv
<1>13. CASE UNCHANGED dashboardVars
  <2>1. UNCHANGED <<page, agentVars, policiesPageVars, entitiesPageVars, schemaPageVars,
                    authPageVars, overviewPageVars, settingsVars>>
    BY <1>13
  <2>2. (PageInv => PageInv') /\ (EntitiesInv => EntitiesInv')
    BY <2>1, PageStep, EntitiesStep
       DEF policiesVars, policyFetching, policyWriting, policyModals, entitiesVars,
           entityFetching
  <2>3. /\ SchemaInv => SchemaInv'
        /\ AuthInv => AuthInv'
        /\ OverviewInv => OverviewInv'
    BY <2>1, SchemaStep, AuthStep, OverviewStep
       DEF schemaVars, schemaView, schemaEditor, schemaWriting, schemaModals, authVars, authForm,
           overviewVars
  <2>4. AgentInv'
    BY <1>3, <2>1 DEF DashboardInv, AgentInv, AgentTyped, SchemalessStores, agentVars
  <2> QED
    BY <1>1, <1>2, <1>3, <1>4, <1>5, <1>6, <2>1, <2>2, <2>3, <2>4 DEF DashboardInv
<1> QED
  BY <1>7, <1>8, <1>9, <1>10, <1>11, <1>12, <1>13 DEF DashboardNext

\* DashboardInv holds in every state of a visit, whichever page is open.
LEMMA DashboardInvariance == DashboardSpec => []DashboardInv
BY DashboardStarts, DashboardStep, PTL DEF DashboardSpec

-----------------------------------------------------------------------------
(* What holds on every page. *)

\* No table, and no schema, stays hidden behind a spinner without a fetch in flight.
THEOREM NoSpinnerLeftOver == DashboardSpec => []SpinnersMeanFetching
<1>1. DashboardInv => SpinnersMeanFetching
  <2>1. DashboardInv => SpinnerMeansFetching
    BY DEF DashboardInv, PageInv, PoliciesInit, SpinnerMeansFetching
  <2>2. DashboardInv => (entitiesLoading => entityFetches # {})
    BY DEF DashboardInv, EntitiesInv, EntitySpinner, EntitiesInit
  <2>3. DashboardInv => (schemaLoading => schemaFetches # {})
    BY DEF DashboardInv, SchemaInv, SchemaSpinner, SchemaIdle
  <2> QED
    BY <2>1, <2>2, <2>3 DEF SpinnersMeanFetching
<1> QED
  BY <1>1, DashboardInvariance, PTL

\* A confirmation that is open names a policy, an entity or an attribute.
THEOREM NoEmptyConfirmation == DashboardSpec => []ConfirmationsAreNamed
<1>1. DashboardInv => ConfirmationsAreNamed
  <2>1. DashboardInv => ConfirmNamesPolicy
    BY DEF DashboardInv, PageInv, PoliciesInit, ConfirmNamesPolicy
  <2>2. DashboardInv => (entityConfirm.open => entityConfirm.id # Absent)
    BY DEF DashboardInv, EntitiesInv, EntityModalsTyped, EntitiesInit
  <2>3. DashboardInv => (attrConfirm.open => attrConfirm.target # NoTarget)
    BY DEF DashboardInv, SchemaInv, SchemaModalsTyped, SchemaIdle
  <2> QED
    BY <2>1, <2>2, <2>3 DEF ConfirmationsAreNamed
<1> QED
  BY <1>1, DashboardInvariance, PTL

\* What a page keeps in its own visit it keeps in the dashboard, too.
THEOREM PagesKeepTheirPromises ==
    DashboardSpec => []( /\ PoliciesTypeOK /\ ListFollowsAgent
                         /\ EditorConsistent /\ NoFirstSchema
                         /\ ResultOfLastCheck /\ DecisionFromStored
                         /\ StatsComplete /\ SavedMeansUsed )
<1>1. ASSUME DashboardInv
      PROVE  /\ PoliciesTypeOK /\ ListFollowsAgent
             /\ EditorConsistent /\ NoFirstSchema
             /\ ResultOfLastCheck /\ DecisionFromStored
             /\ StatsComplete /\ SavedMeansUsed
  <2> USE <1>1
  <2>1. PoliciesTypeOK /\ ListFollowsAgent
    <3>1. CASE page = "policies"
      BY <3>1 DEF DashboardInv, PageInv, TypeInv
    <3>2. CASE PoliciesInit
      <4>1. agent.policies \in Policies
        BY DEF DashboardInv, AgentInv, AgentTyped, Contained
      <4>2. policyList \in Policies
        BY <3>2 DEF PoliciesInit, NoPolicies, Policies
      <4>3. policyFetches \subseteq FetchRecords
        BY <3>2 DEF PoliciesInit, Asked, FetchRecords
      <4>4. /\ policiesLoading \in BOOLEAN /\ policyUnseen \in BOOLEAN
            /\ newestFetch \in Nat /\ shownFetch \in Nat
        BY <3>2 DEF PoliciesInit
      <4>5. ListFollowsAgent
        BY <3>2 DEF PoliciesInit, ListFollowsAgent
      <4> QED
        BY <4>1, <4>2, <4>3, <4>4, <4>5 DEF PoliciesTypeOK
    <3> QED
      BY <3>1, <3>2 DEF DashboardInv
  <2>2. EditorConsistent
    BY DEF DashboardInv, SchemaInv, SchemaIdle, EditorConsistent
  <2>3. NoFirstSchema
    BY DEF DashboardInv, AgentInv, SchemalessStores, NoFirstSchema
  <2>4. ResultOfLastCheck /\ DecisionFromStored
    BY DEF DashboardInv, AuthInv, AuthInit, ResultOfLastCheck, DecisionFromStored
  <2>5. StatsComplete
    BY DEF DashboardInv, OverviewInv, OverviewInit, StatsComplete
  <2> QED
    BY <2>1, <2>2, <2>3, <2>4, <2>5 DEF DashboardInv
<1> QED
  BY <1>1, DashboardInvariance, PTL

\* The save of the entities page goes on only while that page is open.
LEMMA SavesOfOnePage ==
    ASSUME DashboardInv, [DashboardNext]_dashboardVars
    PROVE  \/ EntitiesInv /\ [EntitiesNext]_entitiesVars
           \/ entitySave = Absent /\ UNCHANGED entitySave
<1> USE DEF entitiesPageVars
<1>1. CASE OnEntitiesPage(EntitiesNext)
  BY <1>1 DEF OnEntitiesPage, DashboardInv
<1>2. CASE page # "entities" /\ UNCHANGED entitiesPageVars
  BY <1>2 DEF DashboardInv, EntitiesInit
<1>3. CASE UNCHANGED dashboardVars
  <2>1. CASE page = "entities"
    BY <1>3, <2>1 DEF dashboardVars, DashboardInv, entitiesVars, entityFetching
  <2>2. CASE page # "entities"
    BY <1>3, <2>2 DEF dashboardVars, DashboardInv, EntitiesInit
  <2> QED
    BY <2>1, <2>2
<1> QED
  BY <1>1, <1>2, <1>3
     DEF DashboardNext, OnPoliciesPage, OnSchemaPage, OnAuthorizationPage, OnOverview,
         OnSettingsPage

LEMMA ReportsOfDashboard ==
    ASSUME DashboardInv, [DashboardNext]_dashboardVars
    PROVE  /\ ReportedIsStored /\ SaveKeepsAttributes
           /\ CreatedNeedsNothing /\ ReportedAreStrings
<1>1. CASE EntitiesInv /\ [EntitiesNext]_entitiesVars
  BY <1>1, ReportsAreTrue, SavesKeep
<1>2. CASE entitySave = Absent
  BY <1>2 DEF ReportedIsStored, SaveKeepsAttributes, CreatedNeedsNothing, ReportedAreStrings,
              SaveReported, Succeeded, Pending, InStep
<1> QED
  BY <1>1, <1>2, SavesOfOnePage

\* A success the entity dialog reports is one: undisturbed, the agent has all of the
\* form, of a new entity after two calls, of an old one after one.
THEOREM SavesAsEntered == DashboardSpec => SavedAsEntered
<1>1. DashboardInv /\ [DashboardNext]_dashboardVars => [ReportedIsStored]_entitiesVars
  BY ReportsOfDashboard
<1> QED
  BY <1>1, DashboardInvariance, PTL DEF DashboardSpec, SavedAsEntered

\* A save of the entity dialog takes no attribute away from any entity.
THEOREM SavesOnlyAdd == DashboardSpec => SavesNeverRemove
<1>1. DashboardInv /\ [DashboardNext]_dashboardVars => [SaveKeepsAttributes]_entitiesVars
  BY ReportsOfDashboard
<1> QED
  BY <1>1, DashboardInvariance, PTL DEF DashboardSpec, SavesNeverRemove

\* No entity that its type requires something of is created, whatever the schema.
THEOREM RequiredBlocksCreation == DashboardSpec => RequiredNeverCreated
<1>1. DashboardInv /\ [DashboardNext]_dashboardVars => [CreatedNeedsNothing]_entitiesVars
  BY ReportsOfDashboard
<1> QED
  BY <1>1, DashboardInvariance, PTL DEF DashboardSpec, RequiredNeverCreated

\* Of the declared attributes only strings are saved, whatever the schema.
THEOREM StringsOnly == DashboardSpec => OnlyStringsSaved
<1>1. DashboardInv /\ [DashboardNext]_dashboardVars => [ReportedAreStrings]_entitiesVars
  BY ReportsOfDashboard
<1> QED
  BY <1>1, DashboardInvariance, PTL DEF DashboardSpec, OnlyStringsSaved

=============================================================================
