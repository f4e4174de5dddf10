----------------------------- MODULE SchemaPage -----------------------------
(***************************************************************************)
(* The schema page of the dashboard (frontend/app/schema/page.tsx) and the *)
(* dialog that adds an attribute (frontend/components/attribute-dialog.tsx)*)
(* in one visit by one user, while other clients replace the schema.  The  *)
(* text in the JSON editor stands for the value it parses to.              *)
(***************************************************************************)
EXTENDS AgentApi

CONSTANTS NotJson,          \* a text JSON.parse refuses
          NoText,           \* the empty editor
          Drafts,           \* what the user may type or import
          MaxSchemaChanges  \* bound: calls that change something, here and elsewhere

VARIABLES schemaShown,      \* schema: null is Absent
          schemaLoading,    \* loading
          schemaFetches,    \* the fetches in flight
          schemaJson,       \* schemaJson
          schemaEditing,    \* editing
          schemaDraft,      \* history: what the user typed or imported last
          schemaCalls,      \* the calls in flight, but that of the dialog
          attrDialog,       \* attributeDialogOpen, selectedEntityType, the fields
          attrSave,         \* the call of the dialog; its loading
          attrConfirm,      \* deleteDialogOpen and attributeToDelete
          schemaHad,        \* history: the agent had a schema, or another client gave it one
          schemaChanges     \* counts the calls of the page and of other clients

\* A draft that parses is a schema, or nothing the agent takes for one; what is to be
\* deleted is null, or has a type; an attribute is a string until the user says more.
ASSUME SchemaPageAssumption ==
    /\ Drafts \subseteq Schemas \cup {Malformed, NotJson}
    /\ Absent \notin Schemas \cup EntityTypes
    /\ StringKind \in Kinds

schemaVars == <<agentVars, schemaShown, schemaLoading, schemaFetches, schemaJson,
                schemaEditing, schemaDraft, schemaCalls, attrDialog, attrSave,
                attrConfirm, schemaHad, schemaChanges>>
schemaView     == <<schemaShown, schemaLoading, schemaFetches>>
schemaEditor   == <<schemaJson, schemaEditing, schemaDraft>>
schemaWriting  == <<schemaCalls, attrSave, schemaChanges>>
schemaModals   == <<attrDialog, attrConfirm>>

-----------------------------------------------------------------------------
EmptyFields == [name |-> Absent, kind |-> StringKind, required |-> FALSE]
NoTarget == [type |-> Absent, attr |-> Absent]

SchemaInit ==
    /\ schemaShown = Absent
    /\ schemaLoading = TRUE
    /\ schemaFetches = {Asked(0)}
    /\ schemaJson = NoText
    /\ schemaEditing = FALSE
    /\ schemaDraft = NoText
    /\ schemaCalls = {}
    /\ attrDialog = [open |-> FALSE, type |-> Absent, fields |-> EmptyFields]
    /\ attrSave = Absent
    /\ attrConfirm = [open |-> FALSE, target |-> NoTarget]
    /\ schemaHad = (agent.schema # EmptySchema)
    /\ schemaChanges = 0

-----------------------------------------------------------------------------
(* fetchSchema: what arrives replaces the text in the editor, a draft too. *)

StartSchemaFetch ==
    /\ schemaFetches' = schemaFetches \cup {Asked(Fresh(schemaFetches))}
    /\ schemaLoading' = TRUE

AgentReadsSchema ==
    /\ \E f \in schemaFetches :
         /\ f.step = "sent"
         /\ schemaFetches' = (schemaFetches \ {f}) \cup {Answered(f, getSchema)}
    /\ UNCHANGED <<agentVars, schemaShown, schemaLoading, schemaEditor, schemaWriting,
                   schemaModals, schemaHad>>

SchemaArrives ==
    /\ \E f \in schemaFetches :
         /\ f.step = "read"
         /\ schemaShown' = f.got
         /\ schemaJson' = f.got
         /\ schemaFetches' = schemaFetches \ {f}
    /\ schemaLoading' = FALSE
    /\ UNCHANGED <<agentVars, schemaEditing, schemaDraft, schemaWriting, schemaModals,
                   schemaHad>>

\* Shown as if there were no schema.
SchemaFails ==
    /\ \E f \in schemaFetches : schemaFetches' = schemaFetches \ {f}
    /\ schemaShown' = Absent
    /\ schemaJson' = NoText
    /\ schemaLoading' = FALSE
    /\ UNCHANGED <<agentVars, schemaEditing, schemaDraft, schemaWriting, schemaModals,
                   schemaHad>>

-----------------------------------------------------------------------------
(* The editor. *)

NoSchemaModal == ~attrDialog.open /\ ~attrConfirm.open
ShowsSchema == schemaShown \notin {Absent, EmptySchema}

\* Mutant of EditorVisible: the editor is there for a schema that is created, too.
EditorWhenEditing ==
    /\ ~schemaLoading /\ NoSchemaModal
    /\ (ShowsSchema \/ (schemaEditing /\ schemaShown # Absent))

\* The tabs with the schema and the editor; without a schema, only a button.
EditorVisible == ~schemaLoading /\ NoSchemaModal /\ ShowsSchema
LeaveSchemaCalls == UNCHANGED <<agentVars, schemaView, schemaWriting, schemaHad>>

Draft(text) ==
    /\ schemaJson' = text
    /\ schemaDraft' = text
    /\ schemaEditing' = TRUE
    /\ LeaveSchemaCalls
    /\ UNCHANGED schemaModals

TypeInEditor == EditorVisible /\ \E text \in Drafts : Draft(text)

\* handleImportSchema: the file is read in a callback, whatever is shown by then.
ImportSchema == \E text \in Drafts \ {NotJson} : Draft(text)

\* "Create Schema", the only control when there is no schema.
CreateSchema ==
    /\ ~schemaLoading /\ NoSchemaModal /\ ~ShowsSchema
    /\ schemaEditing' = TRUE
    /\ LeaveSchemaCalls
    /\ UNCHANGED <<schemaJson, schemaDraft, schemaModals>>

\* Mutant of CancelEdit: the text stays in the editor.
CancelKeepsText ==
    /\ EditorVisible /\ schemaEditing
    /\ schemaEditing' = FALSE
    /\ LeaveSchemaCalls
    /\ UNCHANGED <<schemaModals, schemaDraft, schemaJson>>

CancelEdit ==
    /\ EditorVisible /\ schemaEditing
    /\ schemaJson' = schemaShown
    /\ schemaEditing' = FALSE
    /\ LeaveSchemaCalls
    /\ UNCHANGED <<schemaModals, schemaDraft>>

-----------------------------------------------------------------------------
(* The calls of the page: save, delete, delete an attribute. *)

Send(r) ==
    /\ schemaChanges < MaxSchemaChanges
    /\ schemaChanges' = schemaChanges + 1
    /\ schemaCalls' = schemaCalls \cup {NumberedCall(r, schemaChanges)}
    /\ UNCHANGED <<agentVars, schemaView, schemaEditor, attrDialog, attrSave, schemaHad>>

\* handleSaveSchema: nothing keeps the button from being pressed again.
SaveSchema ==
    /\ EditorVisible /\ schemaEditing
    /\ schemaJson \notin {NotJson, NoText}
    /\ Send(updateSchema(schemaJson))
    /\ UNCHANGED attrConfirm

\* handleDeleteSchema, after confirm().
DeleteSchema == EditorVisible /\ Send(deleteSchema) /\ UNCHANGED attrConfirm

DeleteAttribute ==
    /\ attrConfirm.open
    /\ attrConfirm.target # NoTarget
    /\ Send(deleteEntityAttribute(attrConfirm.target.type, attrConfirm.target.attr))
    /\ attrConfirm' = [attrConfirm EXCEPT !.open = FALSE]

AgentChangesSchema ==
    /\ \E c \in schemaCalls : \E over \in Outcomes(c) :
         /\ AgentStep(c, over)
         /\ schemaCalls' = (schemaCalls \ {c}) \cup {over}
    /\ UNCHANGED <<schemaView, schemaEditor, schemaModals, attrSave, schemaHad, schemaChanges>>

\* finally of handleDeleteAttribute: whatever is to be confirmed by now.
ForgetAttribute(c) ==
    attrConfirm' = IF c.req.op = "delete_attribute"
                   THEN [open |-> FALSE, target |-> NoTarget] ELSE attrConfirm

SchemaCallEnds ==
    /\ \E c \in schemaCalls :
         /\ Succeeded(c)
         /\ schemaCalls' = schemaCalls \ {c}
         /\ schemaEditing' = (schemaEditing /\ c.req.op # "update_schema")
         /\ ForgetAttribute(c)
    /\ StartSchemaFetch
    /\ UNCHANGED <<agentVars, schemaShown, schemaJson, schemaDraft, attrDialog, attrSave,
                   schemaChanges, schemaHad>>

SchemaCallFails ==
    /\ \E c \in schemaCalls :
         Failed(c) /\ schemaCalls' = schemaCalls \ {c} /\ ForgetAttribute(c)
    /\ UNCHANGED <<agentVars, schemaView, schemaEditor, attrDialog, attrSave, schemaChanges,
                   schemaHad>>

-----------------------------------------------------------------------------
(* The dialogs. *)

LeaveSchemaPage == UNCHANGED <<agentVars, schemaView, schemaEditor, schemaHad>>

OpenAttributeDialog ==
    /\ EditorVisible
    /\ \E t \in EntityTypes :
         /\ HasShape(schemaShown, t)
         /\ attrDialog' = [attrDialog EXCEPT !.open = TRUE, !.type = t]
    /\ LeaveSchemaPage
    /\ UNCHANGED <<attrConfirm, schemaWriting>>

\* Escape closes it while the call is in flight, too; the fields stay.
CloseAttributeDialog ==
    /\ attrDialog.open
    /\ attrDialog' = [attrDialog EXCEPT !.open = FALSE]
    /\ LeaveSchemaPage
    /\ UNCHANGED <<attrConfirm, schemaWriting>>

FillAttribute ==
    /\ attrDialog.open
    /\ \E a \in Attrs, k \in Kinds, required \in BOOLEAN :
         attrDialog' = [attrDialog EXCEPT
             !.fields = [name |-> a, kind |-> k, required |-> required]]
    /\ LeaveSchemaPage
    /\ UNCHANGED <<attrConfirm, schemaWriting>>

SubmitAttribute ==
    /\ attrDialog.open
    /\ attrDialog.fields.name # Absent
    /\ attrSave = Absent
    /\ schemaChanges < MaxSchemaChanges
    /\ schemaChanges' = schemaChanges + 1
    /\ LET f == attrDialog.fields
       IN  attrSave' = CallOf(addEntityAttribute(attrDialog.type, f.name,
                                  [kind |-> f.kind, required |-> f.required]))
    /\ LeaveSchemaPage
    /\ UNCHANGED <<schemaModals, schemaCalls>>

AgentAddsAttribute ==
    /\ \E over \in Outcomes(attrSave) : AgentStep(attrSave, over) /\ attrSave' = over
    /\ UNCHANGED <<schemaView, schemaEditor, schemaModals, schemaCalls, schemaHad,
                   schemaChanges>>

\* onSuccess(), onOpenChange(false) and the reset: the dialog that is open by now.
AttributeAdded ==
    /\ Succeeded(attrSave)
    /\ attrSave' = Absent
    /\ attrDialog' = [attrDialog EXCEPT !.open = FALSE, !.fields = EmptyFields]
    /\ StartSchemaFetch
    /\ UNCHANGED <<agentVars, schemaShown, schemaEditor, schemaCalls, attrConfirm,
                   schemaChanges, schemaHad>>

AttributeNotAdded ==
    /\ Failed(attrSave)
    /\ attrSave' = Absent
    /\ LeaveSchemaPage
    /\ UNCHANGED <<schemaModals, schemaCalls, schemaChanges>>

OpenDeleteAttribute ==
    /\ EditorVisible
    /\ \E t \in EntityTypes, a \in Attrs :
         /\ HasShape(schemaShown, t)
         /\ schemaShown[t][a] # Absent
         /\ attrConfirm' = [open |-> TRUE, target |-> [type |-> t, attr |-> a]]
    /\ LeaveSchemaPage
    /\ UNCHANGED <<attrDialog, schemaWriting>>

CloseDeleteAttribute ==
    /\ attrConfirm.open
    /\ attrConfirm' = [attrConfirm EXCEPT !.open = FALSE]
    /\ LeaveSchemaPage
    /\ UNCHANGED <<attrDialog, schemaWriting>>

-----------------------------------------------------------------------------
OthersChangeSchema ==
    /\ schemaChanges < MaxSchemaChanges
    /\ schemaChanges' = schemaChanges + 1
    /\ \E s \in Drafts \cap Schemas :
         /\ Accepted(updateSchema(s), agent)
         /\ OthersWrite(Result(updateSchema(s), agent))
    /\ schemaHad' = TRUE
    /\ UNCHANGED <<schemaView, schemaEditor, schemaCalls, attrSave, schemaModals>>

OthersEndSchema ==
    /\ ~InStep(attrSave, "written")
    /\ \A c \in schemaCalls : ~InStep(c, "written")
    /\ OthersCommit \/ OthersRollBack
    /\ UNCHANGED <<schemaView, schemaEditor, schemaWriting, schemaModals, schemaHad>>

SchemaFetchCalls == AgentReadsSchema \/ SchemaArrives \/ SchemaFails
SchemaPageCalls  == AgentChangesSchema \/ SchemaCallEnds \/ SchemaCallFails
AttributeCall    == AgentAddsAttribute \/ AttributeAdded \/ AttributeNotAdded

SchemaNext ==
    \/ SchemaFetchCalls \/ SchemaPageCalls \/ AttributeCall
    \/ TypeInEditor \/ ImportSchema \/ CreateSchema \/ CancelEdit
    \/ SaveSchema \/ DeleteSchema \/ DeleteAttribute
    \/ OpenAttributeDialog \/ CloseAttributeDialog \/ FillAttribute \/ SubmitAttribute
    \/ OpenDeleteAttribute \/ CloseDeleteAttribute
    \/ OthersChangeSchema \/ OthersEndSchema

SchemaSpec == AgentInit /\ SchemaInit /\ [][SchemaNext]_schemaVars

-----------------------------------------------------------------------------
(* Properties. *)

\* Whatever calls overlap, the editor, once it can be used, holds the schema the
\* page shows, or the draft of the user while it is marked as one: never an
\* older schema, the remains of a failed fetch, or a draft that counts as saved
\* (fetchSchema, handleSaveSchema and the two controls of the editor).
EditorConsistent ==
    ~schemaLoading =>
        \/ schemaJson = IF schemaShown = Absent THEN NoText ELSE schemaShown
        \/ schemaEditing /\ schemaJson = schemaDraft

\* A page opened on an agent that has no schema cannot give it one: the editor
\* and its buttons are only there once there is a schema, and a schema that was
\* imported or "created" cannot be saved.
NoFirstSchema == ~schemaHad => agent.schema = EmptySchema
=============================================================================
