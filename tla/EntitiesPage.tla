---------------------------- MODULE EntitiesPage ----------------------------
(***************************************************************************)
(* The entities page of the dashboard (frontend/app/entities/page.tsx) and *)
(* the dialog that creates and edits entities                              *)
(* (frontend/components/entity-dialog.tsx), in one visit by one user while *)
(* other clients change the entities.  A creation is two calls, and so can *)
(* fail between them; an edit is a PATCH of every attribute, as a string.  *)
(* Parents are left out, as in Stores.                                     *)
(***************************************************************************)
EXTENDS AgentApi

CONSTANTS AsText,           \* [Values -> Strings], JSON.stringify of what is no string
          JsonOf,           \* [Strings -> Values], JSON.parse, or the string itself
          ParsedAs,         \* [Kinds -> [Strings -> Values \cup {Absent}]]
          MaxEntityChanges  \* bound: saves, deletions and changes by other clients

VARIABLES entityList,       \* entities
          entitiesLoading,  \* loading
          entityFetches,    \* the fetches in flight
          entityDialog,     \* dialogOpen, editingEntity and formData
          entityOptions,    \* schema and entities of the dialog
          entitySave,       \* the calls of handleSubmit; loading of the dialog
          entityConfirm,    \* deleteDialogOpen and entityToDelete
          entityDeletes,    \* the calls of handleDelete in flight
          entityChanges     \* counts saves, deletions and changes by other clients

\* What handleSubmit holds on to while its calls are under way.
EntitySaves == [req : DataRequests, step : CallSteps, uid : Uids, attrs : Bodies,
                new : BOOLEAN, alone : BOOLEAN]

\* The conversions of values; entityToDelete and editingEntity are null, or of an
\* entity, and a save is under way, or none.
ASSUME EntitiesPageAssumption ==
    /\ AsText \in [Values -> Strings]
    /\ JsonOf \in [Strings -> Values]
    /\ ParsedAs \in [Kinds -> [Strings -> Values \cup {Absent}]]
    /\ Absent \notin Uids \cup EntitySaves

entitiesVars == <<agentVars, entityList, entitiesLoading, entityFetches, entityDialog,
                  entityOptions, entitySave, entityConfirm, entityDeletes, entityChanges>>
entityFetching == <<entityList, entitiesLoading, entityFetches>>

-----------------------------------------------------------------------------
NoUid == [type |-> Absent, id |-> Absent]
EmptyEntity == [uid |-> NoUid, attrs |-> EmptyBody]
NoOptions == [schema |-> EmptySchema, types |-> {}]

EntitiesInit ==
    /\ entityList = NoEntities
    /\ entitiesLoading = TRUE
    /\ entityFetches = {Asked(0)}
    /\ entityDialog = [open |-> FALSE, editing |-> Absent, form |-> EmptyEntity]
    /\ entityOptions = NoOptions
    /\ entitySave = Absent
    /\ entityConfirm = [open |-> FALSE, id |-> Absent]
    /\ entityDeletes = {}
    /\ entityChanges = 0

-----------------------------------------------------------------------------
(* fetchEntities. *)

StartEntityFetch ==
    /\ entityFetches' = entityFetches \cup {Asked(Fresh(entityFetches))}
    /\ entitiesLoading' = TRUE
    /\ UNCHANGED entityList

AgentReadsEntities ==
    /\ \E f \in entityFetches :
         /\ f.step = "sent"
         /\ entityFetches' = (entityFetches \ {f}) \cup {Answered(f, getEntities)}
    /\ UNCHANGED <<agentVars, entityList, entitiesLoading, entityDialog, entityOptions,
                   entitySave, entityConfirm, entityDeletes, entityChanges>>

EntitiesArrive ==
    /\ \E f \in entityFetches :
         /\ f.step = "read"
         /\ entityList' = f.got
         /\ entityFetches' = entityFetches \ {f}
    /\ entitiesLoading' = FALSE
    /\ UNCHANGED <<agentVars, entityDialog, entityOptions, entitySave, entityConfirm,
                   entityDeletes, entityChanges>>

EntitiesFail ==
    /\ \E f \in entityFetches : entityFetches' = entityFetches \ {f}
    /\ entitiesLoading' = FALSE
    /\ UNCHANGED <<agentVars, entityList, entityDialog, entityOptions, entitySave,
                   entityConfirm, entityDeletes, entityChanges>>

-----------------------------------------------------------------------------
(* Opening and closing the dialogs. *)

NoEntityModal == ~entityDialog.open /\ ~entityConfirm.open
EntityInTable(u) == ~entitiesLoading /\ entityList[u] # Absent
LeaveEntityCalls == UNCHANGED <<agentVars, entityFetching, entitySave, entityDeletes,
                                entityChanges>>

OpenCreateEntity ==
    /\ NoEntityModal
    /\ entityDialog' = [open |-> TRUE, editing |-> Absent, form |-> EmptyEntity]
    /\ LeaveEntityCalls
    /\ UNCHANGED <<entityOptions, entityConfirm>>

OpenEditEntity ==
    /\ NoEntityModal
    /\ \E u \in Uids :
         /\ EntityInTable(u)
         /\ entityDialog' = [open |-> TRUE, editing |-> u,
                             form |-> [uid |-> u, attrs |-> entityList[u]]]
    /\ LeaveEntityCalls
    /\ UNCHANGED <<entityOptions, entityConfirm>>

\* The form of a closed dialog is not seen, and is set anew when it opens.
CloseEntityDialog ==
    /\ entityDialog.open
    /\ entityDialog' = [entityDialog EXCEPT !.open = FALSE, !.form = EmptyEntity]
    /\ LeaveEntityCalls
    /\ UNCHANGED <<entityOptions, entityConfirm>>

\* loadData: the types of the schema and of the stored entities, which only fill
\* lists; the two reads are one step.
LoadEntityOptions ==
    /\ entityDialog.open
    /\ entityOptions' =
           [schema |-> getSchema,
            types |-> {t \in EntityTypes : HasShape(getSchema, t)}
                      \cup {u.type : u \in {v \in Uids : getEntities[v] # Absent}}]
    /\ LeaveEntityCalls
    /\ UNCHANGED <<entityDialog, entityConfirm>>

OpenDeleteEntity ==
    /\ NoEntityModal
    /\ \E u \in Uids : EntityInTable(u) /\ entityConfirm' = [open |-> TRUE, id |-> u]
    /\ LeaveEntityCalls
    /\ UNCHANGED <<entityDialog, entityOptions>>

CloseDeleteEntity ==
    /\ entityConfirm.open
    /\ entityConfirm' = [entityConfirm EXCEPT !.open = FALSE]
    /\ LeaveEntityCalls
    /\ UNCHANGED <<entityDialog, entityOptions>>

-----------------------------------------------------------------------------
(* The fields of the dialog. *)

EditEntity(field, value) ==
    /\ entityDialog.open
    /\ entityDialog' = [entityDialog EXCEPT !.form[field] = value]
    /\ LeaveEntityCalls
    /\ UNCHANGED <<entityOptions, entityConfirm>>

\* A list of the known types, or a field while there are none.
EnterUid ==
    /\ entityDialog.editing = Absent
    /\ \E u \in Uids :
         /\ entityOptions.types # {} => u.type \in entityOptions.types
         /\ EditEntity("uid", u)

\* getAttributesForEntityType.
DeclaredFor(a) ==
    LET s == entityOptions.schema
        t == entityDialog.form.uid.type
    IN  IF t # Absent /\ HasShape(s, t) THEN s[t][a] ELSE Absent

\* The value a typed text stands for; Absent if it does not fit the type.
ParseValue(a, text) ==
    IF DeclaredFor(a) = Absent THEN JsonOf[text] ELSE ParsedAs[DeclaredFor(a).kind][text]

AddAttribute ==
    \E a \in Attrs, text \in Strings :
        /\ ParseValue(a, text) # Absent
        /\ EditEntity("attrs", [entityDialog.form.attrs EXCEPT ![a] = ParseValue(a, text)])

RemoveAttribute ==
    \E a \in Attrs :
        /\ entityDialog.form.attrs[a] # Absent
        /\ EditEntity("attrs", [entityDialog.form.attrs EXCEPT ![a] = Absent])

-----------------------------------------------------------------------------
(* handleSubmit. *)

\* Mutant of StringAttributes: the values are sent as they are.
RawAttributes(attrs) == attrs

StringAttributes(attrs) ==
    [a \in Attrs |-> IF attrs[a] = Absent THEN Absent ELSE AsText[attrs[a]]]

\* alone is history: nothing but this save has changed the entities since.
SaveOf(r, form, new) ==
    [req |-> r, step |-> "sent", uid |-> form.uid, attrs |-> form.attrs, new |-> new,
     alone |-> TRUE]

SubmitEntity ==
    /\ entityDialog.open
    /\ entitySave = Absent
    /\ entityChanges < MaxEntityChanges
    /\ entityChanges' = entityChanges + 1
    /\ LET form == entityDialog.form
           new == entityDialog.editing = Absent
       IN  /\ form.uid # NoUid
           /\ entitySave' = SaveOf(IF new THEN addEntity(form.uid)
                                   ELSE patchEntityAttributes(form.uid,
                                            StringAttributes(form.attrs)),
                                   form, new)
    /\ UNCHANGED <<agentVars, entityFetching, entityDialog, entityOptions, entityConfirm,
                   entityDeletes>>

AgentSavesEntity ==
    /\ \E over \in Outcomes(entitySave) : AgentStep(entitySave, over) /\ entitySave' = over
    /\ UNCHANGED <<entityFetching, entityDialog, entityOptions, entityConfirm,
                   entityDeletes, entityChanges>>

\* Mutant of MoreToSave: the attributes of a new entity are not sent.
NothingMore(save) == FALSE

MoreToSave(save) == save.req.op = addEntity(save.uid).op /\ save.attrs # EmptyBody

\* "first add it, then update with attributes and parents"
EntityAdded ==
    /\ Succeeded(entitySave)
    /\ MoreToSave(entitySave)
    /\ entitySave' = [entitySave EXCEPT
           !.req = patchEntityAttributes(entitySave.uid, StringAttributes(entitySave.attrs)),
           !.step = "sent"]
    /\ UNCHANGED <<agentVars, entityFetching, entityDialog, entityOptions, entityConfirm,
                   entityDeletes, entityChanges>>

EntitySaved ==
    /\ Succeeded(entitySave)
    /\ ~MoreToSave(entitySave)
    /\ entitySave' = Absent
    /\ entityDialog' = [entityDialog EXCEPT !.open = FALSE, !.form = EmptyEntity]
    /\ StartEntityFetch
    /\ UNCHANGED <<agentVars, entityOptions, entityConfirm, entityDeletes, entityChanges>>

\* The dialog stays as it is: the user may submit it again.
EntityNotSaved ==
    /\ Failed(entitySave)
    /\ entitySave' = Absent
    /\ UNCHANGED <<agentVars, entityFetching, entityDialog, entityOptions, entityConfirm,
                   entityDeletes, entityChanges>>

-----------------------------------------------------------------------------
(* handleDelete: the table passes the id of the entity without its type. *)

ConfirmDeleteEntity ==
    /\ entityConfirm.open
    /\ entityConfirm.id # Absent
    /\ entityChanges < MaxEntityChanges
    /\ entityChanges' = entityChanges + 1
    /\ entityDeletes' = entityDeletes \cup
           {NumberedCall(deleteSingleEntity(entityConfirm.id), entityChanges)}
    /\ entityConfirm' = [entityConfirm EXCEPT !.open = FALSE]
    /\ UNCHANGED <<agentVars, entityFetching, entityDialog, entityOptions, entitySave>>

Disturb == entitySave' = IF entitySave = Absent THEN Absent
                         ELSE [entitySave EXCEPT !.alone = FALSE]

AgentDeletesEntity ==
    /\ \E d \in entityDeletes : \E over \in Outcomes(d) :
         /\ AgentStep(d, over)
         /\ entityDeletes' = (entityDeletes \ {d}) \cup {over}
    /\ Disturb
    /\ UNCHANGED <<entityFetching, entityDialog, entityOptions, entityConfirm,
                   entityChanges>>

EntityDeleted ==
    /\ \E d \in entityDeletes : Succeeded(d) /\ entityDeletes' = entityDeletes \ {d}
    /\ StartEntityFetch
    /\ entityConfirm' = [open |-> FALSE, id |-> Absent]
    /\ UNCHANGED <<agentVars, entityDialog, entityOptions, entitySave, entityChanges>>

EntityNotDeleted ==
    /\ \E d \in entityDeletes : Failed(d) /\ entityDeletes' = entityDeletes \ {d}
    /\ entityConfirm' = [open |-> FALSE, id |-> Absent]
    /\ UNCHANGED <<agentVars, entityFetching, entityDialog, entityOptions, entitySave,
                   entityChanges>>

-----------------------------------------------------------------------------
\* Another client deletes an entity, or replaces it by one without attributes.
OthersChangeEntities ==
    /\ entityChanges < MaxEntityChanges
    /\ entityChanges' = entityChanges + 1
    /\ \E u \in Uids, body \in {Absent, EmptyBody} :
         LET new == [agent EXCEPT !.entities[u] = body]
         IN  EntitiesValid(new.entities, CedarSchema(agent.schema)) /\ OthersWrite(new)
    /\ Disturb
    /\ UNCHANGED <<entityFetching, entityDialog, entityOptions, entityConfirm,
                   entityDeletes>>

OthersEndEntities ==
    /\ ~InStep(entitySave, "written")
    /\ \A d \in entityDeletes : ~InStep(d, "written")
    /\ OthersCommit \/ OthersRollBack
    /\ Disturb
    /\ UNCHANGED <<entityFetching, entityDialog, entityOptions, entityConfirm,
                   entityDeletes, entityChanges>>

EntityFetchCalls == AgentReadsEntities \/ EntitiesArrive \/ EntitiesFail
EntitySaveCalls  == AgentSavesEntity \/ EntityAdded \/ EntitySaved \/ EntityNotSaved
EntityDeleteCalls == AgentDeletesEntity \/ EntityDeleted \/ EntityNotDeleted

EntitiesNext ==
    \/ EntityFetchCalls \/ EntitySaveCalls \/ EntityDeleteCalls
    \/ OpenCreateEntity \/ OpenEditEntity \/ CloseEntityDialog \/ LoadEntityOptions
    \/ OpenDeleteEntity \/ CloseDeleteEntity
    \/ EnterUid \/ AddAttribute \/ RemoveAttribute
    \/ SubmitEntity \/ ConfirmDeleteEntity
    \/ OthersChangeEntities \/ OthersEndEntities

EntitiesSpec == AgentInit /\ EntitiesInit /\ [][EntitiesNext]_entitiesVars

-----------------------------------------------------------------------------
(* Properties. *)

SaveReported == Succeeded(entitySave) /\ entitySave.alone /\ entitySave' = Absent
DeclaredKind(a) ==
    LET t == entitySave.uid.type
    IN  IF HasShape(agent.schema, t) /\ agent.schema[t][a] # Absent
        THEN agent.schema[t][a].kind ELSE StringKind

Requires(s, t) == HasShape(s, t) /\ \E a \in Attrs : s[t][a] # Absent /\ s[t][a].required

ReportedIsStored ==
    SaveReported =>
        /\ agent.entities[entitySave.uid] # Absent
        /\ \A a \in Attrs : entitySave.attrs[a] # Absent =>
              agent.entities[entitySave.uid][a] = AsText[entitySave.attrs[a]]

\* "Entity created" and "Entity updated" are true: when a save that nothing has
\* disturbed is reported as a success, the agent has every attribute of the form
\* that was submitted, each as its text (handleSubmit, both calls).
SavedAsEntered == [][ReportedIsStored]_entitiesVars

SaveKeepsAttributes ==
    Pending(entitySave) /\ InStep(entitySave', "written") =>
        \A u \in Uids, a \in Attrs :
            agent.entities[u] # Absent /\ agent.entities[u][a] # Absent =>
                agent'.entities[u] # Absent /\ agent'.entities[u][a] # Absent

\* No save of the dialog takes an attribute away, not even one the user removed
\* in the form: it adds an entity without attributes, or patches.
SavesNeverRemove == [][SaveKeepsAttributes]_entitiesVars

CreatedNeedsNothing ==
    SaveReported /\ entitySave.new => ~Requires(agent.schema, entitySave.uid.type)

\* The dialog cannot create an entity whose type has a required attribute: its
\* first call adds the entity without attributes, and the agent refuses that.
RequiredNeverCreated == [][CreatedNeedsNothing]_entitiesVars

ReportedAreStrings ==
    SaveReported => \A a \in Attrs :
        entitySave.attrs[a] # Absent => DeclaredKind(a) = StringKind

\* The dialog cannot save a value the schema declares as anything but a string,
\* not even one it read from the agent: both calls send JSON.stringify of it.  The
\* JSON that the dialog parses "for complex types" (entity-dialog.tsx:203), which
\* DASHBOARD_OVERVIEW.md:62 and :67 list as supported, comes to nothing.
OnlyStringsSaved == [][ReportedAreStrings]_entitiesVars
=============================================================================
