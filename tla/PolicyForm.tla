----------------------------- MODULE PolicyForm -----------------------------
(***************************************************************************)
(* The dialog of the dashboard in which a policy is created or edited:     *)
(* the fields of frontend/components/policy-dialog.tsx, what each control  *)
(* does to them, and what the agent stores when the form is saved.         *)
(* A control is an action; its guard is when the dialog shows it and which *)
(* values it offers.  The calls are one step here: their interleavings are *)
(* in PoliciesPage.                                                        *)
(***************************************************************************)
EXTENDS PolicyText

CONSTANTS PolicyIds,        \* policy ids
          Absent,           \* no policy has that id
          StoredTexts,      \* texts other clients may have stored
          SchemaTypes,      \* entity types of the schema, {} without one
          SchemaActions,    \* action ids of the schema
          KnownIds,         \* [Types -> SUBSET Ids], the ids of stored entities
          MaxEdits,         \* bound: changes to the form in one opening
          MaxSaves          \* bound: policies stored through the dialog

VARIABLES stored,           \* the policies of the agent
          open,             \* the dialog is open
          editing,          \* prop policy: what is edited, None when creating
          form,             \* formData
          loaded,           \* schema and entities have arrived
          edits,            \* changes since the dialog opened
          saves,            \* successful saves
          toast             \* the last message to the user

vars == <<stored, open, editing, form, loaded, edits, saves, toast>>

NoId == "no id"
EmptyForm == [id |-> NoId, effect |-> "permit", principal |-> AllScope,
              action |-> AllScope, resource |-> AllScope, conditions |-> <<>>]

Refused == "refused"

\* What the table and the edit dialog get of a stored policy.
Shown(p, text) ==
    LET f == FromText(text)
    IN  [id |-> p, effect |-> f.effect, principal |-> f.principal,
         action |-> f.action, resource |-> f.resource, conditions |-> f.conditions]

-----------------------------------------------------------------------------
Init ==
    /\ stored \in [PolicyIds -> StoredTexts \cup {Absent}]
    /\ open = FALSE
    /\ editing = None
    /\ form = EmptyForm
    /\ loaded = FALSE
    /\ edits = 0
    /\ saves = 0
    /\ toast = "none"

\* Mutant of Reset: the form is cleared for a new policy, and not set to an old one.
ResetWhenCreating(policy) ==
    /\ editing' = policy
    /\ form' = IF policy = None THEN EmptyForm ELSE form
    /\ edits' = 0

\* The effect that runs when the dialog opens or closes.
Reset(policy) ==
    /\ editing' = policy
    /\ form' = IF policy = None THEN EmptyForm ELSE policy
    /\ edits' = 0

OpenEdit ==
    /\ ~open
    /\ \E p \in PolicyIds : stored[p] # Absent /\ Reset(Shown(p, stored[p]))
    /\ open' = TRUE
    /\ toast' = "none"
    /\ UNCHANGED <<stored, loaded, saves>>

OpenCreate ==
    /\ ~open
    /\ Reset(None)
    /\ open' = TRUE
    /\ toast' = "none"
    /\ UNCHANGED <<stored, loaded, saves>>

\* loadData; when a call fails the lists stay as they were.
LoadData ==
    /\ open /\ ~loaded
    /\ loaded' = TRUE
    /\ UNCHANGED <<stored, open, editing, form, edits, saves, toast>>

-----------------------------------------------------------------------------
Edit(field, value) ==
    /\ open
    /\ edits < MaxEdits
    /\ form' = [form EXCEPT ![field] = value]
    /\ edits' = edits + 1
    /\ UNCHANGED <<stored, open, editing, loaded, saves, toast>>

\* Mutant of UpdateScope: it keeps the entities of the scope it replaces.
UpdateScopeKeepingList(v, op, type, id) ==
    Edit(v, Scope(op, IF op # "All" /\ type # None
                      THEN [type |-> type, id |-> id] ELSE None, form[v].entities))

UpdateScope(v, op, type, id) ==
    Edit(v, Scope(op, IF op # "All" /\ type # None
                      THEN [type |-> type, id |-> id] ELSE None, None))

TypeOf(v) == IF form[v].entity = None THEN None ELSE form[v].entity.type
IdOf(v)   == IF form[v].entity = None THEN EmptyId ELSE form[v].entity.id

TypeOptions == IF loaded THEN SchemaTypes ELSE {}
ActionOptions == IF loaded THEN SchemaActions ELSE {}
IdOptions(v) == IF loaded /\ TypeOf(v) # None THEN KnownIds[TypeOf(v)] ELSE {}

SetId ==
    /\ editing = None
    /\ \E p \in PolicyIds \ {form.id} : Edit("id", p)

SetEffect == \E e \in Effects \ {form.effect} : Edit("effect", e)

ChooseOp(v, ops) == \E op \in ops \ {form[v].op} : UpdateScope(v, op, TypeOf(v), IdOf(v))

\* A list of the types of the schema, which clears the id; without a schema
\* the type is typed (clearing the field leaves no entity).
ChooseType(v) ==
    /\ form[v].op # "All"
    /\ \/ \E t \in TypeOptions \ {TypeOf(v)} : UpdateScope(v, form[v].op, t, EmptyId)
       \/ /\ TypeOptions = {}
          /\ \E t \in (Types \cup {None}) \ {TypeOf(v)} :
               UpdateScope(v, form[v].op, t, IdOf(v))

\* A list of the ids of that type, or a field; nothing is kept without a type.
ChooseId(v) ==
    /\ form[v].op # "All"
    /\ \E i \in (IF IdOptions(v) # {} THEN IdOptions(v) ELSE Ids) \ {IdOf(v)} :
         UpdateScope(v, form[v].op, TypeOf(v), i)

PrincipalTab ==
    \/ ChooseOp("principal", {"All", "==", "in"})
    \/ ChooseType("principal")
    \/ ChooseId("principal")

ResourceTab ==
    \/ ChooseOp("resource", {"All", "==", "!=", "in"})
    \/ ChooseType("resource")
    \/ ChooseId("resource")

-----------------------------------------------------------------------------
(* The action tab: "in" edits a list of actions of the schema. *)

ActionList == IF form.action.entities = None THEN <<>> ELSE form.action.entities
UpdateActionEntities(refs) == Edit("action", Scope(form.action.op, None, refs))

ChooseActionOp ==
    \/ form.action.op # "in" /\ Edit("action", Scope("in", None, <<>>))
    \/ ChooseOp("action", {"All", "=="})

AddActionToSelection ==
    /\ form.action.op = "in"
    /\ \E a \in ActionOptions :
         LET ref == [type |-> ActionType, id |-> a]
         IN  /\ \A i \in 1 .. Len(ActionList) : ActionList[i].id # a
             /\ UpdateActionEntities(Append(ActionList, ref))

RemoveActionFromSelection ==
    /\ form.action.op = "in"
    /\ \E i \in 1 .. Len(ActionList) :
         LET others == {j \in DOMAIN ActionList : ActionList[j].id # ActionList[i].id}
         IN  UpdateActionEntities(At(ActionList, others))

\* The list of actions names the type Action itself; the field does not.
ChooseActionId ==
    /\ form.action.op = "=="
    /\ \/ \E a \in ActionOptions \ {IdOf("action")} :
            UpdateScope("action", "==", ActionType, a)
       \/ /\ ActionOptions = {}
          /\ \E a \in Ids \ {IdOf("action")} : UpdateScope("action", "==", TypeOf("action"), a)

ActionTab ==
    ChooseActionOp \/ AddActionToSelection \/ RemoveActionFromSelection \/ ChooseActionId

-----------------------------------------------------------------------------
(* The conditions. *)

EmptyCondition(body) == [kind |-> "when", body |-> body]

\* addCondition and the typing of its body.
AddCondition ==
    \E b \in Bodies : Edit("conditions", Append(form.conditions, EmptyCondition(b)))

UpdateCondition ==
    \E i \in 1 .. Len(form.conditions), c \in Conditions :
        /\ c # form.conditions[i]
        /\ c.kind = form.conditions[i].kind \/ c.body = form.conditions[i].body
        /\ Edit("conditions", [form.conditions EXCEPT ![i] = c])

RemoveCondition ==
    \E i \in 1 .. Len(form.conditions) :
        Edit("conditions", [j \in 1 .. Len(form.conditions) - 1 |->
                               form.conditions[IF j < i THEN j ELSE j + 1]])

ConditionsEditor == AddCondition \/ UpdateCondition \/ RemoveCondition

-----------------------------------------------------------------------------
(* handleSubmit: PUT /policies/<id> when editing, POST /policies otherwise. *)

CanSubmit == open /\ form.id # NoId

Accepted == Parses(ToText(form)) /\ (editing = None => stored[form.id] = Absent)

Save ==
    /\ CanSubmit
    /\ Accepted
    /\ saves < MaxSaves
    /\ saves' = saves + 1
    /\ stored' = [stored EXCEPT ![form.id] = ToText(form)]
    /\ open' = FALSE
    /\ Reset(editing)
    /\ toast' = "saved"
    /\ UNCHANGED loaded

SaveRefused ==
    /\ CanSubmit
    /\ ~Accepted
    /\ toast' = Refused
    /\ UNCHANGED <<stored, open, editing, form, loaded, edits, saves>>

Cancel ==
    /\ open
    /\ open' = FALSE
    /\ Reset(editing)
    /\ UNCHANGED <<stored, loaded, saves, toast>>

Next ==
    \/ OpenEdit \/ OpenCreate \/ LoadData
    \/ SetId \/ SetEffect
    \/ PrincipalTab \/ ActionTab \/ ResourceTab \/ ConditionsEditor
    \/ Save \/ SaveRefused \/ Cancel

Spec == Init /\ [][Next]_vars

ASSUME PolicyFormAssumption ==
    /\ \A text \in StoredTexts : IsText(text)
    /\ NoId \notin PolicyIds
    /\ SchemaTypes \subseteq Types /\ SchemaActions \subseteq Ids
    /\ KnownIds \in [Types -> SUBSET Ids]
    /\ MaxEdits \in Nat /\ MaxSaves \in Nat

-----------------------------------------------------------------------------
(* Properties. *)

ScopeOps == {"All", "==", "!=", "in", NotIn}

ScopeTyped(scope) ==
    /\ scope.op \in ScopeOps
    /\ scope.entity \in Refs \cup {None}
    /\ scope.entities = None \/ scope.entities \in Seq(Refs)

FormTyped(f) ==
    /\ f.id \in PolicyIds \cup {NoId}
    /\ f.effect \in Effects
    /\ \A v \in Vars : ScopeTyped(f[v])
    /\ f.conditions \in Seq(Conditions)

\* The fields of the form, of what is edited and the bookkeeping of the dialog
\* have the types of lib/types.ts.
TypeOK ==
    /\ FormTyped(form)
    /\ editing # None => FormTyped(editing)
    /\ editing # None => form.id = editing.id
    /\ open \in BOOLEAN
    /\ loaded \in BOOLEAN
    /\ edits \in 0 .. MaxEdits
    /\ saves \in 0 .. MaxSaves
    /\ toast \in {"none", "saved", Refused}

\* The entity the dialog shows in a scope is the entity the text names: no list
\* left over from an earlier operator takes its place, whatever the order in
\* which operator, type and id were chosen (updateScope, convertToCedarPolicy).
ChosenIsWritten ==
    \A v \in Vars \ {"action"} :
        form[v].entity # None => WriteScope(form[v]).refs = <<form[v].entity>>

Silent(body) ==
    /\ ToFirstBrace[body] = body
    /\ \A v \in Vars : Says[body][v] = Nothing

SilentConditions(conditions) ==
    /\ Len(conditions) <= 1
    /\ \A i \in 1 .. Len(conditions) : Silent(conditions[i].body)

\* The texts every part of which the form can show.
Readable(text) ==
    /\ ~text.annotated
    /\ \A v \in Vars :
         \/ text[v] = Any
         \/ /\ text[v].op = "=="
            /\ Plain(text[v].refs[1])
            /\ v = "action" => text[v].refs[1].type = ActionType
         \/ /\ v = "action" /\ text[v].op = InList /\ text[v].refs # <<>>
            /\ \A i \in 1 .. Len(text[v].refs) :
                 Plain(text[v].refs[i]) /\ text[v].refs[i].type = ActionType
    /\ SilentConditions(text.conditions)

\* Editing a policy whose text the form can show changes exactly the parts the
\* user changed: reading, editing and writing it back keeps every other part.
UntouchedPartsKept ==
    [][\A p \in PolicyIds :
          stored[p] # Absent /\ stored'[p] # stored[p] /\ Readable(stored[p]) =>
              \A part \in Vars \cup {"effect", "conditions"} :
                  form[part] = editing[part] => stored'[p][part] = stored[p][part]]_vars

Resaved(text) == ToText(FromText(text))

\* Saving what the edit dialog shows may change a policy, and saving it once more
\* may change it again (a scope lost the first time lets a comparison in a
\* condition be taken for it); a third time changes nothing, whatever the text.
DriftSettles ==
    \A p \in PolicyIds : stored[p] # Absent =>
        LET twice == Resaved(Resaved(stored[p])) IN Resaved(twice) = twice

PlainForm(f) ==
    /\ \A v \in Vars :
         /\ f[v].entity # None => Plain(f[v].entity)
         /\ f[v].entities # None => f[v].entities # <<>>
         /\ f[v].entities # None =>
              \A i \in 1 .. Len(f[v].entities) : Plain(f[v].entities[i])
    /\ f.action.entity # None => f.action.entity.type = ActionType
    /\ SilentConditions(f.conditions)

\* The table shows a policy as it was entered, once the agent has accepted it,
\* when the form names plain types and ids and one silent condition at most.
SavedIsShown ==
    [][stored' # stored /\ PlainForm(form) => Shown(form.id, stored'[form.id]) = form]_vars

\* Of all the dialog offers (the operators !=, in and not in, several conditions),
\* the agent stores only this: no restriction or one entity for principal and
\* resource, a list for the action at most, and one condition.
OnlySimpleSaved ==
    [][\A p \in PolicyIds :
          stored'[p] # stored[p] =>
              /\ \A v \in Vars \ {"action"} : stored'[p][v].op \in {"any", "=="}
              /\ Len(stored'[p].conditions) <= 1]_vars

-----------------------------------------------------------------------------
(* What the documentation says of the dialog, and the code does not do. *)

\* lib/api.ts:23: the text is converted back to the structured format, so that
\* saving what the edit dialog shows leaves the policy as it is.
UnchangedEditKeepsPolicy ==
    [][stored' # stored /\ form = editing => stored'[form.id] = stored[form.id]]_vars

=============================================================================
