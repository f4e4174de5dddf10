--------------------------- MODULE ContextBuilder ---------------------------
(***************************************************************************)
(* The context editor of the authorization page                            *)
(* (frontend/components/context-builder.tsx).  The context itself, a JSON  *)
(* text, belongs to the page; the builder keeps a list of fields of its    *)
(* own, writes the text from the list, and the list from the text only     *)
(* when the user comes back from JSON mode.                                *)
(***************************************************************************)
EXTENDS Sequences, FiniteSetsExt

SeqExt == INSTANCE SequencesExt

CONSTANTS ContextKeys,      \* keys of a context
          JsonValues,       \* what a key can have as a value in a JSON text
          FieldTexts,       \* what the user can type as the value of a field
          FieldTypes,       \* the types of a field
          DefaultType,      \* "String"
          SchemaType,       \* [ContextKeys -> FieldTypes], getUITypeFromSchemaType
          JsonTypeOf,       \* [JsonValues -> FieldTypes], as switchToBuilderMode sees it
          JsonTextOf,       \* [JsonValues -> STRING], as it shows it
          ValueOf,          \* parseValueForType: [FieldTypes -> [texts -> values]]
          NoValue,          \* a key that is not in the context, a text that fits no type
          BadJson,          \* a text JSON.parse refuses
          MaxFields         \* bound: fields in the list

VARIABLES context,          \* formData.context: the object it parses to, or BadJson
          builderMode,      \* mode
          builderFields     \* fields

contextVars == <<context, builderMode, builderFields>>

-----------------------------------------------------------------------------
Contexts == [ContextKeys -> JsonValues \cup {NoValue}]
EmptyContext == [k \in ContextKeys |-> NoValue]
KeysOf(c) == {k \in ContextKeys : c[k] # NoValue}
FieldKeys(fields) == {fields[i].key : i \in DOMAIN fields}

Field(k, text, type) == [key |-> k, text |-> text, type |-> type]

ContextInit ==
    /\ context = EmptyContext
    /\ builderMode = "builder"
    /\ builderFields = <<>>

-----------------------------------------------------------------------------
\* The loop of addField and removeField: a later field wins.
Written(fields) ==
    [k \in ContextKeys |->
        LET is == {i \in DOMAIN fields : fields[i].key = k}
        IN  IF is = {} THEN NoValue
            ELSE ValueOf[fields[Max(is)].type][fields[Max(is)].text]]

\* parseValueForType throws at no field.
Writable(fields) ==
    \A i \in DOMAIN fields : ValueOf[fields[i].type][fields[i].text] # NoValue

\* setFields comes before the loop: if that throws, the context stays as it was.
SetFields(fields) ==
    /\ builderFields' = fields
    /\ context' = IF Writable(fields) THEN Written(fields) ELSE context

AddField ==
    /\ builderMode = "builder"
    /\ Len(builderFields) < MaxFields
    /\ \E k \in ContextKeys, text \in FieldTexts :
         /\ ValueOf[SchemaType[k]][text] # NoValue
         /\ SetFields(Append(builderFields, Field(k, text, SchemaType[k])))
    /\ UNCHANGED builderMode

RemoveField ==
    /\ builderMode = "builder"
    /\ \E i \in DOMAIN builderFields : SetFields(SeqExt!RemoveAt(builderFields, i))
    /\ UNCHANGED builderMode

SwitchToJson ==
    /\ builderMode' = "json"
    /\ UNCHANGED <<context, builderFields>>

TypeContext ==
    /\ builderMode = "json"
    /\ context' \in Contexts \cup {BadJson}
    /\ UNCHANGED <<builderMode, builderFields>>

\* Mutant of Display: the type of a value is not looked at.
DisplayAsString(k, v) == Field(k, JsonTextOf[v], DefaultType)

Display(k, v) == Field(k, JsonTextOf[v], JsonTypeOf[v])

\* Object.entries, in some order.
FieldsOf(c) ==
    LET ks == CHOOSE f \in Bijection(1 .. Cardinality(KeysOf(c)), KeysOf(c)) : TRUE
    IN  [i \in DOMAIN ks |-> Display(ks[i], c[ks[i]])]

\* Mutant of SwitchToBuilder: the fields are left as they are.
SwitchOnly ==
    /\ context # BadJson
    /\ builderMode' = "builder"
    /\ UNCHANGED <<context, builderFields>>

\* An empty context leaves the old fields in the list, if it is written as "{}" or "".
SwitchToBuilder ==
    /\ context # BadJson
    /\ \/ builderFields' = FieldsOf(context)
       \/ context = EmptyContext /\ UNCHANGED builderFields
    /\ builderMode' = "builder"
    /\ UNCHANGED context

EditContext == AddField \/ RemoveField \/ SwitchToJson \/ TypeContext \/ SwitchToBuilder

\* The page replaces the text, and the builder does not hear of it.
ClearContext ==
    /\ context' = EmptyContext
    /\ UNCHANGED <<builderMode, builderFields>>

ContextNext == EditContext \/ ClearContext

ContextSpec == ContextInit /\ [][ContextNext]_contextVars

ASSUME ContextAssumption ==
    /\ IsFiniteSet(ContextKeys)
    /\ SchemaType \in [ContextKeys -> FieldTypes]
    /\ JsonTypeOf \in [JsonValues -> FieldTypes]
    /\ \A type \in FieldTypes, text \in FieldTexts \cup {JsonTextOf[v] : v \in JsonValues} :
          ValueOf[type][text] \in JsonValues \cup {NoValue}
    /\ NoValue \notin JsonValues
    /\ BadJson \notin Contexts

-----------------------------------------------------------------------------
(* Properties. *)

\* In builder mode the user sees every key that will be sent, and only keys that
\* will be sent, unless nothing will be: the list may go on showing fields of a
\* context that was emptied in JSON mode or by an example.  A field that was read
\* from JSON and cannot be written back keeps every edit from the context.
KeysAgree ==
    builderMode = "builder" =>
        /\ context # BadJson
        /\ \/ context = EmptyContext
           \/ KeysOf(context) = FieldKeys(builderFields)
           \/ ~Writable(builderFields)

\* Values that have a type of their own in the builder.
Typed == {v \in JsonValues : ValueOf[JsonTypeOf[v]][JsonTextOf[v]] = v}

FieldCount(fields, k) == Cardinality({i \in DOMAIN fields : fields[i].key = k})

\* A field that is added or removed leaves every other value of the context as it
\* is, those that were typed as JSON included, if the builder has a type for them.
EditsKeepTheRest ==
    [][\A k \in ContextKeys :
          /\ builderMode = "builder" /\ Writable(builderFields)
          /\ builderFields' # builderFields
          /\ FieldCount(builderFields', k) = FieldCount(builderFields, k)
          /\ context[k] \in Typed
          => context'[k] = context[k]]_contextVars
=============================================================================
