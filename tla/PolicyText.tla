----------------------------- MODULE PolicyText -----------------------------
(***************************************************************************)
(* How the dashboard turns a Cedar policy into the fields of its policy    *)
(* form and back (frontend/lib/api.ts), and which texts the agent parses.  *)
(*                                                                         *)
(* A text is a record of its parts: the effect, a clause for each of       *)
(* principal, action and resource, and the conditions.  A clause is an     *)
(* operator and the entities it names; the operators "in" and "in [" tell  *)
(* an entity from a list.  The conversion from text uses regular           *)
(* expressions on the WHOLE text, so a comparison in the body of a         *)
(* condition counts as well: Says[b] is the clause a body contains for a   *)
(* variable.  Spaces are as the dashboard and the documentation write them. *)
(***************************************************************************)
EXTENDS Sequences, FiniteSetsExt

CONSTANTS Types,            \* entity type names, with or without a namespace
          BaseName,         \* [Types -> Types], a type without its namespace
          ActionType,       \* the type Action
          Ids,              \* entity ids
          EmptyId,          \* the empty string, an id
          Bodies,           \* condition bodies
          ValidBodies,      \* the bodies that are Cedar expressions
          ToFirstBrace,     \* [Bodies -> Bodies], a body up to its first }
          Says,             \* [Bodies -> [Vars -> Clauses]]
          None              \* undefined

Vars    == {"principal", "action", "resource"}
Effects == {"permit", "forbid"}
Refs    == [type : Types, id : Ids]
Conditions == [kind : {"when", "unless"}, body : Bodies]

InList    == "in ["
NotIn     == "not in"
NotInList == "not in ["
ClauseOps == {"any", "nothing", "==", "!=", "in", InList, NotIn, NotInList, "is"}

Clause(op, refs) == [op |-> op, refs |-> refs]
Any     == Clause("any", <<>>)      \* the variable alone
Nothing == Clause("nothing", <<>>)  \* not even the variable

Scope(op, entity, entities) == [op |-> op, entity |-> entity, entities |-> entities]
AllScope == Scope("All", None, None)

-----------------------------------------------------------------------------
(* convertFromCedarPolicy *)

\* What the text says of variable v, in the order of the text.
Mentions(text, v) ==
    <<text[v]>> \o [i \in 1 .. Len(text.conditions) |-> Says[text.conditions[i].body][v]]

Contains(text, v, ops) ==
    \E i \in 1 .. Len(Mentions(text, v)) : Mentions(text, v)[i].op \in ops

Plain(ref) == BaseName[ref.type] = ref.type /\ ref.id # EmptyId

Matches(c, written, types) ==
    /\ c.op = written
    /\ Len(c.refs) = 1
    /\ Plain(c.refs[1])
    /\ c.refs[1].type \in types

\* The first match of /v op (\w+)::"([^"]+)"/, with the brackets of a list.
ReadEntity(text, v, written, op, types) ==
    LET said == Mentions(text, v)
        hits == {i \in DOMAIN said : Matches(said[i], written, types)}
    IN  IF hits = {} THEN AllScope ELSE Scope(op, said[Min(hits)].refs[1], None)

ReadPrincipal(text) ==
    CASE Contains(text, "principal", {"=="}) ->
             ReadEntity(text, "principal", "==", "==", Types)
      [] ~Contains(text, "principal", {"=="}) /\ Contains(text, "principal", {"!="}) ->
             ReadEntity(text, "principal", "!=", "!=", Types)
      [] OTHER -> ReadEntity(text, "principal", InList, "in", Types)

\* The elements of s at the indices is, in their order.
At(s, is) ==
    LET Rank(i) == Cardinality({j \in is : j <= i})
    IN  [k \in 1 .. Cardinality(is) |-> s[CHOOSE i \in is : Rank(i) = k]]

\* The entities (\w+)::"([^"]+)" finds in a list: a namespace is cut off, an entity
\* with an empty id is passed over.
FoundIn(refs) ==
    LET found == At(refs, {i \in DOMAIN refs : refs[i].id # EmptyId})
    IN  [i \in DOMAIN found |-> [type |-> BaseName[found[i].type], id |-> found[i].id]]

\* The first list after v.
ReadList(text, v, op) ==
    LET said == Mentions(text, v)
        lists == {i \in DOMAIN said : said[i].op = op /\ said[i].refs # <<>>}
    IN  IF lists = {} THEN <<>> ELSE FoundIn(said[Min(lists)].refs)

\* Mutant of ReadAction: a list of actions is not read.
ReadActionWithoutLists(text) ==
    IF Contains(text, "action", {"=="})
    THEN ReadEntity(text, "action", "==", "==", {ActionType})
    ELSE AllScope

ReadAction(text) ==
    LET list == ReadList(text, "action", InList)
        found == At(list, {i \in DOMAIN list : list[i].type = ActionType})
    IN  IF Contains(text, "action", {"=="})
        THEN ReadEntity(text, "action", "==", "==", {ActionType})
        ELSE IF found = <<>> THEN AllScope ELSE Scope("in", None, found)

\* "For now, we'll take the first resource type and all IDs."
OfFirstType(refs) ==
    [i \in 1 .. Len(refs) |-> [type |-> refs[1].type, id |-> refs[i].id]]

ReadResource(text) ==
    LET List(op, written) ==
            LET refs == ReadList(text, "resource", written)
            IN  IF refs = <<>> THEN AllScope ELSE Scope(op, None, OfFirstType(refs))
    IN  CASE Contains(text, "resource", {"=="}) ->
                 ReadEntity(text, "resource", "==", "==", Types)
          [] ~Contains(text, "resource", {"=="}) /\ Contains(text, "resource", {"!="}) ->
                 ReadEntity(text, "resource", "!=", "!=", Types)
          [] ~Contains(text, "resource", {"==", "!="})
             /\ Contains(text, "resource", {"in", InList}) -> List("in", InList)
          [] OTHER -> List(NotIn, NotInList)

FirstCondition(conditions, kind) ==
    LET hits == {i \in DOMAIN conditions : conditions[i].kind = kind}
    IN  IF hits = {} THEN <<>>
        ELSE <<[kind |-> kind, body |-> ToFirstBrace[conditions[Min(hits)].body]]>>

\* Mutant of ReadConditions: "unless" is not read.
ReadWhen(text) == FirstCondition(text.conditions, "when")

\* The first condition of each kind, "when" first.
ReadConditions(text) ==
    FirstCondition(text.conditions, "when") \o FirstCondition(text.conditions, "unless")

\* Mutant of ReadEffect: the branches are swapped.
ReadEffectSwapped(text) ==
    IF text.annotated \/ text.effect = "permit" THEN "forbid" ELSE "permit"

\* A text that does not start with "permit", an annotated one for instance, is
\* read as forbid.
ReadEffect(text) == IF text.annotated THEN "forbid" ELSE text.effect

FromText(text) ==
    [effect |-> ReadEffect(text), principal |-> ReadPrincipal(text),
     action |-> ReadAction(text), resource |-> ReadResource(text),
     conditions |-> ReadConditions(text)]

-----------------------------------------------------------------------------
(* convertToCedarPolicy *)

\* Mutant of ListOp: the brackets are forgotten.
ListOpBare(op) == op

ListOp(op) == IF op = "in" THEN InList ELSE NotInList

\* A scope with an operator and no entity writes nothing.
WriteScope(scope) ==
    LET written == IF scope.op \in {"in", NotIn} THEN ListOp(scope.op) ELSE scope.op
    IN  CASE scope.op = "All" -> Any
          [] scope.op \in {"in", NotIn} /\ scope.entities # None ->
                 Clause(written, scope.entities)
          [] scope.op # "All" /\ scope.entities = None /\ scope.entity # None ->
                 Clause(written, <<scope.entity>>)
          [] OTHER -> Nothing

\* An action is written as Action::"id" whatever its type, and never with the
\* operators != and not in.
WriteAction(scope) ==
    LET AsAction(ref) == [type |-> ActionType, id |-> ref.id]
        clause == WriteScope(scope)
    IN  IF scope.op \in {"All", "==", "in"}
        THEN Clause(clause.op, [i \in 1 .. Len(clause.refs) |-> AsAction(clause.refs[i])])
        ELSE Nothing

\* Every condition ends with a semicolon of its own.
ToText(form) ==
    [effect |-> form.effect, annotated |-> FALSE,
     principal |-> WriteScope(form.principal),
     action |-> WriteAction(form.action),
     resource |-> WriteScope(form.resource),
     conditions |-> form.conditions,
     split |-> Len(form.conditions) > 1]

-----------------------------------------------------------------------------
(* What the agent parses (the Cedar library): an entity or a type after     *)
(* principal and resource, an entity or a list of them after action, and    *)
(* one semicolon, after the last condition.                                 *)

ClauseParses(v, clause) ==
    \/ clause.op \in {"any", "==", "in"}
    \/ clause.op = InList /\ v = "action"
    \/ clause.op = "is" /\ v # "action"

Parses(text) ==
    /\ \A v \in Vars : ClauseParses(v, text[v])
    /\ \A i \in 1 .. Len(text.conditions) : text.conditions[i].body \in ValidBodies
    /\ ~text.split

-----------------------------------------------------------------------------
\* What the agent has stored: one entity after ==, != and in.
IsClause(c) ==
    /\ c \in [op : ClauseOps, refs : Seq(Refs)]
    /\ c.op \in {"==", "!=", "in"} => Len(c.refs) = 1

IsText(text) ==
    /\ text.effect \in Effects
    /\ text.annotated \in BOOLEAN
    /\ \A v \in Vars : IsClause(text[v])
    /\ text.conditions \in Seq(Conditions)

ASSUME PolicyTextAssumption ==
    /\ ActionType \in Types
    /\ EmptyId \in Ids
    /\ BaseName \in [Types -> Types]
    /\ \A t \in Types : BaseName[BaseName[t]] = BaseName[t]
    /\ ValidBodies \subseteq Bodies
    /\ ToFirstBrace \in [Bodies -> Bodies]
    /\ \A b \in Bodies : ToFirstBrace[ToFirstBrace[b]] = ToFirstBrace[b]
    /\ \A b \in Bodies, v \in Vars : IsClause(Says[b][v])
    /\ None \notin Refs /\ None \notin Seq(Refs)
=============================================================================
