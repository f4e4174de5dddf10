------------------------------ MODULE MCForms ------------------------------
(***************************************************************************)
(* Instances of the two editors for TLC, one of which is used.             *)
(* PolicyForm: a type with a namespace, the empty id, bodies that compare  *)
(* a variable or hold braces, and the texts of the documentation and the   *)
(* tests among those other clients have stored.                            *)
(* ContextBuilder: two keys; a value is a number, a text, a list, which    *)
(* the builder takes for a text, or one it cannot write back.              *)
(***************************************************************************)
EXTENDS PolicyForm, ContextBuilder

VARIABLE editor             \* "policy" or "context"

FormsInit == editor \in {"policy", "context"} /\ Init /\ ContextInit
FormsNext ==
    \/ editor = "policy" /\ Next /\ UNCHANGED <<editor, contextVars>>
    \/ editor = "context" /\ ContextNext /\ UNCHANGED <<editor, vars>>
FormsSpec == FormsInit /\ [][FormsNext]_<<editor, vars, contextVars>>

MCTypes == {"User", "App::User", "Action"}
MCBaseName == [t \in MCTypes |-> IF t = "App::User" THEN "User" ELSE t]
MCIds == {"", "a"}

\* owner: principal == User::"a"; shared: resource in [App::User::"a", Action::""];
\* acts: action in [Action::"a"]; record: a body with braces, whose first part is no expression.
MCBodies == {"true", "owner", "shared", "acts", "record", "part"}
MCValidBodies == {"true", "owner", "shared", "acts", "record"}
MCToFirstBrace == [b \in MCBodies |-> IF b = "record" THEN "part" ELSE b]

Ref(t, i) == [type |-> t, id |-> i]
Compares(v, clause) == [w \in Vars |-> IF w = v THEN clause ELSE Nothing]
MCSays ==
    [b \in MCBodies |->
        CASE b = "owner"  -> Compares("principal", Clause("==", <<Ref("User", "a")>>))
          [] b = "shared" -> Compares("resource",
                                 Clause(InList, <<Ref("App::User", "a"), Ref("Action", "")>>))
          [] b = "acts"   -> Compares("action", Clause(InList, <<Ref("Action", "a")>>))
          [] OTHER -> [w \in Vars |-> Nothing]]

Text(p, a, r, conds) ==
    [effect |-> "permit", annotated |-> FALSE, principal |-> p, action |-> a,
     resource |-> r, conditions |-> conds, split |-> FALSE]
When(b)   == [kind |-> "when", body |-> b]
Unless(b) == [kind |-> "unless", body |-> b]

Alice  == Clause("==", <<Ref("User", "a")>>)
View   == Clause("==", <<Ref("Action", "a")>>)
Listed == Clause(InList, <<Ref("Action", "a"), Ref("Action", "")>>)

MCStoredTexts ==
    {Text(Any, Any, Any, <<>>),
     Text(Alice, View, Alice, <<When("true")>>),
     Text(Alice, Clause(InList, <<Ref("Action", "a")>>), Any, <<Unless("true")>>),
     Text(Clause("in", <<Ref("User", "a")>>), Listed, Clause("is", <<>>), <<>>),
     Text(Clause("==", <<Ref("App::User", "a")>>), Any, Clause("in", <<Ref("User", "a")>>), <<>>),
     Text(Any, Any, Any, <<When("true"), When("owner")>>),
     Text(Any, Clause(InList, <<>>), Any, <<Unless("true"), When("shared")>>),
     Text(Clause("is", <<>>), Clause("==", <<Ref("App::User", "a")>>), Any, <<When("record")>>),
     [Text(Alice, Any, Any, <<>>) EXCEPT !.annotated = TRUE]}

MCSchemaTypes == {"User"}
MCSchemaActions == {"a"}
MCKnownIds == [t \in MCTypes |-> IF t = "User" THEN {"a"} ELSE {}]
NoKnownIds == [t \in MCTypes |-> {}]

MCContextKeys == {"ip", "count"}
\* odd: {"__extn": {"fn": "Long", "arg": "[]"}}, which is shown as a Long.
MCJsonValues == {"number", "text", "list", "odd"}
MCTypeOf == [v \in MCJsonValues |-> IF v \in {"number", "odd"} THEN "Long" ELSE "String"]
MCTextOf == [v \in MCJsonValues |-> IF v = "number" THEN "1" ELSE "[]"]
MCValueOf ==
    [type \in {"Long", "String"} |->
        [text \in {"1", "[]"} |->
            CASE type = "String" -> "text"
              [] type = "Long" /\ text = "1" -> "number"
              [] OTHER -> NoValue]]
MCSchemaType == [k \in MCContextKeys |-> IF k = "count" THEN "Long" ELSE "String"]
=============================================================================
