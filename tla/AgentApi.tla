------------------------------ MODULE AgentApi ------------------------------
(***************************************************************************)
(* The API client of the dashboard (frontend/lib/api.ts) and the agent it  *)
(* talks to.  Each method is one HTTP request: here it is the mutation of  *)
(* Stores the request asks for, or what a GET returns.  The agent behaves  *)
(* as CedarAgent does, seen from outside: one mutation at a time, which it *)
(* refuses, or writes and then either makes final or rolls back.  A GET    *)
(* takes no lock, and so returns what is written, final or not.  An answer *)
(* may get lost, and then the method throws although its mutation is final.*)
(***************************************************************************)
EXTENDS Stores, Naturals, FiniteSets

VARIABLES agent,            \* what the agent stores: [policies, entities, schema]
          agentUndo         \* what it restores if the mutation under way fails

agentVars == <<agent, agentUndo>>

ASSUME AgentApiAssumption == Absent \notin Contained

AgentInit ==
    /\ agent \in Contained
    /\ agentUndo = Absent

-----------------------------------------------------------------------------
(* The methods that change something, by the request they send. *)

createPolicy(id, text) == [op |-> "create_policy", id |-> id, content |-> text]
updatePolicy(id, text) == [op |-> "update_policy", id |-> id, content |-> text]
deletePolicy(id)       == [op |-> "delete_policy", id |-> id]

addEntity(uid)         == [op |-> "add_new_entity", uid |-> uid]

\* Mutant of patchEntityAttributes: a PUT, what is not sent is gone.
putEntityAttributes(uid, attrs) ==
    [op |-> "update_entities", payload |-> {[uid |-> uid, body |-> attrs]}]

\* A PATCH: an attribute that is not sent stays as it is.
patchEntityAttributes(uid, attrs) ==
    [op |-> "patch_entity_attributes", uid |-> uid, attrs |-> attrs]

\* DELETE /data/single/<id>, with the id of the entity and not its type.
deleteSingleEntity(uid) ==
    [op |-> "delete_single_data_entry",
     path |-> [type |-> AnyType, id |-> uid.id], sync |-> FALSE]

updateSchema(s)        == [op |-> "update_schema", schema |-> s]
deleteSchema           == [op |-> "delete_schema"]
addEntityAttribute(t, a, decl) ==
    [op |-> "add_attribute", type |-> t, attr |-> a, decl |-> decl]
deleteEntityAttribute(t, a) ==
    [op |-> "delete_attribute", type |-> t, attr |-> a]

\* Mutant of getPolicies: the path is /data.
getPoliciesOfData == agent.entities

\* The methods that read.
getPolicies == agent.policies
getEntities == agent.entities
getSchema   == agent.schema

-----------------------------------------------------------------------------
(* A call in flight: sent, served with success, or failed. *)

CallOf(r) == [req |-> r, step |-> "sent"]
NumberedCall(r, n) == [req |-> r, step |-> "sent", n |-> n]
InStep(call, step) == call # Absent /\ call.step = step
Pending(call)   == InStep(call, "sent")
Succeeded(call) == InStep(call, "served")
Failed(call)    == InStep(call, "failed")
MaybeApplied(call) == InStep(call, "written") \/ InStep(call, "served")

CallSteps == {"sent", "written", "served", "failed"}
Outcomes(call) == IF call = Absent THEN {} ELSE {[call EXCEPT !.step = s] : s \in CallSteps}

\* By what is stored, the key, the network: any call may fail before it is applied.
Refuses(call, over) == Pending(call) /\ Failed(over) /\ UNCHANGED agentVars

Writes(call, over) ==
    /\ Pending(call) /\ InStep(over, "written")
    /\ agentUndo = Absent
    /\ Accepted(call.req, agent)
    /\ agent' = Result(call.req, agent)
    /\ agentUndo' = agent

\* The answer arrives, or gets lost.
Commits(call, over) ==
    /\ InStep(call, "written") /\ (Succeeded(over) \/ Failed(over))
    /\ agentUndo' = Absent
    /\ UNCHANGED agent

\* An invalidation failed.
RollsBack(call, over) ==
    /\ InStep(call, "written") /\ Failed(over)
    /\ agent' = agentUndo
    /\ agentUndo' = Absent

AgentStep(call, over) ==
    Refuses(call, over) \/ Writes(call, over) \/ Commits(call, over) \/ RollsBack(call, over)

\* The mutation of another client, from its write to its end.
OthersWrite(new) ==
    /\ agentUndo = Absent
    /\ agent' = new
    /\ agentUndo' = agent

OthersCommit   == agentUndo # Absent /\ agentUndo' = Absent /\ UNCHANGED agent
OthersRollBack == agentUndo # Absent /\ agentUndo' = Absent /\ agent' = agentUndo

\* All the agent does, whoever asks for it: CedarAgent is shown to implement this.
AgentNext ==
    \/ \E r \in Requests : Accepted(r, agent) /\ OthersWrite(Result(r, agent))
    \/ OthersCommit
    \/ OthersRollBack

AgentSpec == AgentInit /\ [][AgentNext]_agentVars

\* A number that none of the calls in flight has.
Fresh(calls) == CHOOSE n \in 0..Cardinality(calls) : \A c \in calls : c.n # n

\* A GET in flight, and the same with what the agent had when it served it.
Asked(n) == [n |-> n, step |-> "sent", got |-> Absent]
Answered(f, data) == [n |-> f.n, step |-> "read", got |-> data]
=============================================================================
