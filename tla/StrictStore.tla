---------------------------- MODULE StrictStore ----------------------------
(***************************************************************************)
(* What the mutation API promises (API_DOCUMENTATION.md, "Strict mode"):   *)
(* there is one committed state, each request is applied to it in one step *)
(* between its arrival and its answer, exactly once if the answer is a     *)
(* success and not at all if it is an error.  No lock, no invalidation, no *)
(* rollback: CedarAgent is shown to implement this.                        *)
(***************************************************************************)
CONSTANTS Clients,                  \* clients, each with one request at a time
          Requests,                 \* the mutations they may ask for
          Absent,                   \* no request
          Contained,                \* what the stores may hold
          ContentValid(_),          \* is a state valid under its own schema?
          Accepted(_, _),           \* is a request acceptable in a state?
          Result(_, _),             \* the state it leads to
          SkipsInvalidation(_)      \* is a request applied without invalidation?

VARIABLES committed,        \* the policies, entities and schema
          pending,          \* the request each client waits for
          outcome           \* what each client was last told

avars == <<committed, pending, outcome>>

Init ==
    /\ committed \in Contained
    /\ ContentValid(committed)
    /\ pending = [c \in Clients |-> Absent]
    /\ outcome = [c \in Clients |-> "none"]

Submit(c) ==
    /\ pending[c] = Absent
    /\ \E r \in Requests : pending' = [pending EXCEPT ![c] = r]
    /\ outcome' = [outcome EXCEPT ![c] = "none"]
    /\ UNCHANGED committed

Reply(c, how) ==
    /\ pending' = [pending EXCEPT ![c] = Absent]
    /\ outcome' = [outcome EXCEPT ![c] = how]

Commit(c) ==
    /\ pending[c] # Absent
    /\ Accepted(pending[c], committed)
    /\ committed' = Result(pending[c], committed)
    /\ Reply(c, "ok")

\* An acceptable request fails only because an invalidation did.
Refuse(c) ==
    /\ pending[c] # Absent
    /\ Accepted(pending[c], committed) => ~SkipsInvalidation(pending[c])
    /\ UNCHANGED committed
    /\ Reply(c, "error")

Next == \E c \in Clients : Submit(c) \/ Commit(c) \/ Refuse(c)

Fairness == \A c \in Clients : WF_avars(Commit(c) \/ Refuse(c))

Safety == Init /\ [][Next]_avars

Spec == Safety /\ Fairness
=============================================================================
