---------------------------- MODULE MCReadPaths ----------------------------
(***************************************************************************)
(* The two kinds of readers beside the mutation path, one of which is      *)
(* there: the requests of PoltreeAuthorizer, or the databases of           *)
(* Invalidation.  Two databases share the mutex of their kind, the lists   *)
(* disable one of them, or name both alike (accepted from the environment  *)
(* only).                                                                  *)
(***************************************************************************)
EXTENDS MCPoltreeAuthorizer, Invalidation

VARIABLE readers            \* "poltree" or "databases"

Target(n, k, d, on) == [name |-> n, kind |-> k, dsn |-> d, enabled |-> on]
MCDatabases == {"d1", "d2"}
AllEnabled == {Target("t1", "postgres", "d1", TRUE), Target("t2", "postgres", "d2", TRUE)}
MCTargetLists ==
    {AllEnabled,
     {Target("t1", "postgres", "d1", FALSE), Target("t2", "postgres", "d2", TRUE)},
     {Target("t1", "mysql", "d1", TRUE), Target("t1", "postgres", "d2", TRUE)}}

\* Policy and entity changes, of clients and of the extension of a database.
DatabaseTraffic ==
    {CreateP("q", "any"), DeleteP("q"),
     PutOne(Bare("a"), Row(User("a"), "hr"), TRUE), DropOne(Bare("a"), TRUE),
     DropOne(Bare("a"), FALSE)}

ReadPathsTraffic == PoltreeTraffic \cup DatabaseTraffic

ReadPathsInit ==
    /\ readers \in {"poltree", "databases"}
    /\ PInit /\ InvalidationInit
    /\ IF readers = "databases" THEN schema # EmptySchema ELSE targets = AllEnabled

ReadPathsNext ==
    \/ /\ readers = "poltree" /\ PNext /\ UNCHANGED <<readers, ivars, dvars>>
       /\ \A c \in Clients : req'[c] \in PoltreeTraffic \cup {Absent}
    \/ /\ readers = "databases" /\ InvalidationNext /\ UNCHANGED <<readers, rvars>>
       /\ \A c \in Clients : req'[c] \in DatabaseTraffic \cup {Absent}
       /\ asked'["d2"] = Absent

ReadPathsSpec ==
    ReadPathsInit /\ [][ReadPathsNext]_<<readers, allvars, rvars>> /\ InvalidationFairness
=============================================================================
