------------------------ MODULE MCPoltreeAuthorizer ------------------------
(***************************************************************************)
(* PoltreeAuthorizer for TLC: the server starts with policies that cannot  *)
(* be indexed, or with a complete deployment, and one client replaces      *)
(* policies and entities under the readers.                                *)
(***************************************************************************)
EXTENDS MCCedarAgent, PoltreeAuthorizer

ColdStart == {SlowFiles, AllFiles}

PoltreeTraffic ==
    {UpdateP("p", "slow"), UpdateP("p", "any"), DeleteP("p"), CreateP("q", "any"),
     PutOne(Bare("a"), Row(User("a"), "hr"), TRUE), DropOne(Bare("a"), FALSE)}
=============================================================================
