------------------------------- MODULE MCSci --------------------------------
(***************************************************************************)
(* SCI as a whole, on small instances: the tree and its groups             *)
(* (SciGroups), and one of the connections it is made of with its recovery *)
(* (SciLink).  While connections are sound the tree takes a connection for *)
(* a queue (pipe); so either the application calls SCI and no connection   *)
(* breaks, or connections break and no group changes.                      *)
(***************************************************************************)
EXTENDS SciGroups, SciLink

(* One agent with two back ends, which is all FanOut lets it have. *)
MCTree == [a \in {-2} |-> {0, 1}]
MCAgents == {-2, -3}
MCNodes == {-1} \cup MCAgents
MCBackEnds == {0, 1, 2, 4}
MCLists == {{0, 2}, {1}}
MCWanted == {-1, 4}

(* The calls are free in their arguments: which groups, back ends and      *)
(* operators.                                                              *)
MCPlans ==
  { <<"GROUP_CREATE", "BE_REMOVE", "GROUP_FREE">>,
    <<"BE_ADD", "GROUP_CREATE", "GROUP_OPERATE">>,
    <<"BE_ADD", "GROUP_CREATE", "GROUP_FREE">>,
    <<"BE_ADD", "GROUP_OPERATE_EXT", "BE_REMOVE">>,
    <<"BE_ADD", "BE_ADD", "BE_REMOVE">>,
    <<"BE_REMOVE", "BE_REMOVE", "BE_ADD">>,
    <<"GROUP_CREATE", "GROUP_OPERATE", "BE_REMOVE">> }

(* One of the sides sends, or both do; or the connection is left alone. *)
Load(p, c, b, d) == [parent |-> p, child |-> c, breaks |-> b, drops |-> d]
Quiet == Load(0, 0, 0, -1)
MCLoads ==
  {Quiet, Load(1, 0, 2, -1), Load(2, 0, 1, -1), Load(0, 0, 3, -1), Load(1, 1, 1, 1), Load(0, 1, 2, 1)}

SciInit ==
  /\ Init /\ LinkInit
  /\ load = Quiet \/ plan = CHOOSE p \in Plans : TRUE

SciNext ==
  \/ load = Quiet /\ Next /\ UNCHANGED linkVars
  \/ LinkNext /\ UNCHANGED vars

SciSpec == SciInit /\ [][SciNext]_<<vars, linkVars>> /\ LinkFairness
=============================================================================
