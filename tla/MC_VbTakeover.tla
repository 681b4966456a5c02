--------------------------- MODULE MC_VbTakeover ---------------------------
(* Model-checking instances of VbTakeover.  Two eventing nodes with two   *)
(* workers each and three vbuckets: joining node 2 moves vbucket 1        *)
(* between the workers of node 1 and vbucket 2 from node 1 to node 2.     *)
EXTENDS VbTakeover

MC_Nodes          == {1, 2}
MC_OneMember      == {1}
MC_BothMembers    == {1, 2}
MC_ThreeNodes     == {1, 2, 3}
MC_NodeThree      == {3}

=============================================================================
