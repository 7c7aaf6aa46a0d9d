---------------------------- MODULE MCMembership ----------------------------
(* A cluster of one voter that grows by its two learners.                   *)
EXTENDS Membership
MCShrink == {<<"RemoveNode", 1>>, <<"RemoveNode", 2>>}
MCGrow == {<<"AddNode", 2>>, <<"AddNode", 3>>}
=============================================================================
