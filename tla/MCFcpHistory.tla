---------------------------- MODULE MCFcpHistory ----------------------------
(* Small instances of FcpHistory for TLC: two nodes that swap their IDs. *)
EXTENDS FcpHistory, TLC

CONSTANTS n1, n2

TwoNodes == {n1, n2}
TwoIds == {1, 2}
Symmetric == Permutations(Nodes)
=============================================================================
