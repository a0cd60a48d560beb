------------------------------- MODULE MCFwResp -------------------------------
(* A small instance of FwResp for TLC. *)
EXTENDS FwResp

CONSTANTS n1, n2

TwoNodes == {n1, n2}
ThreeHandles == {1, 2, 3}
TwoWidths == {1, 2}
OneRcode == {"COMPLETE"}
AllAbis == {3, 5, 6}
=============================================================================
