------------------------------- MODULE MCFwNode -------------------------------
(* A small instance of FwNode for TLC. *)
EXTENDS FwNode

CONSTANTS s1, s2, t1

TwoSources == {s1, s2}
OneThread == {t1}
=============================================================================
