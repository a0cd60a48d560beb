----------------------------- MODULE MCCycleTime -----------------------------
(* Small instances of CycleTime for TLC: every second of the register, and the
   edges of the cycle and offset counts. *)
EXTENDS CycleTime

EdgeCycles == {0, 4097, 7999}
EdgeOffsets == {0, 3071}
=============================================================================
