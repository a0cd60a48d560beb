--------------------------- MODULE MCFwTransaction ---------------------------
(* Small instances of FwTransaction for TLC. *)
EXTENDS FwTransaction, TLC

CONSTANTS t1, t2, r1, r2, r3

OneThread == {t1}
TwoThreads == {t1, t2}
TwoReqs == {r1, r2}
ThreeReqs == {r1, r2, r3}
TransactionOnly == {"transaction"}
BothKinds == {"transaction", "request"}
CompleteOnly == {"COMPLETE"}
TwoRcodes == {"COMPLETE", "BUSY"}
ThreeRcodes == {"COMPLETE", "BUSY", "RESERVED"}

\* Which thread is which, and which object, makes no difference.
Symmetric == Permutations(Threads) \cup Permutations(Reqs)
=============================================================================
