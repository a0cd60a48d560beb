--------------------------- MODULE MCFcpTransaction ---------------------------
(* Small instances of FcpTransaction for TLC. *)
EXTENDS FcpTransaction

CONSTANTS t1, t2

OneThread == {t1}
TwoThreads == {t1, t2}
OneCall == [t \in Threads |-> 1]
TwoCalls == [t \in Threads |-> IF t = t1 THEN 2 ELSE 1]
SameCode == [c \in Calls |-> "power"]
\* The second call of t1 differs from its first, which is like that of t2.
TwoCodes == [c \in Calls |-> IF c[2] = 2 THEN "unit_info" ELSE "power"]
OneSize == {1}
TwoSizes == {1, 2}
=============================================================================
