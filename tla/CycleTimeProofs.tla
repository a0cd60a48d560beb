--------------------------- MODULE CycleTimeProofs ---------------------------
(***************************************************************************)
(* Proofs about CycleTime, for every set of cycle and offset counts within *)
(* the ranges of the register and however long the clock runs: the fields  *)
(* of the register (cycle_time.c:106), and what the completion of a time   *)
(* stamp (cycle_time.c:146) gets right: the four upper bits of the second, *)
(* across both wraps, and the second itself when it is the one in which    *)
(* the register was read.                                                  *)
(***************************************************************************)
EXTENDS CycleTime, TLAPS

\* The register holds the clock at the moment it was read.
RegisterInv == register = Encode(snapshot)

\* Less than eight seconds have passed since then.
WithinInv == clock.sec \in snapshot.sec .. (snapshot.sec + 7)

TimeInv == TypeOK /\ RegisterInv /\ WithinInv

-----------------------------------------------------------------------------
\* Arithmetic of the bit fields, over plain numbers.

\* The halves of the register put together from their bit fields.
Upper(s, u) == s * 2^9 + u
Lower(v, o) == v * 2^12 + o

LEMMA UpperHalf ==
    ASSUME NEW s \in 0..127, NEW u \in 0..499
    PROVE  Upper(s, u) \in Half /\ Upper(s, u) \div 2^9 = s /\ Upper(s, u) % 2^9 = u
  <1>1. s * 2^9 + u \in Half
    BY DEF Half
  <1>2. (s * 2^9 + u) \div 2^9 = s
    OBVIOUS
  <1>3. (s * 2^9 + u) % 2^9 = u
    OBVIOUS
  <1> QED BY <1>1, <1>2, <1>3 DEF Upper

LEMMA LowerHalf ==
    ASSUME NEW v \in 0..15, NEW o \in OffsetCounts
    PROVE  Lower(v, o) \in Half /\ Lower(v, o) \div 2^12 = v /\ Lower(v, o) % 2^12 = o
  <1> USE DEF OffsetCounts
  <1>1. v * 2^12 + o \in Half
    BY DEF Half
  <1>2. (v * 2^12 + o) \div 2^12 = v
    OBVIOUS
  <1>3. (v * 2^12 + o) % 2^12 = o
    OBVIOUS
  <1> QED BY <1>1, <1>2, <1>3 DEF Lower

LEMMA StampArithmetic ==
    ASSUME NEW s \in 0..7, NEW y \in CycleCounts
    PROVE  /\ ((s * 2^13 + y) \div 2^13) % 2^3 = s
           /\ (s * 2^13 + y) % 2^13 = y
  <1>1. (s * 8192 + y) \div 8192 = s /\ (s * 8192 + y) % 8192 = y
    BY DEF CycleCounts
  <1> QED BY <1>1

\* Setting low bits leaves the bits above them.
LEMMA OrLowUpper ==
    ASSUME NEW x \in Nat, NEW y \in Nat
    PROVE  \E l \in 0..7 : OrLow(x, y) = 8 * (x \div 8) + l
  <1>1. PICK k \in Nat : k = x \div 8
    OBVIOUS
  <1>2. PICK i \in {0, 4} : i = IF Bit(x, 2) = 1 \/ Bit(y, 2) = 1 THEN 4 ELSE 0
    OBVIOUS
  <1>3. PICK j \in {0, 2} : j = IF Bit(x, 1) = 1 \/ Bit(y, 1) = 1 THEN 2 ELSE 0
    OBVIOUS
  <1>4. PICK h \in {0, 1} : h = IF Bit(x, 0) = 1 \/ Bit(y, 0) = 1 THEN 1 ELSE 0
    OBVIOUS
  <1>5. OrLow(x, y) = 8 * k + i + j + h
    BY <1>1, <1>2, <1>3, <1>4 DEF OrLow
  <1>6. i + j + h \in 0..7 /\ 8 * k + i + j + h = 8 * k + (i + j + h)
    OBVIOUS
  <1> QED BY <1>1, <1>5, <1>6

\* Setting low bits that are set already changes nothing.
LEMMA OrLowSame ==
    ASSUME NEW x \in Nat
    PROVE  OrLow(x, x % 8) = x
  <1>1. PICK k \in Nat, q \in 0..7 : x = 8 * k + q
    BY x = 8 * (x \div 8) + (x % 8)
  <1>2. x % 8 = q /\ x \div 8 = k
    BY <1>1
  <1>3. /\ (x \div 4) % 2 = (q \div 4) % 2
        /\ (x \div 2) % 2 = (q \div 2) % 2
        /\ x % 2 = q % 2
    BY <1>1
  <1>4. /\ Bit(x, 2) = (q \div 4) % 2 /\ Bit(q, 2) = (q \div 4) % 2
        /\ Bit(x, 1) = (q \div 2) % 2 /\ Bit(q, 1) = (q \div 2) % 2
        /\ Bit(x, 0) = q % 2 /\ Bit(q, 0) = q % 2
    BY <1>3 DEF Bit
  <1>5. q = 4 * ((q \div 4) % 2) + 2 * ((q \div 2) % 2) + (q % 2)
    OBVIOUS
  <1> QED BY <1>1, <1>2, <1>4, <1>5 DEF OrLow

-----------------------------------------------------------------------------
\* Operators.

\* The counts of a clock as plain numbers.
LEMMA Counts ==
    ASSUME NEW c \in Clocks(Nat)
    PROVE  \E s \in Nat, y \in Cycles, o \in Offsets :
                /\ c.sec = s /\ c.cycle = y /\ c.offset = o
                /\ y \in CycleCounts /\ o \in OffsetCounts
  <1>1. PICK s \in Nat, y \in Cycles, o \in Offsets : c.sec = s /\ c.cycle = y /\ c.offset = o
    BY DEF Clocks
  <1>2. y \in CycleCounts
    BY CyclesAssumption
  <1>3. o \in OffsetCounts
    BY OffsetsAssumption
  <1> QED BY <1>1, <1>2, <1>3

\* The clock within its bound is a clock.
LEMMA BoundedClocks == Clocks(0..127) \subseteq Clocks(0..MaxSecond)
                       /\ Clocks(0..MaxSecond) \subseteq Clocks(Nat)
  <1>1. 0..127 \subseteq 0..MaxSecond
    BY MaxSecondAssumption
  <1>2. 0..MaxSecond \subseteq Nat
    BY MaxSecondAssumption
  <1> QED BY <1>1, <1>2, Zenon DEF Clocks

\* Extracting the fields of an encoded clock gives back its counts.
LEMMA EncodeFields ==
    ASSUME NEW c \in Clocks(Nat)
    PROVE  /\ Encode(c) \in Registers
           /\ ToSec(Encode(c)) = c.sec % 128
           /\ ToCycle(Encode(c)) = c.cycle
           /\ ToOffset(Encode(c)) = c.offset
  <1>1. PICK n \in Nat, y \in Cycles : c.sec = n /\ c.cycle = y /\ y \in CycleCounts
    BY Counts
  <1>2. PICK o \in OffsetCounts : c.offset = o
    BY Counts
  <1>3. PICK s \in 0..127 : s = n % 128
    OBVIOUS
  <1>4. PICK u \in 0..499 : u = y \div 2^4
    <2>1. y \in Nat /\ y <= 7999
      BY <1>1 DEF CycleCounts
    <2>2. y \div 2^4 \in Nat /\ y \div 2^4 <= 499
      BY <2>1
    <2> QED BY <2>2
  <1>5. PICK v \in 0..15 : v = y % 2^4
    BY <1>1 DEF CycleCounts
  <1>6. u * 2^4 + v = y
    BY <1>1, <1>4, <1>5 DEF CycleCounts
  <1>7. /\ Upper(s, u) \in Half /\ Upper(s, u) \div 2^9 = s /\ Upper(s, u) % 2^9 = u
        /\ Lower(v, o) \in Half /\ Lower(v, o) \div 2^12 = v /\ Lower(v, o) % 2^12 = o
    <2>1. Upper(s, u) \in Half /\ Upper(s, u) \div 2^9 = s /\ Upper(s, u) % 2^9 = u
      BY UpperHalf
    <2>2. Lower(v, o) \in Half /\ Lower(v, o) \div 2^12 = v /\ Lower(v, o) % 2^12 = o
      BY LowerHalf
    <2> QED BY <2>1, <2>2
  <1>8. Encode(c) = [hi |-> Upper(s, u), lo |-> Lower(v, o)]
    BY <1>1, <1>2, <1>3, <1>4, <1>5 DEF Encode, Upper, Lower
  <1>9. Encode(c) \in Registers /\ Encode(c).hi = Upper(s, u) /\ Encode(c).lo = Lower(v, o)
    BY <1>7, <1>8 DEF Registers
  <1>10. ToSec(Encode(c)) = s /\ ToOffset(Encode(c)) = o
    BY <1>7, <1>9 DEF ToSec, ToOffset
  <1>11. ToCycle(Encode(c)) = y
    BY <1>6, <1>7, <1>9 DEF ToCycle
  <1> QED BY <1>1, <1>2, <1>3, <1>9, <1>10, <1>11

\* The two fields of a time stamp are the low bits of the second and the cycle.
LEMMA StampFields ==
    ASSUME NEW c \in Clocks(Nat)
    PROVE  TstampSec(Stamp(c)) = c.sec % 8 /\ TstampCycle(Stamp(c)) = c.cycle
  <1>1. PICK n \in Nat, y \in Cycles : c.sec = n /\ c.cycle = y /\ y \in CycleCounts
    BY Counts
  <1>2. PICK s \in 0..7 : s = n % 8
    OBVIOUS
  <1>3. Stamp(c) = s * 2^13 + y
    BY <1>1, <1>2 DEF Stamp
  <1> QED BY <1>1, <1>2, <1>3, StampArithmetic DEF TstampSec, TstampCycle

\* The completion, for a register read at s and a stamp taken at c, less than
\* eight seconds later.
LEMMA Completion ==
    ASSUME NEW s \in Clocks(Nat), NEW c \in Clocks(Nat),
           c.sec \in s.sec .. (s.sec + 7),
           NEW z, z = ComputeTstamp(Encode(s), Stamp(c))
    PROVE  /\ z \in IsocCycles
           /\ z[1] \div 8 = (c.sec % 128) \div 8
           /\ z[2] = c.cycle
           /\ s.sec = c.sec => z = <<c.sec % 128, c.cycle>>
  <1>1. PICK n \in Nat : s.sec = n
    BY Counts
  <1>2. PICK m \in Nat, y \in Cycles : c.sec = m /\ c.cycle = y /\ y \in CycleCounts
    BY Counts
  <1>3. PICK d \in 0..7 : m = n + d
    <2>1. m \in n .. (n + 7)
      BY <1>1, <1>2
    <2>2. m - n \in 0..7 /\ m = n + (m - n)
      BY <2>1
    <2> QED BY <2>2
  <1>4. PICK a \in 0..127 : a = n % 128
    OBVIOUS
  <1>5. PICK b \in 0..7 : b = m % 8
    OBVIOUS
  <1>6. PICK x \in Nat : x = a + (IF b < a % 8 THEN 8 ELSE 0)
    OBVIOUS
  <1>7. ToSec(Encode(s)) = a
    BY <1>1, <1>4, EncodeFields, Zenon
  <1>8. TstampSec(Stamp(c)) = b /\ TstampCycle(Stamp(c)) = y
    <2>1. TstampSec(Stamp(c)) = c.sec % 8 /\ TstampCycle(Stamp(c)) = c.cycle
      BY StampFields
    <2> QED BY <1>2, <1>5, <2>1
  <1>9. z = <<OrLow(x, b) % 128, y>>
    BY <1>6, <1>7, <1>8 DEF ComputeTstamp
  <1>10. PICK l \in 0..7 : OrLow(x, b) = 8 * (x \div 8) + l
    <2>1. b \in Nat
      OBVIOUS
    <2> QED BY <2>1, OrLowUpper, Zenon
  <1>11. PICK e \in 0..127 : e = OrLow(x, b) % 128 /\ e \div 8 = (x \div 8) % 16
    <2>1. PICK k \in Nat : k = x \div 8
      OBVIOUS
    <2>2. (8 * k + l) % 128 \in 0..127 /\ ((8 * k + l) % 128) \div 8 = k % 16
      OBVIOUS
    <2> QED BY <1>10, <2>1, <2>2
  <1>12. (x \div 8) % 16 = (m % 128) \div 8
    <2>1. PICK k \in Nat : n = 128 * k + a
      BY <1>4, n = 128 * (n \div 128) + (n % 128), n \div 128 \in Nat
    <2>2. PICK p \in 0..15, q \in 0..7 : a = 8 * p + q
      BY a = 8 * (a \div 8) + (a % 8), a \div 8 \in 0..15, a % 8 \in 0..7
    <2>3. a % 8 = q /\ a \div 8 = p
      BY <2>2
    <2>4. CASE q + d < 8
      <3>1. b = q + d
        BY <1>3, <1>5, <2>1, <2>2, <2>4
      <3>2. ~(b < a % 8)
        BY <2>3, <3>1
      <3>3. m % 128 = 8 * p + (q + d)
        BY <1>3, <2>1, <2>2, <2>4
      <3>4. (m % 128) \div 8 = p
        BY <2>4, <3>3
      <3> QED BY <1>6, <2>3, <3>2, <3>4
    <2>5. CASE q + d >= 8
      <3>1. b = q + d - 8
        BY <1>3, <1>5, <2>1, <2>2, <2>5
      <3>2. b < a % 8
        BY <2>3, <3>1
      <3>3. (a + 8) \div 8 = p + 1
        BY <2>2
      <3>4. CASE p < 15
        <4>1. m % 128 = 8 * (p + 1) + b
          BY <1>3, <2>1, <2>2, <2>5, <3>1, <3>4
        <4>2. (m % 128) \div 8 = p + 1
          BY <4>1
        <4> QED BY <1>6, <3>2, <3>3, <3>4, <4>2
      <3>5. CASE p = 15
        <4>1. m % 128 = b
          BY <1>3, <2>1, <2>2, <2>5, <3>1, <3>5
        <4>2. (m % 128) \div 8 = 0
          BY <4>1
        <4> QED BY <1>6, <3>2, <3>3, <3>5, <4>2
      <3> QED BY <3>4, <3>5
    <2> QED BY <2>4, <2>5
  <1>13. n = m => e = m % 128
    <2> SUFFICES ASSUME n = m PROVE e = m % 128
      OBVIOUS
    <2>1. b = a % 8
      BY <1>4, <1>5
    <2>2. x = a
      BY <1>6, <2>1
    <2>3. OrLow(x, b) = a
      BY <2>1, <2>2, OrLowSame
    <2> QED BY <1>4, <1>11, <2>3
  <1>14. z = <<e, y>>
    BY <1>9, <1>11
  <1>15. z[1] = e /\ z[2] = y
    BY <1>14
  <1>16. z \in IsocCycles
    <2>1. y \in CycleCounts
      BY <1>2
    <2> QED BY <1>14, <2>1 DEF IsocCycles
  <1> QED BY <1>1, <1>2, <1>11, <1>12, <1>13, <1>14, <1>15, <1>16

-----------------------------------------------------------------------------
\* The invariant is inductive.
LEMMA TimeInit == Init => TimeInv
  <1> SUFFICES ASSUME Init PROVE TimeInv
    OBVIOUS
  <1>1. clock \in Clocks(Nat) /\ clock \in Clocks(0..MaxSecond)
    BY BoundedClocks DEF Init
  <1>2. clock.sec \in Nat
    BY <1>1 DEF Clocks
  <1> QED BY <1>1, <1>2, EncodeFields DEF Init, TimeInv, TypeOK, RegisterInv, WithinInv

LEMMA TimeNext == TimeInv /\ [Next]_vars => TimeInv'
  <1> SUFFICES ASSUME TimeInv, [Next]_vars PROVE TimeInv'
    OBVIOUS
  <1> USE DEF TimeInv
  <1>1. clock \in Clocks(Nat) /\ snapshot \in Clocks(Nat)
    BY BoundedClocks, Zenon DEF TypeOK
  <1>2. CASE Read
    <2>1. register' \in Registers
      BY <1>1, <1>2, EncodeFields DEF Read
    <2> QED BY <1>1, <1>2, <2>1 DEF Read, TypeOK, RegisterInv, WithinInv
  <1>3. CASE Pass
    <2>1. clock' \in Clocks(0..MaxSecond) /\ clock'.sec \in snapshot.sec .. (snapshot.sec + 7)
      BY <1>1, <1>3 DEF Pass, Clocks
    <2> QED BY <1>3, <2>1 DEF Pass, TypeOK, RegisterInv, WithinInv
  <1>4. CASE Compute
    <2>1. computed' \in IsocCycles
      BY <1>1, <1>4, Completion, Zenon DEF Compute, RegisterInv, WithinInv
    <2> QED BY <1>4, <2>1 DEF Compute, TypeOK, RegisterInv, WithinInv
  <1>5. CASE UNCHANGED vars
    BY <1>5 DEF vars, TypeOK, RegisterInv, WithinInv
  <1> QED BY <1>2, <1>3, <1>4, <1>5 DEF Next

LEMMA TimeAlways == Spec => []TimeInv
  BY TimeInit, TimeNext, PTL DEF Spec

-----------------------------------------------------------------------------
\* The register keeps 32 bits, and what hinawa_cycle_time_compute_tstamp() returns
\* is "up to 127" and "up to 7,999" (cycle_time.c:139-142).
THEOREM TypeCorrect == Spec => []TypeOK
  <1>1. TimeInv => TypeOK
    BY DEF TimeInv
  <1> QED BY <1>1, TimeAlways, PTL

\* hinawa_cycle_time_get_fields() (cycle_time.c:106) gives the second, cycle and
\* offset of the clock at which the register was read, and
\* hinawa_cycle_time_parse_tstamp() (cycle_time.c:183) the low bits of the second and
\* the cycle at which a time stamp was taken.
THEOREM FieldsSafe == Spec => []FieldsOfRegister
  <1>1. TimeInv => FieldsOfRegister
    <2> SUFFICES ASSUME TimeInv PROVE FieldsOfRegister
      OBVIOUS
    <2>1. snapshot \in Clocks(Nat)
      BY BoundedClocks, Zenon DEF TimeInv, TypeOK
    <2>2. GetFields(register) = <<snapshot.sec % 128, snapshot.cycle, snapshot.offset>>
      BY <2>1, EncodeFields DEF TimeInv, RegisterInv, GetFields
    <2>3. clock \in Clocks(Nat)
      BY BoundedClocks, Zenon DEF TimeInv, TypeOK
    <2>4. ParseTstamp(Stamp(clock)) = <<clock.sec % 8, clock.cycle>>
      BY <2>3, StampFields DEF ParseTstamp
    <2> QED BY <2>2, <2>4 DEF FieldsOfRegister
  <1> QED BY <1>1, TimeAlways, PTL

\* Within eight seconds hinawa_cycle_time_compute_tstamp() (cycle_time.c:146) gets
\* the upper four bits of the second and the cycle right, whether or not the low
\* three bits, or the register itself, have wrapped.
THEOREM UpperSecondSafe == Spec => UpperSecondExact
  <1>1. TimeInv /\ [Next]_vars =>
            [Compute => /\ computed'[1] \div 8 = (clock.sec % 128) \div 8
                        /\ computed'[2] = clock.cycle]_vars
    <2> SUFFICES ASSUME TimeInv, Compute
                 PROVE  /\ computed'[1] \div 8 = (clock.sec % 128) \div 8
                        /\ computed'[2] = clock.cycle
      OBVIOUS
    <2>1. clock \in Clocks(Nat) /\ snapshot \in Clocks(Nat)
      BY BoundedClocks, Zenon DEF TimeInv, TypeOK
    <2> QED BY <2>1, Completion DEF Compute, TimeInv, RegisterInv, WithinInv
  <1> QED BY <1>1, TimeAlways, PTL DEF Spec, UpperSecondExact

\* A time stamp of the second in which the register was read is completed to that
\* very second (cycle_time.c:159-163).
THEOREM SameSecondSafe == Spec => ExactInSameSecond
  <1>1. TimeInv /\ [Next]_vars =>
            [Compute => (snapshot.sec = clock.sec =>
                            computed' = <<clock.sec % 128, clock.cycle>>)]_vars
    <2> SUFFICES ASSUME TimeInv, Compute, snapshot.sec = clock.sec
                 PROVE  computed' = <<clock.sec % 128, clock.cycle>>
      OBVIOUS
    <2>1. clock \in Clocks(Nat) /\ snapshot \in Clocks(Nat)
      BY BoundedClocks, Zenon DEF TimeInv, TypeOK
    <2> QED BY <2>1, Completion DEF Compute, TimeInv, RegisterInv, WithinInv
  <1> QED BY <1>1, TimeAlways, PTL DEF Spec, ExactInSameSecond
=============================================================================
