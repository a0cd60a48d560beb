------------------------------ MODULE CycleTime ------------------------------
(***************************************************************************)
(* HinawaCycleTime (cycle_time.c): the fields of the CYCLE_TIME register   *)
(* of 1394 OHCI (7 bits of second, 13 of cycle, 12 of offset), and the     *)
(* completion of a 16 bit time stamp of OHCI (3 bits of second, 13 of      *)
(* cycle) by the seconds of a register value read before.                  *)
(*                                                                         *)
(* The 32 bit register is the pair of its 16 bit halves, for the integers  *)
(* of TLC have 32 bits with a sign.                                        *)
(***************************************************************************)
EXTENDS Naturals

CONSTANTS
    Cycles,         \* values of the cycle count the clock takes
    Offsets,        \* values of the offset count the clock takes
    MaxSecond       \* bound: seconds of the clock, past the wrap of the register

CycleCounts == 0..7999
OffsetCounts == 0..3071

ASSUME CyclesAssumption == Cycles \subseteq CycleCounts
ASSUME OffsetsAssumption == Offsets \subseteq OffsetCounts
ASSUME MaxSecondAssumption == MaxSecond \in Nat /\ MaxSecond >= 128

VARIABLES
    clock,          \* the bus clock: its seconds are not wrapped
    snapshot,       \* history: the clock when the register was read
    register,       \* self->cycle_timer
    computed        \* isoc_cycle[] of the last time stamp computed, or <<>>

vars == <<clock, snapshot, register, computed>>

-----------------------------------------------------------------------------
\* External: what the hardware does.  The register wraps after 128 seconds, a
\* time stamp after 8.
Encode(c) == LET s == c.sec % 128
             IN  [hi |-> s * 2^9 + c.cycle \div 2^4, lo |-> (c.cycle % 2^4) * 2^12 + c.offset]
Stamp(c) == (c.sec % 8) * 2^13 + c.cycle

-----------------------------------------------------------------------------
\* ieee1394_cycle_time_to_sec(), _cycle() and _offset().
ToSec(r) == r.hi \div 2^9

\* Mutant: the mask of the cycle field loses its highest bit.
ToCycleNarrow(r) == (r.hi % 2^8) * 2^4 + r.lo \div 2^12

ToCycle(r) == (r.hi % 2^9) * 2^4 + r.lo \div 2^12
ToOffset(r) == r.lo % 2^12

\* hinawa_cycle_time_get_fields().
GetFields(r) == <<ToSec(r), ToCycle(r), ToOffset(r)>>

TstampSec(ts) == (ts \div 2^13) % 2^3
TstampCycle(ts) == ts % 2^13

\* hinawa_cycle_time_parse_tstamp().
ParseTstamp(ts) == <<TstampSec(ts), TstampCycle(ts)>>

\* x | y for a y of three bits.
Bit(n, i) == (n \div 2^i) % 2
OrLow(x, y) ==
    8 * (x \div 8)
        + (IF Bit(x, 2) = 1 \/ Bit(y, 2) = 1 THEN 4 ELSE 0)
        + (IF Bit(x, 1) = 1 \/ Bit(y, 1) = 1 THEN 2 ELSE 0)
        + (IF Bit(x, 0) = 1 \/ Bit(y, 0) = 1 THEN 1 ELSE 0)

\* Mutant: the second is not wrapped.
ComputeTstampNoWrap(r, ts) ==
    LET up == IF TstampSec(ts) < ToSec(r) % 8 THEN 8 ELSE 0
    IN  <<OrLow(ToSec(r) + up, TstampSec(ts)), TstampCycle(ts)>>

\* Mutant: no round up.
ComputeTstampNoRound(r, ts) ==
    <<OrLow(ToSec(r), TstampSec(ts)) % 128, TstampCycle(ts)>>

\* Mutant: the low bits are toggled, x ^ y for x | y.
XorLow(x, y) ==
    8 * (x \div 8) + 4 * ((Bit(x, 2) + Bit(y, 2)) % 2) + 2 * ((Bit(x, 1) + Bit(y, 1)) % 2)
        + ((Bit(x, 0) + Bit(y, 0)) % 2)

ComputeTstampToggled(r, ts) ==
    LET up == IF TstampSec(ts) < ToSec(r) % 8 THEN 8 ELSE 0
    IN  <<XorLow(ToSec(r) + up, TstampSec(ts)) % 128, TstampCycle(ts)>>

\* hinawa_cycle_time_compute_tstamp(): the low bits of the second of the register
\* are not cleared before those of the time stamp are set.
ComputeTstamp(r, ts) ==
    LET up == IF TstampSec(ts) < ToSec(r) % 8 THEN 8 ELSE 0
    IN  <<OrLow(ToSec(r) + up, TstampSec(ts)) % 128, TstampCycle(ts)>>

-----------------------------------------------------------------------------
Clocks(seconds) == [sec: seconds, cycle: Cycles, offset: Offsets]

Init ==
    /\ clock \in Clocks(0..127)
    /\ snapshot = clock
    /\ register = Encode(clock)
    /\ computed = <<>>

\* hinawa_fw_node_read_cycle_time().
Read ==
    /\ snapshot' = clock
    /\ register' = Encode(clock)
    /\ computed' = <<>>
    /\ UNCHANGED clock

\* Time passes: less than 8 seconds since the register was read, "the timing
\* between receipt of time stamp and access to CYCLE_TIME register is within 8
\* seconds".
Pass ==
    /\ clock' \in Clocks(snapshot.sec .. (snapshot.sec + 7))
    /\ clock'.sec >= clock.sec /\ clock'.sec <= MaxSecond
    /\ computed' = <<>>
    /\ UNCHANGED <<snapshot, register>>

\* A context of OHCI stamps a packet now, and the application computes it.
Compute ==
    /\ computed' = ComputeTstamp(register, Stamp(clock))
    /\ UNCHANGED <<clock, snapshot, register>>

Next == Read \/ Pass \/ Compute

Spec == Init /\ [][Next]_vars

-----------------------------------------------------------------------------
Half == 0..(2^16 - 1)
Registers == [hi: Half, lo: Half]
IsocCycles == (0..127) \X CycleCounts

\* The register and the last computed time stamp have their types: "up to 127"
\* and "up to 7,999" (cycle_time.c:139-142).
TypeOK ==
    /\ clock \in Clocks(0..MaxSecond)
    /\ snapshot \in Clocks(0..MaxSecond)
    /\ register \in Registers
    /\ computed \in {<<>>} \cup IsocCycles

\* The three fields of the register are the second, cycle and offset of the
\* clock when it was read (cycle_time.c:106), and the two of a time stamp taken now
\* are the low bits of the second and the cycle of the clock (cycle_time.c:183).
FieldsOfRegister ==
    /\ GetFields(register) = <<snapshot.sec % 128, snapshot.cycle, snapshot.offset>>
    /\ ParseTstamp(Stamp(clock)) = <<clock.sec % 8, clock.cycle>>

\* The upper four bits of the second and the cycle are those of the moment at
\* which the time stamp was taken, within 8 seconds after the register was read,
\* across the wrap of the 3 bits at 8 seconds and of the register at 128
\* (cycle_time.c:159-163).
UpperSecondExact ==
    [][Compute => /\ computed'[1] \div 8 = (clock.sec % 128) \div 8
                  /\ computed'[2] = clock.cycle]_vars

\* A time stamp of the second in which the register was read is completed to that
\* second.
ExactInSameSecond ==
    [][Compute => (snapshot.sec = clock.sec => computed' = <<clock.sec % 128, clock.cycle>>)]_vars
=============================================================================
