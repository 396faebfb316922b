------------------------------ MODULE SoftFloat ------------------------------
(***************************************************************************)
(* SoftFloat (src/include/pgm/softfloat.hpp): the type of the slopes, a    *)
(* signed exponent and a mantissa whose leading one is implied. The number *)
(* [exp, mant] is (1 + mant / 2^MANT_BITS) * 2^exp, so none is zero.       *)
(*                                                                         *)
(* MANT_BITS is 23 in the code, a uint64_t has 64 bits and an int 32; the  *)
(* masks and counts are written in terms of these three. A number next to  *)
(* * or / is an int first: the keys and distances the program passes there *)
(* lose their upper bits, and with them a sign may appear.                 *)
(***************************************************************************)
EXTENDS Integers, FiniteSets, FiniteSetsExt

CONSTANTS MANT_BITS, WORD_BITS, INT_BITS

ASSUME WidthsAssumption ==
    /\ MANT_BITS \in Nat /\ MANT_BITS >= 3
    /\ WORD_BITS \in Nat /\ 2 * MANT_BITS + 2 <= WORD_BITS
    /\ INT_BITS \in Nat \ {0} /\ INT_BITS <= WORD_BITS

MANT_HIDE == 2^MANT_BITS
MANT_UPPER == 2 * MANT_HIDE

\* Conversions to int8_t, to int, and to uint64_t.
int8(e) == ((e + 128) % 256) - 128
int(x) == ((x + 2^(INT_BITS - 1)) % 2^INT_BITS) - 2^(INT_BITS - 1)
uint64(x) == x % 2^WORD_BITS

\* The bits of a number at and above position i.
ShiftRight(m, i) == m \div 2^i
BitOf(m, i) == ShiftRight(m, i) % 2

\* How many shifts bring m below MANT_UPPER.
Excess(m) == Min({i \in 0..WORD_BITS : ShiftRight(m, i) < MANT_UPPER})

\* The stored mantissa may be MANT_HIDE itself (see FromInt): or-ing loses it.
WithHidden(f) == MANT_HIDE + (f.mant % MANT_HIDE)

normalize_right(m, e) ==
    [exp |-> int8(e + Excess(m)), mant |-> ShiftRight(m, Excess(m)) % MANT_HIDE]

\* How many shifts bring m up to MANT_HIDE.
Lacking(m) == Min({i \in 0..MANT_BITS : m * 2^i >= MANT_HIDE})

\* Variant for testing the properties: the exponent is not lowered with the shifts.
normalize_left_KeepExp(m, e) ==
    [exp |-> int8(e), mant |-> (m * 2^Lacking(m)) % MANT_HIDE]

normalize_left(m, e) ==
    [exp |-> int8(e - Lacking(m)), mant |-> (m * 2^Lacking(m)) % MANT_HIDE]

\* SoftFloat(uint64_t): the shift by MANT_BITS drops the upper bits of the number, and
\* the last bit shifted out again is added. For 0 and 1 no bit is and guard_bit0 is
\* read without a value: here uninitialized. The mantissa is not normalized again, and
\* 0 becomes a mantissa of 0, which is one.
FromInt(i, uninitialized) ==
    LET mant == uint64(i * MANT_HIDE)
        e == Excess(mant)
        guard_bit0 == IF e = 0 THEN uninitialized ELSE BitOf(mant, e - 1)
    IN  [exp |-> e, mant |-> (ShiftRight(mant, e) % MANT_HIDE) + guard_bit0]

\* Whether the bits of m3 below the two highest that decide, less one, hold a one.
Sticky(m3) == \E i \in 0..(MANT_BITS - 3) : BitOf(m3, i) = 1

\* grs is 3, 5, 6 or 7.
RoundsUp(m3) ==
    LET g == BitOf(m3, MANT_BITS)
        r == BitOf(m3, MANT_BITS - 1)
    IN  IF Sticky(m3) THEN g = 1 \/ r = 1 ELSE g = 1 /\ r = 1

\* operator*(SoftFloat)
Times(f, g) ==
    LET m3 == WithHidden(f) * WithHidden(g)
    IN  normalize_right(ShiftRight(m3, MANT_BITS) + (IF RoundsUp(m3) THEN 1 ELSE 0),
                        int8(f.exp + g.exp))

\* operator/(SoftFloat)
Over(f, g) ==
    normalize_left((WithHidden(f) * MANT_HIDE) \div WithHidden(g), int8(f.exp - g.exp))

\* operator*(int) and operator/(int)
TimesInt(f, i, uninitialized) == Times(f, FromInt(int(i), uninitialized))
OverInt(f, i, uninitialized) == Over(f, FromInt(int(i), uninitialized))

\* operator int64_t: the hidden one is added, not or-ed. An exponent above MANT_BITS
\* makes the count of the shift negative, which is undefined; a processor that takes
\* the count modulo 64 shifts everything out.
ToInt(f) ==
    IF f.exp < 0 \/ f.exp > MANT_BITS THEN 0
    ELSE ShiftRight(f.mant + MANT_HIDE, MANT_BITS - f.exp)
=============================================================================
