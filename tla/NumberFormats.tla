--------------------------- MODULE NumberFormats ---------------------------
(***************************************************************************)
(* The narrow number formats: mixed_precision.hpp, bf16_support.hpp        *)
(* and quantization_production.hpp.                                        *)
(*                                                                         *)
(* The magnitude of a float is its 31 low bits, a natural number: the      *)
(* exponent field above 23 bits of mantissa.  The order of the numbers is  *)
(* the order of the bits.  Signs are carried over and are left out.        *)
(***************************************************************************)
EXTENDS Integers, FiniteSetsExt

Field(bits, low, width) == (bits \div 2^low) % 2^width
Float(exp, mant) == exp * 2^23 + mant
Exponent(f) == Field(f, 23, 8)
Mantissa(f) == Field(f, 0, 23)
InfinityBits == Float(255, 0)

(* The mantissa cut to its k high bits, and whether it is rounded up: the  *)
(* next bit is set and the bits from `below` down, or the last one kept,   *)
(* are not all 0.                                                          *)
Kept(f, k) == Field(f, 23 - k, k)
(* Mutant: a tie always goes up. *)
BugRoundsUp(f, k, below) == Field(f, 22 - k, 1) = 1
RoundsUp(f, k, below) ==
    /\ Field(f, 22 - k, 1) = 1
    /\ Kept(f, k) % 2 = 1 \/ Field(f, 0, below) # 0
(* A carry out of the mantissa goes to the exponent. *)
Rounded(f, k, below, bias) ==
    (Exponent(f) - 127 + bias) * 2^k + Kept(f, k)
        + (IF RoundsUp(f, k, below) THEN 1 ELSE 0)

(* The first shift that sets bit k of a mantissa that is not 0. *)
Shift(mant, k) == CHOOSE s \in 1 .. k : mant * 2^s \in 2^k .. 2^(k + 1) - 1
(* A number with k bits of mantissa as a float. *)
Widened(exp, mant, k, bias) ==
    IF exp # 0 THEN Float(exp - bias + 127, mant * 2^(23 - k))
    ELSE IF mant = 0 THEN 0
    ELSE LET s == Shift(mant, k)
         IN  Float(1 - s - bias + 127, (mant * 2^s - 2^k) * 2^(23 - k))

-----------------------------------------------------------------------------
HalfInfinity == 31 * 2^10
(* Mutant: the leading 1 is forgotten. *)
BugHalfTruncated(f, newExp) == (Mantissa(f) \div 2^(1 - newExp)) \div 2^13
HalfTruncated(f, newExp) ==
    ((2^23 + Mantissa(f)) \div 2^(1 - newExp)) \div 2^13
HalfNaN(f) == 63 * 2^9 + (Kept(f, 10) % 2^9)
Half(f) ==
    LET newExp == Exponent(f) - 127 + 15
    IN  IF Exponent(f) = 255
        THEN IF Mantissa(f) # 0 THEN HalfNaN(f) ELSE HalfInfinity
        ELSE IF Exponent(f) = 0 \/ newExp <= -10 THEN 0
        ELSE IF newExp >= 31 THEN HalfInfinity
        ELSE IF newExp <= 0 THEN HalfTruncated(f, newExp)
        ELSE Min({Rounded(f, 10, 12, 15), HalfInfinity})
HalfValue(h) ==
    LET exp == Field(h, 10, 5)
        mant == Field(h, 0, 10)
    IN  IF exp = 31
        THEN InfinityBits + (IF mant = 0 THEN 0 ELSE 2^22 + (mant % 2^9) * 2^13)
        ELSE Widened(exp, mant, 10, 15)

(* 0x7fff is added unless the number is exact and even. *)
Bf16(f) ==
    LET low == Field(f, 0, 16)
        adds == low # 0 \/ Field(f, 16, 1) = 1
    IN  f \div 2^16 + (IF adds /\ low + 32767 >= 2^16 THEN 1 ELSE 0)
Bf16Truncated(f) == f \div 2^16
Bf16Value(b) == b * 2^16

(* Exponent 15 is written for [256, 512), and all of it is read as NaN. *)
Fp8Largest == 126
Fp8(f) ==
    LET exp == Exponent(f) - 127
        r == Rounded(f, 3, 19, 7)
    IN  IF exp < -6 THEN 0
        ELSE IF exp > 8 \/ r >= 128 THEN Fp8Largest
        ELSE IF r >= 120 /\ exp < 8 THEN Fp8Largest
        ELSE r
IsFp8Number(b) == Field(b, 3, 4) # 15
Fp8Value(b) ==
    IF IsFp8Number(b) THEN Widened(Field(b, 3, 4), Field(b, 0, 3), 3, 7)
    ELSE InfinityBits + 2^22

(* The structs fp8_e4m3 and fp8_e5m2 truncate.  Their exponent is unsigned *)
(* and clamped after it wraps (at 2^30 here): the smallest numbers get the *)
(* largest one.                                                            *)
StructExponent(f, e, bias) ==
    Min({2^e - 1, Max({1, (Exponent(f) - 127 + bias) % 2^30})})
Fp8Struct(f, e, k, bias) ==
    IF Exponent(f) = 0 THEN 0 ELSE StructExponent(f, e, bias) * 2^k + Kept(f, k)
Fp8StructValue(b, e, k, bias) ==
    LET exp == Field(b, k, e)
    IN  Float(IF exp = 0 THEN 0 ELSE exp - bias + 127, Field(b, 0, k) * 2^(23 - k))

-----------------------------------------------------------------------------
(* Integer quantization of a vector of integers x; a scale is a fraction   *)
(* with the largest magnitude as numerator and the levels as denominator.  *)
Abs(a) == IF a < 0 THEN -a ELSE a
MaxAbs(x) == Max({Abs(x[i]) : i \in DOMAIN x})
(* Mutant: rounding towards 0. *)
BugRoundDiv(a, b) ==
    IF b = 0 THEN 0
    ELSE LET q == Abs(a) \div b IN IF a < 0 THEN -q ELSE q
RoundDiv(a, b) ==
    IF b = 0 THEN 0
    ELSE LET q == (2 * Abs(a) + b) \div (2 * b) IN IF a < 0 THEN -q ELSE q
TruncDiv(a, b) ==
    IF b = 0 THEN 0
    ELSE LET q == Abs(a) \div b IN IF a < 0 THEN -q ELSE q

Symmetric(x, max, levels) == [i \in DOMAIN x |-> RoundDiv(x[i] * levels, max)]
KvQuantized(x) == [i \in DOMAIN x |-> TruncDiv(x[i] * 127, MaxAbs(x))]
(* The scale of a layer is the largest magnitude of all that was observed. *)
Observed(max, x) == Max({max, MaxAbs(x)})
FakeQuantized(x, enabled) ==
    IF enabled THEN Symmetric(x, MaxAbs(x), 127) ELSE x

(* INT4: one scale per group, two values in a byte.  x is indexed from 0. *)
GroupOf(i, size) == i \div size
InGroup(x, g, size) == {i \in DOMAIN x : GroupOf(i, size) = g}
GroupMax(x, i, size) ==
    Max({Abs(x[j]) : j \in InGroup(x, GroupOf(i, size), size)})
Int4Of(x, i, size) == RoundDiv(x[i] * 7, GroupMax(x, i, size))
Nibble(v) == v % 16
(* The groups are written in order, pairs counted from the group's start: *)
(* a pair (i, i + 1) goes to byte i / 2, so the last write of a byte stays. *)
Pairs(x, size) ==
    {i \in DOMAIN x : (i - GroupOf(i, size) * size) % 2 = 0}
Int4Byte(x, size, b) ==
    LET i == Max({p \in Pairs(x, size) : p \div 2 = b})
        high == IF i + 1 \in InGroup(x, GroupOf(i, size), size)
                THEN Int4Of(x, i + 1, size) ELSE 0
    IN  [low |-> Nibble(Int4Of(x, i, size)), high |-> Nibble(high)]

(* MixedPrecisionConfig. *)
LayerBits(i, layers) ==
    IF i < layers \div 4 THEN 16 ELSE IF i < layers \div 2 THEN 8 ELSE 4
=============================================================================
