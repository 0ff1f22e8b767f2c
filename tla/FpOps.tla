------------------------------- MODULE FpOps -------------------------------
(***************************************************************************)
(* Floating point numbers as bit patterns, and what the host FPU and the   *)
(* helpers of riscv_instruction_helpers.h compute with them.               *)
(*                                                                         *)
(* A format is [e |-> exponent bits, s |-> significand bits], as           *)
(* FPTypeInfo describes one; a value is a word of 1 + e + s bits.  The     *)
(* code is written once for every format, and is checked on small ones.    *)
(* A result is [v |-> value, flags |-> the exceptions it raises].          *)
(*                                                                         *)
(* The host FPU rounds exact results in one of four modes.  Its underflow  *)
(* flag is left out: hosts differ in when a result is tiny.                *)
(***************************************************************************)
EXTENDS Words

Result(v, flags) == [v |-> v, flags |-> flags]
Quietly(v) == Result(v, {})

\* FPTypeInfo of the simulator library
Width(f) == 1 + f.e + f.s
Bias(f) == 2^(f.e - 1) - 1
MaxExp(f) == 2^f.e - 1
Pack(f, sign, exp, sig) == sign * 2^(f.e + f.s) + exp * 2^f.s + sig
Sign(f, x) == x \div 2^(f.e + f.s)
Exp(f, x) == (x \div 2^f.s) % 2^f.e
Sig(f, x) == x % 2^f.s
Magnitude(f, x) == x % 2^(f.e + f.s)
IsNaN(f, x) == Exp(f, x) = MaxExp(f) /\ Sig(f, x) # 0
IsQNaN(f, x) == IsNaN(f, x) /\ Sig(f, x) >= 2^(f.s - 1)
IsSNaN(f, x) == IsNaN(f, x) /\ ~IsQNaN(f, x)
IsInf(f, x) == Exp(f, x) = MaxExp(f) /\ Sig(f, x) = 0
IsZero(f, x) == Magnitude(f, x) = 0
Inf(f, sign) == Pack(f, sign, MaxExp(f), 0)
MaxFinite(f, sign) == Pack(f, sign, MaxExp(f) - 1, 2^f.s - 1)
CanonicalNaN(f) == Pack(f, 0, MaxExp(f), 2^(f.s - 1))
Neg(f, x) == x ^^ (2^(f.e + f.s))

\* a finite value is Amount(f, x) * 2^Scale(f, x)
Scale(f, x) == Greater(Exp(f, x), 1) - Bias(f) - f.s
Significand(f, x) == Sig(f, x) + (IF Exp(f, x) = 0 THEN 0 ELSE 2^f.s)
Amount(f, x) == IF Sign(f, x) = 1 THEN -Significand(f, x) ELSE Significand(f, x)

-----------------------------------------------------------------------------
(* The host FPU.  kRoundToNearest, kRoundTowardsZero, kRoundDown, kRoundUp *)
(* and kRoundToNearestTiesToMax; the host has the first four.              *)

RNE == 0    RTZ == 1    RDN == 2    RUP == 3    RMM == 4
HostModes == {RNE, RTZ, RDN, RUP}

\* whether the magnitude q + r / d is rounded up
RoundsUp(rm, sign, q, r, d) ==
    CASE rm = RNE -> 2 * r > d \/ (2 * r = d /\ q % 2 = 1)
      [] rm = RTZ -> FALSE
      [] rm = RDN -> sign = 1 /\ r > 0
      [] rm = RUP -> sign = 0 /\ r > 0
      [] rm = RMM -> 2 * r >= d

\* the j with 2^j <= n / d < 2^(j + 1); 28 bits are more than any product here
Log2(n, d) ==
    IF n >= d THEN CHOOSE j \in 0 .. 28 : n \div 2^j >= d /\ n \div 2^(j + 1) < d
    ELSE -(CHOOSE j \in 1 .. 28 : n * 2^j >= d /\ n * 2^(j - 1) < d)

\* the pattern for q units of 2^(exp - s), rounded up or not
Encode(f, rm, sign, exp, q, inexact) ==
    LET magnitude == (exp + Bias(f) - 1) * 2^f.s + q IN
    IF magnitude < MaxExp(f) * 2^f.s
    THEN Result(sign * 2^(f.e + f.s) + magnitude, IF inexact THEN {"NX"} ELSE {})
    ELSE Result(IF rm \in {RNE, RMM} \/ RoundsUp(rm, sign, 0, 1, 2) THEN Inf(f, sign)
                ELSE MaxFinite(f, sign), {"OF", "NX"})

\* (-1)^sign * n / d * 2^k, n > 0, in format f
Round(f, rm, sign, n, d, k) ==
    LET exp == Greater(Log2(n, d) + k, 1 - Bias(f))
        j == k - (exp - f.s)
        num == n * 2^Greater(j, 0)
        den == d * 2^Greater(-j, 0)
        q == num \div den
        r == num % den
    IN  Encode(f, rm, sign, exp, q + Flag(RoundsUp(rm, sign, q, r, den)), r > 0)

RoundInt(f, rm, n, k) ==
    IF n = 0 THEN Quietly(Pack(f, Flag(rm = RDN), 0, 0))
    ELSE Round(f, rm, Flag(n < 0), Abs(n), 1, k)

\* a NaN operand comes back quiet; an invalid operation gives the host's own
\* NaN, which is negative
HostNaN(f) == Pack(f, 1, MaxExp(f), 2^(f.s - 1))
Invalid(f) == Result(HostNaN(f), {"NV"})
Quiet(f, x) == IF IsSNaN(f, x) THEN x + 2^(f.s - 1) ELSE x
Propagate(f, x, y) ==
    Result(Quiet(f, IF IsNaN(f, x) THEN x ELSE y),
           IF IsSNaN(f, x) \/ IsSNaN(f, y) THEN {"NV"} ELSE {})

ExactSum(f, rm, n, k, m, j) ==
    LET low == Lesser(k, j) IN RoundInt(f, rm, n * 2^(k - low) + m * 2^(j - low), low)
HostAdd(f, rm, x, y) ==
    IF IsNaN(f, x) \/ IsNaN(f, y) THEN Propagate(f, x, y)
    ELSE IF IsInf(f, x) /\ IsInf(f, y) /\ x # y THEN Invalid(f)
    ELSE IF IsInf(f, x) THEN Quietly(x)
    ELSE IF IsInf(f, y) \/ (IsZero(f, x) /\ x = y) THEN Quietly(y)
    ELSE ExactSum(f, rm, Amount(f, x), Scale(f, x), Amount(f, y), Scale(f, y))
HostSub(f, rm, x, y) ==
    IF IsNaN(f, y) THEN Propagate(f, x, y) ELSE HostAdd(f, rm, x, Neg(f, y))

ProductSign(f, x, y) == (Sign(f, x) + Sign(f, y)) % 2
InfTimesZero(f, x, y) == (IsInf(f, x) /\ IsZero(f, y)) \/ (IsZero(f, x) /\ IsInf(f, y))
HostMul(f, rm, x, y) ==
    LET sign == ProductSign(f, x, y) IN
    IF IsNaN(f, x) \/ IsNaN(f, y) THEN Propagate(f, x, y)
    ELSE IF InfTimesZero(f, x, y) THEN Invalid(f)
    ELSE IF IsInf(f, x) \/ IsInf(f, y) THEN Quietly(Inf(f, sign))
    ELSE IF IsZero(f, x) \/ IsZero(f, y) THEN Quietly(Pack(f, sign, 0, 0))
    ELSE Round(f, rm, sign, Significand(f, x) * Significand(f, y), 1, Scale(f, x) + Scale(f, y))
HostDiv(f, rm, x, y) ==
    LET sign == ProductSign(f, x, y) IN
    IF IsNaN(f, x) \/ IsNaN(f, y) THEN Propagate(f, x, y)
    ELSE IF (IsInf(f, x) /\ IsInf(f, y)) \/ (IsZero(f, x) /\ IsZero(f, y)) THEN Invalid(f)
    ELSE IF IsInf(f, x) THEN Quietly(Inf(f, sign))
    ELSE IF IsZero(f, y) THEN Result(Inf(f, sign), {"DZ"})
    ELSE IF IsInf(f, y) \/ IsZero(f, x) THEN Quietly(Pack(f, sign, 0, 0))
    ELSE Round(f, rm, sign, Significand(f, x), Significand(f, y), Scale(f, x) - Scale(f, y))
\* a quiet NaN as addend is the result, with no flag, even of an invalid product
\* (as on x86; IEEE 754 leaves that flag to the host)
HostFma(f, rm, x, y, z) ==
    LET sign == ProductSign(f, x, y)
        product == IF sign = 1 THEN -(Significand(f, x) * Significand(f, y))
                   ELSE Significand(f, x) * Significand(f, y)
    IN  IF IsNaN(f, x) \/ IsNaN(f, y)
        THEN [Propagate(f, x, y) EXCEPT !.flags = @ \cup Propagate(f, z, z).flags]
        ELSE IF IsNaN(f, z) THEN Propagate(f, z, z)
        ELSE IF InfTimesZero(f, x, y) THEN Invalid(f)
        ELSE IF IsInf(f, x) \/ IsInf(f, y) THEN HostAdd(f, rm, Inf(f, sign), z)
        ELSE IF product = 0 \/ IsInf(f, z) THEN HostAdd(f, rm, Pack(f, sign, 0, 0), z)
        ELSE ExactSum(f, rm, product, Scale(f, x) + Scale(f, y), Amount(f, z), Scale(f, z))
\* of a positive number: the largest q with q * q <= x, in units of the result
HostSqrt(f, rm, x) ==
    LET n == Significand(f, x)
        k == Scale(f, x)
        exp == Greater((Log2(n, 1) + k) \div 2, 1 - Bias(f))
        j == k - 2 * (exp - f.s)
        num == n * 2^Greater(j, 0)
        den == 2^Greater(-j, 0)
        q == CHOOSE i \in 0 .. 2^(f.s + 1) : i * i * den <= num /\ (i + 1) * (i + 1) * den > num
        r == IF q * q * den = num THEN 0
             ELSE IF 4 * num < (2 * q + 1) * (2 * q + 1) * den THEN 1 ELSE 3
    IN  IF IsNaN(f, x) THEN Propagate(f, x, x)
        ELSE IF IsZero(f, x) \/ x = Inf(f, 0) THEN Quietly(x)
        ELSE IF Sign(f, x) = 1 THEN Invalid(f)
        ELSE Encode(f, rm, 0, exp, q + Flag(RoundsUp(rm, 0, q, r, 4)), r > 0)

\* comparisons: false for a NaN, and -0 equals +0
Key(f, x) == IF Sign(f, x) = 1 THEN -Magnitude(f, x) ELSE x
Less(f, x, y) == ~IsNaN(f, x) /\ ~IsNaN(f, y) /\ Key(f, x) < Key(f, y)
Equal(f, x, y) == ~IsNaN(f, x) /\ ~IsNaN(f, y) /\ Key(f, x) = Key(f, y)
LessEq(f, x, y) == Less(f, x, y) \/ Equal(f, x, y)

\* static_cast between the formats (the payload of a NaN is not kept) and from
\* an integer
HostConvert(from, to, rm, x) ==
    IF IsNaN(from, x) THEN Result(Pack(to, Sign(from, x), MaxExp(to), 2^(to.s - 1)),
                                  IF IsSNaN(from, x) THEN {"NV"} ELSE {})
    ELSE IF IsInf(from, x) THEN Quietly(Inf(to, Sign(from, x)))
    ELSE IF IsZero(from, x) THEN Quietly(Pack(to, Sign(from, x), 0, 0))
    ELSE RoundInt(to, rm, Amount(from, x), Scale(from, x))
HostFromInt(f, rm, n) == IF n = 0 THEN Quietly(0) ELSE RoundInt(f, rm, n, 0)
=============================================================================
