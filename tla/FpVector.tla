------------------------------ MODULE FpVector ------------------------------
(***************************************************************************)
(* What each vector floating point instruction computes for one element:   *)
(* riscv_vector_fp_instructions.cc, riscv_vector_fp_compare_...,           *)
(* riscv_vector_fp_reduction_... and riscv_vector_fp_unary_instructions.cc.*)
(* f is the format of the element, g the one of twice the width, rm the    *)
(* mode of the host.  Every helper makes a NaN canonical; which elements   *)
(* are written is the element loop of VectorUnit.                          *)
(***************************************************************************)
EXTENDS FpScalar

CanonicalizeVectorNaN(f, r) == [r EXCEPT !.v = IF IsNaN(f, @) THEN CanonicalNaN(f) ELSE @]
LOCAL Cn(f, r) == CanonicalizeVectorNaN(f, r)

Vfadd(f, rm, vs2, vs1) == Cn(f, HostAdd(f, rm, vs2, vs1))
Vfsub(f, rm, vs2, vs1) == Cn(f, HostSub(f, rm, vs2, vs1))
Vfrsub(f, rm, vs2, vs1) == Cn(f, HostSub(f, rm, vs1, vs2))
Vfmul(f, rm, vs2, vs1) == Cn(f, HostMul(f, rm, vs2, vs1))
Vfdiv(f, rm, vs2, vs1) == Cn(f, HostDiv(f, rm, vs2, vs1))
Vfrdiv(f, rm, vs2, vs1) == Cn(f, HostDiv(f, rm, vs1, vs2))

\* widening: the operands are converted, then the operation is the wide one
Widen(f, g, rm, x) == HostConvert(f, g, rm, x).v
Vfwadd(f, g, rm, vs2, vs1) == Cn(g, HostAdd(g, rm, Widen(f, g, rm, vs2), Widen(f, g, rm, vs1)))
Vfwsub(f, g, rm, vs2, vs1) == Cn(g, HostSub(g, rm, Widen(f, g, rm, vs2), Widen(f, g, rm, vs1)))
Vfwaddw(f, g, rm, vs2, vs1) == Cn(g, HostAdd(g, rm, vs2, Widen(f, g, rm, vs1)))
Vfwsubw(f, g, rm, vs2, vs1) == Cn(g, HostSub(g, rm, vs2, Widen(f, g, rm, vs1)))
Vfwmul(f, g, rm, vs2, vs1) == Cn(g, HostMul(g, rm, Widen(f, g, rm, vs2), Widen(f, g, rm, vs1)))

M_Vfnmsac(f, rm, vs2, vs1, vd) == Cn(f, HostFma(f, rm, vs1, vs2, Neg(f, vd)))

Vfmadd(f, rm, vs2, vs1, vd) == Cn(f, HostFma(f, rm, vs1, vd, vs2))
Vfnmadd(f, rm, vs2, vs1, vd) == Cn(f, HostFma(f, rm, Neg(f, vs1), vd, Neg(f, vs2)))
Vfmsub(f, rm, vs2, vs1, vd) == Cn(f, HostFma(f, rm, vs1, vd, Neg(f, vs2)))
Vfnmsub(f, rm, vs2, vs1, vd) == Cn(f, HostFma(f, rm, Neg(f, vs1), vd, vs2))
Vfmacc(f, rm, vs2, vs1, vd) == Cn(f, HostFma(f, rm, vs1, vs2, vd))
Vfnmacc(f, rm, vs2, vs1, vd) == Cn(f, HostFma(f, rm, Neg(f, vs1), vs2, Neg(f, vd)))
Vfmsac(f, rm, vs2, vs1, vd) == Cn(f, HostFma(f, rm, vs1, vs2, Neg(f, vd)))
Vfnmsac(f, rm, vs2, vs1, vd) == Cn(f, HostFma(f, rm, Neg(f, vs1), vs2, vd))

\* the widening forms multiply and add in two operations of the wide format
WideProduct(f, g, rm, vs2, vs1) == HostMul(g, rm, Widen(f, g, rm, vs1), Widen(f, g, rm, vs2)).v
Vfwmacc(f, g, rm, vs2, vs1, vd) == Cn(g, HostAdd(g, rm, WideProduct(f, g, rm, vs2, vs1), vd))
Vfwnmacc(f, g, rm, vs2, vs1, vd) ==
    Cn(g, HostSub(g, rm, Neg(g, WideProduct(f, g, rm, vs2, vs1)), vd))
Vfwmsac(f, g, rm, vs2, vs1, vd) == Cn(g, HostSub(g, rm, WideProduct(f, g, rm, vs2, vs1), vd))
Vfwnmsac(f, g, rm, vs2, vs1, vd) ==
    Cn(g, HostAdd(g, rm, Neg(g, WideProduct(f, g, rm, vs2, vs1)), vd))

Vfsgnj(f, vs2, vs1) == Pack(f, Sign(f, vs1), 0, Magnitude(f, vs2))
Vfsgnjn(f, vs2, vs1) == Pack(f, 1 - Sign(f, vs1), 0, Magnitude(f, vs2))
Vfsgnjx(f, vs2, vs1) == Pack(f, ProductSign(f, vs1, vs2), 0, Magnitude(f, vs2))
Vfmerge(vs2, vs1, mask) == IF mask THEN vs1 ELSE vs2

\* picks is the operation's choice between two numbers: vs1 (TRUE) or vs2; two
\* zeros are replaced by -1 and 1
Unit(f, sign) == Pack(f, sign, Bias(f), 0)
MaxMinHelper(f, vs2, vs1, picks, picks_zero) ==
    Result(IF IsNaN(f, vs2) /\ IsNaN(f, vs1) THEN CanonicalNaN(f)
           ELSE IF IsNaN(f, vs2) THEN vs1 ELSE IF IsNaN(f, vs1) THEN vs2
           ELSE IF IsZero(f, vs2) /\ IsZero(f, vs1) THEN IF picks_zero THEN vs1 ELSE vs2
           ELSE IF picks THEN vs1 ELSE vs2,
           NVIf(IsSNaN(f, vs1) \/ IsSNaN(f, vs2)))
Vfmin(f, vs2, vs1) ==
    MaxMinHelper(f, vs2, vs1, Less(f, vs1, vs2),
                 Less(f, Unit(f, Sign(f, vs1)), Unit(f, Sign(f, vs2))))
Vfmax(f, vs2, vs1) ==
    MaxMinHelper(f, vs2, vs1, Less(f, vs2, vs1),
                 Less(f, Unit(f, Sign(f, vs2)), Unit(f, Sign(f, vs1))))

\* the comparisons compare on the host outside any scope and raise no flag
Vmfeq(f, vs2, vs1) == Equal(f, vs2, vs1)
Vmfne(f, vs2, vs1) == ~Equal(f, vs2, vs1)
Vmflt(f, vs2, vs1) == Less(f, vs2, vs1)
Vmfle(f, vs2, vs1) == LessEq(f, vs2, vs1)
Vmfgt(f, vs2, vs1) == Less(f, vs1, vs2)
Vmfge(f, vs2, vs1) == LessEq(f, vs1, vs2)

-----------------------------------------------------------------------------
(* One step of a reduction.  Its MaxMinHelper gives a NaN for a signaling  *)
(* one, raises no flag, and does not look at the signs of zeros.           *)

ReduceMinMax(f, acc, vs2, picks) ==
    IF IsSNaN(f, acc) \/ IsSNaN(f, vs2) \/ (IsNaN(f, acc) /\ IsNaN(f, vs2)) THEN CanonicalNaN(f)
    ELSE IF IsNaN(f, acc) THEN vs2 ELSE IF IsNaN(f, vs2) THEN acc
    ELSE IF picks THEN vs2 ELSE acc
Vfredmin(f, acc, vs2) == ReduceMinMax(f, acc, vs2, Less(f, vs2, acc))
Vfredmax(f, acc, vs2) == ReduceMinMax(f, acc, vs2, Less(f, acc, vs2))
Vfredosum(f, rm, acc, vs2) == HostAdd(f, rm, acc, vs2)
Vfwredosum(f, g, rm, acc, vs2) == HostAdd(g, rm, acc, Widen(f, g, rm, vs2))

-----------------------------------------------------------------------------
(* Conversions to integers truncate, whatever the rounding mode.  The      *)
(* result is a set: a value that equals the largest integer rounded to the *)
(* format, and is larger than it, is cast all the same, which C++ leaves   *)
(* undefined.                                                              *)

CvtHelper(f, to, x) ==
    LET max == HostFromInt(f, RNE, MaxOf(to)).v
        min == HostFromInt(f, RNE, MinOf(to)).v
        truncated == (Significand(f, x) * 2^Greater(Scale(f, x), 0)) \div 2^Greater(-Scale(f, x), 0)
    IN  IF IsNaN(f, x) \/ Less(f, max, x) THEN {Result(Trunc(to.w, MaxOf(to)), {"NV"})}
        ELSE IF Less(f, x, min)
             THEN IF ~to.signed /\ Less(f, Unit(f, 1), x) THEN {Result(0, {"NX"})}
                  ELSE {Result(Trunc(to.w, MinOf(to)), {"NV"})}
        ELSE IF Sign(f, x) = 0 /\ truncated > MaxOf(to) THEN {Quietly(v) : v \in Word(to.w)}
        ELSE {Quietly(Trunc(to.w, IF Sign(f, x) = 1 THEN -truncated ELSE truncated))}
Unsigned(w) == [w |-> w, signed |-> FALSE]
SignedInt(w) == [w |-> w, signed |-> TRUE]
Vfcvtxufv(f, w, x) == CvtHelper(f, Unsigned(w), x)
Vfcvtxfv(f, w, x) == CvtHelper(f, SignedInt(w), x)
Vfcvtrtzxufv(f, w, x) == CvtHelper(f, Unsigned(w), x)
Vfcvtrtzxfv(f, w, x) == CvtHelper(f, SignedInt(w), x)
Vfwcvtxufv(f, w, x) == CvtHelper(f, Unsigned(2 * w), x)
Vfwcvtxfv(f, w, x) == CvtHelper(f, SignedInt(2 * w), x)
Vfwcvtrtzxufv(f, w, x) == CvtHelper(f, Unsigned(2 * w), x)
Vfwcvtrtzxfv(f, w, x) == CvtHelper(f, SignedInt(2 * w), x)
Vfncvtxufw(f, w, x) == CvtHelper(f, Unsigned(w), x)
Vfncvtxfw(f, w, x) == CvtHelper(f, SignedInt(w), x)
Vfncvtrtzxufw(f, w, x) == CvtHelper(f, Unsigned(w), x)
Vfncvtrtzxfw(f, w, x) == CvtHelper(f, SignedInt(w), x)

Vfcvtfxuv(f, rm, x) == HostFromInt(f, rm, x)
Vfcvtfxv(f, rm, w, x) == HostFromInt(f, rm, Signed(w, x))
Vfwcvtfxuv(g, rm, x) == HostFromInt(g, rm, x)
Vfwcvtfxv(g, rm, w, x) == HostFromInt(g, rm, Signed(w, x))
Vfncvtfxuw(f, rm, x) == HostFromInt(f, rm, x)
Vfncvtfxw(f, rm, w, x) == HostFromInt(f, rm, Signed(w, x))
Vfwcvtffv(f, g, rm, x) == Cn(g, HostConvert(f, g, rm, x))
Vfncvtffw(g, f, rm, x) == Cn(f, HostConvert(g, f, rm, x))
\* "round to odd": the lost bits are or'ed into a result the host has rounded
Vfncvtrodffw(g, f, rm, x) ==
    LET res == HostConvert(g, f, rm, x)
        bit == Flag(x % 2^(g.s - f.s) # 0)
    IN  IF IsNaN(g, x) \/ IsInf(g, x) \/ IsInf(f, res.v) THEN Cn(f, res)
        ELSE [res EXCEPT !.v = @ | bit]

SqrtHelper(f, rm, x) ==
    IF IsNaN(f, x) \/ Less(f, x, 0) THEN Result(CanonicalNaN(f), {"NV"})
    ELSE IF IsZero(f, x) THEN Quietly(x) ELSE HostSqrt(f, rm, x)
Vfsqrtv(f, rm, x) == Cn(f, SqrtHelper(f, rm, x))
Vfclassv(f, x) == ClassifyFP(f, x)

-----------------------------------------------------------------------------
(* The 7 bit estimates, of formats with at least 7 significand bits.       *)

kRecipSqrtMantissaTable == <<
    52, 51, 50, 48, 47, 46, 44, 43, 42, 41, 40, 39, 38, 36, 35, 34, 33, 32, 31, 30, 30, 29, 28,
    27, 26, 25, 24, 23, 23, 22, 21, 20, 19, 19, 18, 17, 16, 16, 15, 14, 14, 13, 12, 12, 11, 10,
    10, 9, 9, 8, 7, 7, 6, 6, 5, 4, 4, 3, 3, 2, 2, 1, 1, 0, 127, 125, 123, 121, 119, 118, 116,
    114, 113, 111, 109, 108, 106, 105, 103, 102, 100, 99, 97, 96, 95, 93, 92, 91, 20, 88, 87, 86,
    85, 84, 83, 82, 80, 79, 78, 77, 76, 75, 74, 73, 72, 71, 70, 70, 69, 68, 67, 66, 65, 64, 63,
    63, 62, 61, 60, 59, 59, 58, 57, 56, 56, 55, 54, 53>>
kRecipMantissaTable == <<
    127, 125, 123, 121, 119, 117, 116, 114, 112, 110, 109, 107, 105, 104, 102, 100, 99, 97, 96,
    94, 93, 91, 90, 88, 87, 85, 84, 83, 81, 80, 79, 77, 76, 75, 74, 72, 71, 70, 69, 68, 66, 65,
    64, 63, 62, 61, 60, 59, 58, 57, 56, 55, 54, 53, 52, 51, 50, 49, 48, 47, 46, 45, 44, 43, 42,
    41, 40, 40, 39, 38, 37, 36, 35, 35, 34, 33, 32, 31, 31, 30, 29, 28, 28, 27, 26, 25, 25, 24,
    23, 23, 22, 21, 21, 20, 19, 19, 18, 17, 17, 16, 15, 15, 14, 14, 13, 12, 12, 11, 11, 10, 9, 9,
    8, 8, 7, 7, 6, 5, 5, 4, 4, 3, 3, 2, 2, 1, 1, 0>>

\* a subnormal significand is shifted until its leading bit is the implied one
Shifts(f, x) == f.s - 1 - Log2(Sig(f, x), 1)
NormExponent(f, x) == IF Exp(f, x) = 0 THEN -Shifts(f, x) ELSE Exp(f, x)
NormMantissa(f, x) == IF Exp(f, x) = 0 THEN Sig(f, x) * 2^(Shifts(f, x) + 1) ELSE Sig(f, x)
\* the exponent of the reciprocal instead of the one less
M_RecipSqrt7(f, x) ==
    LET index == (NormExponent(f, x) % 2) * 64 + ((NormMantissa(f, x) \div 2^(f.s - 6)) % 64)
    IN  Pack(f, 0, TQuot(3 * Bias(f) - NormExponent(f, x), 2), kRecipSqrtMantissaTable[index + 1] * 2^(f.s - 7))
RecipSqrt7(f, x) ==
    LET index == (NormExponent(f, x) % 2) * 64 + ((NormMantissa(f, x) \div 2^(f.s - 6)) % 64)
        exp == TQuot(3 * Bias(f) - 1 - NormExponent(f, x), 2)
    IN  Pack(f, 0, exp, kRecipSqrtMantissaTable[index + 1] * 2^(f.s - 7))
RecipSqrt7Helper(f, x) ==
    IF IsNaN(f, x) \/ (Sign(f, x) = 1 /\ ~IsZero(f, x)) THEN Result(CanonicalNaN(f), {"NV"})
    ELSE IF IsInf(f, x) THEN Result(0, {"NV"})
    ELSE IF IsZero(f, x) THEN Result(Inf(f, Sign(f, x)), {"DZ"})
    ELSE Quietly(RecipSqrt7(f, x))
Vfrsqrt7v(f, x) == Cn(f, RecipSqrt7Helper(f, x))

\* the bits or'ed into a subnormal result are those of a 7 bit significand
Recip7(f, rm, x) ==
    LET exp == 2 * Bias(f) - 1 - NormExponent(f, x)
        index == (NormMantissa(f, x) \div 2^(f.s - 7)) % 128
        entry == kRecipMantissaTable[index + 1] * 2^(f.s - 7)
        shifted == (entry \div 2) | 64
        mantissa == IF exp > 0 THEN entry
                    ELSE IF exp = 0 THEN shifted % 128 ELSE (shifted \div 2) % 128
    IN  IF exp > 2 * Bias(f)
        THEN IF ToInfinity(rm, Sign(f, x)) THEN Inf(f, Sign(f, x)) ELSE MaxFinite(f, Sign(f, x))
        ELSE Pack(f, Sign(f, x), Greater(exp, 0), mantissa)
Recip7Helper(f, rm, x) ==
    IF IsNaN(f, x) THEN CanonicalNaN(f)
    ELSE IF IsInf(f, x) THEN Pack(f, Sign(f, x), 0, 0)
    ELSE IF IsZero(f, x) THEN Inf(f, Sign(f, x))
    ELSE Recip7(f, rm, x)
Vfrec7v(f, rm, x) == Cn(f, Quietly(Recip7Helper(f, rm, x))).v
=============================================================================
