------------------------------ MODULE FpScalar ------------------------------
(***************************************************************************)
(* The scalar floating point instructions: riscv_f_instructions.cc,        *)
(* riscv_d_instructions.cc, riscv_zfh_instructions.cc and the helpers of   *)
(* riscv_instruction_helpers.h.  An operator takes the format, the         *)
(* resolved rounding mode where the helper uses one, and the operands; the *)
(* order in which flags reach fflags is FpState's.                         *)
(***************************************************************************)
EXTENDS FpOps

CONSTANTS RegBits,      \* bits of a floating point register
          LongBits      \* bits of the widest integer type, at least s + 1
ASSUME BitsAssumption == RegBits \in 2 .. 30 /\ LongBits \in 2 .. 30

\* the host mode of a resolved rounding mode
Host(rm) == IF rm = RMM THEN RNE ELSE rm
Canonical(f, r) == [r EXCEPT !.v = IF IsNaN(f, @) THEN CanonicalNaN(f) ELSE @]
NVIf(b) == IF b THEN {"NV"} ELSE {}

-----------------------------------------------------------------------------
(* NaN boxing.  A result is boxed by ones shifted left by the difference   *)
(* of the widths, and read back if every bit above the value is one.       *)

Box(f, v) == (MaxU(RegBits) - (2^(RegBits - Width(f)) - 1)) | v
GetNaNBoxedSource(f, reg) ==
    IF reg \div 2^Width(f) = 2^(RegBits - Width(f)) - 1 THEN Trunc(Width(f), reg)
    ELSE CanonicalNaN(f)
\* the ternary helper and the integer moves read the low bits
Low(f, reg) == Trunc(Width(f), reg)
\* the boxing of the loads, of fmv.h.x and of the half precision conversions
FlwChild(f, v) == 2^RegBits - 2^Width(f) + v
RiscVZfhFlhChild(f, v) == 2^RegBits - 2^Width(f) + v
RiscVZfhCvtHelper(f, v) == 2^RegBits - 2^Width(f) + v
RiscVZfhFMvhx(f, x) == 2^RegBits - 2^Width(f) + Trunc(Width(f), x)
RiscVZfhFMvxh(f, x) == Signed(Width(f), x)

-----------------------------------------------------------------------------
(* riscv_f_instructions.cc *)

RiscVFAdd(f, rm, a, b) == Canonical(f, HostAdd(f, Host(rm), a, b))
RiscVFSub(f, rm, a, b) == Canonical(f, HostSub(f, Host(rm), a, b))
RiscVFMul(f, rm, a, b) == Canonical(f, HostMul(f, Host(rm), a, b))
RiscVFDiv(f, rm, a, b) == Canonical(f, HostDiv(f, Host(rm), a, b))
RiscVFSqrt(f, rm, a) ==
    IF IsNaN(f, a) \/ Less(f, a, 0) THEN Result(CanonicalNaN(f), NVIf(~IsQNaN(f, a)))
    ELSE IF IsZero(f, a) THEN Quietly(a) ELSE HostSqrt(f, Host(rm), a)
RiscVFMin(f, a, b) ==
    Result(IF IsNaN(f, a) THEN IF IsNaN(f, b) THEN CanonicalNaN(f) ELSE b
           ELSE IF IsNaN(f, b) THEN a
           ELSE IF IsZero(f, a) /\ IsZero(f, b) THEN IF Sign(f, a) = 1 THEN a ELSE b
           ELSE IF Less(f, b, a) THEN b ELSE a,
           NVIf(IsSNaN(f, a) \/ IsSNaN(f, b)))
RiscVFMax(f, a, b) ==
    Result(IF IsNaN(f, a) THEN IF IsNaN(f, b) THEN CanonicalNaN(f) ELSE b
           ELSE IF IsNaN(f, b) THEN a
           ELSE IF IsZero(f, a) /\ IsZero(f, b) THEN IF Sign(f, b) = 1 THEN a ELSE b
           ELSE IF Less(f, a, b) THEN b ELSE a,
           NVIf(IsSNaN(f, a) \/ IsSNaN(f, b)))
\* an infinity times zero raises invalid by hand, whatever the host does
WithInvalidProduct(f, a, b, r) ==
    [Canonical(f, r) EXCEPT !.flags = @ \cup NVIf(InfTimesZero(f, a, b))]
RiscVFMadd(f, rm, a, b, c) == WithInvalidProduct(f, a, b, HostFma(f, Host(rm), a, b, c))
RiscVFMsub(f, rm, a, b, c) == WithInvalidProduct(f, a, b, HostFma(f, Host(rm), a, b, Neg(f, c)))
RiscVFNmadd(f, rm, a, b, c) ==
    WithInvalidProduct(f, a, b, HostFma(f, Host(rm), Neg(f, a), b, Neg(f, c)))
RiscVFNmsub(f, rm, a, b, c) == WithInvalidProduct(f, a, b, HostFma(f, Host(rm), Neg(f, a), b, c))
RiscVFSgnj(f, a, b) == Pack(f, Sign(f, b), 0, Magnitude(f, a))
RiscVFSgnjn(f, a, b) == Pack(f, 1 - Sign(f, b), 0, Magnitude(f, a))
RiscVFSgnjx(f, a, b) == Pack(f, ProductSign(f, a, b), 0, Magnitude(f, a))
RVFCmpeq(f, a, b) == Result(Flag(Equal(f, a, b)), NVIf(IsSNaN(f, a) \/ IsSNaN(f, b)))
RVFCmplt(f, a, b) == Result(Flag(Less(f, a, b)), NVIf(IsNaN(f, a) \/ IsNaN(f, b)))
RVFCmple(f, a, b) == Result(Flag(LessEq(f, a, b)), NVIf(IsNaN(f, a) \/ IsNaN(f, b)))
RiscVFCvtSw(f, rm, w, x) == HostFromInt(f, Host(rm), Signed(w, x))
RiscVFCvtSwu(f, rm, w, x) == HostFromInt(f, Host(rm), x)
RiscVFMvwx(f, x) == Box(f, Trunc(Width(f), x))

\* the bit of the class: -inf, -normal, -subnormal, -0, +0, ..., +inf, sNaN, qNaN
ClassifyFP(f, x) ==
    LET neg == Sign(f, x) = 1 IN
    2^(CASE Exp(f, x) = 0 /\ Sig(f, x) = 0 -> IF neg THEN 3 ELSE 4
         [] Exp(f, x) = 0 /\ Sig(f, x) # 0 -> IF neg THEN 2 ELSE 5
         [] IsInf(f, x) -> IF neg THEN 0 ELSE 7
         [] IsNaN(f, x) -> IF IsQNaN(f, x) THEN 9 ELSE 8
         [] OTHER -> IF neg THEN 1 ELSE 6)

-----------------------------------------------------------------------------
(* riscv_d_instructions.cc.  The multiply-adds treat NaNs, infinities and  *)
(* zeros before they ask the host; their flags are FpState's.              *)

RiscVDAdd(f, rm, a, b) == Canonical(f, HostAdd(f, Host(rm), a, b))
RiscVDSub(f, rm, a, b) == Canonical(f, HostSub(f, Host(rm), a, b))
RiscVDMul(f, rm, a, b) == Canonical(f, HostMul(f, Host(rm), a, b))
RiscVDDiv(f, rm, a, b) == Canonical(f, HostDiv(f, Host(rm), a, b))
RiscVDSqrt(f, rm, a) ==
    IF IsNaN(f, a) \/ Less(f, a, 0) THEN Result(CanonicalNaN(f), NVIf(~IsQNaN(f, a)))
    ELSE IF IsZero(f, a) THEN Quietly(a) ELSE HostSqrt(f, Host(rm), a)
RiscVDMin(f, a, b) ==
    Result(IF IsNaN(f, a) THEN IF IsNaN(f, b) THEN CanonicalNaN(f) ELSE b
           ELSE IF IsNaN(f, b) THEN a
           ELSE IF IsZero(f, a) /\ IsZero(f, b) THEN IF Sign(f, a) = 1 THEN a ELSE b
           ELSE IF Less(f, b, a) THEN b ELSE a,
           NVIf(IsSNaN(f, a) \/ IsSNaN(f, b)))
RiscVDMax(f, a, b) ==
    Result(IF IsNaN(f, a) THEN IF IsNaN(f, b) THEN CanonicalNaN(f) ELSE b
           ELSE IF IsNaN(f, b) THEN a
           ELSE IF IsZero(f, a) /\ IsZero(f, b) THEN IF Sign(f, a) = 1 THEN b ELSE a
           ELSE IF Less(f, a, b) THEN b ELSE a,
           NVIf(IsSNaN(f, a) \/ IsSNaN(f, b)))

\* a NaN, an infinite c, or the sum of two zeros: `same` says whether the zeros
\* are taken to have one sign, `c1` is c as it enters the sum
Fused(f, a, b, c, same, c1, product, fused) ==
    IF IsNaN(f, a) \/ IsNaN(f, b) \/ IsNaN(f, c) THEN CanonicalNaN(f)
    ELSE IF IsInf(f, c) /\ ~IsInf(f, a) /\ ~IsInf(f, b) THEN c1
    ELSE IF IsZero(f, c)
         THEN IF (IsZero(f, a) /\ ~IsInf(f, b)) \/ (IsZero(f, b) /\ ~IsInf(f, a))
              THEN IF same THEN c1 ELSE 0
              ELSE Canonical(f, product).v
    ELSE Canonical(f, fused).v
SameSign(f, a, b, c) == ProductSign(f, a, b) = Sign(f, c)
\* a * b + c; a * b - c; -a * b and the negated sum for the other two
RiscVDMadd(f, rm, a, b, c) ==
    Fused(f, a, b, c, SameSign(f, a, b, c), c,
          HostMul(f, Host(rm), a, b), HostFma(f, Host(rm), a, b, c))
RiscVDMsub(f, rm, a, b, c) ==
    Fused(f, a, b, c, ~SameSign(f, a, b, c), Neg(f, c),
          HostMul(f, Host(rm), a, b), HostFma(f, Host(rm), a, b, Neg(f, c)))
Negated(f, r) == [r EXCEPT !.v = Neg(f, @)]
RiscVDNmadd(f, rm, a, b, c) ==
    Fused(f, a, b, c, SameSign(f, a, b, c), Neg(f, c),
          HostMul(f, Host(rm), Neg(f, a), b), Negated(f, HostFma(f, Host(rm), a, b, c)))
RiscVDNmsub(f, rm, a, b, c) ==
    Fused(f, a, b, c, SameSign(f, a, b, c), c,
          HostMul(f, Host(rm), Neg(f, a), b), Negated(f, HostFma(f, Host(rm), a, b, Neg(f, c))))
RiscVDCvtDw(f, rm, w, x) == HostFromInt(f, Host(rm), Signed(w, x))
RiscVDCvtDwu(f, rm, w, x) == HostFromInt(f, Host(rm), x)
RiscVDCvtSd(f, to, rm, a) ==
    IF IsNaN(f, a) THEN Quietly(CanonicalNaN(to)) ELSE HostConvert(f, to, Host(rm), a)
RiscVDCvtDs(f, to, rm, a) ==
    IF IsNaN(f, a) THEN Quietly(CanonicalNaN(to)) ELSE HostConvert(f, to, Host(rm), a)
RiscVDSgnj(f, a, b) == Pack(f, Sign(f, b), 0, Magnitude(f, a))
RiscVDSgnjn(f, a, b) == Pack(f, 1 - Sign(f, b), 0, Magnitude(f, a))
RiscVDSgnjx(f, a, b) == Pack(f, ProductSign(f, a, b), 0, Magnitude(f, a))
RiscVDCmpeq(f, a, b) == Result(Flag(Equal(f, a, b)), NVIf(IsSNaN(f, a) \/ IsSNaN(f, b)))
RiscVDCmplt(f, a, b) == Result(Flag(Less(f, a, b)), NVIf(IsNaN(f, a) \/ IsNaN(f, b)))
RiscVDCmple(f, a, b) == Result(Flag(LessEq(f, a, b)), NVIf(IsNaN(f, a) \/ IsNaN(f, b)))

-----------------------------------------------------------------------------
(* RiscVConvertFloatWithFflagsOp: to an integer type [w, signed].  `base`  *)
(* is the significand shifted until one bit of the fraction is left,       *)
(* `sticky` whether other bits were lost.                                  *)

MaxOf(to) == IF to.signed THEN MaxS(to.w) ELSE MaxU(to.w)
MinOf(to) == IF to.signed THEN MinS(to.w) ELSE 0

M_Increment(rm, sign, base, sticky) ==
    LET half == base % 2 = 1 IN
    CASE rm \in {RNE, RMM} -> Flag(half \/ sticky)
      [] rm = RTZ -> 0
      [] rm = RDN -> IF sign = 1 /\ (half \/ sticky) THEN 2 ELSE 0
      [] rm = RUP -> IF sign = 0 /\ (half \/ sticky) THEN 2 ELSE 0

Increment(rm, sign, base, sticky) ==
    LET half == base % 2 = 1 IN
    CASE rm = RNE -> IF half /\ ~sticky THEN Flag(base % 4 = 3) ELSE Flag(half \/ sticky)
      [] rm = RTZ -> 0
      [] rm = RDN -> IF sign = 1 /\ (half \/ sticky) THEN 2 ELSE 0
      [] rm = RUP -> IF sign = 0 /\ (half \/ sticky) THEN 2 ELSE 0
      [] rm = RMM -> Flag(half \/ sticky)

\* out of range, or the value with its sign
Saturate(to, sign, u, flags) ==
    IF \/ sign = 0 /\ u > MaxOf(to)
       \/ sign = 1 /\ ~to.signed /\ u # 0
       \/ sign = 1 /\ to.signed /\ u > 0 /\ Trunc(LongBits, -u) < Trunc(LongBits, MinOf(to))
    THEN Result(Trunc(to.w, IF sign = 1 THEN MinOf(to) ELSE MaxOf(to)), {"NV"})
    ELSE Result(Trunc(to.w, IF sign = 1 THEN -u ELSE u), flags)

ConvertFloat(f, to, rm, x) ==
    LET sign == Sign(f, x)
        shift == IF Exp(f, x) = 0 THEN 1 ELSE f.s - 1 - (Exp(f, x) - Bias(f))
        lost == Exp(f, x) = 0 \/ shift > Width(f) - 1
        sticky == lost \/ (shift > 0 /\ Significand(f, x) % 2^Greater(shift, 0) # 0)
        base == IF lost THEN 0 ELSE Significand(f, x) \div 2^Greater(shift, 0)
        rounded == base + Increment(rm, sign, base, sticky)
        odd_tie == rm = RNE /\ ~sticky /\ base % 4 = 3
        long == Significand(f, x) * 2^(-shift - 1)
    IN  IF IsNaN(f, x) \/ x = Inf(f, 0) THEN Result(Trunc(to.w, MaxOf(to)), {"NV"})
        ELSE IF IsInf(f, x) THEN Result(Trunc(to.w, MinOf(to)), {"NV"})
        ELSE IF IsZero(f, x) THEN Quietly(0)
        ELSE IF shift >= 0
             THEN Saturate(to, sign, rounded \div 2,
                           IF sticky \/ odd_tie \/ rounded % 2 = 1 THEN {"NX"} ELSE {})
        ELSE IF long < 2^LongBits THEN Saturate(to, sign, long, {})
        ELSE Saturate(to, sign, Trunc(LongBits, IF sign = 1 THEN MinOf(to) ELSE MaxOf(to)), {"NV"})

-----------------------------------------------------------------------------
(* riscv_zfh_instructions.cc: half precision h through precision f.        *)

ConvertFromHalfFP(h, f, x) ==
    LET digits == Log2(Sig(h, x), 1) + 1
        shift_count == 1 + h.s - digits
        subnormal == Exp(h, x) = 0
        exp == IF subnormal THEN 1 - shift_count ELSE Exp(h, x)
        sig == IF subnormal THEN (Sig(h, x) * 2^shift_count) % 2^h.s ELSE Sig(h, x)
    IN  IF IsNaN(h, x) THEN Result(CanonicalNaN(f), NVIf(IsSNaN(h, x)))
        ELSE IF IsInf(h, x) THEN Quietly(Inf(f, Sign(h, x)))
        ELSE IF IsZero(h, x) THEN Quietly(x * 2^(Width(f) - Width(h)))
        ELSE Quietly(Pack(f, Sign(h, x), exp + Bias(f) - Bias(h), sig * 2^(f.s - h.s)))

M_ToInfinity(rm, sign) == rm \notin {RTZ, RDN}

\* whether a value too large for the format becomes infinite
ToInfinity(rm, sign) ==
    CASE rm = RTZ -> FALSE [] rm = RDN -> sign = 1 [] rm = RUP -> sign = 0 [] OTHER -> TRUE

\* the half with the bits of fres2, or of fres when it is subnormal; ftmp is what
\* was divided, unbounded the exponent it had
RoundedHalf(f, h, rm, x, unbounded, ftmp, fres, fres2) ==
    LET sign == Sign(f, x)
        new_exponent == (Exp(f, x) + Exp(f, fres2) - 1) % 2^f.e
        exp == IF unbounded > 0 THEN new_exponent - (Bias(f) - Bias(h))
               ELSE IF unbounded < 0 THEN 0 ELSE Exp(f, fres2) % 2^h.e
        sig == IF unbounded >= 0 THEN (fres2 \div 2^(f.s - h.s)) % 2^h.s
               ELSE IF Bit(fres, h.s) = 1 THEN (fres \div 2) % 2^h.s ELSE fres % 2^h.s
        overflow == exp >= MaxExp(h)
        half == IF ~overflow THEN Pack(h, sign, exp, sig)
                ELSE IF ToInfinity(rm, sign) THEN Inf(h, sign) ELSE MaxFinite(h, sign)
        exact == Equal(f, ConvertFromHalfFP(h, f, half).v, x)
        differs == ~Equal(f, fres2, ftmp)
    IN  Result(half, (IF overflow THEN {"OF", "NX"} ELSE {})
                 \cup (IF ~exact /\ (unbounded < 0 \/ (unbounded = 0 /\ differs)) THEN {"UF"} ELSE {})
                 \cup (IF ~exact /\ differs THEN {"NX"} ELSE {}))

\* a power of two multiplies the quotient again: the host's rounding leaves the
\* bits of a half
Remultiplied(f, h, rm, x, unbounded, ftmp, fres) ==
    RoundedHalf(f, h, rm, x, unbounded, ftmp, fres,
                HostMul(f, Host(rm), fres, Pack(f, 0, Bias(f) + f.s - h.s, 0)).v)

\* the significand, scaled to the smallest normal exponent, is divided by a power
\* of two
ConvertToHalfFP(f, h, rm, x) ==
    LET unbounded == Exp(f, x) - (Bias(f) - Bias(h))
        ftmp == Pack(f, Sign(f, x), 1, Sig(f, x))
        default == Bias(f) + f.s - h.s
        fdiv_exp == IF unbounded > 0 THEN default
                    ELSE IF unbounded = 0 THEN default + 1
                    ELSE Lesser(default + 1 - unbounded, MaxExp(f) - 1)
    IN  IF IsNaN(f, x) THEN Result(CanonicalNaN(h), NVIf(IsSNaN(f, x)))
        ELSE IF IsInf(f, x) THEN Quietly(Inf(h, Sign(f, x)))
        ELSE IF IsZero(f, x) THEN Quietly(x \div 2^(Width(f) - Width(h)))
        ELSE Remultiplied(f, h, rm, x, unbounded, ftmp,
                          HostDiv(f, Host(rm), ftmp, Pack(f, 0, fdiv_exp, 0)).v)

\* the flags of reading the operands, of the host operation, of the conversion
ZfhResult(h, f, rm, operands, r) ==
    LET half == ConvertToHalfFP(f, h, rm, r.v)
    IN  Result(half.v, UNION {o.flags : o \in operands} \cup r.flags \cup half.flags)
RiscVZfhFadd(h, f, rm, a, b) ==
    LET x == ConvertFromHalfFP(h, f, a)  y == ConvertFromHalfFP(h, f, b)
    IN  ZfhResult(h, f, rm, {x, y}, HostAdd(f, Host(rm), x.v, y.v))
RiscVZfhFsub(h, f, rm, a, b) ==
    LET x == ConvertFromHalfFP(h, f, a)  y == ConvertFromHalfFP(h, f, b)
    IN  ZfhResult(h, f, rm, {x, y}, HostSub(f, Host(rm), x.v, y.v))
RiscVZfhFmul(h, f, rm, a, b) ==
    LET x == ConvertFromHalfFP(h, f, a)  y == ConvertFromHalfFP(h, f, b)
    IN  ZfhResult(h, f, rm, {x, y}, HostMul(f, Host(rm), x.v, y.v))
RiscVZfhFdiv(h, f, rm, a, b) ==
    LET x == ConvertFromHalfFP(h, f, a)  y == ConvertFromHalfFP(h, f, b)
    IN  ZfhResult(h, f, rm, {x, y}, HostDiv(f, Host(rm), x.v, y.v))
RiscVZfhFsqrt(h, f, rm, a) ==
    LET x == ConvertFromHalfFP(h, f, a)
    IN  ZfhResult(h, f, rm, {x}, HostSqrt(f, Host(rm), x.v))
RiscVZfhFmadd(h, f, rm, a, b, c) ==
    LET x == ConvertFromHalfFP(h, f, a)  y == ConvertFromHalfFP(h, f, b)
        z == ConvertFromHalfFP(h, f, c)
    IN  ZfhResult(h, f, rm, {x, y, z}, HostFma(f, Host(rm), x.v, y.v, z.v))
RiscVZfhFmsub(h, f, rm, a, b, c) == RiscVZfhFmadd(h, f, rm, a, b, Neg(h, c))
RiscVZfhFnmadd(h, f, rm, a, b, c) == RiscVZfhFmadd(h, f, rm, Neg(h, a), b, Neg(h, c))
RiscVZfhFnmsub(h, f, rm, a, b, c) == RiscVZfhFmadd(h, f, rm, Neg(h, a), b, c)
\* std::fminf and std::fmaxf may return either of two zeros; here the first
RiscVZfhFmin(h, f, rm, a, b) ==
    LET x == ConvertFromHalfFP(h, f, a)  y == ConvertFromHalfFP(h, f, b)
    IN  ZfhResult(h, f, rm, {x, y},
                  Quietly(IF IsNaN(f, x.v) THEN y.v ELSE IF IsNaN(f, y.v) THEN x.v
                          ELSE IF Less(f, y.v, x.v) THEN y.v ELSE x.v))
RiscVZfhFmax(h, f, rm, a, b) ==
    LET x == ConvertFromHalfFP(h, f, a)  y == ConvertFromHalfFP(h, f, b)
    IN  ZfhResult(h, f, rm, {x, y},
                  Quietly(IF IsNaN(f, x.v) THEN y.v ELSE IF IsNaN(f, y.v) THEN x.v
                          ELSE IF Less(f, x.v, y.v) THEN y.v ELSE x.v))
\* through the helper that makes every NaN canonical
RiscVZfhFsgnj(h, a, b) == Canonical(h, Quietly(RiscVFSgnj(h, a, b))).v
RiscVZfhFsgnjn(h, a, b) == Canonical(h, Quietly(RiscVFSgnjn(h, a, b))).v
RiscVZfhFsgnjx(h, a, b) == Canonical(h, Quietly(RiscVFSgnjx(h, a, b))).v
RiscVZfhFcmpeq(h, f, a, b) ==
    LET x == ConvertFromHalfFP(h, f, a)  y == ConvertFromHalfFP(h, f, b)
    IN  Result(Flag(Equal(f, x.v, y.v)), x.flags \cup y.flags)
RiscVZfhFcmplt(h, f, a, b) ==
    LET x == ConvertFromHalfFP(h, f, a).v  y == ConvertFromHalfFP(h, f, b).v
    IN  Result(Flag(Less(f, x, y)), NVIf(IsNaN(f, x) \/ IsNaN(f, y)))
RiscVZfhFcmple(h, f, a, b) ==
    LET x == ConvertFromHalfFP(h, f, a).v  y == ConvertFromHalfFP(h, f, b).v
    IN  Result(Flag(LessEq(f, x, y)), NVIf(IsNaN(f, x) \/ IsNaN(f, y)))
\* integers go through precision f first
RiscVZfhCvtHw(h, f, rm, w, x) ==
    ConvertToHalfFP(f, h, rm, HostFromInt(f, Host(rm), Signed(w, x)).v)
RiscVZfhCvtHwu(h, f, rm, w, x) == ConvertToHalfFP(f, h, rm, HostFromInt(f, Host(rm), x).v)
RiscVZfhCvtSh(h, f, x) == ConvertFromHalfFP(h, f, x)
RiscVZfhCvtHs(f, h, rm, x) == ConvertToHalfFP(f, h, rm, x)
=============================================================================
