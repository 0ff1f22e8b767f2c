------------------------------- MODULE FpUnit -------------------------------
(***************************************************************************)
(* Half precision in a floating point register file: two operands, an      *)
(* accumulator register with all its bits, and the rounding mode.  Loads   *)
(* and moves, conversions and arithmetic write the accumulator, each with  *)
(* the NaN boxing of its own helper, and later instructions read it back.  *)
(*                                                                         *)
(* The properties compare FpScalar and FpVector with exact arithmetic      *)
(* rounded once (the host operations of FpOps) and with each other.  The   *)
(* formats are parameters: RVFpRegister has 64 bits, four times a half.    *)
(***************************************************************************)
EXTENDS FpVector, FpTransfers

CONSTANTS Half,         \* the format of half precision
          Single,       \* the wider one its instructions compute in
          Coarse,       \* a short significand with a wide exponent
          Operands,     \* the halves the second operand may be
          Loaded        \* halves that memory holds
ASSUME FormatAssumption == /\ RegBits = 4 * Width(Half)
                           /\ Single.s >= 2 * Half.s + 3 /\ Single.s >= 7 /\ Single.e > Half.e
                           /\ LongBits > Coarse.s
                           /\ Loaded \subseteq Word(Width(Half)) /\ Operands \subseteq Word(Width(Half))

VARIABLES a, b,         \* operands, as halves
          acc,          \* a register
          rm            \* the resolved rounding mode
vars == <<a, b, acc, rm>>

Init == /\ a \in Word(Width(Half)) /\ b \in Operands /\ rm = RNE
        /\ acc \in {RiscVZfhFlhChild(Half, v) : v \in Loaded}

Into(reg) == acc' = reg /\ UNCHANGED <<a, b, rm>>
Accumulated == GetNaNBoxedSource(Half, acc)
Flh == \E v \in Loaded : Into(RiscVZfhFlhChild(Half, v))
Fmvhx == Into(RiscVZfhFMvhx(Half, RiscVZfhFMvxh(Half, Low(Half, acc))))
Fadd == Into(Box(Half, RiscVZfhFadd(Half, Single, rm, Accumulated, a).v))
Fmul == Into(Box(Half, RiscVZfhFmul(Half, Single, rm, Accumulated, b).v))
Fmadd == Into(Box(Half, RiscVZfhFmadd(Half, Single, rm, a, b, Low(Half, acc)).v))
CvtHw == Into(RiscVZfhCvtHelper(Half, RiscVZfhCvtHw(Half, Single, rm, Width(Half), a).v))
SetMode == rm' \in RNE .. RMM /\ UNCHANGED <<a, b, acc>>

Next == Flh \/ Fmvhx \/ Fadd \/ Fmul \/ Fmadd \/ CvtHw \/ SetMode
Spec == Init /\ [][Next]_vars

-----------------------------------------------------------------------------
c == Low(Half, acc)
\* a wide and a coarse pattern made of the state's bits: every exponent occurs
Extend(x, y, k) == x * 2^k + (y % 2^k)
wide == Extend(Extend(a, b, Width(Half)), c, Width(Single) - 2 * Width(Half))
coarse == Extend(a, b, Width(Coarse) - Width(Half))
\* facts about a, b and the mode alone are evaluated where the register is a zero
PairsOnly == IsZero(Half, c)
IntTypes == [w : {LongBits - 2, LongBits}, signed : BOOLEAN]

\* floor, remainder and unit of a finite magnitude
Whole(f, x) == (Significand(f, x) * 2^Greater(Scale(f, x), 0)) \div 2^Greater(-Scale(f, x), 0)
Unit2(f, x) == 2^Greater(-Scale(f, x), 0)
Rest(f, x) == Significand(f, x) % Unit2(f, x)
\* the integer nearest to x in the mode, and whether x was one
Nearest(f, mode, x) ==
    LET n == Whole(f, x) + Flag(RoundsUp(mode, Sign(f, x), Whole(f, x), Rest(f, x), Unit2(f, x)))
    IN  IF Sign(f, x) = 1 THEN -n ELSE n
Saturated(to, n) == Trunc(to.w, Clamp(MinOf(to), MaxOf(to), n))

\* the conversions to integers of the two namespaces: three families agree, RV64
\* extends what RV32 gives by its sign, the unsigned ones too, and gives the
\* long forms, from which an exact conversion comes back
WordBits == LongBits \div 2
FamiliesConvert ==
    LET F == Coarse  w == WordBits  reg == FlwChild(F, coarse)
        s32(op) == Rv32F(op, F, w, rm, 0, reg, reg)  s64(op) == Rv64F(op, F, w, rm, 0, reg, reg)
        d32(op) == Rv32D(op, F, w, rm, 0, coarse, coarse)  d64(op) == Rv64D(op, F, w, rm, 0, coarse, coarse)
        h32(op) == Rv32Zfh(op, F, Single, w, rm, 0, reg, reg)
        h64(op) == Rv64Zfh(op, F, Single, w, rm, 0, reg, reg)
        back(v, signed) == IF signed THEN RiscVFCvtSl(Single, rm, w, v) ELSE RiscVFCvtSlu(Single, rm, w, v)
        op64(o, signed) == Rv64D(o, Single, w, rm, 0, back(s64("fcvt.l.s").v, signed).v, 0)
    IN  /\ s32("fcvt.w.s") = d32("fcvt.w.d") /\ s32("fcvt.w.s") = h32("fcvt.w.h")
        /\ s32("fcvt.wu.s") = d32("fcvt.wu.d") /\ s32("fcvt.wu.s") = h32("fcvt.wu.h")
        /\ s64("fcvt.w.s") = WriteBack([w |-> w], 2*w, s32("fcvt.w.s")) /\ s64("fcvt.w.s") = d64("fcvt.w.d")
        /\ s64("fcvt.wu.s") = WriteBack([w |-> w], 2*w, s32("fcvt.wu.s")) /\ s64("fcvt.wu.s") = h64("fcvt.wu.h")
        /\ s64("fcvt.l.s") = d64("fcvt.l.d") /\ s64("fcvt.l.s") = h64("fcvt.l.h")
        /\ s64("fcvt.lu.s") = d64("fcvt.lu.d") /\ s64("fcvt.lu.s") = h64("fcvt.lu.h")
        /\ s64("fcvt.l.s") = ConvertFloat(F, [w |-> 2*w, signed |-> TRUE], rm, coarse)
        /\ op64("fcvt.l.d", TRUE) = Quietly(s64("fcvt.l.s").v)
        /\ op64("fcvt.lu.d", FALSE) = Quietly(s64("fcvt.l.s").v)

\* Conversions to integers: RiscVConvertFloatWithFflagsOp, which shifts the
\* significand by hand and folds the bits it loses, is the exact value rounded
\* in any of the five modes and clamped to the type; invalid is raised exactly
\* when the clamp changed it, and inexact exactly when the value was no integer
\* (but for a tie of the nearest-away mode, which the code takes for exact).
\* CvtHelper of the vector unit gives the truncated value.  The instructions of
\* both namespaces and three precisions are instances of it.
ConvertRounds == PairsOnly =>
    /\ FamiliesConvert
    /\ \A to \in IntTypes :
        LET r == ConvertFloat(Coarse, to, rm, coarse)
            v == CvtHelper(Coarse, to, coarse)
            n == Nearest(Coarse, rm, coarse)
            tie == rm = RMM /\ 2 * Rest(Coarse, coarse) = Unit2(Coarse, coarse)
            edge == HostFromInt(Coarse, RNE, MaxOf(to)).v
        IN  IF IsNaN(Coarse, coarse) \/ IsInf(Coarse, coarse)
            THEN r.flags = {"NV"} /\ v = {r}
                 /\ r.v = Trunc(to.w, IF coarse = Inf(Coarse, 1) THEN MinOf(to) ELSE MaxOf(to))
            ELSE /\ r.v = Saturated(to, n)
                 /\ ("NV" \in r.flags) = (n \notin MinOf(to) .. MaxOf(to))
                 /\ "NV" \in r.flags \/ tie \/ ("NX" \in r.flags) = (Rest(Coarse, coarse) > 0)
                 /\ coarse # edge => {x.v : x \in v} = {Saturated(to, Nearest(Coarse, RTZ, coarse))}

Visible(r) == r.flags \ {"UF"}
SameAs(r, host) == r.v = Canonical(Half, host).v /\ Visible(r) = host.flags

\* Half precision arithmetic: the conversion from single precision, done with a
\* division and a multiplication of the host on a rescaled significand, rounds
\* like a conversion of the host, overflow and inexact flags included; the way
\* up and back is the identity; and adding, subtracting, multiplying, dividing
\* and taking roots in single precision, which rounds twice, gives the result
\* and the flags of one rounding.
HalfArithmetic ==
    LET m == Host(rm)
        up == ConvertFromHalfFP(Half, Single, a)
    IN  /\ SameAs(ConvertToHalfFP(Single, Half, rm, wide), HostConvert(Single, Half, m, wide))
        /\ PairsOnly =>
             /\ ~IsNaN(Half, a) => ConvertToHalfFP(Single, Half, rm, up.v) = Quietly(a)
             /\ SameAs(RiscVZfhFadd(Half, Single, rm, a, b), HostAdd(Half, m, a, b))
             /\ SameAs(RiscVZfhFsub(Half, Single, rm, a, b), HostSub(Half, m, a, b))
             /\ SameAs(RiscVZfhFmul(Half, Single, rm, a, b), HostMul(Half, m, a, b))
             /\ SameAs(RiscVZfhFdiv(Half, Single, rm, a, b), HostDiv(Half, m, a, b))
             /\ SameAs(RiscVZfhFsqrt(Half, Single, rm, a), HostSqrt(Half, m, a))

\* the four ways to sum a product: scalar F, and both vector forms, whose
\* overwritten operand is the addend or a factor
FusedForms ==
    LET m == Host(rm)  F == Half IN
    {<<RiscVFMadd(F, rm, a, b, c), Vfmacc(F, m, b, a, c), Vfmadd(F, m, c, b, a)>>,
     <<RiscVFMsub(F, rm, a, b, c), Vfmsac(F, m, b, a, c), Vfmsub(F, m, c, b, a)>>,
     <<RiscVFNmadd(F, rm, a, b, c), Vfnmacc(F, m, b, a, c), Vfnmadd(F, m, c, b, a)>>,
     <<RiscVFNmsub(F, rm, a, b, c), Vfnmsac(F, m, b, a, c), Vfnmsub(F, m, c, b, a)>>}
\* double precision handles NaNs, infinities and zeros itself: it gives +0 for
\* an exact zero sum in every mode, and it negates after rounding
DoubleAgrees ==
    LET F == Half
        sums == IF IsZero(F, c) THEN rm # RDN ELSE TRUE
    IN  /\ sums => RiscVDMadd(F, rm, a, b, c) = RiscVFMadd(F, rm, a, b, c).v
        /\ sums => RiscVDMsub(F, rm, a, b, c) = RiscVFMsub(F, rm, a, b, c).v
        /\ rm \notin {RDN, RUP} /\ ~IsZero(F, c) =>
             IF IsZero(F, HostFma(F, RTZ, a, b, c).v) \/ IsZero(F, HostFma(F, RTZ, a, b, Neg(F, c)).v) THEN TRUE
             ELSE /\ RiscVDNmadd(F, rm, a, b, c) = RiscVFNmadd(F, rm, a, b, c).v
                  /\ RiscVDNmsub(F, rm, a, b, c) = RiscVFNmsub(F, rm, a, b, c).v

\* the widening vector instructions multiply and add in two operations: the
\* product of two halves is exact, so they are the fused ones
WideningAgrees ==
    LET m == Host(rm)  up(x) == ConvertFromHalfFP(Half, Single, x).v
        fma(x, y, z) == Canonical(Single, HostFma(Single, m, x, y, z)).v
        neg(x) == Neg(Single, x)
    IN  /\ Vfwmacc(Half, Single, m, b, a, up(c)).v = fma(up(a), up(b), up(c))
        /\ Vfwmsac(Half, Single, m, b, a, up(c)).v = fma(up(a), up(b), neg(up(c)))
        /\ Vfwnmacc(Half, Single, m, b, a, up(c)).v = fma(neg(up(a)), up(b), neg(up(c)))
        /\ Vfwnmsac(Half, Single, m, b, a, up(c)).v = fma(neg(up(a)), up(b), up(c))
        /\ PairsOnly =>
             /\ Vfwaddw(Half, Single, m, up(b), a) = Vfwadd(Half, Single, m, b, a)
             /\ Vfwsubw(Half, Single, m, up(b), a) = Vfwsub(Half, Single, m, b, a)
             /\ Canonical(Single, Vfwredosum(Half, Single, m, up(a), b)) = Vfwadd(Half, Single, m, a, b)
             /\ RiscVZfhCvtHs(Single, Half, rm, Vfwmul(Half, Single, m, a, b).v).v
                  = RiscVZfhFmul(Half, Single, rm, a, b).v
             /\ RiscVZfhCvtHs(Single, Half, rm, Vfwsub(Half, Single, m, a, b).v).v
                  = RiscVZfhFsub(Half, Single, rm, a, b).v

\* conversions between formats and from integers, of the four files
ConversionsAgree ==
    LET m == Host(rm)  w == Width(Half) IN
    /\ RiscVDCvtSd(Single, Half, rm, wide).v = RiscVZfhCvtHs(Single, Half, rm, wide).v
    /\ Vfncvtffw(Single, Half, m, wide) = Canonical(Half, HostConvert(Single, Half, m, wide))
    /\ rm = RTZ /\ Exp(Half, Vfncvtffw(Single, Half, RTZ, wide).v) \in 1 .. MaxExp(Half) - 1 =>
         LET odd == Vfncvtrodffw(Single, Half, RTZ, wide).v
         IN  /\ odd % 2 = 0 => "NX" \notin HostConvert(Single, Half, RTZ, wide).flags
             /\ odd \in {HostConvert(Single, Half, dir, wide).v : dir \in {RDN, RUP}}
    /\ PairsOnly =>
         /\ RiscVDCvtDs(Half, Single, rm, a).v = RiscVZfhCvtSh(Half, Single, a).v
         /\ Vfwcvtffv(Half, Single, m, a) = RiscVZfhCvtSh(Half, Single, a)
         /\ RiscVFCvtSw(Half, rm, w, a).v = RiscVZfhCvtHw(Half, Single, rm, w, a).v
         /\ RiscVFCvtSwu(Half, rm, w, a).v = RiscVZfhCvtHwu(Half, Single, rm, w, a).v
         /\ RiscVDCvtDw(Half, rm, w, a) = Vfcvtfxv(Half, m, w, a)
         /\ RiscVDCvtDwu(Half, rm, w, a) = Vfcvtfxuv(Half, m, a)

\* moves, compares, classes and stores by namespace, with a register as the
\* second source that may be badly boxed: RV64 unboxes for a single precision
\* compare and RV32 reads the low bits; what was in rd does not matter, but for
\* the class of a single in RV64, which is written by halves; a store sends
\* what a load brought
TransfersAgree ==
    LET F == Half  w == Width(Half)  boxed == FlwChild(F, a)  rd == wide
        s32(op, ww, old) == Rv32F(op, F, ww, rm, old, boxed, acc)
        s64(op, ww, old) == Rv64F(op, F, ww, rm, old, boxed, acc)
        h64(op, ww, old) == Rv64Zfh(op, F, Single, ww, rm, old, boxed, acc)
        good == Accumulated = c
    IN  /\ \A op \in {"feq.s", "flt.s", "fle.s"} :
             IF good THEN s64(op, w, rd) = s32(op, w, rd) ELSE s64(op, w, rd).v = 0
        /\ s32("flt.s", w, 0) = Rv32D("flt.d", F, w, rm, 0, a, c)
        /\ \A op \in {"feq", "flt", "fle"} :
             LET o == [feq |-> <<"feq.s", "feq.h", "feq.d">>, flt |-> <<"flt.s", "flt.h", "flt.d">>,
                       fle |-> <<"fle.s", "fle.h", "fle.d">>][op]
             IN  /\ h64(o[2], w, rd) = s64(o[1], w, rd)
                 /\ Rv64D(o[3], F, w, rm, rd, a, c) = s32(o[1], w, rd)
        /\ Rv32FSw(0, F, w, a, b, acc) = <<>> /\ Rv64DSd(0, w, a, b, c) = <<>>
        /\ Rv32DSd(1, w, a, b, wide)[1][1] = Rv32FSw(1, F, w, a, b, acc)[1][1]
        /\ PairsOnly =>
             /\ RiscVFMvwx(F, s32("fmv.x.w", w, rd % 2^w).v) = Box(F, a)
             /\ RiscVFMvwx(F, s64("fmv.x.w", w, rd).v) = Box(F, a)
             /\ s64("fmv.x.w", w, rd).v = Sext(w, 2*w, s32("fmv.x.w", w, 0).v)
             /\ h64("fmv.h.x", w, rd).v = RiscVZfhFlhChild(F, Low(F, boxed))
             /\ h64("fmv.x.h", w, rd) = s64("fmv.x.w", w, rd)
             /\ s32("fclass.s", 10, rd % 2^10).v = ClassifyFP(F, a) /\ h64("fclass.h", 10, rd).v = ClassifyFP(F, a)
             /\ s64("fclass.s", 10, rd).v = (rd \div 2^10) * 2^10 + ClassifyFP(F, a)
             /\ Rv64D("fclass.d", F, 10, rm, rd, a, a) = Rv32D("fclass.d", F, 10, rm, rd % 2^10, a, a)
             /\ \A op \in {"fmv.x.d", "fmv.d.x"} :
                  Rv64D(op, F, w, rm, rd % 2^(2*w), boxed % 2^(2*w), 0).v = boxed % 2^(2*w)
             /\ Rv32FSw(1, F, w, a, b, boxed) = <<<<(a + b) % 2^w, a>>>>
             /\ Rv64FSw(1, F, w, a, b, boxed) = <<<<a + b, a>>>>
             /\ Rv64DSd(1, w, a, b, wide) = <<<<a + b, wide>>>>
             /\ ~IsNaN(F, a) => RiscVZfhCvtHd(Single, F, rm, RiscVZfhCvtDh(F, Single, a).v) = Quietly(a)
             /\ Rv64Zfh("fcvt.h.lu", F, Single, w, rm, rd, a, a).v = RiscVZfhCvtHwu(F, Single, rm, w, a).v
             /\ Rv64Zfh("fcvt.h.l", F, Single, w, rm, rd, Sext(w, 2*w, a), a).v = RiscVZfhCvtHw(F, Single, rm, w, a).v

\* Independent implementations agree: fused multiply-adds of the scalar and
\* the vector unit, with their permuted operands, in value and flags, but that
\* only the scalar ones raise invalid for an infinity times zero whatever the
\* addend (the vector ones leave a quiet NaN as addend to the host); the values
\* of double precision's hand-made special cases (away from the signs of zero
\* sums and the directed modes of the negated forms); minimum, maximum and root
\* of F, D and the vector unit, and of the reductions on numbers; conversions
\* and widening operations; the comparisons of single, double and half, result
\* and flags, and those of the vector unit, which decide alike but never raise
\* invalid; classes, which widening keeps but for subnormals.
FpImplementationsAgree ==
    LET F == Half
        nan == IsNaN(F, a) \/ IsNaN(F, b)
        zeros == IsZero(F, a) /\ IsZero(F, b)
        up == ConvertFromHalfFP(F, Single, a).v
    IN  /\ \A t \in FusedForms :
             /\ t[2] = t[3] /\ t[1].v = t[2].v
             /\ t[1].flags = t[2].flags \cup NVIf(InfTimesZero(F, a, b))
        /\ DoubleAgrees /\ WideningAgrees /\ ConversionsAgree /\ TransfersAgree
        /\ PairsOnly =>
             /\ RiscVDAdd(F, rm, a, b) = Vfadd(F, Host(rm), a, b) /\ Vfrsub(F, Host(rm), b, a) = RiscVFSub(F, rm, a, b)
             /\ RiscVDMul(F, rm, a, b) = Vfmul(F, Host(rm), b, a) /\ Vfrdiv(F, Host(rm), b, a) = RiscVDDiv(F, rm, a, b)
             /\ RiscVDMin(F, a, b) = RiscVFMin(F, a, b) /\ Vfmin(F, a, b) = RiscVFMin(F, a, b)
             /\ RiscVDMax(F, a, b) = RiscVFMax(F, a, b) /\ Vfmax(F, a, b) = RiscVFMax(F, a, b)
             /\ ~nan /\ ~zeros => /\ Vfredmin(F, a, b) = RiscVFMin(F, a, b).v
                                  /\ Vfredmax(F, a, b) = RiscVFMax(F, a, b).v
                                  /\ RiscVZfhFmin(F, Single, rm, a, b).v = RiscVFMin(F, a, b).v
                                  /\ RiscVZfhFmax(F, Single, rm, a, b).v = RiscVFMax(F, a, b).v
             /\ RiscVFSqrt(F, rm, a) = RiscVDSqrt(F, rm, a)
             /\ Vfsqrtv(F, Host(rm), a).v = RiscVFSqrt(F, rm, a).v
             /\ RVFCmpeq(F, a, b) = RiscVZfhFcmpeq(F, Single, a, b)
             /\ RVFCmplt(F, a, b) = RiscVZfhFcmplt(F, Single, a, b)
             /\ RVFCmple(F, a, b) = RiscVZfhFcmple(F, Single, a, b)
             /\ RVFCmpeq(F, a, b) = RiscVDCmpeq(F, a, b) /\ RVFCmplt(F, a, b) = RiscVDCmplt(F, a, b)
             /\ RVFCmple(F, a, b) = RiscVDCmple(F, a, b)
             /\ Flag(Vmfle(F, a, b)) = RVFCmple(F, a, b).v /\ Flag(Vmfeq(F, a, b)) = RVFCmpeq(F, a, b).v
             /\ Vmfge(F, a, b) = (Vmfgt(F, a, b) \/ Vmfeq(F, a, b)) /\ Vmfne(F, a, b) = ~Vmfeq(F, a, b)
             /\ Vmflt(F, a, b) = Vmfgt(F, b, a)
             /\ nan \/ Vmflt(F, a, b) = ~Vmfge(F, a, b)
             /\ Vfsgnj(F, a, b) = RiscVFSgnj(F, a, b) /\ RiscVDSgnj(F, a, b) = RiscVFSgnj(F, a, b)
             /\ Vfsgnjn(F, a, b) = RiscVFSgnj(F, a, Neg(F, b)) /\ RiscVFSgnjx(F, a, a) = Magnitude(F, a)
             /\ IsNaN(F, a) \/ (Exp(F, a) = 0 /\ ~IsZero(F, a)) \/ ClassifyFP(F, a) = ClassifyFP(Single, up)
             /\ Vfclassv(F, Neg(F, a)) = (IF IsNaN(F, a) THEN ClassifyFP(F, a) ELSE 128 \div ClassifyFP(F, a))

\* |p * 2^k - 1| <= 2^-bits
NearOne(p, k, bits) == Abs(p - 2^(-k)) <= 2^(-k - bits)
RootIndex == (NormExponent(Single, wide) % 2) * 64 + ((NormMantissa(Single, wide) \div 2^(Single.s - 6)) % 64)
RootNearOne ==
    LET y == Vfrsqrt7v(Single, wide).v
    IN  NearOne(Significand(Single, y) * Significand(Single, y) * Significand(Single, wide),
                2 * Scale(Single, y) + Scale(Single, wide), 6)
IsNormal(x) == Exp(Single, x) \in 1 .. MaxExp(Single) - 1

\* Estimates of reciprocals and of their roots: whatever the exponent's parity
\* and for subnormal operands, the table entry and the new exponent together
\* give a result within seven bits of the exact one, when it is normal, and its
\* sign.  (One entry of the root's table is excepted: index 88 holds 20 between
\* 91 and 88.)
Estimates ==
    ~IsNaN(Single, wide) /\ ~IsInf(Single, wide) /\ ~IsZero(Single, wide) =>
        /\ LET y == Vfrec7v(Single, rm, wide)
           IN  /\ Sign(Single, y) = Sign(Single, wide)
               /\ IsNormal(y) /\ y # MaxFinite(Single, Sign(Single, y)) =>
                    NearOne(Significand(Single, y) * Significand(Single, wide),
                            Scale(Single, y) + Scale(Single, wide), 7)
        /\ Sign(Single, wide) = 0 => IsNormal(Vfrsqrt7v(Single, wide).v) /\ (RootIndex = 88 \/ RootNearOne)

\* "If the floating point value is narrower than the register, the upper bits
\* have to be set to all ones" (the boxing helpers): what an instruction wrote
\* is what the next one reads.  (Violated: the helpers shift the ones by the
\* difference of the widths, which is the value's width only if the register is
\* twice as wide.)
ResultsReadBack == Accumulated = c
=============================================================================
