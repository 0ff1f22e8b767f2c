--------------------------- MODULE VectorElements ---------------------------
(***************************************************************************)
(* What each integer vector instruction computes for one element:          *)
(* riscv_vector_opi_instructions.cc, riscv_vector_opm_instructions.cc,     *)
(* riscv_vector_unary_instructions.cc (extensions) and                     *)
(* riscv_vector_basic_bit_manipulation_instructions.cc.                    *)
(*                                                                         *)
(* Every instruction there is the same lambda written once per element     *)
(* type; here it is one operator of the width w in bits.  Operands are     *)
(* words (naturals below 2^w), in the order of the lambda: vs2, vs1, and   *)
(* the old destination vd or the mask bit m.  An operand of a widened      *)
(* source has width 2w.  Which elements are written, and when, is the      *)
(* element loop of VectorUnit.                                             *)
(***************************************************************************)
EXTENDS Words

LOCAL S(w, x) == Signed(w, x)

-----------------------------------------------------------------------------
(* riscv_vector_opi_instructions.cc: single width arithmetic. *)

Vadd(w, vs2, vs1)  == Trunc(w, vs2 + vs1)
Vsub(w, vs2, vs1)  == Trunc(w, vs2 - vs1)
Vrsub(w, vs2, vs1) == Trunc(w, vs1 - vs2)
Vand(w, vs2, vs1)  == vs2 & vs1
Vor(w, vs2, vs1)   == vs2 | vs1
Vxor(w, vs2, vs1)  == vs2 ^^ vs1

\* the shift amount is the low log2(width) bits of vs1
Vsll(w, vs2, vs1) == Shl(w, vs2, vs1 % w)
Vsrl(w, vs2, vs1) == Shr(vs2, vs1 % w)
Vsra(w, vs2, vs1) == Trunc(w, Shr(S(w, vs2), vs1 % w))

\* narrowing shifts: vs2 has twice the width
Vnsrl(w, vs2, vs1) == Trunc(w, Shr(vs2, vs1 % (2*w)))
Vnsra(w, vs2, vs1) == Trunc(w, Shr(S(2*w, vs2), vs1 % (2*w)))

Vminu(w, vs2, vs1) == IF vs2 < vs1 THEN vs2 ELSE vs1
Vmin(w, vs2, vs1)  == IF S(w, vs2) < S(w, vs1) THEN vs2 ELSE vs1
Vmaxu(w, vs2, vs1) == IF vs2 > vs1 THEN vs2 ELSE vs1
Vmax(w, vs2, vs1)  == IF S(w, vs2) > S(w, vs1) THEN vs2 ELSE vs1

\* compares, one mask bit each
Vmseq(w, vs2, vs1)  == vs2 = vs1
Vmsne(w, vs2, vs1)  == vs2 # vs1
Vmsltu(w, vs2, vs1) == vs2 < vs1
Vmslt(w, vs2, vs1)  == S(w, vs2) < S(w, vs1)
Vmsleu(w, vs2, vs1) == vs2 <= vs1
Vmsle(w, vs2, vs1)  == S(w, vs2) <= S(w, vs1)
Vmsgtu(w, vs2, vs1) == vs2 > vs1
Vmsgt(w, vs2, vs1)  == S(w, vs2) > S(w, vs1)

-----------------------------------------------------------------------------
(* Saturating instructions.  The result is the element and whether the     *)
(* instruction sets vxsat (it never clears it).                            *)

Plain(v)     == [v |-> v, sat |-> FALSE]
Saturated(v) == [v |-> v, sat |-> TRUE]

Vsaddu(w, vs2, vs1) ==
    LET sum == Trunc(w, vs2 + vs1) IN
    IF sum < vs1 THEN Saturated(MaxU(w)) ELSE Plain(sum)

\* overflow when the operands have one sign and the sum the other
VsaddHelper(w, vs2, vs1) ==
    LET sum == Trunc(w, vs2 + vs1) IN
    IF S(w, vs2 ^^ vs1) >= 0 /\ S(w, sum ^^ vs2) < 0
    THEN Saturated(Trunc(w, IF S(w, vs2) > 0 THEN MaxS(w) ELSE MinS(w)))
    ELSE Plain(sum)
Vsadd(w, vs2, vs1) == VsaddHelper(w, vs2, vs1)

Vssubu(w, vs2, vs1) ==
    IF vs2 < vs1 THEN Saturated(0) ELSE Plain(Trunc(w, vs2 - vs1))

VssubHelper(w, vs2, vs1) ==
    LET diff == Trunc(w, vs2 - vs1) IN
    IF S(w, vs2 ^^ vs1) < 0 /\ S(w, diff ^^ vs1) >= 0
    THEN Saturated(Trunc(w, IF S(w, vs1) < 0 THEN MaxS(w) ELSE MinS(w)))
    ELSE Plain(diff)
Vssub(w, vs2, vs1) == VssubHelper(w, vs2, vs1)

-----------------------------------------------------------------------------
(* Add and subtract with carry; m is the element's bit of v0. *)

Vadc(w, vs2, vs1, m) == Trunc(w, vs2 + vs1 + Flag(m))
Vsbc(w, vs2, vs1, m) == Trunc(w, vs2 - vs1 - Flag(m))

\* elements narrower than 64 bits: the sum is formed in a wider type
Vmadc(w, vs2, vs1, m) == Shr(vs2 + vs1 + Flag(m), w) # 0

\* 64-bit elements: no wider type is used.  The carry of the low byte (lo
\* bits) is to be formed first; as written, & binds weaker than +:
\*   vs1 & (0xff + vs2) & (0xff + mask)
Vmadc64(w, lo, vs2, vs1, m) ==
    LET carry == Shr(vs1 & Trunc(w, MaxU(lo) + vs2) & (MaxU(lo) + Flag(m)), lo)
    IN  Shr(Shr(vs1, lo) + Shr(vs2, lo) + carry, w - lo) # 0

M_Vmsbc(w, vs2, vs1, m) == vs2 < Trunc(w, Flag(m) + vs1)      \* the sum wraps
Vmsbc(w, vs2, vs1, m) == vs2 < Flag(m) + vs1
\* 64-bit elements compare without adding the borrow
Vmsbc64(vs2, vs1, m) == vs2 < vs1 \/ (vs2 = vs1 /\ m)

Vmerge(w, vs2, vs1, m) == IF m THEN vs1 ELSE vs2

-----------------------------------------------------------------------------
(* Rounding by vxrm: 0 to nearest up, 1 to nearest even, 2 down, 3 odd.    *)
(* size is one more than the number of bits shifted out.                   *)

\* a tie to even that forgets the bit it would round to
M_GetRoundingBit(rm, bits, size) ==
    CASE rm = 0 -> Flag(size >= 2 /\ Bit(bits, size - 2) = 1)
      [] rm = 1 -> Flag(size >= 3 /\ bits % 2^(size - 1) > 2^(size - 2))
      [] rm = 2 -> 0
      [] rm = 3 -> Flag(Bit(bits, size - 1) = 0 /\ size >= 2 /\ bits % 2^(size - 1) # 0)
GetRoundingBit(rm, bits, size) ==
    LET half  == size >= 2 /\ Bit(bits, size - 2) = 1
        lsb   == Bit(bits, size - 1) = 1
        below == size >= 3 /\ bits % 2^(size - 2) # 0
        lost  == size >= 2 /\ bits % 2^(size - 1) # 0
    IN  CASE rm = 0 -> Flag(half)
          [] rm = 1 -> Flag(half /\ (below \/ lsb))
          [] rm = 2 -> 0
          [] rm = 3 -> Flag(~lsb /\ lost)

\* value is an exact (wider) integer here
RoundOff(rm, value, size) == Shr(value, size) + GetRoundingBit(rm, value, size + 1)

\* vs2 is the integer in its own type's view; the bits kept for rounding are
\* those shifted out and the one above them
VssrHelper(w, rm, vs2, vs1) ==
    LET shift == vs1 % w
        bits  == IF shift < w - 1 THEN Trunc(w, vs2) % 2^(shift + 1) ELSE Trunc(w, vs2)
    IN  Shr(vs2, shift) + GetRoundingBit(rm, bits, shift + 1)
Vssrl(w, rm, vs2, vs1) == Trunc(w, VssrHelper(w, rm, vs2, vs1))
Vssra(w, rm, vs2, vs1) == Trunc(w, VssrHelper(w, rm, S(w, vs2), vs1))

\* narrow a 2w-bit value to [lo, hi] after a rounded shift
VnclipHelper(w, rm, vs2, vs1, lo, hi) ==
    LET shift == vs1 % (2*w)
        bits  == IF shift < 2*w - 1 THEN Trunc(2*w, vs2) % 2^(shift + 1) ELSE Trunc(2*w, vs2)
        r     == Shr(vs2, shift) + GetRoundingBit(rm, bits, shift + 1)
    IN  IF r > hi THEN Saturated(Trunc(w, hi))
        ELSE IF r < lo THEN Saturated(Trunc(w, lo))
        ELSE Plain(Trunc(w, r))
Vnclipu(w, rm, vs2, vs1) == VnclipHelper(w, rm, vs2, vs1, 0, MaxU(w))
Vnclip(w, rm, vs2, vs1)  == VnclipHelper(w, rm, S(2*w, vs2), vs1, MinS(w), MaxS(w))

\* fractional multiply: the double width product shifted right by w - 1
VsmulHelper(w, rm, vs2, vs1) ==
    LET r == VssrHelper(2*w, rm, S(w, vs2) * S(w, vs1), w - 1)
    IN  IF r < MinS(w) THEN Saturated(Trunc(w, MinS(w)))
        ELSE IF r > MaxS(w) THEN Saturated(MaxS(w))
        ELSE Plain(Trunc(w, r))
Vsmul(w, rm, vs2, vs1) == VsmulHelper(w, rm, vs2, vs1)

-----------------------------------------------------------------------------
(* riscv_vector_opm_instructions.cc: averages, products, quotients. *)

VaaddHelper(rm, vs2, vs1) == RoundOff(rm, vs2 + vs1, 1)
Vaaddu(w, rm, vs2, vs1) == Trunc(w, VaaddHelper(rm, vs2, vs1))
Vaadd(w, rm, vs2, vs1)  == Trunc(w, VaaddHelper(rm, S(w, vs2), S(w, vs1)))
VasubHelper(rm, vs2, vs1) == RoundOff(rm, vs2 - vs1, 1)
Vasubu(w, rm, vs2, vs1) == Trunc(w, VasubHelper(rm, vs2, vs1))
Vasub(w, rm, vs2, vs1)  == Trunc(w, VasubHelper(rm, S(w, vs2), S(w, vs1)))

Vdivu(w, vs2, vs1) == IF vs1 = 0 THEN Inv(w, vs1) ELSE vs2 \div vs1
Vdiv(w, vs2, vs1) ==
    IF vs1 = 0 THEN Trunc(w, -1)
    ELSE IF S(w, vs1) = -1 /\ S(w, vs2) = MinS(w) THEN Trunc(w, MinS(w))
    ELSE Trunc(w, TQuot(S(w, vs2), S(w, vs1)))
M_Vremu(w, vs2, vs1) == IF vs1 = 0 THEN 0 ELSE vs2 % vs1
Vremu(w, vs2, vs1) == IF vs1 = 0 THEN vs2 ELSE vs2 % vs1
\* The most negative number % -1 is undefined for int32_t and int64_t (the host's
\* division traps, or not); narrower elements are promoted to int. Nothing is said
\* of Vrem there.
VremDefined(w, vs2, vs1) == ~(S(w, vs2) = MinS(w) /\ S(w, vs1) = -1)
Vrem(w, vs2, vs1) == IF vs1 = 0 THEN vs2 ELSE Trunc(w, TRem(S(w, vs2), S(w, vs1)))

VmulHighHelper(w, vs2, vs1) == Trunc(w, Shr(vs2 * vs1, w))
Vmulhu(w, vs2, vs1) == VmulHighHelper(w, vs2, vs1)
Vmulh(w, vs2, vs1)  == VmulHighHelper(w, S(w, vs2), S(w, vs1))
VmulHighSUHelper(w, vs2, vs1) == Trunc(w, Shr(vs2 * vs1, w))
Vmulhsu(w, vs2, vs1) == VmulHighSUHelper(w, S(w, vs2), vs1)
Vmul(w, vs2, vs1) == Trunc(w, vs2 * vs1)

Vmadd(w, vs2, vs1, vd)  == Trunc(w, vs1 * vd + vs2)
Vnmsub(w, vs2, vs1, vd) == Trunc(w, -(vs1 * vd) + vs2)
Vmacc(w, vs2, vs1, vd)  == Trunc(w, vs1 * vs2 + vd)
Vnmsac(w, vs2, vs1, vd) == Trunc(w, -(vs1 * vs2) + vd)

\* widening: the result, and in the ...w forms vs2, have width 2w
Vwaddu(w, vs2, vs1)  == Trunc(2*w, vs2 + vs1)
Vwsubu(w, vs2, vs1)  == Trunc(2*w, vs2 - vs1)
Vwadd(w, vs2, vs1)   == Trunc(2*w, Sext(w, 2*w, vs2) + Sext(w, 2*w, vs1))
Vwsub(w, vs2, vs1)   == Trunc(2*w, Sext(w, 2*w, vs2) - Sext(w, 2*w, vs1))
Vwadduw(w, vs2, vs1) == Trunc(2*w, vs2 + vs1)
Vwsubuw(w, vs2, vs1) == Trunc(2*w, vs2 - vs1)
Vwaddw(w, vs2, vs1)  == Trunc(2*w, vs2 + Sext(w, 2*w, vs1))
Vwsubw(w, vs2, vs1)  == Trunc(2*w, vs2 - Sext(w, 2*w, vs1))

VwmulHelper(w, vs2, vs1) == Trunc(2*w, vs2 * vs1)
Vwmulu(w, vs2, vs1)  == VwmulHelper(w, vs2, vs1)
Vwmul(w, vs2, vs1)   == VwmulHelper(w, S(w, vs2), S(w, vs1))
VwmulSuHelper(w, vs2, vs1) == Trunc(2*w, S(w, vs2) * vs1)
Vwmulsu(w, vs2, vs1) == VwmulSuHelper(w, vs2, vs1)
\* the product and the accumulator are added as unsigned words
VwmaccHelper(w, vs2, vs1, vd) == Trunc(2*w, Trunc(2*w, vs2 * vs1) + vd)
Vwmaccu(w, vs2, vs1, vd)  == VwmaccHelper(w, vs2, vs1, vd)
Vwmacc(w, vs2, vs1, vd)   == VwmaccHelper(w, S(w, vs2), S(w, vs1), vd)
Vwmaccus(w, vs2, vs1, vd) == VwmaccHelper(w, S(w, vs2), vs1, vd)
Vwmaccsu(w, vs2, vs1, vd) == VwmaccHelper(w, vs2, S(w, vs1), vd)

-----------------------------------------------------------------------------
(* riscv_vector_unary_instructions.cc: extensions from w/2, w/4, w/8 bits. *)

Vzext2(w, vs2) == vs2
Vsext2(w, vs2) == Sext(w \div 2, w, vs2)
Vzext4(w, vs2) == vs2
Vsext4(w, vs2) == Sext(w \div 4, w, vs2)
Vzext8(w, vs2) == vs2
Vsext8(w, vs2) == Sext(w \div 8, w, vs2)

-----------------------------------------------------------------------------
(* riscv_vector_basic_bit_manipulation_instructions.cc.  by is the width   *)
(* of a byte.                                                              *)

BitReverse(w, x) == OfBits(w, [i \in 0 .. w-1 |-> Bit(x, w - 1 - i)])
Byte(by, x, i) == Shr(x, by * i) % 2^by
ByteSwap(w, by, x) ==
    MapThenSumSet(LAMBDA i : Byte(by, x, i) * 2^(w - by - by * i), 0 .. (w \div by) - 1)

Vandn(w, vs2, vs1) == vs2 & Inv(w, vs1)
Vbrev8(w, by, vs2) ==
    MapThenSumSet(LAMBDA i : BitReverse(by, Byte(by, vs2, i)) * 2^(by * i), 0 .. (w \div by) - 1)
Vrev8(w, by, vs2) == ByteSwap(w, by, vs2)
Vbrev(w, vs2) == BitReverse(w, vs2)
Rotl(w, x, k) == Shl(w, x, k) + Shr(x, w - k)       \* absl::rotl, rotr
Rotr(w, x, k) == Shr(x, k) + Shl(w, x, w - k)
Vrol(w, vs2, vs1) == Rotl(w, vs2, vs1 % w)
M_Vror(w, vs2, vs1) == Rotr(w, vs2, vs1 % (w - 1))
Vror(w, vs2, vs1) == Rotr(w, vs2, vs1 % w)
Vclz(w, vs2) == IF vs2 = 0 THEN w ELSE w - 1 - Max({i \in 0 .. w-1 : Bit(vs2, i) = 1})
Vctz(w, vs2) == IF vs2 = 0 THEN w ELSE Min({i \in 0 .. w-1 : Bit(vs2, i) = 1})
VectorVcpop(w, vs2) == Cardinality({i \in 0 .. w-1 : Bit(vs2, i) = 1})
Vwsll(w, vs2, vs1) == Shl(2*w, vs2, vs1 % (2*w))
=============================================================================
