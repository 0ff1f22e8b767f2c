----------------------------- MODULE IntegerUnit -----------------------------
(***************************************************************************)
(* One lane of the integer units: operand registers, an accumulator, the   *)
(* carry bit of v0, and the fixed-point CSRs of riscv_vector_state.cc.     *)
(* Instructions accumulate into vd and set vxsat; the CSRs may be written  *)
(* between any two of them.                                                *)
(*                                                                         *)
(* The properties compare what VectorElements, ScalarOps, ScalarFlow and   *)
(* MachineCsrs translate from the code with exact arithmetic and with each *)
(* other, in every reachable state.                                        *)
(* W is the element width and BW the width of a byte: the code uses 8 to   *)
(* 64 and 8, a run uses less.                                              *)
(***************************************************************************)
EXTENDS VectorElements, ScalarOps, ScalarFlow, MachineCsrs

CONSTANTS W,    \* bits of an element and of a scalar register
          BW    \* bits of a byte, BW < W
ASSUME WidthAssumption == W \in {2^i : i \in 2 .. 6} /\ BW \in {2^i : i \in 1 .. 5} /\ BW < W
\* what ^ is, for the powers of two that words of up to 4W bits need (misa has
\* twice the width of the registers that show it)
ASSUME PowerAssumption == \A k \in 0 .. 4*W : 2^(k + 1) = 2 * 2^k

VARIABLES vs2, vs1,     \* source elements
          vd,           \* the accumulator
          m,            \* the element's bit of v0
          vxrm, vxsat   \* fixed-point rounding mode and saturation flag
vars == <<vs2, vs1, vd, m, vxrm, vxsat>>

Init == /\ vs2 \in Word(W) /\ vs1 \in Word(W) /\ vd \in Word(W) /\ m \in BOOLEAN
        /\ vxrm = 0 /\ vxsat = FALSE

\* the saturating instructions, with the accumulator as vs2
SatOps == {"vsaddu", "vsadd", "vssubu", "vssub", "vsmul", "vnclipu", "vnclip"}
Wide(hi, lo) == hi * 2^W + lo
SatResult(op, x) ==
    CASE op = "vsaddu"  -> Vsaddu(W, x, vs1)
      [] op = "vsadd"   -> Vsadd(W, x, vs1)
      [] op = "vssubu"  -> Vssubu(W, x, vs1)
      [] op = "vssub"   -> Vssub(W, x, vs1)
      [] op = "vsmul"   -> Vsmul(W, vxrm, x, vs1)
      [] op = "vnclipu" -> Vnclipu(W, vxrm, Wide(x, vs2), vs1)
      [] op = "vnclip"  -> Vnclip(W, vxrm, Wide(x, vs2), vs1)

Execute(op) ==
    LET r == SatResult(op, vd) IN
    /\ vd' = r.v
    /\ vxsat' = (vxsat \/ r.sat)
    /\ UNCHANGED <<vs2, vs1, m, vxrm>>

\* csrw vxsat, vxrm, vcsr: values are masked to the fields
WriteVxsat(v) == vxsat' = (v % 2 = 1) /\ UNCHANGED <<vs2, vs1, vd, m, vxrm>>
WriteVxrm(v)  == vxrm' = v % 4 /\ UNCHANGED <<vs2, vs1, vd, m, vxsat>>
WriteVcsr(v)  == /\ vxrm' = (v \div 2) % 4 /\ vxsat' = (v % 2 = 1)
                 /\ UNCHANGED <<vs2, vs1, vd, m>>
ReadVcsr == vxrm * 2 + Flag(vxsat)

Next == \/ \E op \in SatOps : Execute(op)
        \/ \E v \in 0 .. 1 : WriteVxsat(v)
        \/ \E v \in 0 .. 3 : WriteVxrm(v)
        \/ \E v \in 0 .. 7 : WriteVcsr(v)
Spec == Init /\ [][Next]_vars

-----------------------------------------------------------------------------
S(w, x) == Signed(w, x)

\* a counter of two words with any offsets, and the pair of CSRs that shows it
AnyCounter == [count |-> Wide(vs2, vs1), low |-> vd, high |-> Trunc(2*W, 5 * vd + vxrm)]
Pair(c) == Wide(HighGet(W, c), CounterGet(W, c))
Ticks(c, n) == [c EXCEPT !.count = Trunc(2*W, @ + n)]

\* Counters in two halves: each half reads what was written to it; a write of
\* the high half leaves the low half alone; low then high gives the pair
\* exactly, equal to one 64-bit CSR at every later tick, carries between the
\* halves included; the performance counters read what was written after the
\* tick of the writing instruction itself, so that two writes with a tick
\* after each leave the value as if only the second had been counted.
CounterHalves ==
    LET c == AnyCounter IN
    /\ CounterGet(W, CounterSet(W, c, vxrm * 5)) = (vxrm * 5) % 2^W
    /\ \A hi \in {0, vs2, MaxU(W)} :
         /\ HighGet(W, HighSet(W, c, hi)) = hi
         /\ CounterGet(W, HighSet(W, c, hi)) = CounterGet(W, c)
         /\ Pair(SimpleCounterTick(W, PerformanceHighSet(W, c, hi))) = Wide(hi, CounterGet(W, c))
         /\ \A lo \in {0, vs1, MaxU(W)} :
              LET v == Wide(hi, lo)
                  both == HighSet(W, CounterSet(W, c, lo), hi)
                  one == CounterSet(2*W, c, v)
                  perf == SimpleCounterTick(W, PerformanceCounterSet(W, c, lo))
              IN  /\ \A n \in {0, 1, 2^W} : /\ Pair(Ticks(both, n)) = Trunc(2*W, v + n)
                                          /\ CounterGet(2*W, Ticks(one, n)) = Trunc(2*W, v + n)
                  /\ Pair(SimpleCounterTick(W, PerformanceHighSet(W, perf, hi))) = v

\* Multiword arithmetic: vmadc/vadc chained over two limbs give the exact sum
\* of two two-limb numbers and the carry in, vmsbc/vsbc the exact difference,
\* whichever of the two forms of vmsbc (the one for 64-bit elements compares
\* without adding); the widening adds and subtracts are exact in the double
\* width, signed and unsigned, and the ...w forms add to a double width vs2;
\* the halves of the counter CSRs carry into each other.  (The carry of 64-bit
\* elements is not among them: see Carry64; nor the high half after a write of
\* the low one alone: see LowWriteKeepsHigh.)
LimbArithmetic ==
    LET X == Wide(vd, vs2)  Y == Wide(vs2, vs1)
        c1 == Vmadc(W, vs2, vs1, m)
        b1 == Vmsbc(W, vs2, vs1, m)
        sum  == Wide(Vadc(W, vd, vs2, c1), Vadc(W, vs2, vs1, m))
        diff == Wide(Vsbc(W, vd, vs2, b1), Vsbc(W, vs2, vs1, m))
    IN  /\ sum + Flag(Vmadc(W, vd, vs2, c1)) * 2^(2*W) = X + Y + Flag(m)
        /\ diff - Flag(Vmsbc(W, vd, vs2, b1)) * 2^(2*W) = X - Y - Flag(m)
        /\ Vmsbc64(vs2, vs1, m) = b1
        /\ Vwaddu(W, vs2, vs1) = vs2 + vs1
        /\ S(2*W, Vwsubu(W, vs2, vs1)) = vs2 - vs1
        /\ S(2*W, Vwadd(W, vs2, vs1)) = S(W, vs2) + S(W, vs1)
        /\ S(2*W, Vwsub(W, vs2, vs1)) = S(W, vs2) - S(W, vs1)
        /\ Vwsubuw(W, Vwadduw(W, X, vs1), vs1) = X
        /\ Vwsubw(W, Vwaddw(W, X, vs1), vs1) = X
        /\ Vwaddw(W, Sext(W, 2*W, vs2), vs1) = Vwadd(W, vs2, vs1)
        /\ Vrsub(W, vs2, vs1) = Vsub(W, vs1, vs2) /\ Vadd(W, Vsub(W, vs2, vs1), vs1) = vs2
        /\ Vmerge(W, vs2, vs1, m) = (IF m THEN vs1 ELSE vs2)
        /\ CounterHalves

\* A write of a counter's low half keeps its high half.  (Violated: the new low
\* offset may carry where the old one did not.)
LowWriteKeepsHigh == HighGet(W, CounterSet(W, AnyCounter, vxrm)) = HighGet(W, AnyCounter)

\* The comment of Vmadc's 64-bit case: "Compute carry by doing two additions.
\* First get the carry out from adding the low byte." (Violated: the low
\* byte's carry is lost to the precedence of & and +.)
Carry64 == Vmadc64(W, BW, vs2, vs1, m) = (vs2 + vs1 + Flag(m) >= 2^W)

\* Products and quotients: the low and high halves of a product, taken by two
\* instructions, make the exact product for every pair of signs, and the
\* widening products equal them; multiply-accumulate and its negation undo
\* each other; quotient and remainder satisfy the division identity with the
\* remainder smaller than the divisor and of the dividend's sign; division by zero
\* gives the fixed results, and so does the quotient of the one overflow. (The
\* remainder of the overflow, riscv_vector_opm_instructions.cc:417-427, is
\* undefined in C++: VremDefined leaves it out.)
ProductsAndQuotients ==
    LET uu == Wide(Vmulhu(W, vs2, vs1), Vmul(W, vs2, vs1))
        ss == Wide(Vmulh(W, vs2, vs1), Vmul(W, vs2, vs1))
        su == Wide(Vmulhsu(W, vs2, vs1), Vmul(W, vs2, vs1))
        x == S(W, vs2)  y == S(W, vs1)
        q == S(W, Vdiv(W, vs2, vs1))  r == S(W, Vrem(W, vs2, vs1))
        acc == Wide(vd, vs1)
    IN  /\ uu = vs2 * vs1 /\ uu = Vwmulu(W, vs2, vs1)
        /\ S(2*W, ss) = x * y /\ ss = Vwmul(W, vs2, vs1)
        /\ S(2*W, su) = x * vs1 /\ su = Vwmulsu(W, vs2, vs1)
        /\ Vnmsac(W, vs2, vs1, Vmacc(W, vs2, vs1, vd)) = vd
        /\ Vmadd(W, vs2, vs1, vd) = Vmacc(W, vd, vs1, vs2)
        /\ Vnmsub(W, vs2, vs1, vd) = Vnmsac(W, vd, vs1, vs2)
        /\ Vwmaccu(W, vs2, vs1, acc) = (vs2 * vs1 + acc) % 2^(2*W)
        /\ Vwmacc(W, vs2, vs1, acc) = (x * y + acc) % 2^(2*W)
        /\ Vwmaccsu(W, vs2, vs1, acc) = (vs2 * y + acc) % 2^(2*W)
        /\ Vwmaccus(W, vs2, vs1, acc) = Vwmaccsu(W, vs1, vs2, acc)
        /\ IF vs1 = 0 THEN q = -1 /\ r = x /\ Vdivu(W, vs2, 0) = MaxU(W) /\ Vremu(W, vs2, 0) = vs2
           ELSE /\ vs2 = Vdivu(W, vs2, vs1) * vs1 + Vremu(W, vs2, vs1)
                /\ Vremu(W, vs2, vs1) < vs1
                /\ IF x = MinS(W) /\ y = -1 THEN q = MinS(W)
                   ELSE /\ x = q * y + r /\ Abs(r) < Abs(y)
                        /\ r # 0 => (r < 0) = (x < 0)

\* n / 2^k rounded by the fixed-point rounding mode, in exact arithmetic
Rounded(rm, n, k) ==
    LET f == n \div 2^k
        above == n - f * 2^k            \* distance from the floor
        below == 2^k - above
    IN  CASE rm = 0 -> IF below <= above THEN f + 1 ELSE f
          [] rm = 1 -> IF below < above \/ (below = above /\ f % 2 = 1) THEN f + 1 ELSE f
          [] rm = 2 -> f
          [] rm = 3 -> IF above > 0 /\ f % 2 = 0 THEN f + 1 ELSE f
ClampsTo(r, lo, hi, exact) ==
    r.v = Trunc(W, Clamp(lo, hi, exact)) /\ r.sat = (exact \notin lo .. hi)

\* Fixed-point arithmetic in the current rounding mode: saturating sums,
\* differences, products and narrowing clips are the exact rounded result
\* clamped to the type's range and set vxsat exactly when the clamp changed
\* it; scaling shifts and averages are the exact quotient rounded, although
\* the code works on the bits shifted out and on words that may wrap.
FixedPoint ==
    LET x == S(W, vs2)  y == S(W, vs1)  X == Wide(vd, vs2)  k == vs1 % W  kk == vs1 % (2*W)
        rm == vxrm
    IN  /\ ClampsTo(Vsaddu(W, vs2, vs1), 0, MaxU(W), vs2 + vs1)
        /\ ClampsTo(Vssubu(W, vs2, vs1), 0, MaxU(W), vs2 - vs1)
        /\ ClampsTo(Vsadd(W, vs2, vs1), MinS(W), MaxS(W), x + y)
        /\ ClampsTo(Vssub(W, vs2, vs1), MinS(W), MaxS(W), x - y)
        /\ ClampsTo(Vsmul(W, rm, vs2, vs1), MinS(W), MaxS(W), Rounded(rm, x * y, W - 1))
        /\ ClampsTo(Vnclipu(W, rm, X, vs1), 0, MaxU(W), Rounded(rm, X, kk))
        /\ ClampsTo(Vnclip(W, rm, X, vs1), MinS(W), MaxS(W), Rounded(rm, S(2*W, X), kk))
        /\ Vssrl(W, rm, vs2, vs1) = Rounded(rm, vs2, k)
        /\ Vssra(W, rm, vs2, vs1) = Trunc(W, Rounded(rm, x, k))
        /\ Vaaddu(W, rm, vs2, vs1) = Trunc(W, Rounded(rm, vs2 + vs1, 1))
        /\ Vaadd(W, rm, vs2, vs1) = Trunc(W, Rounded(rm, x + y, 1))
        /\ Vasubu(W, rm, vs2, vs1) = Trunc(W, Rounded(rm, vs2 - vs1, 1))
        /\ Vasub(W, rm, vs2, vs1) = Trunc(W, Rounded(rm, x - y, 1))

\* the polynomial product over GF(2) of two words
PolyProduct(a, b) ==
    OfBits(2*W, [n \in 0 .. 2*W-1 |->
        Cardinality({i \in 0 .. W-1 : n - i \in 0 .. W-1 /\ Bit(b, i) = 1 /\ Bit(a, n - i) = 1}) % 2])

\* Bit permutations and carry-less products: reversing the bits is reversing
\* the bytes and the bits in each; the rotations undo each other and split a
\* word into its two shifts; leading zeros are the trailing zeros of the
\* reverse; the low, high and reversed carry-less products are the parts of
\* one polynomial product, and clmulr is clmul seen through the bit reverse
\* (RV64; the loop of RV32 is one short and leaves out the top bit of b).
BitPermutations ==
    LET p == PolyProduct(vs2, vs1) IN
    /\ Vbrev(W, vs2) = Vrev8(W, BW, Vbrev8(W, BW, vs2))
    /\ Vbrev(W, Vbrev(W, vs2)) = vs2
    /\ Vror(W, Vrol(W, vs2, vs1), vs1) = vs2
    /\ Vrol(W, vs2, vs1) = Vsll(W, vs2, vs1) + (IF vs1 % W = 0 THEN 0 ELSE Vsrl(W, vs2, W - (vs1 % W)))
    /\ Vclz(W, vs2) = Vctz(W, Vbrev(W, vs2))
    /\ VectorVcpop(W, vs2) + VectorVcpop(W, Inv(W, vs2)) = W
    /\ vs2 # 0 => 2^(W - 1 - Vclz(W, vs2)) <= vs2 /\ vs2 < 2^(W - Vclz(W, vs2))
    /\ Vwsll(W, vs2, vs1) = (vs2 * 2^(vs1 % (2*W))) % 2^(2*W)
    /\ Wide(Rv32Clmulh(W, vs2, vs1), Rv32Clmul(W, vs2, vs1)) = p
    /\ Rv64Clmulr(W, vs2, vs1) = (p \div 2^(W-1)) % 2^W
    /\ Rv64Clmulr(W, vs2, vs1) = Vbrev(W, Rv64Clmul(W, Vbrev(W, vs2), Vbrev(W, vs1)))
    /\ Rv32Clmulr(W, vs2, vs1) = Rv64Clmulr(W, vs2, vs1 % 2^(W-1))
    /\ Rv64Clmul(W, vs2 ^^ vd, vs1) = Rv64Clmul(W, vs2, vs1) ^^ Rv64Clmul(W, vd, vs1)

\* The two files' cpopw write the same register.  (Violated: bitmanip's keeps the
\* upper half that the destination held.)
CpopwWritesAll == LET h == W \div 2 IN Rv64CpopwInto(h, vd, vs2) = BCount("cpopw", h, vs2)

\* One order: the signed compares are the unsigned ones with the sign bits
\* flipped, every compare agrees with its negation and its mirror image, min
\* and max pick the operand the compare says, branches decide like slt and
\* sltu, a conditional zero keeps exactly one of its two forms, and the
\* single-bit instructions on one index compose (set then clear, invert twice).
OneOrder ==
    LET f(x) == x ^^ (2^(W-1)) IN
    /\ Vmslt(W, vs2, vs1) = Vmsltu(W, f(vs2), f(vs1)) /\ Vmsle(W, vs2, vs1) = Vmsleu(W, f(vs2), f(vs1))
    /\ Vmsgt(W, vs2, vs1) = Vmslt(W, vs1, vs2) /\ Vmsgtu(W, vs2, vs1) = ~Vmsleu(W, vs2, vs1)
    /\ Vmsle(W, vs2, vs1) = (Vmslt(W, vs2, vs1) \/ Vmseq(W, vs2, vs1))
    /\ Vmsne(W, vs2, vs1) = (Vmsltu(W, vs2, vs1) \/ Vmsgtu(W, vs2, vs1))
    /\ Vmin(W, vs2, vs1) = (IF Vmsle(W, vs2, vs1) THEN vs2 ELSE vs1)
    /\ Vmaxu(W, vs2, vs1) = f(Vmax(W, f(vs2), f(vs1))) /\ Vminu(W, vs2, vs1) = f(Vmin(W, f(vs2), f(vs1)))
    /\ {Vmin(W, vs2, vs1), Vmax(W, vs2, vs1)} = {vs2, vs1}
    /\ Flag(Rv32Branch("blt", W, vs2, vs1)) = Rv32Integer("slt", W, vs2, vs1)
    /\ Rv32Branch("bgeu", W, vs2, vs1) = (Rv32Integer("sltu", W, vs2, vs1) = 0)
    /\ Rv32Branch("bge", W, vs2, vs1) = ~Rv32Branch("blt", W, vs2, vs1)
    /\ {Rv32Zicond("czero.eqz", vs2, vs1), Rv32Zicond("czero.nez", vs2, vs1)} = {0, vs2}
    /\ Rv32SingleBit("bclr", W, Rv32SingleBit("bset", W, vs2, vs1), vs1) = Rv32SingleBit("bclr", W, vs2, vs1)
    /\ Rv32SingleBit("binv", W, Rv32SingleBit("binv", W, vs2, vs1), vs1) = vs2
    /\ Rv32SingleBit("bext", W, Rv32SingleBit("bset", W, vs2, vs1), vs1) = 1

\* Views of one CSR agree: what is set through a buffer and then cleared is
\* gone, and no read-only bit and no other bit has moved; a shadow register
\* changes and shows only what both its masks and the register's let through,
\* and reads back what was written there; csrrw is a read and then a write;
\* the two maps of a CSR set name the same registers after any additions and
\* removals, refused ones included; misa shows RV32 code the value it
\* was built from, whatever is written to it, and RV32 as its width.
ViewsAgree ==
    LET T == 2 * W
        csr == [v |-> Wide(vs2, vs1), rm |-> Wide(vd, vs2), wm |-> Wide(vs1, vd)]
        shadow == [rm |-> Wide(vs2, vd), wm |-> Wide(vd, vxrm)]
        x == Wide(vxrm, vs2)
        db == AllocateDataBuffer(T, x)
        set == SetBitsDb(T, csr, db)  cleared == ClearBitsDb(T, set, db)
        through == ShadowWrite(T, T, shadow, csr, x)
        open == csr.wm & shadow.wm
        misa == MisaInit32(T, Wide(vs2, vs1))
        hart == [rs1 |-> x, rd |-> vd, csr |-> csr]
        named(n) == [index |-> n % 3, name |-> Shr(n, 2) % 3]
        added == AddCsr(AddCsr(AddCsr(EmptyCsrSet, named(vs2)), named(vs1)), named(vd))
        sets == {added, RemoveCsr(added, vxrm), AddCsr(RemoveCsr(added, vs1 % 3), named(vs2))}
    IN  /\ cleared.v & csr.wm & x = 0 /\ set.v & csr.wm & x = csr.wm & x
        /\ cleared.v & Inv(T, csr.wm & x) = csr.v & Inv(T, csr.wm & x)
        /\ cleared = WriteDb(T, csr, AllocateDataBuffer(T, csr.v & Inv(T, x)))
        /\ through.v & Inv(T, open) = csr.v & Inv(T, open)
        /\ ShadowAs(T, shadow, through) & open = x & open & shadow.rm & csr.rm
        /\ ShadowClearBits(T, T, shadow, ShadowSetBits(T, T, shadow, csr, x), x).v & open & x = 0
        /\ RVZiCsrrw(m, T, hart) = RVZiCsrrwNr(m, T, RVZiCsrrNw(m, T, hart))
        /\ \A s \in sets : \A i \in 0 .. 2 : \A c \in GetCsr(s, i) :
             c.index = i /\ GetCsrByName(s, c.name) = {c}
        /\ \A s \in sets : Cardinality(DOMAIN s.byIndex) = Cardinality(DOMAIN s.byName)
        /\ MisaAsUint32(T, MisaWrite(misa, x)) = Wide(vs2, vs1) & (3 * 2^(T-2) + MaxU(T-6))
        /\ vs2 \div 2^(W-2) = 1 => MisaXlen(T, misa) = "RV32"

\* RiscVXlen of a misa whose mxl is 2 is RV64.  (Violated: the mask 0xb11, for
\* 0b11, keeps the low bit only.)
XlenOf64 == vs2 \div 2^(W-2) = 2 => MisaXlen(2 * W, MisaInit32(2 * W, Wide(vs2, vs1))) = "RV64"

\* The scalar and the vector form of an operation compute the same, the 64-bit
\* mulhsu by negation included; the vector remainder where it is defined.
ScalarAndVector ==
    /\ \A op \in IntegerOps :
         op \notin {"slt", "sltu"} =>
           Rv32Integer(op, W, vs2, vs1) =
             CASE op = "add" -> Vadd(W, vs2, vs1) [] op = "sub" -> Vsub(W, vs2, vs1)
               [] op = "and" -> Vand(W, vs2, vs1) [] op = "or"  -> Vor(W, vs2, vs1)
               [] op = "xor" -> Vxor(W, vs2, vs1) [] op = "sll" -> Vsll(W, vs2, vs1)
               [] op = "srl" -> Vsrl(W, vs2, vs1) [] op = "sra" -> Vsra(W, vs2, vs1)
    /\ Rv32M("mulh", W, vs2, vs1) = Vmulh(W, vs2, vs1)
    /\ Rv64Mulhsu(W, vs2, vs1) = Vmulhsu(W, vs2, vs1)
    /\ Rv32M("mulhsu", W, vs2, vs1) = Vmulhsu(W, vs2, vs1)
    /\ Rv32M("div", W, vs2, vs1) = Vdiv(W, vs2, vs1)
    /\ VremDefined(W, vs2, vs1) => Rv32M("rem", W, vs2, vs1) = Vrem(W, vs2, vs1)
    /\ Rv32M("divu", W, vs2, vs1) = Vdivu(W, vs2, vs1) /\ Rv32M("remu", W, vs2, vs1) = Vremu(W, vs2, vs1)
    /\ Rv32Logic("andn", W, vs2, vs1) = Vandn(W, vs2, vs1)
    /\ Vrol(W, vs2, vs1) = Rv32Rotate("rol", W, vs2, vs1)
    /\ Vclz(W, vs2) = Rv32Count("clz", W, vs2) /\ Vctz(W, vs2) = Rv32Count("ctz", W, vs2)
    /\ Vrev8(W, BW, vs2) = Rv32ByteOp("rev8", W, BW, vs2)

\* The ...w forms of RV64 are the RV32 instruction on the low words, sign extended.
WordForms ==
    LET h == W \div 2  lo(x) == x % 2^h IN
    /\ \A p \in {<<"addw", "add">>, <<"subw", "sub">>, <<"sllw", "sll">>, <<"srlw", "srl">>, <<"sraw", "sra">>} :
         Rv64Integer(p[1], h, vs2, vs1) = Sext(h, W, Rv32Integer(p[2], h, lo(vs2), lo(vs1)))
    /\ \A p \in {<<"mulw", "mul">>, <<"divw", "div">>, <<"divuw", "divu">>, <<"remw", "rem">>, <<"remuw", "remu">>} :
         Rv64M(p[1], h, vs2, vs1) = Sext(h, W, Rv32M(p[2], h, lo(vs2), lo(vs1)))

\* The two RV64 bit-manipulation files (b and bitmanip), which are written
\* differently, compute the same.
TwoFiles ==
    LET h == W \div 2 IN
    /\ \A op \in {"andn", "orn", "xnor"} : BLogic(op, h, vs2, vs1) = Rv64Logic(op, h, vs2, vs1)
    /\ \A op \in {"max", "maxu", "min", "minu"} : BMinMax(op, h, vs2, vs1) = Rv64MinMax(op, h, vs2, vs1)
    /\ \A op \in {"rol", "ror", "rolw", "rorw"} : BRotate(op, h, vs2, vs1) = Rv64Rotate(op, h, vs2, vs1)
    /\ \A op \in {"clz", "clzw", "ctz", "ctzw", "cpop", "cpopw"} :
         BCount(op, h, vs2) = Rv64Count(op, h, vs2)
    /\ vd < 2^h => Rv64CpopwInto(h, vd, vs2) = BCount("cpopw", h, vs2)
    /\ BRev8(h, BW, vs2) = Rv64ByteOp("rev8", h, BW, vs2)
    /\ BOrcb(h, BW, vs2) = Rv64ByteOp("orc.b", h, BW, vs2)
    /\ \A op \in {"sext.b", "sext.h", "zext.h"} : BExtend(op, h, BW \div 2, vs2) = Rv64Extend(op, h, BW \div 2, vs2)
    /\ BExtend("zext.w", h, BW, vs2) = Rv64AddUw(h, vs2, 0)
    /\ BAddUw(h, vs2, vs1) = Rv64AddUw(h, vs2, vs1)
    /\ \A n \in 1 .. 3 : /\ BShNadd(h, n, vs2, vs1) = Rv64ShAdd(h, n, vs2, vs1)
                         /\ BShNadduw(h, n, vs2, vs1) = Rv64ShAddUw(h, n, vs2, vs1)
                         /\ BSlliuw(h, vs2, n) = Rv64SlliUw(h, vs2, n)

\* Independent implementations agree: the scalar and the vector form of an
\* operation; the ...w forms of RV64 and the RV32 instruction; the two RV64
\* bit-manipulation files; the compares, selections and branches, which define
\* one order; and the views of one CSR.
ImplementationsAgree == ScalarAndVector /\ WordForms /\ TwoFiles /\ OneOrder /\ ViewsAgree

-----------------------------------------------------------------------------
(* Frames and targets.  The state picks an instruction and a hart: m the   *)
(* namespace, vd the register list (an operand of 4 bits), vxrm the extra  *)
(* stack, vs2 and vs1 the stack pointer (all of RV32's, so that frames     *)
(* wrap) and the contents.                                                 *)

Seed == Wide(vs2, vs1)
Rlist == vd % 16
P == IF m THEN Rv64(BW) ELSE Rv32(BW)
XWord(x) == Trunc(XLen(P), x)
Hart == [x |-> [r \in 0 .. 31 |-> IF r = sp THEN XWord(Seed * (IF m THEN 257 ELSE 1))
                                  ELSE XWord(Seed + 37 * r)],
         mem |-> <<>>, fill |-> vs1,
         pc |-> XWord(4 * vs2), size |-> 4, next |-> NoBranch, trap |-> <<>>]
Zcmp(op, s, dests) ==
    IF m THEN Rv64Zcmp(BW, op, s, 16 * vxrm, Rlist, dests) ELSE Rv32Zcmp(BW, op, s, 16 * vxrm, Rlist, dests)
\* the callee uses every register it saved, and returns sp as it got it
Callee(s) == [s EXCEPT !.x = [r \in DOMAIN s.x |-> IF r = sp THEN s.x[r] ELSE XWord(s.x[r] + 91)]]
Load(op, s, base, offset, rd) ==
    LET a == IF m THEN Rv64Load[op] ELSE Rv32Load[op]
    IN  RVLoadChild(P, s, RVLoad(P, s, base, offset, a.n), a.n, a.signed, rd)

\* Stack frames.  On RV64, after cm.push and any use of the saved registers, each
\* of the pops restores sp and every listed register and no other, returns to the
\* ra that was saved (read after the pop, not before), and popretz alone clears
\* a0.  (RV32's pops, whose operands riscv_zc.isa:334-345 declares in another
\* order, do not: Zcmp32PopRestores.)  On both, the registers fit in the adjusted
\* frame, which keeps sp's alignment; nothing outside [sp - n registers, sp) is
\* written, and a load from the frame finds ra, although the instruction
\* addresses memory in 64 bits and a load in the register's width (they differ
\* when the frame passes address 0).
FramesRestore ==
    LET s == Hart  saved == ZcmpListSources(Rlist)  dests == PopDests(Rlist)  n == Len(saved)
        inside == Callee(Zcmp("cm.push", s, dests))
        after(op) == Zcmp(op, inside, dests)
        adj == StackAdj(P, 16 * vxrm, Rlist)
        kept == {r \in 1 .. 31 : r = sp \/ \E i \in 1 .. n : saved[i] = r}
    IN  /\ P.xb * n <= adj /\ adj % 16 = 0
        /\ m => /\ \A r \in 1 .. 31 :
                     after("cm.pop").x[r] = IF r \in kept THEN s.x[r] ELSE inside.x[r]
                /\ Rlist > 3 => after("cm.popret").next = s.x[ra]
                /\ LET popped == after("cm.popretz") IN
                   popped.x[a0] = 0 /\ popped.x[sp] = s.x[sp] /\ (Rlist > 3 => popped.next = s.x[ra])
        /\ \A k \in 0 .. 7 : \A a \in {s.x[sp] + k, s.x[sp] - P.xb * n - 1 - k} :
             LET b == Trunc(ALen(P), a) IN ByteIn(P, inside, b) = ByteIn(P, s, b)
        /\ (n > 0 /\ s.x[sp] >= P.xb * n) =>
             Load(IF m THEN "ld" ELSE "lw", inside, inside.x[sp], adj - P.xb * n, 5).x[5] = s.x[ra]

\* The declared operands of the RV32 pops put sp first: what is popped lands
\* one register off.  (Violated; "This helper pops the number of registers
\* specified into the appropriate destination operands".)
Zcmp32PopRestores ==
    ~m => LET inside == Zcmp("cm.push", Hart, <<>>)
          IN  Zcmp("cm.pop", inside, PopDestsZcmp32(Rlist)).x[sp] = Hart.x[sp]

\* Targets and accesses: a jump or a taken branch either traps, when the
\* target is misaligned without the compressed extension, and then writes
\* neither pc nor link, or goes to the target; a call returns through its link
\* to the next instruction; jal and a branch to one even offset agree; a table
\* jump goes where the table says, whatever mode is written to jvt, or, with
\* a reserved mode, nowhere; the two
\* moves of a register pair undo each other; a load of what was stored gives
\* it back extended as the mnemonic says, wider loads are put together from
\* narrower ones, and the store changes no byte beside it.
TargetsAndAccesses ==
    LET s == Hart  off == vd  base == XWord(Seed * 5 + vd)  v == XWord(Seed * 259 + 131)
        jal(c) == IF m THEN Rv64Jal(P, s, c, off, ra) ELSE Rv32Jal(P, s, c, off, ra)
        jalr(h, b, o) == IF m THEN Rv64Jalr(P, h, TRUE, b, o, 5) ELSE Rv32Jalr(P, h, TRUE, b, o, 5)
        zcmt(link, h, jvt) == IF m THEN Rv64Zcmt(BW, link, h, jvt, vd) ELSE Rv32Zcmt(BW, link, h, jvt, vd)
        stored(h, n) == RVStore(P, h, base, off, n, v)
        entry == XWord(64 * vxrm + vd * P.xb)
        sizes == IF m THEN {Rv64Store[o] : o \in DOMAIN Rv64Store}
                 ELSE {Rv32Store[o] : o \in DOMAIN Rv32Store \ {"sd"}}
    IN  /\ \A c \in BOOLEAN :
             LET j == jal(c)  b == BranchConditional(P, s, c, TRUE, off) IN
             /\ (j.trap # <<>>) = (~c /\ Even(XWord(s.pc + off)) % 4 # 0)
             /\ j.trap # <<>> => j.x = s.x /\ j.next = NoBranch
             /\ j.trap = <<>> => LET back == jalr([j EXCEPT !.pc = j.next], j.x[ra], 0)
                                 IN back.next = XWord(s.pc + s.size)
             /\ off % 2 = 0 => b.next = j.next /\ (b.trap = <<>>) = (j.trap = <<>>)
             /\ BranchConditional(P, s, c, FALSE, off) = s
        /\ LET t == RVStore(P, s, entry, 0, P.xb, v)  j == zcmt(TRUE, t, 64 * vxrm) IN
           /\ j.next = v /\ j.x[ra] = XWord(s.pc + s.size)
           /\ zcmt(FALSE, t, JvtWrite(XLen(P), 64 * vxrm + (Seed % 64))).next = v
           /\ zcmt(FALSE, t, 64 * vxrm + 1).trap # <<>> /\ zcmt(FALSE, t, 64 * vxrm + 1).next = NoBranch
        /\ LET sa == ZCmpMvTwoRegs(s, 10, 11, 8, 9)  as == ZCmpMvTwoRegs(Callee(sa), 8, 9, 10, 11) IN
           as.x[10] = XWord(s.x[10] + 91) /\ as.x[11] = XWord(s.x[11] + 91)
        /\ \A n \in sizes :
             LET t == stored(s, n)  lo == Trunc(BW * n, v)
                 back(op) == Load(op, t, base, off, 5).x[5]
             IN  /\ CASE n = 1 -> back("lbu") = lo /\ back("lb") = Sext(BW, XLen(P), lo)
                      [] n = 2 -> back("lhu") = lo /\ back("lh") = Sext(2 * BW, XLen(P), lo)
                      [] n = 4 -> back("lw") = Sext(4 * BW, XLen(P), lo) /\ (m => back("lwu") = lo)
                      [] n = 8 -> back("ld") = v
                 /\ \A k \in {-1, n} : LET b == XWord(base + off + k) IN ByteIn(P, t, b) = ByteIn(P, s, b)
                 /\ XWord(base + off) # MaxU(XLen(P)) =>
                      back("lhu") = back("lbu") + 2^BW * Load("lbu", t, base, off + 1, 5).x[5]

\* The instructions that move control and data compose: pushes write the frame
\* and no more, RV64's pops restore it, and jumps, branches, table jumps, loads
\* and stores go where they should.
FramesAndTargets == FramesRestore /\ TargetsAndAccesses
=============================================================================
