----------------------------- MODULE VectorUnit -----------------------------
(***************************************************************************)
(* The vector unit: register file, vector type and length, vstart, and the *)
(* loops by which the semantic functions read and write register groups    *)
(* (riscv_vector_instruction_helpers.h, _opi_, _opm_, _unary_, _permute_,  *)
(* _reduction_instructions.cc, riscv_vector_state.cc, riscv_register.cc).  *)
(*                                                                         *)
(* A register is VLENB bytes of UW bits; element widths are in bytes, as   *)
(* sizeof(T) is in the code.  What an instruction computes for one element *)
(* is an operator of VectorElements.  A semantic function runs to its end  *)
(* before the next instruction, so each is one action.                     *)
(*                                                                         *)
(* vector_exception is never cleared by the simulator: the arithmetic      *)
(* helpers return at once when it is set, the loads, stores, moves to and  *)
(* from scalars and the unary mask instructions do not look at it.         *)
(***************************************************************************)
EXTENDS VectorElements, Sequences

CONSTANTS UW,       \* bits of a byte
          VLENB,    \* bytes of a vector register
          VTypes,   \* the vector types vset is given: <<bytes of an element, 8 * LMUL>>,
                    \* 0 for a reserved width or multiplier
          Masks,    \* the initial sets of active elements
          FloatWidths, \* bytes of the elements that may be floats (4 and 8 in the code)
          MaxSteps  \* instructions executed
\* SetVectorType divides by the width: with a reserved one the simulator ends
Selectable == {t \in VTypes : t[1] # 0}
ASSUME VectorAssumption ==
    /\ UW \in Nat \ {0} /\ VLENB \in Nat \ {0} /\ MaxSteps \in Nat
    /\ VTypes \subseteq {0, 1, 2, 4, 8} \X {0, 1, 2, 4, 8, 16, 32, 64}
    /\ Masks \subseteq SUBSET (0 .. UW * VLENB - 1)
    /\ FloatWidths \subseteq {1, 2, 4, 8}
    \* a register holds whole elements of the widths the instructions name,
    \* those of the types and, where there is one, their double; and a mask
    \* register holds a bit for each element of a group
    /\ VLENB % 4 = 0
    /\ \A t \in Selectable : /\ VLENB % t[1] = 0 /\ (t[1] < 8 => VLENB % (2 * t[1]) = 0)
                             /\ t[2] <= 8 * t[1] * UW
\* what ^ is, for the powers of two that the words of two registers need
ASSUME PowerAssumption == \A n \in 0 .. 2 * UW * VLENB : 2^(n + 1) = 2 * 2^n

VARIABLES v,            \* the vector registers
          vl, vstart,   \* vector_length_ and vstart_
          vtype,        \* selected_element_width_ and vector_length_multiplier_
          vexc,         \* vector_exception_
          x,            \* the scalar register, integer or floating point
          mem,          \* memory, VectorMemory's
          fflags,       \* a floating point exception was flagged
          steps         \* instructions executed so far
vars == <<v, vl, vstart, vtype, vexc, x, mem, fflags, steps>>

Regs == 0 .. 31
Unit == Word(UW)
sew  == vtype[1]
lmul == vtype[2]
Bits(k) == k * UW       \* the width of an element of k bytes

\* SetVectorType: the largest vector length of a type
MaxVl(t) == (VLENB * t[2]) \div (8 * t[1])
max_vl == MaxVl(vtype)

\* kNumRegTable: the registers a group may have, by its first register
GroupSize(r) == <<8, 1, 2, 1, 4, 1, 2, 1>>[(r % 8) + 1]

\* registers the instructions of the model name: the mask, two sources, two
\* destinations of four and of one register
VMask == 0  Vs2 == 2  Vs1 == 10  Vd == 4  VdOdd == 9

-----------------------------------------------------------------------------
(* Register groups (riscv_register.cc).  Element i of a group of elements  *)
(* of k bytes lies in register i / epv at position i % epv.                *)

Epv(k) == VLENB \div k
Element(f, r, k, i) ==
    LET reg == r + (i \div Epv(k))  pos == (i % Epv(k)) * k
    IN  SumFunction([j \in 0 .. k-1 |-> f[reg][pos + j] * 2^(UW * j)])
\* span[i] = value in the data buffer of one register
Put(f, reg, k, i, value) ==
    [f EXCEPT ![reg] = [u \in 0 .. VLENB-1 |->
        IF u \div k = i THEN Shr(value, UW * (u % k)) % 2^UW ELSE f[reg][u]]]
\* bit i of a mask register
MaskBit(f, r, i) == Bit(f[r][i \div UW], i % UW) = 1
SetBit(f, r, i, b) ==
    [f EXCEPT ![r][i \div UW] = @ + (Flag(b) - Bit(@, i % UW)) * 2^(i % UW)]
Active(i) == MaskBit(v, VMask, i)

\* the checks before a loop: lmul scaled by the operand's width in 1 .. 64,
\* and enough registers in the destination for vl elements
LmulOk(k) == (lmul * k) \div sew \in 1 .. 64
Widens == sew < 8 /\ LmulOk(2*sew) /\ LmulOk(sew)   \* there is a width twice as large
RegsFor(k, n) == (n + Epv(k) - 1) \div Epv(k)
Enough(r, k) == GroupSize(r) >= RegsFor(k, vl)
\* The sources are not checked: past its registers an operand is indexed out of
\* bounds (riscv_register.h).  Instructions whose source groups hold vl elements.
Sources(k) == Enough(Vs2, k) /\ Enough(Vs1, k)

\* a loop that does not look at the mask
M_ElementLoop(f, r, k, from, to, val, wr) ==
    FoldSet(LAMBDA i, g : Put(g, r + (i \div Epv(k)), k, i % Epv(k), val[i]), f, from .. to - 1)
\* The loop over destination registers and the items in each, from vstart.
\* val and wr give, by vector_index, the value and whether it is written.
\* (item_index is reset when a register is full; an element count below
\* elements_per_vector ends the inner loop and, with it, the outer one.)
ElementLoop(f, r, k, from, to, val, wr) ==
    LET epv == Epv(k)
        after[n \in 0 .. to - from] ==
            IF n = 0 THEN [f |-> f, reg |-> from \div epv, item |-> from % epv]
            ELSE LET p == after[n - 1]
                     vector_index == from + n - 1
                     g == IF wr[vector_index]
                          THEN Put(p.f, r + p.reg, k, p.item, val[vector_index]) ELSE p.f
                 IN  IF p.item + 1 < epv THEN [f |-> g, reg |-> p.reg, item |-> p.item + 1]
                     ELSE [f |-> g, reg |-> p.reg + 1, item |-> 0]
    IN  IF from >= to THEN f ELSE after[to - from].f

-----------------------------------------------------------------------------
Init == /\ vtype \in Selectable
        /\ vl \in 0 .. MaxVl(vtype) /\ vstart \in 0 .. MaxVl(vtype)
        /\ \E mask \in Masks :
             v = [r \in Regs |-> [u \in 0 .. VLENB-1 |->
                    IF r = VMask
                    THEN SumFunction([j \in 0 .. UW-1 |-> IF UW * u + j \in mask THEN 2^j ELSE 0])
                    ELSE (3 * r + 2 * u + (r * u) \div 3) % 2^UW]]
        /\ vexc \in BOOLEAN /\ x = 0 /\ fflags = FALSE /\ steps = 0
        /\ mem = [a \in 0 .. 4 * VLENB - 1 |-> (5 * a + 2) % 2^UW]

Step == steps < MaxSteps /\ steps' = steps + 1
Raise == vexc' = TRUE /\ UNCHANGED <<v, vl, vstart, vtype, x, mem, fflags>>
Nothing == UNCHANGED <<v, vl, vstart, vtype, vexc, x, mem, fflags>>
\* the instruction writes f to the register file and clears vstart
Write(f) == v' = f /\ vstart' = 0 /\ UNCHANGED <<vl, vtype, vexc, x, mem, fflags>>
\* an arithmetic helper: nothing after an exception, an exception when a check
\* fails, else the loop
Guarded(ok, f) ==
    /\ Step
    /\ \/ vexc /\ Nothing
       \/ ~vexc /\ ~ok /\ Raise
       \/ ~vexc /\ ok /\ Write(f)

-----------------------------------------------------------------------------
(* vset{i}vl{i}: rd and rs1 zero keep vl, and then VLMAX must not change.  *)
(* The type comes from a register or an immediate: with a reserved         *)
(* multiplier VLMAX is 0 and the type is selected all the same.            *)

\* keeps vl without comparing the two VLMAX
M_Vsetvl(rd_zero, rs1_zero, avl, t) ==
    /\ Step /\ t \in Selectable /\ vtype' = t
    /\ vl' = IF rs1_zero /\ rd_zero THEN vl ELSE Lesser(avl, MaxVl(t))
    /\ UNCHANGED <<v, vstart, vexc, x, mem, fflags>>
Vsetvl(rd_zero, rs1_zero, avl, t) ==
    /\ Step /\ t \in Selectable
    /\ IF rs1_zero /\ rd_zero
       THEN IF max_vl # MaxVl(t) THEN Raise
            ELSE vtype' = t /\ UNCHANGED <<v, vl, vstart, vexc, x, mem, fflags>>
       ELSE LET n == IF ~rs1_zero /\ avl <= MaxVl(t) THEN avl ELSE MaxVl(t) IN
            /\ vtype' = t /\ vl' = n
            /\ x' = IF rd_zero THEN x ELSE n
            /\ UNCHANGED <<v, vstart, vexc, mem, fflags>>

\* csrw vstart
WriteVstart(n) == Step /\ vstart' = n /\ UNCHANGED <<v, vl, vtype, vexc, x, mem, fflags>>

-----------------------------------------------------------------------------
(* RiscVBinaryVectorOp, RiscVMaskBinaryVectorOp, RiscVTernaryVectorOp,     *)
(* RiscVUnaryVectorOp, RiscVMaskNullaryVectorOp.                           *)

\* operand values by vector_index; vs1 may be a scalar
Index == 0 .. UW * VLENB - 1
Src2(k, i) == Element(v, Vs2, k, i)
Src1(k, i, scalar) == Element(v, Vs1, k, IF scalar THEN 0 ELSE i)
Masked == [i \in Index |-> Active(i)]
All == [i \in Index |-> TRUE]
Values(val(_)) == [i \in Index |-> IF i < vl THEN val(i) ELSE 0]

SingleWidth == {"vadd", "vrsub", "vsll", "vmax"}
SingleOp(op, a, b) ==
    LET w == Bits(sew) IN
    CASE op = "vadd" -> Vadd(w, a, b) [] op = "vrsub" -> Vrsub(w, a, b)
      [] op = "vsll" -> Vsll(w, a, b) [] op = "vmax"  -> Vmax(w, a, b)
BinaryValues(op, scalar) ==
    Values(LAMBDA i : SingleOp(op, Src2(sew, i), Src1(sew, i, scalar)))
BinaryVectorOp(op, d, scalar) ==
    /\ Enough(Vs2, sew) /\ (scalar \/ Enough(Vs1, sew))
    /\ Guarded(LmulOk(sew) /\ Enough(d, sew),
               ElementLoop(v, d, sew, vstart, vl, BinaryValues(op, scalar), Masked))

\* the destination has twice the width of the sources (vwaddu)
WideningValues == Values(LAMBDA i : Vwaddu(Bits(sew), Src2(sew, i), Src1(sew, i, FALSE)))
WideningVectorOp(d) ==
    /\ Sources(sew)
    /\ Guarded(Widens /\ Enough(d, 2*sew),
               ElementLoop(v, d, 2*sew, vstart, vl, WideningValues, Masked))

\* vs2 has twice the width of the destination (vnsrl): also refused when the
\* doubled multiplier is not legal
NarrowingValues ==
    Values(LAMBDA i : Vnsrl(Bits(sew), Element(v, Vd, 2*sew, i), Src1(sew, i, FALSE)))
NarrowingVectorOp(d) ==
    /\ Widens => Enough(Vd, 2*sew) /\ Enough(Vs1, sew)
    /\ Guarded(Widens /\ Enough(d, sew),
               ElementLoop(v, d, sew, vstart, vl, NarrowingValues, Masked))

\* the mask is an operand and every element is written (vmerge)
MergeValues == Values(LAMBDA i : Vmerge(Bits(sew), Src2(sew, i), Src1(sew, i, FALSE), Active(i)))
MaskBinaryVectorOp(d) ==
    /\ Sources(sew)
    /\ Guarded(LmulOk(sew) /\ Enough(d, sew),
               ElementLoop(v, d, sew, vstart, vl, MergeValues, All))

\* the old destination is an operand (vmacc)
TernaryValues(d) ==
    Values(LAMBDA i : Vmacc(Bits(sew), Src2(sew, i), Src1(sew, i, FALSE), Element(v, d, sew, i)))
TernaryVectorOp(d) ==
    /\ Sources(sew)
    /\ Guarded(LmulOk(sew) /\ Enough(d, sew),
               ElementLoop(v, d, sew, vstart, vl, TernaryValues(d), Masked))

\* vs2 has half the width (vsext.vf2)
UnaryValues == Values(LAMBDA i : Vsext2(Bits(sew), Element(v, Vs2, sew \div 2, i)))
UnaryVectorOp(d) ==
    /\ sew > 1 => Enough(Vs2, sew \div 2)
    /\ Guarded(sew > 1 /\ LmulOk(sew) /\ LmulOk(sew \div 2) /\ Enough(d, sew),
               ElementLoop(v, d, sew, vstart, vl, UnaryValues, Masked))

\* RiscVUnaryVectorOpWithFflags: the active elements' flags are put together and
\* set in fflags at the end.  The element operation stands for the conversions
\* of FpVector: it halves the element and flags a lost bit.
FlaggedOp(a) == [v |-> a \div 2, flag |-> a % 2 = 1]
FlaggedValues == Values(LAMBDA i : FlaggedOp(Src2(sew, i)).v)
ElementFlags(from, to) == \E i \in from .. to - 1 : Active(i) /\ FlaggedOp(Src2(sew, i)).flag
UnaryVectorOpWithFflags(d) ==
    /\ Step /\ Enough(Vs2, sew)
    /\ \/ vexc /\ Nothing
       \/ ~vexc /\ ~(LmulOk(sew) /\ Enough(d, sew)) /\ Raise
       \/ /\ ~vexc /\ LmulOk(sew) /\ Enough(d, sew)
          /\ v' = ElementLoop(v, d, sew, vstart, vl, FlaggedValues, Masked)
          /\ fflags' = (fflags \/ ElementFlags(vstart, vl))
          /\ vstart' = 0 /\ UNCHANGED <<vl, vtype, vexc, x, mem>>

\* viota counts the set and active bits of vs2 it has passed, vid the elements:
\* both start at vstart
IotaValues == Values(LAMBDA i : Cardinality({j \in vstart .. i-1 : Active(j) /\ MaskBit(v, Vs2, j)}))
IdValues == Values(LAMBDA i : i - vstart)
MaskNullaryVectorOp(d, val) ==
    Guarded(Enough(d, sew), ElementLoop(v, d, sew, vstart, vl, val, Masked))
Viota(d) == MaskNullaryVectorOp(d, IotaValues)
Vid(d)   == MaskNullaryVectorOp(d, IdValues)

-----------------------------------------------------------------------------
(* Results that are mask bits: compares write the active bits, carries     *)
(* (RiscVSetMaskBinaryVectorMaskOp) every bit.                             *)

SetBits(f, r, is, val) ==
    FoldSet(LAMBDA i, g : SetBit(g, r, i, val[i]), f, is)
CompareBits == [i \in Index |-> i < vl /\ Vmsltu(Bits(sew), Src2(sew, i), Src1(sew, i, FALSE))]
BinaryVectorMaskOp ==
    Sources(sew) /\ Guarded(TRUE, SetBits(v, VdOdd, {i \in vstart .. vl-1 : Active(i)}, CompareBits))
CarryBits == [i \in Index |-> i < vl /\ Vmadc(Bits(sew), Src2(sew, i), Src1(sew, i, FALSE), Active(i))]
SetMaskBinaryVectorMaskOp ==
    Sources(sew) /\ Guarded(TRUE, SetBits(v, VdOdd, vstart .. vl-1, CarryBits))

\* vmand.mm and its kin, a byte at a time: the first byte keeps the bits before
\* vstart, then the last byte keeps the bits from vl on
MaskLogic == {"vmand", "vmandnot", "vmor", "vmornot", "vmxor", "vmnand", "vmnor", "vmxnor"}
MaskLogicOp(op, a, b) ==
    LET n(y) == Inv(UW, y) IN
    CASE op = "vmand" -> a & b       [] op = "vmandnot" -> a & n(b)
      [] op = "vmor" -> a | b        [] op = "vmornot" -> a | n(b)
      [] op = "vmxor" -> a ^^ b      [] op = "vmnand" -> n(a & b)
      [] op = "vmnor" -> n(a | b)    [] op = "vmxnor" -> n(a ^^ b)
\* C++ division and remainder of vl - 1 truncate: vl = 0 gives byte 0, offset -1
BitwiseMaskBinaryOp(op, f, from, to) ==
    LET start_byte == from \div UW
        start_mask == MaxU(UW) - (2^(from % UW) - 1)
        end_byte == IF to = 0 THEN 0 ELSE (to - 1) \div UW
        end_mask == IF to = 0 THEN 0 ELSE 2^(((to - 1) % UW) + 1) - 1
        res(u) == MaskLogicOp(op, f[Vs2][u], f[Vs1][u])
        mix(u, m, old) == (res(u) & m) | (old & Inv(UW, m))
        first == [f[VdOdd] EXCEPT ![start_byte] = mix(start_byte, start_mask, @)]
        middle == [u \in 0 .. VLENB-1 |-> IF u \in start_byte+1 .. end_byte-1 THEN res(u) ELSE first[u]]
    IN  [f EXCEPT ![VdOdd] = [middle EXCEPT ![end_byte] = mix(end_byte, end_mask, @)]]
MaskLogical(op) ==
    vstart < VLENB * UW /\ Guarded(TRUE, BitwiseMaskBinaryOp(op, v, vstart, vl))

-----------------------------------------------------------------------------
(* riscv_vector_unary_instructions.cc: mask to scalar and mask to mask.    *)
(* They raise an exception when vstart is not zero.                        *)

MaskSet(f, r) == {i \in 0 .. vl-1 : Active(i) /\ MaskBit(f, r, i)}
FirstOf(s) == IF s = {} THEN vl ELSE Min(s)
AtStart(act) == Step /\ \/ vstart # 0 /\ Raise
                        \/ vstart = 0 /\ act
Scalar(n) == x' = n /\ UNCHANGED <<v, vl, vstart, vtype, vexc, mem, fflags>>
Vcpop  == AtStart(Scalar(Cardinality(MaskSet(v, Vs2))))
Vfirst == AtStart(Scalar(IF MaskSet(v, Vs2) = {} THEN -1 ELSE FirstOf(MaskSet(v, Vs2))))

M_VmsbfResult(f) ==
    LET first == FirstOf(MaskSet(f, Vs2)) IN
    SetBits(f, VdOdd, {i \in 0 .. vl-1 : i >= first \/ Active(i)}, [i \in Index |-> i <= first])
\* the bits before the first are set where active, those from it on cleared
\* whether active or not
VmsbfResult(f) ==
    LET first == FirstOf(MaskSet(f, Vs2)) IN
    SetBits(f, VdOdd, {i \in 0 .. vl-1 : i >= first \/ Active(i)}, [i \in Index |-> i < first])
VmsifResult(f) ==
    LET first == FirstOf(MaskSet(f, Vs2)) IN
    SetBits(f, VdOdd, {i \in 0 .. vl-1 : Active(i)}, [i \in Index |-> i <= first])
VmsofResult(f) ==
    LET first == FirstOf(MaskSet(f, Vs2)) IN
    SetBits(f, VdOdd, {i \in 0 .. vl-1 : Active(i)}, [i \in Index |-> i = first])
Vmsbf == AtStart(Write(VmsbfResult(v)))
Vmsif == AtStart(Write(VmsifResult(v)))
Vmsof == AtStart(Write(VmsofResult(v)))

\* element 0 to and from the scalar register; nothing, vstart kept, when
\* vstart is not zero or vl is zero
Moves == vstart = 0 /\ vl > 0
VmvToScalar == Step /\ \/ ~Moves /\ Nothing
                       \/ Moves /\ Scalar(Signed(Bits(sew), Src2(sew, 0)))
VmvFromScalar ==
    Step /\ \/ ~Moves /\ Nothing
            \/ Moves /\ v' = Put(v, Vd, sew, 0, Trunc(Bits(sew), x))
                     /\ UNCHANGED <<vl, vstart, vtype, vexc, x, mem, fflags>>

\* the floating point moves refuse other widths; vfmv.f.s looks at neither
\* vstart nor vl, and boxes a narrow value in a register of flen bytes
FloatSew == sew \in FloatWidths
Vfmvsf ==
    Step /\ \/ ~Moves /\ Nothing
            \/ Moves /\ ~FloatSew /\ Raise
            \/ Moves /\ FloatSew /\ Write(Put(v, Vd, sew, 0, Trunc(Bits(sew), x)))
BoxedIn(flen, k, a) == a + (2^Bits(flen) - 2^Bits(k))
Vfmvfs(flen) ==
    Step /\ \/ ~FloatSew /\ Raise
            \/ FloatSew /\ x' = BoxedIn(flen, sew, Src2(sew, 0)) /\ vstart' = 0
                        /\ UNCHANGED <<v, vl, vtype, vexc, mem, fflags>>

-----------------------------------------------------------------------------
(* riscv_vector_reduction_instructions.cc.  vstart # 0: the helper calls   *)
(* the getter of the exception flag and returns.  The accumulator starts   *)
(* with vs1[0] in its own width, and vd[0] is written even when vl is 0.   *)

\* one step: the accumulator and an element of vs2
Vredsum(w, a, e)  == Vadd(w, a, e)
Vredand(a, e)     == a & e
Vredor(a, e)      == a | e
Vredxor(a, e)     == a ^^ e
Vredminu(a, e)    == Lesser(a, e)
Vredmin(w, a, e)  == Vmin(w, a, e)
Vredmaxu(a, e)    == Greater(a, e)
Vredmax(w, a, e)  == Vmax(w, a, e)
Vwredsumu(w, a, e) == Trunc(2*w, a + e)
Vwredsum(w, a, e) == Trunc(2*w, a + Sext(w, 2*w, e))

Reductions == {"vredsum", "vredand", "vredor", "vredxor", "vredminu", "vredmin", "vredmaxu",
               "vredmax", "vwredsumu", "vwredsum"}
Reduced(op) ==
    LET w == Bits(sew)
        acc(a, e) == CASE op = "vredsum" -> Vredsum(w, a, e)   [] op = "vredand" -> Vredand(a, e)
                       [] op = "vredor" -> Vredor(a, e)        [] op = "vredxor" -> Vredxor(a, e)
                       [] op = "vredminu" -> Vredminu(a, e)    [] op = "vredmin" -> Vredmin(w, a, e)
                       [] op = "vredmaxu" -> Vredmaxu(a, e)    [] op = "vredmax" -> Vredmax(w, a, e)
                       [] op = "vwredsumu" -> Vwredsumu(w, a, e) [] op = "vwredsum" -> Vwredsum(w, a, e)
        after[i \in 0 .. vl] ==
            IF i = 0 THEN IF op = "vwredsum" THEN Sext(w, 2*w, Element(v, Vs1, sew, 0))
                                             ELSE Element(v, Vs1, sew, 0)
            ELSE IF Active(i - 1) THEN acc(after[i - 1], Src2(sew, i - 1)) ELSE after[i - 1]
    IN  after[vl]
ReductionVectorOp(op, d) ==
    LET k == IF op \in {"vwredsum", "vwredsumu"} THEN 2*sew ELSE sew IN
    IF vstart # 0 /\ k <= 8 THEN Step /\ Nothing
    ELSE Enough(Vs2, sew) /\ Guarded(k <= 8 /\ LmulOk(k) /\ LmulOk(sew), Put(v, d, k, 0, Reduced(op)))

-----------------------------------------------------------------------------
(* riscv_vector_permute_instructions.cc.  The mask bit of an element is    *)
(* looked up by its position in its register, not by vector_index.         *)

ItemMask == [i \in Index |-> Active(i % Epv(sew))]
PermuteRegs(d) == GroupSize(d) >= Greater(1, RegsFor(sew, vl))
Permute(d, val, wr) == Guarded(PermuteRegs(d), ElementLoop(v, d, sew, vstart, vl, val, wr))

\* an index past the source group gives 0
GatherValues(k, scalar) ==
    Values(LAMBDA i : LET j == Src1(k, i, scalar) IN
                      IF j < GroupSize(Vs2) * Epv(sew) THEN Src2(sew, j) ELSE 0)
Vrgather(d, scalar) == (scalar \/ Enough(Vs1, sew)) /\ Permute(d, GatherValues(sew, scalar), ItemMask)
\* the indices have two bytes, and their group must be legal
Vrgatherei16(d) ==
    /\ Enough(Vs1, 2)
    /\ Guarded((lmul * 2) \div sew <= 64 /\ PermuteRegs(d),
               ElementLoop(v, d, sew, vstart, vl, GatherValues(2, FALSE), ItemMask))

M_SlideValues(offset) ==
    Values(LAMBDA i : IF i - offset \in 0 .. vl - 1 THEN Src2(sew, i - offset) ELSE 0)
\* offset is negative for a slide down
SlideValues(offset) ==
    Values(LAMBDA i : IF i - offset \in 0 .. max_vl - 1 THEN Src2(sew, i - offset) ELSE 0)
HoldsMax == GroupSize(Vs2) >= RegsFor(sew, max_vl)   \* a slide down reads up to VLMAX
SlideMask(offset) == [i \in Index |-> ItemMask[i] /\ i - offset >= 0]
Vslideup(d, offset) ==
    IF offset > max_vl THEN Step /\ Nothing
    ELSE Enough(Vs2, sew) /\ Permute(d, SlideValues(offset), SlideMask(offset))
Vslidedown(d, offset) == HoldsMax /\ Permute(d, SlideValues(-offset), SlideMask(-offset))

\* the scalar enters where the source index is not positive or past VLMAX
Slide1Values(offset, scalar) ==
    Values(LAMBDA i : IF i - offset \in 1 .. max_vl - 1 THEN Src2(sew, i - offset) ELSE scalar)
Vslide1up(d, scalar)   == Enough(Vs2, sew) /\ Permute(d, Slide1Values(1, scalar), ItemMask)
Vslide1down(d, scalar) == HoldsMax /\ Permute(d, Slide1Values(-1, scalar), ItemMask)
Vfslide1(slide1) == IF FloatSew THEN slide1 ELSE Step /\ Raise
Vfslide1up(d, scalar)   == Vfslide1(Vslide1up(d, scalar))
Vfslide1down(d, scalar) == Vfslide1(Vslide1down(d, scalar))

\* the active elements from vstart on are packed from element 0
Packed ==
    LET after[n \in 0 .. vl - vstart] ==
            IF n = 0 THEN << >>
            ELSE IF Active(vstart + n - 1) THEN Append(after[n - 1], vstart + n - 1) ELSE after[n - 1]
    IN  after[vl - vstart]
CompressResult(f, d) ==
    IF vstart >= vl THEN f
    ELSE ElementLoop(f, d, sew, 0, Len(Packed),
                     [i \in Index |-> IF i < Len(Packed) THEN Src2(sew, Packed[i + 1]) ELSE 0], All)
Vcompress(d) == Enough(Vs2, sew) /\ Guarded(PermuteRegs(d), CompressResult(v, d))

\* vmv<n>r.v: whole registers, from the one vstart points into
VmvrResult(n) ==
    [r \in Regs |-> IF r - Vd \in vstart \div Epv(sew) .. n-1 THEN v[Vs2 + r - Vd] ELSE v[r]]
Vmvr(n, d) == Guarded(GroupSize(Vs2) >= n /\ GroupSize(d) >= n, VmvrResult(n))

UnitNext ==
    \/ \E rd_zero, rs1_zero \in BOOLEAN, avl \in 0 .. 5, t \in VTypes :
          Vsetvl(rd_zero, rs1_zero, avl, t)
    \/ \E n \in 0 .. max_vl : WriteVstart(n)
    \/ \E op \in SingleWidth, d \in {Vd, VdOdd}, scalar \in BOOLEAN : BinaryVectorOp(op, d, scalar)
    \/ \E d \in {Vd, VdOdd} : \/ WideningVectorOp(d) \/ MaskBinaryVectorOp(d) \/ TernaryVectorOp(d)
                              \/ UnaryVectorOp(d) \/ UnaryVectorOpWithFflags(d) \/ Viota(d) \/ Vid(d) \/ Vcompress(d)
    \/ NarrowingVectorOp(Vs2)
    \/ BinaryVectorMaskOp \/ SetMaskBinaryVectorMaskOp
    \/ \E op \in MaskLogic : MaskLogical(op)
    \/ Vcpop \/ Vfirst \/ Vmsbf \/ Vmsif \/ Vmsof \/ VmvToScalar \/ VmvFromScalar
    \/ \E op \in Reductions : ReductionVectorOp(op, VdOdd)
    \/ \E scalar \in BOOLEAN : Vrgather(Vd, scalar)
    \/ Vrgatherei16(Vd) \/ Vfmvsf \/ \E flen \in FloatWidths : flen >= sew /\ Vfmvfs(flen)
    \/ \E offset \in 0 .. 5 : Vslideup(Vd, offset) \/ Vslidedown(Vd, offset)
    \/ \E scalar \in {0, 3} : Vslide1up(Vd, scalar) \/ Vslide1down(Vd, scalar)
                              \/ Vfslide1up(Vd, scalar) \/ Vfslide1down(Vd, scalar)
    \/ \E n \in {1, 2, 4} : Vmvr(n, Vd)
=============================================================================
