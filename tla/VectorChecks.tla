---------------------------- MODULE VectorChecks ----------------------------
(***************************************************************************)
(* The vector unit with its memory, and what its register file, mask,      *)
(* permutation and memory instructions promise: the loops of VectorUnit    *)
(* and VectorMemory, translated from the code, against flat definitions by *)
(* element number, and against each other.                                 *)
(***************************************************************************)
EXTENDS VectorMemory

Next == UnitNext \/ MemNext
Spec == Init /\ [][Next]_vars

-----------------------------------------------------------------------------
\* element e of the group at d gets val[e] where it is in from .. to-1 and
\* written; every other unit of every register keeps its value
FlatWrite(f, d, k, from, to, val, wr) ==
    [r \in Regs |-> [u \in 0 .. VLENB-1 |->
        LET e == ((r - d) * VLENB + u) \div k IN
        IF r >= d /\ e \in from .. to-1 /\ wr[e] THEN Shr(val[e], UW * (u % k)) % 2^UW ELSE f[r][u]]]
\* a loop that stops at any element and is resumed there gives the same
LoopIsFlat(k, val, wr) ==
    LET whole == FlatWrite(v, Vd, k, vstart, vl, val, wr) IN
    \A p \in vstart .. vl :
        ElementLoop(ElementLoop(v, Vd, k, vstart, p, val, wr), Vd, k, p, vl, val, wr) = whole
ReductionsAreFolds ==
    LET w == Bits(sew)
        act == {i \in 0 .. vl-1 : Active(i)}
        first == Element(v, Vs1, sew, 0)
        elements == {first} \cup {Src2(sew, i) : i \in act}
        signed == [e \in elements |-> Signed(w, e)]
        total(val) == val[first] + SumFunction([i \in act |-> val[Src2(sew, i)]])
    IN  /\ Reduced("vredsum") = Trunc(w, total([e \in elements |-> e]))
        /\ Reduced("vwredsumu") = Trunc(2*w, total([e \in elements |-> e]))
        /\ Reduced("vwredsum") = Trunc(2*w, total(signed))
        /\ Reduced("vredmaxu") = Max(elements) /\ Reduced("vredminu") = Min(elements)
        /\ Signed(w, Reduced("vredmax")) = Max({signed[e] : e \in elements})
        /\ Signed(w, Reduced("vredmin")) = Min({signed[e] : e \in elements})
        /\ \A j \in 0 .. w-1 :
             /\ (Bit(Reduced("vredor"), j) = 1) = (\E e \in elements : Bit(e, j) = 1)
             /\ (Bit(Reduced("vredand"), j) = 1) = (\A e \in elements : Bit(e, j) = 1)
             /\ Bit(Reduced("vredxor"), j) = total([e \in elements |-> Bit(e, j)]) % 2
BitsOf(f, r) == {i \in 0 .. UW * VLENB - 1 : MaskBit(f, r, i)}

\* An instruction changes exactly the active elements from vstart to vl of its
\* destination group, across register boundaries, in fractional and in
\* multiple groups, widening and not, and nothing of any other register; and
\* when it stops at any element and is restarted there by vstart the result
\* is the same.  A reduction is the sum, the extreme or the bitwise
\* combination of vs1[0] and the active elements, whichever are active.
ActiveElementsOnly ==
    /\ \A op \in SingleWidth, scalar \in BOOLEAN : LoopIsFlat(sew, BinaryValues(op, scalar), Masked)
    /\ Widens => LoopIsFlat(2*sew, WideningValues, Masked)
    /\ LoopIsFlat(sew, MergeValues, All) /\ LoopIsFlat(sew, TernaryValues(Vd), Masked)
    /\ sew > 1 => LoopIsFlat(sew, UnaryValues, Masked)
    /\ LoopIsFlat(sew, FlaggedValues, Masked) /\ LoopIsFlat(sew, GatherValues(2, FALSE), ItemMask)
    /\ BitsOf(SetBits(v, VdOdd, {i \in vstart .. vl-1 : Active(i)}, CompareBits), VdOdd)
         = {i \in 0 .. UW * VLENB - 1 :
              IF i \in vstart .. vl-1 /\ Active(i) THEN CompareBits[i] ELSE MaskBit(v, VdOdd, i)}
    /\ ReductionsAreFolds

\* vl never exceeds the VLMAX of the current type, whatever sequence of vset
\* instructions led there: a larger vl would make the loops run past the
\* register group.
VlFits == vl <= max_vl

\* The mask instructions describe one first set bit: on the active elements
\* vmsif is vmsbf together with vmsof, which are disjoint; vmsof marks the set
\* bit before which viota has counted none, vmsbf the clear bits before it;
\* vcpop is where viota ends; vfirst is -1 or the element vmsof marks.  Bits
\* from vl on keep their value.  The byte loop of vmand.mm and its kin is the
\* operation on the bits from vstart to vl, and when vl lies in a later byte
\* than vstart it keeps the bits before.
MaskInstructions ==
    LET act == {i \in 0 .. vl-1 : Active(i)}
        sbf == BitsOf(VmsbfResult(v), VdOdd)  sif == BitsOf(VmsifResult(v), VdOdd)
        sof == BitsOf(VmsofResult(v), VdOdd)  old == BitsOf(v, VdOdd)
        set == MaskSet(v, Vs2)
        tail == {i \in old : i >= vl}
    IN  /\ sif \cap act = (sbf \cup sof) \cap act /\ sbf \cap sof \cap act = {}
        /\ vstart = 0 =>
             /\ sof \cap act = {i \in set : IotaValues[i] = 0}
             /\ sbf \cap act = {i \in act \ set : IotaValues[i] = 0}
             /\ vl > 0 => Cardinality(set) = IotaValues[vl-1] + (IF vl-1 \in set THEN 1 ELSE 0)
        /\ \A s \in {sbf, sif, sof} : {i \in s : i >= vl} = tail
        /\ sof \cap act = (IF set = {} THEN {} ELSE {FirstOf(set)})
        /\ \A op \in MaskLogic :
             LET new == BitsOf(BitwiseMaskBinaryOp(op, v, vstart, vl), VdOdd)
                 bit(a, b) == MaskLogicOp(op, Flag(a), Flag(b)) % 2 = 1
             IN  /\ vl > 0 => \A i \in vstart .. vl-1 :
                      (i \in new) = bit(MaskBit(v, Vs2, i), MaskBit(v, Vs1, i))
                 /\ (vl > 0 /\ vstart \div UW < (vl-1) \div UW) =>
                      \A i \in 0 .. vstart-1 : (i \in new) = (i \in old)

\* "The start byte is computed first, applying a mask to mask out any preceding
\* bits": the bits before vstart keep their value (violated when vstart and
\* vl lie in one byte: the end byte is then computed without that mask).
PrestartMaskBits ==
    \A op \in MaskLogic : vl > vstart =>
        LET new == BitsOf(BitwiseMaskBinaryOp(op, v, vstart, vl), VdOdd)
        IN  \A i \in 0 .. vstart-1 : (i \in new) = MaskBit(v, VdOdd, i)

\* Permutations agree with each other, for groups of at most one register
\* (in larger ones the mask is looked up per register): gathering a compressed
\* vector by viota of the mask restores the active elements, and compressing
\* writes only as many as there are; sliding down by n is gathering element
\* i + n, with 0 from VLMAX on, sliding up leaves the first n alone; vslide1down
\* is a slide by one with the scalar last, vslide1up one from element 2 on, with
\* the scalar in elements 0 and 1; an element moved to a floating point register
\* of any width and back is the same.
PermutesCompose ==
    (lmul <= 8 /\ vstart = 0) =>
        LET slid(f, offset) == ElementLoop(f, Vd, sew, 0, vl, SlideValues(offset), SlideMask(offset))
            el(f, i) == Element(f, Vd, sew, i)
            packed == CompressResult(v, Vd)
            rank(i) == Cardinality({j \in 0 .. i-1 : Active(j)})
            act == {i \in 0 .. vl-1 : Active(i)}
        IN  /\ \A i \in act : el(packed, rank(i)) = Src2(sew, i)
            /\ \A i \in Cardinality(act) .. max_vl-1 : el(packed, i) = el(v, i)
            /\ \A n \in 0 .. 5, i \in 0 .. vl-1 :
                 /\ el(slid(v, -n), i) = (IF i \notin act THEN el(v, i)
                                          ELSE IF i + n < max_vl THEN Src2(sew, i + n) ELSE 0)
                 /\ el(slid(v, n), i) = (IF i \in act /\ i >= n THEN Src2(sew, i - n) ELSE el(v, i))
            /\ \A i \in act : /\ i >= 2 => Slide1Values(1, 3)[i] = SlideValues(1)[i]
                              /\ i < max_vl - 1 => Slide1Values(-1, 3)[i] = SlideValues(-1)[i]
                              /\ i \in {0, 1} => Slide1Values(1, 3)[i] = 3
                              /\ i = max_vl - 1 => Slide1Values(-1, 3)[i] = 3
            /\ FloatSew => \A flen \in FloatWidths : flen >= sew =>
                 el(Put(v, Vd, sew, 0, Trunc(Bits(sew), BoxedIn(flen, sew, Src2(sew, 0)))), 0) = Src2(sew, 0)

\* "Other values are shifted by 1" (riscv_vector_permute_instructions_test.cc:456,
\* whose mask leaves element 1 out).  (Violated: the scalar goes wherever the
\* source index is not above 0, so element 1 gets it too.)
Slide1upMovesAll ==
    \A i \in 1 .. vl-1 : Active(i) => Slide1Values(1, 3)[i] = SlideValues(1)[i]

-----------------------------------------------------------------------------
(* Loads and stores at vstart = 0. *)

Free == 8   \* the first register of a free group
Loaded(f, mm, d, k, base, stride) ==
    WriteBackLoadData(f, d, k, 0, vl, vl, MaskFrom(0, vl),
                      [i \in Entries(vl) |-> LoadAt(mm, k, base + i * stride)])
Fits(k, stride) == EmulOk(k) /\ k <= stride /\ vl * stride <= MemSize /\ RegsFor(k, vl) <= 4

\* Loads invert stores, and segments are their fields: loading by a stride what
\* was stored by it restores the active elements and changes nothing else;
\* a segment store puts in memory what one strided store per field would, and a
\* segment load (of no more than a register of segments, or of full registers)
\* writes what one strided load per field would.
LoadsInvertStores ==
    vstart = 0 =>
        /\ \A k \in {1, 2}, stride \in {1, 2, 3} : Fits(k, stride) =>
             LET mm == StoreMemory(mem, k, StoreVectorStrided(Vd, k, 3, stride)) IN
             Loaded(v, mm, Free, k, 3, stride)
               = FlatWrite(v, Free, k, 0, vl, [i \in Index |-> IF i < vl THEN Element(v, Vd, k, i) ELSE 0], Masked)
        /\ \A k \in {1, 2}, nf \in {2, 3} : (Emul(k) * nf <= 64 /\ RegMul(Emul(k)) * nf <= 4 /\ Fits(k, nf * k)) =>
             LET unit == Addresses(nf, k, 1, nf * k)
                 reg(field) == field * RegMul(Emul(k))
             IN  /\ StoreMemory(mem, k, SegmentEntries(Vd, k, nf, Emul(k), unit))
                      = FoldLeft(LAMBDA mm, field : StoreMemory(mm, k,
                            StoreVectorStrided(Vd + reg(field), k, 1 + field * k, nf * k)),
                            mem, [n \in 1 .. nf |-> n - 1])
                 /\ (vl > 0 /\ (vl <= Epv(k) \/ vl % Epv(k) = 0)) =>
                      WriteBackSegmentLoadData(v, mem, Free, k, nf, unit)
                        = FoldLeft(LAMBDA f, field :
                              Loaded(f, mem, Free + reg(field), k, 1 + field * k, nf * k),
                              v, [n \in 1 .. nf |-> n - 1])

\* "If there are more segments than elements in the vector register, adjacent
\* vector registers are grouped together. So the first field goes in the first
\* register group, etc." (violated when the last register of a group is not
\* full: its segments are not loaded and later fields are shifted by as many).
SegmentGroups ==
    \A k \in {1, 2} : (vstart = 0 /\ vl > 0 /\ Emul(k) <= 32 /\ Fits(k, 2 * k)) =>
        WriteBackSegmentLoadData(v, mem, Free, k, 2, Addresses(2, k, 1, 2 * k))
          = Loaded(Loaded(v, mem, Free, k, 1, 2 * k), mem, Free + RegMul(Emul(k)), k, 1 + k, 2 * k)
=============================================================================
