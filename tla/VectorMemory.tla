---------------------------- MODULE VectorMemory ----------------------------
(***************************************************************************)
(* Vector loads and stores (riscv_vector_memory_instructions.cc).  An      *)
(* instruction builds address, mask and data buffers and calls LoadMemory  *)
(* or StoreMemory; a load's child instruction then writes the registers.   *)
(* With a memory of no latency both happen in one step.                    *)
(*                                                                         *)
(* Addresses wrap at the size of the memory, as the machine's wrap at 2^64.*)
(* vstart > vl would ask for a buffer of negative size, and registers past  *)
(* the group of a source would be read out of bounds: no action then.      *)
(***************************************************************************)
EXTENDS VectorUnit, SequencesExt

MemSize == 4 * VLENB
LoadAt(f, k, a) == SumFunction([j \in 0 .. k-1 |-> f[(a + j) % MemSize] * 2^(UW * j)])
StoreAt(f, k, a, value) ==
    [u \in DOMAIN f |-> LET j == (u - a) % MemSize IN
                        IF j < k THEN Shr(value, UW * j) % 2^UW ELSE f[u]]
\* entries of a store in order: address, data, mask
StoreMemory(f, k, entries) ==
    FoldLeft(LAMBDA g, e : IF e.m THEN StoreAt(g, k, e.a, e.v) ELSE g, f, entries)

\* items is of one register are written, by position in the register
PutItems(f, reg, k, is, val) ==
    [f EXCEPT ![reg] = [u \in 0 .. VLENB-1 |->
        IF u \div k \in is THEN Shr(val[u \div k], UW * (u % k)) % 2^UW ELSE f[reg][u]]]

Emul(k) == (k * lmul) \div sew
EmulOk(k) == Emul(k) \in 1 .. 64

-----------------------------------------------------------------------------
(* The write back of a load.  The buffers hold n entries from vstart on;   *)
(* in the first register the code indexes them by the position in the      *)
(* register and stops at their count, which is right when vstart is a      *)
(* multiple of the elements of a register.                                 *)

WriteBackLoadData(f, d, k, start, length, n, masks, values) ==
    LET epv == Epv(k)
        start_reg == start \div epv
        after[j \in 0 .. Greater(0, RegsFor(k, length) - start_reg)] ==
            IF j = 0 THEN [f |-> f, left |-> n, idx |-> 0, item |-> start % epv]
            ELSE LET p == after[j - 1]
                     count == Lesser(epv - p.item, p.left)
                     is == {i \in p.item .. count-1 : masks[p.idx + i]}
                 IN  IF p.left = 0 THEN p
                     ELSE [f |-> PutItems(p.f, d + start_reg + j - 1, k, is,
                                          [i \in is |-> values[p.idx + i]]),
                           left |-> p.left - count, idx |-> p.idx + count, item |-> 0]
    IN  after[Greater(0, RegsFor(k, length) - start_reg)].f

\* VlChild: too few registers, or masks for another number of elements, is an
\* error; the parent clears vstart in any case
VlChild(d, k, start, length, n, masks, values) ==
    /\ vstart' = 0 /\ UNCHANGED <<vl, vtype, x, mem, fflags>>
    /\ IF GroupSize(d) >= RegsFor(k, length) /\ length - start = n
       THEN v' = WriteBackLoadData(v, d, k, start, length, n, masks, values) /\ UNCHANGED vexc
       ELSE vexc' = TRUE /\ UNCHANGED v

Entries(n) == 0 .. n-1
MaskFrom(start, n) == [i \in Entries(n) |-> Active(start + i)]
InRange == Step /\ vstart <= vl

\* a multiplier out of range: a log message, nothing else
VlStrided(k, d, base, stride) ==
    /\ InRange
    /\ IF ~EmulOk(k) THEN Nothing
       ELSE LET n == vl - vstart IN
            VlChild(d, k, vstart, vl, n, MaskFrom(vstart, n),
                    [i \in Entries(n) |-> LoadAt(mem, k, base + (vstart + i) * stride)])

\* vstart counts bytes here
MaskBytes == (vl + UW - 1) \div UW
Vlm(d, base) ==
    LET n == MaskBytes - vstart IN
    /\ Step
    /\ IF vstart >= VLENB \/ n <= 0 THEN Write(v)
       ELSE VlChild(d, 1, vstart, MaskBytes, n, [i \in Entries(n) |-> TRUE],
                    [i \in Entries(n) |-> LoadAt(mem, 1, base + vstart + i)])

\* the mask buffer has vl entries whatever vstart is
Offset(iw, i) == Element(v, Vs2, iw, i)
VlIndexed(iw, d, base) ==
    /\ InRange /\ Enough(Vs2, iw)
    /\ IF ~EmulOk(iw) THEN Raise
       ELSE VlChild(d, sew, vstart, vl, vl, [i \in Entries(vl) |-> Active((vstart + i) % (VLENB * UW))],
                    [i \in Entries(vl) |-> LoadAt(mem, sew, base + Offset(iw, vstart + i))])

VlRegister(num_regs, k, d, base) ==
    LET n == (VLENB * num_regs) \div k IN
    /\ Step
    /\ VlChild(d, k, 0, n, n, [i \in Entries(n) |-> TRUE],
               [i \in Entries(n) |-> LoadAt(mem, k, base + i * k)])

-----------------------------------------------------------------------------
(* Segment loads: nf fields of each segment go to nf register groups.  The *)
(* buffers are ordered by field and hold vl entries for each.              *)

RegMul(emul) == Greater(1, emul \div 8)
\* num_regs rounds down, and load_data_index goes on from field to field.
\* addr[<<field, i>>] is the address of a field of segment i.  vl = 0 divides by zero
\* and ends the simulator: no action then.
SegmentRegs(k) == Greater(1, (vl * k) \div VLENB)
Addresses(nf, k, base, stride) ==
    [p \in (0 .. nf-1) \X (0 .. vl-1) |-> base + p[2] * stride + p[1] * k]
WriteBackSegmentLoadData(f, mm, d, k, nf, addr) ==
    LET max_elements == Lesser(Epv(k), vl)
        per_field == Lesser(vl, SegmentRegs(k) * max_elements)
        \* the entry at load_data_index i of the buffers
        value(i) == LoadAt(mm, k, addr[<<i \div vl, i % vl>>])
    IN  [reg \in Regs |->
            LET field == (reg - d) \div RegMul(Emul(k))
                r == (reg - d) % RegMul(Emul(k))
                index(i) == field * per_field + r * max_elements + i
                is == {i \in 0 .. max_elements-1 :
                         r * max_elements + i < per_field /\ Active(index(i) % vl)}
            IN  IF field \in 0 .. nf-1 /\ r < SegmentRegs(k)
                THEN PutItems(f, reg, k, is, [i \in is |-> value(index(i))])[reg]
                ELSE f[reg]]
VlSegmentChild(d, k, nf, addr) ==
    /\ vstart' = 0 /\ UNCHANGED <<vl, vtype, x, mem, fflags>>
    /\ IF nf * GroupSize(d) >= (nf - 1) * RegMul(Emul(k)) + SegmentRegs(k) /\ vstart = 0
       THEN v' = WriteBackSegmentLoadData(v, mem, d, k, nf, addr) /\ UNCHANGED vexc
       ELSE vexc' = TRUE /\ UNCHANGED v

VlSegment(k, d, nf, base) ==
    /\ InRange /\ vl > 0
    /\ IF Emul(k) * nf > 64 THEN Raise
       ELSE VlSegmentChild(d, k, nf, Addresses(nf, k, base, nf * k))
VlSegmentStrided(k, d, nf, base, stride) ==
    /\ InRange /\ vl > 0
    /\ IF Emul(k) * nf > 64 THEN Raise
       ELSE VlSegmentChild(d, k, nf, Addresses(nf, k, base, stride))
VlSegmentIndexed(iw, d, nf, base) ==
    /\ InRange /\ vl > 0 /\ Enough(Vs2, iw)
    /\ IF lmul * nf > 64 \/ ~EmulOk(iw) THEN Raise
       ELSE VlSegmentChild(d, sew, nf,
                [p \in (0 .. nf-1) \X (0 .. vl-1) |-> base + Offset(iw, p[2]) + p[1] * sew])

-----------------------------------------------------------------------------
(* Stores.  The buffers of a strided store have vl entries, of which the   *)
(* last vstart are never set: their masks are whatever the recycled buffer *)
(* holds.  At most one of them is active in the model, at any address.     *)

Stale == {[m |-> FALSE, a |-> 0, v |-> 0]} \cup {[m |-> TRUE, a |-> a, v |-> 0] : a \in 0 .. MemSize-1}
Stored(k, entries) == mem' = StoreMemory(mem, k, entries) /\ vstart' = 0 /\ UNCHANGED <<v, vl, vtype, vexc, x, fflags>>
StoredOrStale(k, entries) ==
    IF vstart = 0 THEN Stored(k, entries)
    ELSE \E e \in Stale : Stored(k, Append(entries, e))
Entry(a, value, mk) == [a |-> a, v |-> value, m |-> mk]

\* reads elements of the selected width instead of the instruction's
M_StoreVectorStrided(s, k, base, stride) ==
    [n \in 1 .. vl - vstart |->
        LET i == vstart + n - 1 IN Entry(base + i * stride, Element(v, s, sew, i), Active(i))]
StoreVectorStrided(s, k, base, stride) ==
    [n \in 1 .. vl - vstart |->
        LET i == vstart + n - 1 IN Entry(base + i * stride, Element(v, s, k, i), Active(i))]
VsStrided(k, base, stride) ==
    /\ InRange /\ Enough(Vd, k)
    /\ IF ~EmulOk(k) THEN Raise ELSE StoredOrStale(k, StoreVectorStrided(Vd, k, base, stride))

Vsm(base) ==
    LET n == MaskBytes - vstart IN
    /\ Step
    /\ IF vstart >= VLENB \/ n <= 0 THEN Write(v)
       ELSE Stored(1, [j \in 1 .. n |-> Entry(base + vstart + j - 1, v[VdOdd][vstart + j - 1], TRUE)])

\* the loop ends at vl - vstart, and data is placed by i where address and
\* mask are placed by i - vstart: entry j has the address of element vstart + j
\* and the data of element j, stale for j < vstart
VsIndexed(iw, base) ==
    /\ InRange /\ Enough(Vs2, iw) /\ Enough(Vd, sew)
    /\ IF ~EmulOk(iw) THEN Raise
       ELSE \E old \in IF vstart = 0 THEN {0} ELSE {0, MaxU(Bits(sew))} :
            StoredOrStale(sew, [n \in 1 .. Greater(0, vl - 2 * vstart) |->
                Entry(base + Offset(iw, vstart + n - 1),
                      IF n - 1 < vstart THEN old ELSE Element(v, Vd, sew, n - 1),
                      Active(vstart + n - 1))])

\* in units of uint64_t, here of half a register
VsRegister(num_regs, base) ==
    LET k == VLENB \div 2 IN
    Step /\ Stored(k, [n \in 1 .. 2 * num_regs |-> Entry(base + (n-1) * k, Element(v, Vd, k, n-1), TRUE)])

\* the source group of a segment store must have this many registers, where the
\* code rounds down; the last one may be missing and is then read out of bounds:
\* no such store is in the model
EnoughSource(s, k, nf, emul) == RegMul(emul) * (nf - 1) + vl \div Epv(k) <= nf * GroupSize(s)
WholeSource(s, k, nf, emul)  == RegMul(emul) * (nf - 1) + RegsFor(k, vl) <= nf * GroupSize(s)
\* entry n of the buffers: field (n-1) % nf of segment vstart + (n-1) / nf
SegmentEntries(s, k, nf, emul, addr) ==
    [n \in 1 .. nf * (vl - vstart) |->
        LET field == (n - 1) % nf  segment == vstart + ((n - 1) \div nf)
        IN  Entry(addr[<<field, segment>>],
                  Element(v, s + field * RegMul(emul), k, segment), Active(segment))]
\* the address counts from base at the first segment stored, vstart or not
VsSegment(k, s, nf, base) ==
    /\ InRange
    /\ IF Emul(k) * nf > 64 \/ ~EnoughSource(s, k, nf, Emul(k)) THEN Raise
       ELSE WholeSource(s, k, nf, Emul(k)) /\ StoredOrStale(k, SegmentEntries(s, k, nf, Emul(k),
                Addresses(nf, k, base - vstart * nf * k, nf * k)))
VsSegmentStrided(k, s, nf, base, stride) ==
    /\ InRange
    /\ IF Emul(k) * nf > 64 \/ ~EnoughSource(s, k, nf, Emul(k)) THEN Raise
       ELSE WholeSource(s, k, nf, Emul(k)) /\ StoredOrStale(k, SegmentEntries(s, k, nf, Emul(k),
                Addresses(nf, k, base - vstart * stride, stride)))
\* the index is read as a signed number
VsSegmentIndexed(iw, s, nf, base) ==
    /\ InRange /\ Enough(Vs2, iw)
    /\ IF lmul * nf > 64 \/ ~EmulOk(iw) \/ ~EnoughSource(s, sew, nf, lmul) THEN Raise
       ELSE WholeSource(s, sew, nf, lmul) /\ StoredOrStale(sew, SegmentEntries(s, sew, nf, lmul,
                [p \in (0 .. nf-1) \X (0 .. vl-1) |->
                    base + Signed(Bits(iw), Offset(iw, p[2])) + p[1] * sew]))

\* the number of fields and the first register of the segment instructions; a
\* segment operand has the registers of nf groups
Segments == {<<2, Vd>>, <<2, VdOdd>>, <<3, VdOdd>>, <<5, Vd>>}
MemNext ==
    \/ \E k \in {1, 2}, d \in {Vd, VdOdd}, stride \in {-1, 0, 3} : VlStrided(k, d, 3, stride)
    \/ \E k \in {1, 2, 4}, stride \in {-1, 3} : VsStrided(k, 3, stride)
    \/ Vlm(VdOdd, 6) \/ Vsm(6)
    \/ \E iw \in {1, 2, 4}, d \in {Vd, VdOdd} : VlIndexed(iw, d, 1)
    \/ \E iw \in {1, 2, 4} : VsIndexed(iw, 1)
    \/ \E n \in {1, 2}, d \in {Vd, VdOdd} : VlRegister(n, 2, d, 4)
    \/ \E n \in {1, 2} : VsRegister(n, 4)
    \/ \E k \in {1, 2}, sg \in Segments :
         \/ VlSegment(k, sg[2], sg[1], 1) \/ VlSegmentStrided(k, sg[2], sg[1], 1, -2)
         \/ VsSegment(k, sg[2], sg[1], 1) \/ VsSegmentStrided(k, sg[2], sg[1], 1, -2)
    \/ \E iw \in {1, 2, 4}, sg \in Segments :
         VlSegmentIndexed(iw, sg[2], sg[1], 1) \/ VsSegmentIndexed(iw, sg[2], sg[1], 1)
=============================================================================
