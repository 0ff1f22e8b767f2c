---------------------------- MODULE VectorProofs ----------------------------
(***************************************************************************)
(* The vector unit, proved for every register length, every set of vector  *)
(* types, every byte width and every number of instructions.               *)
(*                                                                         *)
(* The length first.  Only the vset instructions write vl and vtype.  The  *)
(* form that keeps vl under a new type is where the invariant could break: *)
(* it is legal only when VLMAX stays as it is.  Every other instruction,   *)
(* those that raise an exception or return early included, must leave both *)
(* alone, and most of that proof is that they do.                          *)
(*                                                                         *)
(* Then the state: every register file an instruction builds is a file of  *)
(* bytes again, whatever element width, grouping or mask it ran under.     *)
(* From there the element loops of VectorUnit are shown to write what the  *)
(* checks say of every element, the reductions to be the sum or the best of*)
(* the active elements, the mask instructions to agree bit by bit, and the *)
(* permutations, whose results are read back element by element, to be     *)
(* special cases and inverses of each other.                               *)
(***************************************************************************)
EXTENDS VectorChecks, WordProofs

\* the type and the length after any number of instructions
LengthFits == vtype \in Selectable /\ vl \in Nat /\ VlFits

\* what every instruction but vset does to them
Keeps == UNCHANGED <<vl, vtype>>

\* VLMAX is a number: the width of an element is not zero.
LEMMA MaxVlIsNat == ASSUME NEW t \in Selectable PROVE MaxVl(t) \in Nat
<1>1. t[1] \in {1, 2, 4, 8} /\ t[2] \in Nat /\ VLENB \in Nat
  BY VectorAssumption DEF Selectable
<1>2. VLENB * t[2] \in Nat /\ 8 * t[1] \in Nat \ {0}
  BY <1>1
<1> QED  BY <1>2 DEF MaxVl

\* vset: a new vl is at most VLMAX of the new type, and a vl that is kept is
\* at most VLMAX of the old type, which then is VLMAX of the new one.
LEMMA VsetvlFits ==
  ASSUME LengthFits, NEW rd_zero \in BOOLEAN, NEW rs1_zero \in BOOLEAN, NEW avl \in 0 .. 5,
         NEW t \in VTypes, Vsetvl(rd_zero, rs1_zero, avl, t)
  PROVE  LengthFits'
<1>0. t \in Selectable
  BY DEF Vsetvl
<1>1. MaxVl(t) \in Nat /\ MaxVl(vtype) \in Nat
  BY <1>0, MaxVlIsNat DEF LengthFits
<1>2. CASE rs1_zero /\ rd_zero /\ max_vl # MaxVl(t)
  <2>1. Keeps
    BY <1>2 DEF Vsetvl, Raise, Keeps
  <2> QED  BY <2>1 DEF LengthFits, VlFits, Keeps, max_vl, MaxVl
<1>3. CASE rs1_zero /\ rd_zero /\ max_vl = MaxVl(t)
  <2>1. vtype' = t /\ vl' = vl
    BY <1>3 DEF Vsetvl
  <2>2. max_vl' = MaxVl(t)
    BY <2>1 DEF max_vl, MaxVl
  <2> QED  BY <1>0, <1>3, <2>1, <2>2 DEF LengthFits, VlFits
<1>4. CASE ~(rs1_zero /\ rd_zero)
  <2>1. vtype' = t /\ vl' = IF ~rs1_zero /\ avl <= MaxVl(t) THEN avl ELSE MaxVl(t)
    BY <1>4 DEF Vsetvl
  <2>2. max_vl' = MaxVl(t)
    BY <2>1 DEF max_vl, MaxVl
  <2> QED  BY <1>0, <1>1, <2>1, <2>2 DEF LengthFits, VlFits
<1> QED  BY <1>2, <1>3, <1>4

\* No other instruction of the unit writes the type or the length.
LEMMA UnitKeeps ==
  ASSUME UnitNext,
         ~ \E rd_zero, rs1_zero \in BOOLEAN, avl \in 0 .. 5, t \in VTypes :
               Vsetvl(rd_zero, rs1_zero, avl, t)
  PROVE  Keeps
<1> USE DEF Keeps, Guarded, Write, Raise, Nothing
<1>1. ASSUME NEW n, WriteVstart(n) PROVE Keeps
  BY <1>1 DEF WriteVstart
<1>2. ASSUME NEW op, NEW d, NEW scalar, BinaryVectorOp(op, d, scalar) PROVE Keeps
  BY <1>2 DEF BinaryVectorOp
<1>3. ASSUME NEW d, \/ WideningVectorOp(d) \/ MaskBinaryVectorOp(d) \/ TernaryVectorOp(d)
                    \/ UnaryVectorOp(d) \/ NarrowingVectorOp(d)
      PROVE Keeps
  BY <1>3 DEF WideningVectorOp, MaskBinaryVectorOp, TernaryVectorOp, UnaryVectorOp, NarrowingVectorOp
<1>4. ASSUME NEW d, UnaryVectorOpWithFflags(d) PROVE Keeps
  BY <1>4 DEF UnaryVectorOpWithFflags
<1>5. ASSUME NEW d, Viota(d) \/ Vid(d) \/ Vcompress(d) PROVE Keeps
  BY <1>5 DEF Viota, Vid, MaskNullaryVectorOp, Vcompress
<1>6. ASSUME BinaryVectorMaskOp \/ SetMaskBinaryVectorMaskOp PROVE Keeps
  BY <1>6 DEF BinaryVectorMaskOp, SetMaskBinaryVectorMaskOp
<1>7. ASSUME NEW op, MaskLogical(op) PROVE Keeps
  BY <1>7 DEF MaskLogical
<1>8. ASSUME Vcpop \/ Vfirst \/ Vmsbf \/ Vmsif \/ Vmsof PROVE Keeps
  BY <1>8 DEF Vcpop, Vfirst, Vmsbf, Vmsif, Vmsof, AtStart, Scalar
<1>9. ASSUME VmvToScalar \/ VmvFromScalar \/ Vfmvsf PROVE Keeps
  BY <1>9 DEF VmvToScalar, VmvFromScalar, Vfmvsf, Scalar
<1>10. ASSUME NEW flen, Vfmvfs(flen) PROVE Keeps
  BY <1>10 DEF Vfmvfs
<1>11. ASSUME NEW op, NEW d, ReductionVectorOp(op, d) PROVE Keeps
  BY <1>11 DEF ReductionVectorOp
<1>12. ASSUME NEW d, NEW scalar, Vrgather(d, scalar) \/ Vrgatherei16(d) PROVE Keeps
  BY <1>12 DEF Vrgather, Vrgatherei16, Permute
<1>13. ASSUME NEW d, NEW offset, Vslideup(d, offset) \/ Vslidedown(d, offset) PROVE Keeps
  BY <1>13 DEF Vslideup, Vslidedown, Permute
<1>14. ASSUME NEW d, NEW scalar, Vslide1up(d, scalar) \/ Vslide1down(d, scalar) PROVE Keeps
  BY <1>14 DEF Vslide1up, Vslide1down, Permute
<1>15. ASSUME NEW d, NEW scalar, Vfslide1up(d, scalar) \/ Vfslide1down(d, scalar) PROVE Keeps
  BY <1>14, <1>15 DEF Vfslide1up, Vfslide1down, Vfslide1
<1>16. ASSUME NEW n, NEW d, Vmvr(n, d) PROVE Keeps
  BY <1>16 DEF Vmvr
<1> QED
  BY <1>1, <1>2, <1>3, <1>4, <1>5, <1>6, <1>7, <1>8, <1>9, <1>10, <1>11, <1>12, <1>13, <1>14,
     <1>15, <1>16 DEF UnitNext

\* Nor does a load or a store, whether it is refused, moves nothing or is done
\* by its child instruction.
LEMMA MemKeeps ==
  ASSUME MemNext
  PROVE  Keeps
<1> USE DEF Keeps
<1>1. ASSUME NEW d, NEW k, NEW start, NEW length, NEW n, NEW masks, NEW values,
             VlChild(d, k, start, length, n, masks, values)
      PROVE  Keeps
  BY <1>1 DEF VlChild
<1>2. ASSUME NEW d, NEW k, NEW nf, NEW addr, VlSegmentChild(d, k, nf, addr) PROVE Keeps
  BY <1>2 DEF VlSegmentChild
<1>3. ASSUME NEW k, NEW entries, Stored(k, entries) PROVE Keeps
  BY <1>3 DEF Stored
<1>4. ASSUME NEW k, NEW entries, StoredOrStale(k, entries) PROVE Keeps
  BY <1>3, <1>4 DEF StoredOrStale
<1>5. Raise \/ Nothing \/ Write(v) => Keeps
  BY DEF Raise, Nothing, Write
<1> HIDE DEF Keeps
<1>6. ASSUME NEW k, NEW d, NEW base, NEW stride, VlStrided(k, d, base, stride) PROVE Keeps
  BY <1>1, <1>5, <1>6 DEF VlStrided
<1>7. ASSUME NEW k, NEW base, NEW stride, VsStrided(k, base, stride) PROVE Keeps
  BY <1>4, <1>5, <1>7 DEF VsStrided
<1>8. ASSUME NEW d, NEW base, Vlm(d, base) \/ Vsm(base) PROVE Keeps
  BY <1>1, <1>3, <1>5, <1>8 DEF Vlm, Vsm
<1>9. ASSUME NEW iw, NEW d, NEW base, VlIndexed(iw, d, base) PROVE Keeps
  BY <1>1, <1>5, <1>9 DEF VlIndexed
<1>10. ASSUME NEW iw, NEW base, VsIndexed(iw, base) PROVE Keeps
  BY <1>4, <1>5, <1>10 DEF VsIndexed
<1>11. ASSUME NEW n, NEW k, NEW d, NEW base, VlRegister(n, k, d, base) PROVE Keeps
  BY <1>1, <1>11 DEF VlRegister
<1>12. ASSUME NEW n, NEW base, VsRegister(n, base) PROVE Keeps
  BY <1>3, <1>12 DEF VsRegister
<1>13. ASSUME NEW k, NEW d, NEW nf, NEW base, NEW stride,
              VlSegment(k, d, nf, base) \/ VlSegmentStrided(k, d, nf, base, stride)
       PROVE  Keeps
  BY <1>2, <1>5, <1>13 DEF VlSegment, VlSegmentStrided
<1>14. ASSUME NEW k, NEW s, NEW nf, NEW base, NEW stride,
              VsSegment(k, s, nf, base) \/ VsSegmentStrided(k, s, nf, base, stride)
       PROVE  Keeps
  BY <1>4, <1>5, <1>14 DEF VsSegment, VsSegmentStrided
<1>15. ASSUME NEW iw, NEW d, NEW nf, NEW base,
              VlSegmentIndexed(iw, d, nf, base) \/ VsSegmentIndexed(iw, d, nf, base)
       PROVE  Keeps
  BY <1>2, <1>4, <1>5, <1>15 DEF VlSegmentIndexed, VsSegmentIndexed
<1> QED
  BY <1>6, <1>7, <1>8, <1>9, <1>10, <1>11, <1>12, <1>13, <1>14, <1>15 DEF MemNext

\* vl never exceeds VLMAX of the current type, whatever vset, arithmetic, load
\* and store instructions led there, for every register length: the loops of
\* the semantic functions stay inside the group whose registers were counted
\* for VLMAX elements.
THEOREM LengthStaysLegal == Spec => []VlFits
<1>1. Init => LengthFits
  <2> SUFFICES ASSUME Init PROVE LengthFits
    OBVIOUS
  <2>1. vtype \in Selectable /\ vl \in 0 .. MaxVl(vtype)
    BY Zenon DEF Init
  <2>2. MaxVl(vtype) \in Nat
    BY <2>1, MaxVlIsNat
  <2> QED  BY <2>1, <2>2 DEF LengthFits, VlFits, max_vl
<1>2. LengthFits /\ [Next]_vars => LengthFits'
  <2> SUFFICES ASSUME LengthFits, [Next]_vars PROVE LengthFits'
    OBVIOUS
  <2>1. CASE \E rd_zero, rs1_zero \in BOOLEAN, avl \in 0 .. 5, t \in VTypes :
                Vsetvl(rd_zero, rs1_zero, avl, t)
    BY <2>1, VsetvlFits
  <2>2. CASE Keeps
    BY <2>2 DEF Keeps, LengthFits, VlFits, max_vl, MaxVl
  <2>3. UNCHANGED vars => Keeps
    BY DEF vars, Keeps
  <2> QED  BY <2>1, <2>2, <2>3, UnitKeeps, MemKeeps DEF Next
<1>3. LengthFits => VlFits
  BY DEF LengthFits
<1> QED  BY <1>1, <1>2, <1>3, PTL DEF Spec

-----------------------------------------------------------------------------
(* Element loops: where an element lies, and that a loop over elements is one flat write of
   the register file, wherever it is stopped and restarted. *)

\* the widths in bytes of which a register holds whole elements
Parts == {k \in 1 .. VLENB : VLENB % k = 0}

\* a register file: every register has VLENB bytes, whatever their values
IsFile(f) ==
  /\ f = [r \in Regs |-> f[r]]
  /\ \A r \in Regs : f[r] = [u \in 0 .. VLENB-1 |-> f[r][u]]

\* A register of VLENB bytes holds Epv(k) elements of k bytes and nothing else.
LEMMA PartFacts ==
  ASSUME NEW k \in Parts
  PROVE  k \in Nat \ {0} /\ VLENB \in Nat \ {0} /\ Epv(k) \in Nat \ {0} /\ VLENB = k * Epv(k)
<1>1. k \in Nat \ {0} /\ VLENB \in Nat \ {0} /\ VLENB % k = 0
  BY VectorAssumption DEF Parts
<1>2. VLENB \div k \in Int /\ VLENB = k * (VLENB \div k) + (VLENB % k)
  BY <1>1, DivMod
<1>3. VLENB = k * (VLENB \div k)
  BY <1>1, <1>2
<1> DEFINE q == VLENB \div k
<1>4. q \in Int /\ VLENB = k * q
  BY <1>2, <1>3
<1> HIDE DEF q
<1>5. q > 0
  BY <1>1, <1>4
<1> QED  BY <1>1, <1>3, <1>4, <1>5 DEF Epv, q

\* Byte u of the register r past the group's first belongs to one element: the one in the
\* item u \div k of that register.
LEMMA ByteElement ==
  ASSUME NEW k \in Parts, NEW r \in Nat, NEW u \in 0 .. VLENB-1
  PROVE  /\ (r * VLENB + u) \div k = r * Epv(k) + (u \div k)
         /\ u \div k \in 0 .. Epv(k)-1 /\ u % k \in 0 .. k-1
<1>1. k \in Nat \ {0} /\ Epv(k) \in Nat \ {0} /\ VLENB = k * Epv(k)
  BY PartFacts
<1> DEFINE n == Epv(k)  i == u \div k  b == u % k
<1>0. u \in Int
  OBVIOUS
<1>2. u \in Int /\ i \in Int /\ b \in 0 .. k-1 /\ u = k * i + b
  BY <1>0, <1>1, DivMod
<1>3. n \in Nat \ {0} /\ VLENB = k * n
  BY <1>1
<1> HIDE DEF n, i, b
<1>4. 0 <= k * i + b /\ k * i + b < k * n
  BY <1>2, <1>3, VectorAssumption
<1>5. i >= 0
  <2> SUFFICES ASSUME i <= -1 PROVE FALSE
    BY <1>2
  <2>1. k * i <= -k
    BY <1>1, <1>2
  <2> QED  BY <2>1, <1>1, <1>2, <1>4
<1>6. i < n
  <2> SUFFICES ASSUME i >= n PROVE FALSE
    BY <1>2, <1>3
  <2>1. k * i >= k * n
    BY <1>1, <1>2, <1>3
  <2>2. k * i \in Int /\ k * n \in Int
    BY <1>1, <1>2, <1>3
  <2> QED  BY <2>1, <2>2, <1>2, <1>4
<1>7. r * VLENB + u = (r * n + i) * k + b
  <2>1. r * (k * n) = (r * n) * k
    BY <1>1, <1>3
  <2>2. (r * n + i) * k = (r * n) * k + k * i
    BY <1>1, <1>2, <1>3
  <2>3. r * VLENB = (r * n) * k
    BY <2>1, <1>3
  <2> DEFINE p == (r * n) * k  q == k * i  s == r * VLENB
  <2>4. p \in Int /\ q \in Int /\ s = p /\ u = q + b /\ (r * n + i) * k = p + q
    BY <2>2, <2>3, <1>1, <1>2, <1>3
  <2> HIDE DEF p, q, s
  <2>5. s + u = (r * n + i) * k + b
    BY <2>4, <1>2
  <2> QED  BY <2>5 DEF s
<1>8. r * VLENB + u \in Int /\ r * n + i \in Int
  BY <1>1, <1>2, <1>3
<1>9. (r * VLENB + u) \div k = r * n + i
  BY <1>1, <1>2, <1>7, <1>8, Unique
<1> QED  BY <1>2, <1>3, <1>5, <1>6, <1>9 DEF n, i, b

\* Elements and places in the group correspond: element e is item e % Epv(k) of register
\* e \div Epv(k).
LEMMA ElementPlace ==
  ASSUME NEW k \in Parts, NEW e \in Nat
  PROVE  /\ e \div Epv(k) \in Nat /\ e % Epv(k) \in 0 .. Epv(k)-1
         /\ e = Epv(k) * (e \div Epv(k)) + (e % Epv(k))
         /\ \A q \in Nat, i \in 0 .. Epv(k)-1 :
              (q = e \div Epv(k) /\ i = e % Epv(k)) <=> (e = q * Epv(k) + i)
<1>1. Epv(k) \in Nat \ {0}
  BY PartFacts
<1> DEFINE n == Epv(k)
<1>2. n \in Nat \ {0}
  BY <1>1
<1> HIDE DEF n
<1>3. e \div n \in Int /\ e % n \in 0 .. n-1 /\ e = n * (e \div n) + (e % n)
  BY <1>2, DivMod
<1> DEFINE q0 == e \div n  i0 == e % n
<1>4. q0 \in Int /\ i0 \in 0 .. n-1 /\ e = n * q0 + i0
  BY <1>3
<1>5. q0 \in Nat
  <2> HIDE DEF q0, i0
  <2> SUFFICES ASSUME q0 <= -1 PROVE FALSE
    BY <1>4
  <2>1. n * q0 <= -n
    BY <1>2, <1>4
  <2>2. n * q0 \in Int
    BY <1>2, <1>4
  <2> QED  BY <2>1, <2>2, <1>2, <1>4
<1>6. ASSUME NEW q \in Nat, NEW i \in 0 .. n-1
      PROVE (q = e \div n /\ i = e % n) <=> (e = q * n + i)
  <2>1. CASE e = q * n + i
    BY <2>1, <1>2, Unique
  <2>2. ASSUME q = q0, i = i0 PROVE e = q * n + i
    <3> HIDE DEF q0, i0
    <3>1. n * q = q * n
      BY <1>2
    <3> QED  BY <2>2, <3>1, <1>4
  <2> QED  BY <2>1, <2>2
<1> QED  BY <1>3, <1>5, <1>6 DEF n

\* Files that agree byte by byte are the same.
LEMMA SameFile ==
  ASSUME NEW f, NEW g, IsFile(f), IsFile(g),
         \A r \in Regs, u \in 0 .. VLENB-1 : f[r][u] = g[r][u]
  PROVE  f = g
<1>1. ASSUME NEW r \in Regs PROVE f[r] = g[r]
  <2>1. /\ f[r] = [u \in 0 .. VLENB-1 |-> f[r][u]]
        /\ g[r] = [u \in 0 .. VLENB-1 |-> g[r][u]]
    BY <1>1 DEF IsFile
  <2>2. [u \in 0 .. VLENB-1 |-> f[r][u]] = [u \in 0 .. VLENB-1 |-> g[r][u]]
    BY <1>1
  <2> QED  BY <2>1, <2>2
<1>2. f = [r \in Regs |-> f[r]] /\ g = [r \in Regs |-> g[r]]
  BY DEF IsFile
<1>3. [r \in Regs |-> f[r]] = [r \in Regs |-> g[r]]
  BY <1>1
<1> QED  BY <1>2, <1>3

\* Writing item i of a register changes the bytes of that item and leaves a file; a
\* register number past the file writes nothing.
LEMMA PutBytes ==
  ASSUME NEW f, IsFile(f), NEW reg, NEW k, NEW i, NEW value
  PROVE  /\ IsFile(Put(f, reg, k, i, value))
         /\ \A r \in Regs, u \in 0 .. VLENB-1 :
              Put(f, reg, k, i, value)[r][u] =
                IF r = reg /\ u \div k = i THEN Shr(value, UW * (u % k)) % 2^UW ELSE f[r][u]
<1> DEFINE new == [u \in 0 .. VLENB-1 |->
                     IF u \div k = i THEN Shr(value, UW * (u % k)) % 2^UW ELSE f[reg][u]]
           g == Put(f, reg, k, i, value)
<1>1. g = [f EXCEPT ![reg] = new]
  BY Zenon DEF Put
<1> HIDE DEF g
<1>2. f = [r \in Regs |-> f[r]]
  BY DEF IsFile
<1>3. g = [r \in Regs |-> IF r = reg THEN new ELSE f[r]]
  <2> HIDE DEF new
  <2> QED  BY <1>1, <1>2
<1>4. ASSUME NEW r \in Regs, NEW u \in 0 .. VLENB-1
      PROVE  g[r][u] = IF r = reg /\ u \div k = i THEN Shr(value, UW * (u % k)) % 2^UW ELSE f[r][u]
  <2>1. g[r] = IF r = reg THEN new ELSE f[r]
    BY <1>3, <1>4, Zenon
  <2>2. new[u] = IF u \div k = i THEN Shr(value, UW * (u % k)) % 2^UW ELSE f[reg][u]
    BY <1>4, Zenon
  <2> HIDE DEF new
  <2> QED  BY <2>1, <2>2
<1>5. IsFile(g)
  <2>1. g = [r \in Regs |-> g[r]]
    <3> HIDE DEF new
    <3> QED  BY <1>3
  <2>2. ASSUME NEW r \in Regs PROVE g[r] = [u \in 0 .. VLENB-1 |-> g[r][u]]
    <3>1. CASE r = reg
      <4>1. g[r] = new
        BY <3>1, <2>2, <1>3, Zenon
      <4>2. new = [u \in 0 .. VLENB-1 |-> new[u]]
        BY Zenon
      <4> HIDE DEF new
      <4> QED  BY <4>1, <4>2
    <3>2. CASE r # reg
      <4>1. g[r] = f[r]
        BY <3>2, <2>2, <1>3, Zenon
      <4> QED  BY <4>1, <2>2, Zenon DEF IsFile
    <3> QED  BY <3>1, <3>2
  <2> QED  BY <2>1, <2>2 DEF IsFile
<1> QED  BY <1>4, <1>5 DEF g

\* the flat definition at one byte
FlatByte(f, d, k, from, to, val, wr, r, u) ==
  LET e == ((r - d) * VLENB + u) \div k IN
  IF r >= d /\ e \in from .. to-1 /\ wr[e] THEN Shr(val[e], UW * (u % k)) % 2^UW ELSE f[r][u]

\* What the flat definition gives is a file, byte by byte as it says.
LEMMA FlatFile ==
  ASSUME NEW f, NEW d, NEW k, NEW from, NEW to, NEW val, NEW wr
  PROVE  /\ IsFile(FlatWrite(f, d, k, from, to, val, wr))
         /\ \A r \in Regs, u \in 0 .. VLENB-1 :
              FlatWrite(f, d, k, from, to, val, wr)[r][u] = FlatByte(f, d, k, from, to, val, wr, r, u)
<1> DEFINE B(r, u) == FlatByte(f, d, k, from, to, val, wr, r, u)
           g == FlatWrite(f, d, k, from, to, val, wr)
<1>1. g = [r \in Regs |-> [u \in 0 .. VLENB-1 |-> B(r, u)]]
  BY DEF FlatWrite, FlatByte
<1> HIDE DEF B, g
<1>2. \A r \in Regs : g[r] = [u \in 0 .. VLENB-1 |-> B(r, u)]
  BY <1>1
<1>3. \A r \in Regs, u \in 0 .. VLENB-1 : g[r][u] = B(r, u)
  BY <1>2
<1>4. \A r \in Regs : g[r] = [u \in 0 .. VLENB-1 |-> g[r][u]]
  BY <1>2, <1>3
<1>5. g = [r \in Regs |-> g[r]]
  BY <1>1
<1> QED  BY <1>3, <1>4, <1>5 DEF IsFile, B, g

\* Byte u of register r belongs to element e of the group at d exactly when r is the
\* register and u lies in the item that the loop writes for e.
LEMMA PlaceOfElement ==
  ASSUME NEW k \in Parts, NEW d \in Nat, NEW e \in Nat, NEW r \in Regs, NEW u \in 0 .. VLENB-1
  PROVE  (r = d + (e \div Epv(k)) /\ u \div k = e % Epv(k))
           <=> (r >= d /\ ((r - d) * VLENB + u) \div k = e)
<1> DEFINE n == Epv(k)  q == e \div n  i == e % n  j == u \div k
<1>1. n \in Nat /\ q \in Nat /\ i \in 0 .. n-1
  BY PartFacts, ElementPlace
<1>2. CASE r >= d
  <2>1. r - d \in Nat /\ r \in Nat
    BY <1>2 DEF Regs
  <2>2. ((r - d) * VLENB + u) \div k = (r - d) * n + j /\ j \in 0 .. n-1
    BY <2>1, ByteElement
  <2>3. (r - d = q /\ j = i) <=> (e = (r - d) * n + j)
    <3>1. \A q1 \in Nat, i1 \in 0 .. n-1 : (q1 = q /\ i1 = i) <=> (e = q1 * n + i1)
      BY ElementPlace
    <3> HIDE DEF q, i, j, n
    <3> QED  BY <3>1, <2>1, <2>2
  <2>4. (r = d + q) <=> (r - d = q)
    <3> HIDE DEF q
    <3> QED  BY <2>1, <1>1
  <2> HIDE DEF q, i, j, n
  <2>5. (r = d + q /\ j = i) <=> (((r - d) * VLENB + u) \div k = e)
    BY <2>2, <2>3, <2>4
  <2> QED  BY <2>5, <1>2 DEF q, i, j, n
<1>3. CASE ~(r >= d)
  <2> HIDE DEF q
  <2>1. r # d + q
    BY <1>1, <1>3 DEF Regs
  <2> QED  BY <2>1, <1>3 DEF q, n
<1> QED  BY <1>2, <1>3

\* One more element of the flat definition is one item written.
LEMMA FlatStep ==
  ASSUME NEW f, IsFile(f), NEW k \in Parts, NEW d \in Nat, NEW from \in Nat, NEW e \in Nat, from <= e,
         NEW val, NEW wr
  PROVE  FlatWrite(f, d, k, from, e + 1, val, wr) =
           IF wr[e] THEN Put(FlatWrite(f, d, k, from, e, val, wr), d + (e \div Epv(k)), k, e % Epv(k), val[e])
                    ELSE FlatWrite(f, d, k, from, e, val, wr)
<1> DEFINE a == FlatWrite(f, d, k, from, e, val, wr)  b == FlatWrite(f, d, k, from, e + 1, val, wr)
           reg == d + (e \div Epv(k))  i == e % Epv(k)
           c == IF wr[e] THEN Put(a, reg, k, i, val[e]) ELSE a
<1>1. /\ IsFile(a) /\ \A r \in Regs, u \in 0 .. VLENB-1 : a[r][u] = FlatByte(f, d, k, from, e, val, wr, r, u)
      /\ IsFile(b) /\ \A r \in Regs, u \in 0 .. VLENB-1 : b[r][u] = FlatByte(f, d, k, from, e + 1, val, wr, r, u)
  BY FlatFile
<1> HIDE DEF a, b
<1>2. /\ IsFile(Put(a, reg, k, i, val[e]))
      /\ \A r \in Regs, u \in 0 .. VLENB-1 : Put(a, reg, k, i, val[e])[r][u] =
            IF r = reg /\ u \div k = i THEN Shr(val[e], UW * (u % k)) % 2^UW ELSE a[r][u]
  BY <1>1, PutBytes
<1>3. IsFile(c)
  BY <1>1, <1>2
<1>4. ASSUME NEW r \in Regs, NEW u \in 0 .. VLENB-1 PROVE b[r][u] = c[r][u]
  <2> DEFINE z == ((r - d) * VLENB + u) \div k
  <2>1. (r = reg /\ u \div k = i) <=> (r >= d /\ z = e)
    BY PlaceOfElement
  <2>2. z \in from .. (e+1)-1 <=> (z \in from .. e-1 \/ z = e)
    <3> HIDE DEF z
    <3> QED  OBVIOUS
  <2>3. /\ a[r][u] = IF r >= d /\ z \in from .. e-1 /\ wr[z] THEN Shr(val[z], UW * (u % k)) % 2^UW ELSE f[r][u]
        /\ b[r][u] = IF r >= d /\ z \in from .. (e+1)-1 /\ wr[z] THEN Shr(val[z], UW * (u % k)) % 2^UW ELSE f[r][u]
    BY <1>1, <1>4 DEF FlatByte
  <2>4. Put(a, reg, k, i, val[e])[r][u] =
          IF r = reg /\ u \div k = i THEN Shr(val[e], UW * (u % k)) % 2^UW ELSE a[r][u]
    BY <1>2, <1>4
  <2>5. ~(e \in from .. e-1)
    OBVIOUS
  <2> HIDE DEF z, reg, i
  <2>6. CASE r >= d /\ z = e
    BY <2>1, <2>2, <2>3, <2>4, <2>5, <2>6
  <2>7. CASE ~(r >= d /\ z = e)
    BY <2>1, <2>2, <2>3, <2>4, <2>7
  <2> QED  BY <2>6, <2>7
<1>5. b = c
  <2> HIDE DEF c
  <2> QED  BY <1>1, <1>3, <1>4, SameFile
<1> QED  BY <1>5 DEF a, b, c

\* No element, no write.
LEMMA FlatNothing ==
  ASSUME NEW f, IsFile(f), NEW d, NEW k, NEW from \in Int, NEW to \in Int, from >= to, NEW val, NEW wr
  PROVE  FlatWrite(f, d, k, from, to, val, wr) = f
<1> DEFINE g == FlatWrite(f, d, k, from, to, val, wr)
<1>1. IsFile(g) /\ \A r \in Regs, u \in 0 .. VLENB-1 : g[r][u] = FlatByte(f, d, k, from, to, val, wr, r, u)
  BY FlatFile
<1>2. from .. to-1 = {}
  OBVIOUS
<1> HIDE DEF g
<1>3. \A r \in Regs, u \in 0 .. VLENB-1 : g[r][u] = f[r][u]
  BY <1>1, <1>2 DEF FlatByte
<1>4. g = f
  BY <1>1, <1>3, SameFile
<1> QED  BY <1>4 DEF g

\* How the loop goes to the next element: the next item, or the first of the next register.
LEMMA NextPlace ==
  ASSUME NEW k \in Parts, NEW e \in Nat
  PROVE  IF (e % Epv(k)) + 1 < Epv(k)
         THEN (e + 1) \div Epv(k) = e \div Epv(k) /\ (e + 1) % Epv(k) = (e % Epv(k)) + 1
         ELSE (e + 1) \div Epv(k) = (e \div Epv(k)) + 1 /\ (e + 1) % Epv(k) = 0
<1> DEFINE n == Epv(k)  q == e \div n  i == e % n
<1>1. n \in Nat \ {0} /\ q \in Nat /\ i \in 0 .. n-1 /\ e = n * q + i
  BY PartFacts, ElementPlace
<1> HIDE DEF n, q, i
<1>2. n * q = q * n /\ q * n \in Int /\ (q + 1) * n = q * n + n
  BY <1>1
<1>3. CASE i + 1 < n
  <2>1. e + 1 = q * n + (i + 1) /\ i + 1 \in 0 .. n-1 /\ e + 1 \in Int /\ q \in Int
    BY <1>1, <1>2, <1>3
  <2>2. (e + 1) \div n = q /\ (e + 1) % n = i + 1
    BY <1>1, <2>1, Unique
  <2> QED  BY <1>3, <2>2 DEF n, q, i
<1>4. CASE ~(i + 1 < n)
  <2>1. e + 1 = (q + 1) * n + 0 /\ 0 \in 0 .. n-1 /\ e + 1 \in Int /\ q + 1 \in Int
    BY <1>1, <1>2, <1>4
  <2>2. (e + 1) \div n = q + 1 /\ (e + 1) % n = 0
    BY <1>1, <2>1, Unique
  <2> QED  BY <1>4, <2>2 DEF n, q, i
<1> QED  BY <1>3, <1>4

\* The loop over the registers of a group and the items of each, as the helpers of the code
\* write it, is the flat definition: element from, from + 1, ... up to the last, each at the
\* place of its number, whatever the values and the mask.
LEMMA LoopIsFlatWrite ==
  ASSUME NEW f, IsFile(f), NEW k \in Parts, NEW d \in Nat, NEW from \in Nat, NEW to \in Nat,
         NEW val, NEW wr
  PROVE  ElementLoop(f, d, k, from, to, val, wr) = FlatWrite(f, d, k, from, to, val, wr)
<1>1. CASE from >= to
  <2>1. ElementLoop(f, d, k, from, to, val, wr) = f
    BY <1>1, Zenon DEF ElementLoop
  <2> QED  BY <1>1, <2>1, FlatNothing
<1>2. CASE ~(from >= to)
  <2> DEFINE N == to - from
             epv == Epv(k)
             Body(h, n) ==
               IF n = 0 THEN [f |-> f, reg |-> from \div epv, item |-> from % epv]
               ELSE LET p == h[n - 1]
                        vector_index == from + n - 1
                        g == IF wr[vector_index]
                             THEN Put(p.f, d + p.reg, k, p.item, val[vector_index]) ELSE p.f
                    IN  IF p.item + 1 < epv THEN [f |-> g, reg |-> p.reg, item |-> p.item + 1]
                        ELSE [f |-> g, reg |-> p.reg + 1, item |-> 0]
             after == CHOOSE h : h = [n \in 0 .. N |-> Body(h, n)]
             F(m) == FlatWrite(f, d, k, from, m, val, wr)
             Place(m) == [f |-> F(m), reg |-> m \div epv, item |-> m % epv]
             sol == [n \in 0 .. N |-> Place(from + n)]
  <2>1. ElementLoop(f, d, k, from, to, val, wr) = after[N].f
    BY <1>2, Zenon DEF ElementLoop
  <2>2. N \in Nat
    BY <1>2
  <2>3. ASSUME NEW h, NEW n \in 0 .. N, n # 0, h[n - 1] = Place(from + (n - 1)) PROVE Body(h, n) = Place(from + n)
    <3> DEFINE e == from + (n - 1)
    <3>1. e \in Nat /\ from <= e /\ from + n - 1 = e /\ from + n = e + 1
      BY <2>2, <2>3
    <3>2. F(e + 1) = IF wr[e] THEN Put(F(e), d + (e \div epv), k, e % epv, val[e]) ELSE F(e)
      BY <3>1, FlatStep
    <3>3. IF (e % epv) + 1 < epv THEN (e + 1) \div epv = e \div epv /\ (e + 1) % epv = (e % epv) + 1
          ELSE (e + 1) \div epv = (e \div epv) + 1 /\ (e + 1) % epv = 0
      BY <3>1, NextPlace
    <3>4. h[n - 1] = Place(e)
      BY <2>3
    <3>5. Body(h, n) = LET p == Place(e)
                           g == IF wr[e] THEN Put(p.f, d + p.reg, k, p.item, val[e]) ELSE p.f
                       IN  IF p.item + 1 < epv THEN [f |-> g, reg |-> p.reg, item |-> p.item + 1]
                           ELSE [f |-> g, reg |-> p.reg + 1, item |-> 0]
      <4> HIDE DEF F, e, N, epv
      <4> QED  BY <3>1, <3>4, <2>3
    <3> DEFINE fe == F(e)  q == e \div epv  i == e % epv
    <3>6. Place(e).f = fe /\ Place(e).reg = q /\ Place(e).item = i
      <4> HIDE DEF F
      <4> QED  OBVIOUS
    <3>7. Body(h, n) = LET g == IF wr[e] THEN Put(fe, d + q, k, i, val[e]) ELSE fe
                       IN  IF i + 1 < epv THEN [f |-> g, reg |-> q, item |-> i + 1]
                           ELSE [f |-> g, reg |-> q + 1, item |-> 0]
      <4> HIDE DEF Body, Place, fe, q, i, e, epv, N
      <4> QED  BY <3>5, <3>6
    <3>8. Place(e + 1) = [f |-> F(e + 1), reg |-> (e + 1) \div epv, item |-> (e + 1) % epv]
      BY Zenon
    <3>9. Body(h, n) = Place(e + 1)
      <4> DEFINE g == IF wr[e] THEN Put(fe, d + q, k, i, val[e]) ELSE fe
                 q1 == (e + 1) \div epv  i1 == (e + 1) % epv
      <4>1. g = F(e + 1)
        BY <3>2
      <4>2. IF i + 1 < epv THEN q1 = q /\ i1 = i + 1 ELSE q1 = q + 1 /\ i1 = 0
        BY <3>3
      <4>3. Body(h, n) = IF i + 1 < epv THEN [f |-> g, reg |-> q, item |-> i + 1]
                         ELSE [f |-> g, reg |-> q + 1, item |-> 0]
        <5> HIDE DEF Body
        <5> QED  BY <3>7
      <4>4. Place(e + 1) = [f |-> g, reg |-> q1, item |-> i1]
        <5> HIDE DEF g, F, Place
        <5> QED  BY <3>8, <4>1
      <4> HIDE DEF Body, Place, g, q, i, q1, i1, e, epv
      <4> QED  BY <4>2, <4>3, <4>4
    <3> HIDE DEF Body, Place, e, N
    <3> QED  BY <3>1, <3>9
  <2>4. ASSUME NEW h PROVE Body(h, 0) = Place(from + 0)
    <3>1. F(from + 0) = f
      <4>1. from + 0 = from /\ from \in Int /\ from >= from
        OBVIOUS
      <4>2. F(from) = f
        BY <4>1, FlatNothing
      <4> HIDE DEF F
      <4> QED  BY <4>1, <4>2
    <3>2. from + 0 = from
      OBVIOUS
    <3> HIDE DEF F
    <3> QED  BY <3>1, <3>2
  <2>5. sol = [n \in 0 .. N |-> Body(sol, n)]
    <3>1. ASSUME NEW n \in 0 .. N PROVE sol[n] = Body(sol, n)
      <4>1. CASE n = 0
        <5> HIDE DEF Body, Place
        <5> QED  BY <4>1, <2>4
      <4>2. CASE n # 0
        <5>1. n - 1 \in 0 .. N
          BY <2>2, <4>2
        <5>2. sol[n - 1] = Place(from + (n - 1))
          <6> HIDE DEF Place, N
          <6> QED  BY <5>1
        <5> HIDE DEF sol, Body
        <5>3. Body(sol, n) = Place(from + n)
          BY <5>2, <4>2, <2>3
        <5>4. sol[n] = Place(from + n)
          BY DEF sol
        <5> QED  BY <5>3, <5>4
      <4> QED  BY <4>1, <4>2
    <3>2. sol = [n \in 0 .. N |-> sol[n]]
      OBVIOUS
    <3> HIDE DEF sol, Body
    <3> QED  BY <3>1, <3>2
  <2>6. after = [n \in 0 .. N |-> Body(after, n)]
    <3> HIDE DEF Body, sol
    <3> QED  BY <2>5
  <2> HIDE DEF after, sol
  <2>7. ASSUME NEW n \in 0 .. N PROVE after[n] = Body(after, n)
    <3> HIDE DEF Body
    <3> QED  BY <2>6
  <2> DEFINE P == {n \in 0 .. N : after[n] = Place(from + n)}
  <2> HIDE DEF Body, Place, N
  <2>8. 0 \in P
    <3>1. 0 \in 0 .. N
      BY <2>2
    <3> QED  BY <3>1, <2>4, <2>7
  <2>9. ASSUME NEW n \in 0 .. N-1, n \in P PROVE n + 1 \in P
    <3>1. n + 1 \in 0 .. N /\ n + 1 # 0 /\ (n + 1) - 1 = n
      BY <2>2
    <3>2. after[(n + 1) - 1] = Place(from + ((n + 1) - 1))
      BY <3>1, <2>9
    <3>3. Body(after, n + 1) = Place(from + (n + 1))
      BY <3>1, <3>2, <2>3
    <3>4. after[n + 1] = Body(after, n + 1)
      BY <3>1, <2>7
    <3> QED  BY <3>1, <3>3, <3>4
  <2> HIDE DEF P
  <2>10. 0 .. N \subseteq P
    BY <2>2, <2>8, <2>9, StepByStep
  <2>11. after[N] = Place(from + N)
    <3>1. N \in 0 .. N
      BY <2>2
    <3> QED  BY <3>1, <2>10 DEF P
  <2>12. from + N = to
    BY DEF N
  <2>13. after[N].f = F(to)
    <3>1. Place(to).f = F(to)
      BY Zenon DEF Place
    <3> QED  BY <2>11, <2>12, <3>1
  <2> QED  BY <2>1, <2>13 DEF N
<1> QED  BY <1>1, <1>2

\* Two flat writes of adjacent ranges are one.
LEMMA FlatResumed ==
  ASSUME NEW f, NEW k \in Parts, NEW d, NEW from \in Int, NEW p \in Int, NEW to \in Int, from <= p, p <= to,
         NEW val, NEW wr
  PROVE  FlatWrite(FlatWrite(f, d, k, from, p, val, wr), d, k, p, to, val, wr)
           = FlatWrite(f, d, k, from, to, val, wr)
<1> DEFINE a == FlatWrite(f, d, k, from, p, val, wr)  b == FlatWrite(a, d, k, p, to, val, wr)
           c == FlatWrite(f, d, k, from, to, val, wr)
<1>1. IsFile(a) /\ \A r \in Regs, u \in 0 .. VLENB-1 : a[r][u] = FlatByte(f, d, k, from, p, val, wr, r, u)
  BY FlatFile
<1>2. IsFile(c) /\ \A r \in Regs, u \in 0 .. VLENB-1 : c[r][u] = FlatByte(f, d, k, from, to, val, wr, r, u)
  BY FlatFile
<1> HIDE DEF a, c
<1>3. IsFile(b) /\ \A r \in Regs, u \in 0 .. VLENB-1 : b[r][u] = FlatByte(a, d, k, p, to, val, wr, r, u)
  BY FlatFile
<1> HIDE DEF b
<1>4. ASSUME NEW r \in Regs, NEW u \in 0 .. VLENB-1 PROVE b[r][u] = c[r][u]
  <2> DEFINE e == ((r - d) * VLENB + u) \div k  s == Shr(val[e], UW * (u % k)) % 2^UW
  <2>1. /\ a[r][u] = IF r >= d /\ e \in from .. p-1 /\ wr[e] THEN s ELSE f[r][u]
        /\ b[r][u] = IF r >= d /\ e \in p .. to-1 /\ wr[e] THEN s ELSE a[r][u]
        /\ c[r][u] = IF r >= d /\ e \in from .. to-1 /\ wr[e] THEN s ELSE f[r][u]
    BY <1>1, <1>2, <1>3, <1>4 DEF FlatByte
  <2>2. e \in from .. to-1 <=> (e \in from .. p-1 \/ e \in p .. to-1)
    <3> HIDE DEF e
    <3> QED  OBVIOUS
  <2> HIDE DEF e, s
  <2> QED  BY <2>1, <2>2
<1>5. b = c
  BY <1>2, <1>3, <1>4, SameFile
<1> QED  BY <1>5 DEF a, b, c

\* Every element loop of a register file is flat and restartable.
LEMMA LoopsAreFlat ==
  ASSUME IsFile(v), vl \in Nat, vstart \in Nat, NEW k \in Parts, NEW val, NEW wr
  PROVE  LoopIsFlat(k, val, wr)
<1> DEFINE whole == FlatWrite(v, Vd, k, vstart, vl, val, wr)
<1> SUFFICES ASSUME NEW p \in vstart .. vl
             PROVE  ElementLoop(ElementLoop(v, Vd, k, vstart, p, val, wr), Vd, k, p, vl, val, wr) = whole
  BY DEF LoopIsFlat
<1>1. Vd \in Nat /\ p \in Nat /\ vstart <= p /\ p <= vl
  BY DEF Vd
<1> DEFINE a == FlatWrite(v, Vd, k, vstart, p, val, wr)
<1>2. ElementLoop(v, Vd, k, vstart, p, val, wr) = a
  BY <1>1, LoopIsFlatWrite
<1>3. IsFile(a)
  BY FlatFile
<1>4. ElementLoop(a, Vd, k, p, vl, val, wr) = FlatWrite(a, Vd, k, p, vl, val, wr)
  <2> HIDE DEF a
  <2> QED  BY <1>1, <1>3, LoopIsFlatWrite
<1>5. FlatWrite(a, Vd, k, p, vl, val, wr) = whole
  BY <1>1, FlatResumed
<1> QED  BY <1>2, <1>4, <1>5

-----------------------------------------------------------------------------
(* Sums and register files of bytes. *)

\* What the library's sum of a function gives: for some recursion over the subsets of the
\* domain, its value there.
LEMMA SumOfFunction ==
  ASSUME NEW S, IsFiniteSet(S), NEW F \in [S -> Int]
  PROVE  \E h : IsSum(h, S, F) /\ SumFunction(F) = h[S]
<1> DEFINE h == CHOOSE h : h = [s \in SUBSET S |-> IF s = {} THEN 0
                                  ELSE LET e == CHOOSE e \in s : TRUE IN F[e] + h[s \ {e}]]
<1>1. DOMAIN F = S
  OBVIOUS
<1>2. SumFunction(F) = h[S]
  BY <1>1, Zenon DEF SumFunction, SumFunctionOnSet, FoldFunctionOnSet, MapThenFoldSet
<1>3. PICK g : Sums(g, S, F)
  BY SumExists
<1>4. h = [s \in SUBSET S |-> IF s = {} THEN 0
                                  ELSE LET e == CHOOSE e \in s : TRUE IN F[e] + h[s \ {e}]]
  BY <1>3, Zenon DEF Sums, SumStep
<1> HIDE DEF h
<1>5. Sums(h, S, F)
  BY <1>4, Zenon DEF Sums, SumStep
<1>6. IsSum(h, S, F)
  BY <1>5, SumIsSum
<1> QED  BY <1>2, <1>6

\* A sum of naturals is a natural.
LEMMA SumPoints ==
  ASSUME NEW S, IsFiniteSet(S), NEW F \in [S -> Nat]
  PROVE  SumFunction(F) \in Nat
<1>1. F \in [S -> Int]
  OBVIOUS
<1>2. PICK h : IsSum(h, S, F) /\ SumFunction(F) = h[S]
  BY <1>1, SumOfFunction
<1> DEFINE T == {s \in SUBSET S : h[s] \notin Nat}
<1>3. ASSUME T # {} PROVE FALSE
  <2>1. PICK s \in T : \A e \in s : s \ {e} \notin T
    BY <1>3, LeastSubset
  <2>2. s \in SUBSET S /\ h[s] \notin Nat
    BY <2>1
  <2>3. s # {}
    <3>1. h[{}] = 0 /\ 0 \in Nat
      BY <1>2 DEF IsSum
    <3> QED  BY <2>2, <3>1
  <2>4. PICK e \in s : TRUE
    BY <2>3
  <2>5. h[s] = F[e] + h[s \ {e}] /\ h[s \ {e}] \in Nat
    BY <1>2, <2>1, <2>4 DEF IsSum
  <2> QED  BY <2>2, <2>4, <2>5
<1> QED  BY <1>2, <1>3

\* The powers of two up to those of twice a register.
LEMMA Pow ==
  /\ 2 * UW * VLENB \in Nat /\ Powers(2 * UW * VLENB)
  /\ \A n \in 0 .. 2 * UW * VLENB : 2^n \in Nat \ {0}
<1>1. 2 * UW * VLENB \in Nat
  BY VectorAssumption
<1>2. Powers(2 * UW * VLENB)
  <2> DEFINE N == 2 * UW * VLENB
  <2>1. \A k \in 0 .. N : 2^(k + 1) = 2 * 2^k
    BY PowerAssumption
  <2>2. N \in Nat
    BY <1>1
  <2> HIDE DEF N
  <2>3. \A k \in 0 .. N - 1 : k \in 0 .. N
    BY <2>2
  <2> QED  BY <2>1, <2>3 DEF Powers, N
<1>3. \A n \in 0 .. 2 * UW * VLENB : 2^n \in Nat \ {0}
  <2> DEFINE N == 2 * UW * VLENB
  <2>1. N \in Nat /\ Powers(N)
    BY <1>1, <1>2
  <2> HIDE DEF N
  <2>2. \A n \in 0 .. N : 2^n \in Nat \ {0}
    BY <2>1, PowersPositive
  <2> QED  BY <2>2 DEF N
<1> QED  BY <1>1, <1>2, <1>3

\* The words of k bytes: their width is in reach of the powers, and one more byte
\* multiplies by the values of a byte.
LEMMA BytePow ==
  ASSUME NEW k \in 0 .. 2 * VLENB
  PROVE  /\ UW * k \in 0 .. 2 * UW * VLENB /\ 2^(UW * k) \in Nat \ {0} /\ 2^UW \in Nat \ {0}
         /\ Bits(k) = UW * k
         /\ k < 2 * VLENB => 2^(UW * (k + 1)) = 2^(UW * k) * 2^UW
         /\ k > 0 => TwosComplement(UW * k)
<1>0. UW \in Nat \ {0} /\ VLENB \in Nat \ {0}
  BY VectorAssumption
<1> DEFINE N == 2 * UW * VLENB  b == UW * k
<1>1. N \in Nat /\ Powers(N) /\ \A n \in 0 .. N : 2^n \in Nat \ {0}
  BY Pow
<1>2. b \in Nat /\ N = UW * (2 * VLENB)
  BY <1>0
<1>3. b <= N /\ UW <= N
  <2>1. UW * k <= UW * (2 * VLENB)
    BY <1>0
  <2>2. UW * 1 <= UW * (2 * VLENB)
    BY <1>0
  <2>3. UW * 1 = UW
    BY <1>0
  <2> QED  BY <1>2, <2>1, <2>2, <2>3
<1>4. UW * (k + 1) = b + UW
  BY <1>0
<1>5. k < 2 * VLENB => b + UW <= N
  <2> SUFFICES ASSUME k < 2 * VLENB PROVE b + UW <= N
    OBVIOUS
  <2>1. k + 1 <= 2 * VLENB /\ k + 1 \in Nat
    BY <1>0
  <2>2. UW * (k + 1) <= UW * (2 * VLENB)
    BY <2>1, <1>0
  <2> QED  BY <2>2, <1>2, <1>4
<1>6. Bits(k) = b
  BY <1>0 DEF Bits
<1>7. k > 0 => b > 0
  BY <1>0
<1> HIDE DEF N, b
<1>8. k < 2 * VLENB => 2^(b + UW) = 2^b * 2^UW
  <2> SUFFICES ASSUME k < 2 * VLENB PROVE 2^(b + UW) = 2^b * 2^UW
    OBVIOUS
  <2>1. b + UW <= N /\ UW \in Nat
    BY <1>0, <1>5
  <2> QED  BY <2>1, <1>1, <1>2, PowersAdd
<1>9. b \in 0 .. N /\ UW \in 0 .. N
  BY <1>0, <1>2, <1>3
<1>10. 2^b \in Nat \ {0} /\ 2^UW \in Nat \ {0}
  BY <1>1, <1>9
<1>11. k > 0 => TwosComplement(b)
  <2> SUFFICES ASSUME k > 0 PROVE TwosComplement(b)
    OBVIOUS
  <2>1. b - 1 \in 0 .. N /\ b - 1 \in 0 .. N-1 /\ (b - 1) + 1 = b
    BY <1>7, <1>9, <1>1
  <2>2. 2^((b - 1) + 1) = 2 * 2^(b - 1) /\ 2^(b - 1) \in Nat \ {0}
    BY <2>1, <1>1 DEF Powers
  <2> QED  BY <2>1, <2>2, <1>10 DEF TwosComplement
<1> QED  BY <1>4, <1>6, <1>8, <1>9, <1>10, <1>11 DEF b, N

\* Bytes put at their places, from the lowest, are a word.
LEMMA SumBelow ==
  ASSUME NEW k \in 0 .. VLENB, NEW F \in [0 .. k-1 -> Int],
         \A j \in 0 .. k-1 : \E b \in Unit : F[j] = b * 2^(UW * j)
  PROVE  SumFunction(F) \in Word(UW * k)
<1>0. UW \in Nat \ {0} /\ VLENB \in Nat \ {0} /\ k \in Nat
  BY VectorAssumption
<1>1. IsFiniteSet(0 .. k-1)
  BY <1>0, FS_Interval
<1>2. PICK h : IsSum(h, 0 .. k-1, F) /\ SumFunction(F) = h[0 .. k-1]
  BY <1>1, SumOfFunction
<1> DEFINE T == {m \in 0 .. k : h[0 .. m-1] \in Word(UW * m)}
<1>3. 0 \in T
  <2>1. 0 .. 0-1 = {} /\ UW * 0 = 0 /\ 2^0 = 1
    BY <1>0
  <2>2. h[{}] = 0
    BY <1>2 DEF IsSum
  <2>3. Word(0) = 0 .. 0
    BY <2>1 DEF Word
  <2>4. 0 \in 0 .. k /\ 0 \in 0 .. 0
    BY <1>0
  <2> QED  BY <2>1, <2>2, <2>3, <2>4
<1>4. ASSUME NEW m \in 0 .. k-1, m \in T PROVE m + 1 \in T
  <2>1. m \in 0 .. k-1 /\ m \in Nat /\ m + 1 \in 0 .. k /\ (m+1)-1 = m /\ m <= k-1
    BY <1>0
  <2>2. PICK b \in Unit : F[m] = b * 2^(UW * m)
    OBVIOUS
  <2> DEFINE s == h[0 .. m-1]  p == 2^(UW * m)  q == 2^UW
  <2>3. s \in 0 .. p - 1
    BY <1>4 DEF Word
  <2>4. p \in Nat \ {0} /\ q \in Nat \ {0} /\ 2^(UW * (m + 1)) = p * q
    <3>1. m \in 0 .. 2 * VLENB /\ m < 2 * VLENB
      BY <1>0, <2>1
    <3> QED  BY <3>1, BytePow
  <2>5. b \in 0 .. q - 1
    BY DEF Unit, Word
  <2> HIDE DEF T
  <2>6. 0 .. m \in SUBSET (0 .. k-1) /\ m \in 0 .. m /\ (0 .. m) \ {m} = 0 .. m-1
    <3>1. 0 .. m \subseteq 0 .. k-1 /\ m \in 0 .. m
      BY <1>0, <2>1
    <3>2. \A j \in 0 .. m : j # m => j \in 0 .. m-1
      BY <2>1
    <3>3. \A j \in 0 .. m-1 : j \in 0 .. m /\ j # m
      BY <2>1
    <3> QED  BY <3>1, <3>2, <3>3, Zenon
  <2>7. h[0 .. m] = F[m] + s
    <3>1. h[0 .. m] = F[m] + h[(0 .. m) \ {m}]
      BY <1>2, <2>6, Zenon DEF IsSum
    <3> QED  BY <2>6, <3>1
  <2>8. h[0 .. m] = b * p + s
    BY <2>2, <2>7
  <2> HIDE DEF s, p, q
  <2>9. b * p + s \in 0 .. p * q - 1
    <3>1. b * p <= (q - 1) * p /\ b * p \in Nat
      BY <2>4, <2>5
    <3>2. (q - 1) * p = p * q - p /\ p * q \in Nat
      BY <2>4
    <3> DEFINE y == b * p  z == p * q
    <3>3. y \in Nat /\ z \in Nat /\ y <= z - p
      BY <3>1, <3>2
    <3> HIDE DEF y, z
    <3>4. y + s \in 0 .. z - 1
      BY <3>3, <2>3, <2>4
    <3> QED  BY <3>4 DEF y, z
  <2>10. h[0 .. (m+1)-1] \in Word(UW * (m+1))
    <3>1. h[0 .. (m+1)-1] = b * p + s
      BY <2>1, <2>8
    <3>2. Word(UW * (m+1)) = 0 .. p * q - 1
      BY <2>4 DEF Word
    <3> QED  BY <2>9, <3>1, <3>2
  <2> QED  BY <2>1, <2>10 DEF T
<1>5. 0 .. k \subseteq T
  <2> HIDE DEF T
  <2> QED  BY <1>0, <1>3, <1>4, StepByStep
<1>6. k \in T
  BY <1>0, <1>5
<1> QED  BY <1>2, <1>6

\* the register files the unit can have
Files == [Regs -> [0 .. VLENB-1 -> Unit]]

\* They are register files, and so is every file of bytes.
LEMMA TypedFile ==
  /\ \A f \in Files : IsFile(f) /\ \A r \in Regs, u \in 0 .. VLENB-1 : f[r][u] \in Unit
  /\ \A f : IsFile(f) /\ (\A r \in Regs, u \in 0 .. VLENB-1 : f[r][u] \in Unit) => f \in Files
<1>1. ASSUME NEW f \in Files PROVE IsFile(f) /\ \A r \in Regs, u \in 0 .. VLENB-1 : f[r][u] \in Unit
  <2>1. f = [r \in Regs |-> f[r]] /\ \A r \in Regs : f[r] \in [0 .. VLENB-1 -> Unit]
    BY DEF Files
  <2>2. \A r \in Regs : f[r] = [u \in 0 .. VLENB-1 |-> f[r][u]] /\ \A u \in 0 .. VLENB-1 : f[r][u] \in Unit
    BY <2>1
  <2> QED  BY <2>1, <2>2 DEF IsFile
<1>2. ASSUME NEW f, IsFile(f), \A r \in Regs, u \in 0 .. VLENB-1 : f[r][u] \in Unit PROVE f \in Files
  <2>1. ASSUME NEW r \in Regs PROVE f[r] \in [0 .. VLENB-1 -> Unit]
    <3>1. f[r] = [u \in 0 .. VLENB-1 |-> f[r][u]] /\ \A u \in 0 .. VLENB-1 : f[r][u] \in Unit
      BY <1>2 DEF IsFile
    <3> QED  BY <3>1
  <2>2. f = [r \in Regs |-> f[r]]
    BY <1>2 DEF IsFile
  <2> QED  BY <2>1, <2>2 DEF Files
<1> QED  BY <1>1, <1>2

\* A byte cut out of a number is a byte.
LEMMA ByteOfNumber ==
  ASSUME NEW a \in Int, NEW j \in 0 .. VLENB
  PROVE  Shr(a, UW * j) % 2^UW \in Unit
<1>1. j \in 0 .. 2 * VLENB
  BY VectorAssumption
<1> DEFINE p == 2^(UW * j)  q == 2^UW
<1>2. p \in Nat \ {0} /\ q \in Nat \ {0}
  BY <1>1, BytePow
<1> HIDE DEF p, q
<1>3. a \div p \in Int
  BY <1>2, DivMod
<1>4. (a \div p) % q \in 0 .. q - 1
  BY <1>2, <1>3, DivMod
<1> QED  BY <1>4 DEF Shr, Unit, Word, p, q

\* The place of a byte in its item is below the bytes of a register.
LEMMA ByteInItem ==
  ASSUME NEW k \in Parts, NEW u \in 0 .. VLENB-1
  PROVE  u % k \in 0 .. VLENB
<1>1. k \in 1 .. VLENB /\ VLENB \in Nat /\ k \in Nat \ {0} /\ u \in Int
  BY VectorAssumption DEF Parts
<1>2. u % k \in 0 .. k-1
  BY <1>1, DivMod, Zenon
<1> DEFINE m == u % k
<1> HIDE DEF m
<1>3. m \in 0 .. k-1 => m \in 0 .. VLENB
  BY <1>1
<1> QED  BY <1>2, <1>3 DEF m

\* A loop that writes numbers leaves a file of bytes.
LEMMA LoopTyped ==
  ASSUME NEW f \in Files, NEW k \in Parts, NEW d \in Nat, NEW from \in Nat, NEW to \in Nat,
         NEW val, NEW wr, \A e \in from .. to-1 : val[e] \in Int
  PROVE  ElementLoop(f, d, k, from, to, val, wr) \in Files
<1> DEFINE g == FlatWrite(f, d, k, from, to, val, wr)
<1>1. IsFile(f) /\ \A r \in Regs, u \in 0 .. VLENB-1 : f[r][u] \in Unit
  BY TypedFile
<1>2. ElementLoop(f, d, k, from, to, val, wr) = g
  BY <1>1, LoopIsFlatWrite
<1>3. IsFile(g) /\ \A r \in Regs, u \in 0 .. VLENB-1 : g[r][u] = FlatByte(f, d, k, from, to, val, wr, r, u)
  BY FlatFile
<1> HIDE DEF g
<1>4. ASSUME NEW r \in Regs, NEW u \in 0 .. VLENB-1 PROVE g[r][u] \in Unit
  <2> DEFINE e == ((r - d) * VLENB + u) \div k
  <2>1. g[r][u] = IF r >= d /\ e \in from .. to-1 /\ wr[e] THEN Shr(val[e], UW * (u % k)) % 2^UW ELSE f[r][u]
    BY <1>3, <1>4 DEF FlatByte
  <2>2. u % k \in 0 .. VLENB
    BY ByteInItem
  <2> HIDE DEF e
  <2>3. e \in from .. to-1 => Shr(val[e], UW * (u % k)) % 2^UW \in Unit
    <3> SUFFICES ASSUME e \in from .. to-1 PROVE Shr(val[e], UW * (u % k)) % 2^UW \in Unit
      OBVIOUS
    <3> DEFINE a == val[e]  m == u % k
    <3>1. a \in Int /\ m \in 0 .. VLENB
      BY <2>2
    <3> HIDE DEF a, m
    <3>2. Shr(a, UW * m) % 2^UW \in Unit
      BY <3>1, ByteOfNumber
    <3> QED  BY <3>2 DEF a, m
  <2> QED  BY <2>1, <2>3, <1>1
<1> QED  BY <1>2, <1>3, <1>4, TypedFile

\* So does writing one element.
LEMMA PutTyped ==
  ASSUME NEW f \in Files, NEW k \in Parts, NEW reg, NEW i, NEW value \in Int
  PROVE  Put(f, reg, k, i, value) \in Files
<1> DEFINE g == Put(f, reg, k, i, value)
<1>1. IsFile(f) /\ \A r \in Regs, u \in 0 .. VLENB-1 : f[r][u] \in Unit
  BY TypedFile
<1>2. IsFile(g) /\ \A r \in Regs, u \in 0 .. VLENB-1 :
         g[r][u] = IF r = reg /\ u \div k = i THEN Shr(value, UW * (u % k)) % 2^UW ELSE f[r][u]
  BY <1>1, PutBytes
<1> HIDE DEF g
<1>3. ASSUME NEW r \in Regs, NEW u \in 0 .. VLENB-1 PROVE g[r][u] \in Unit
  <2> DEFINE m == u % k
  <2>1. m \in 0 .. VLENB
    BY ByteInItem
  <2> HIDE DEF m
  <2>2. Shr(value, UW * m) % 2^UW \in Unit
    BY <2>1, ByteOfNumber
  <2>3. g[r][u] = IF r = reg /\ u \div k = i THEN Shr(value, UW * m) % 2^UW ELSE f[r][u]
    BY <1>2 DEF m
  <2> QED  BY <2>2, <2>3, <1>1
<1>4. g \in Files
  BY <1>2, <1>3, TypedFile
<1> QED  BY <1>4 DEF g

\* The bytes of item i of a register lie in it.
LEMMA ItemBytes ==
  ASSUME NEW k \in Parts, NEW i \in 0 .. Epv(k)-1, NEW j \in 0 .. k-1
  PROVE  i * k + j \in 0 .. VLENB-1
<1> DEFINE n == Epv(k)
<1>1. k \in Nat \ {0} /\ n \in Nat \ {0} /\ VLENB = k * n /\ VLENB \in Nat
  BY PartFacts
<1>2. i \in 0 .. n-1
  OBVIOUS
<1> HIDE DEF n
<1>3. i * k <= (n - 1) * k /\ i * k \in Nat
  BY <1>1, <1>2
<1>4. (n - 1) * k = k * n - k
  BY <1>1
<1> DEFINE y == i * k
<1>5. y \in Nat /\ y <= VLENB - k
  BY <1>1, <1>3, <1>4
<1> HIDE DEF y
<1>6. y + j \in 0 .. VLENB-1
  BY <1>1, <1>5
<1> QED  BY <1>6 DEF y

\* An element of a register file is a word of its width.
LEMMA ElementWord ==
  ASSUME NEW f \in Files, NEW k \in Parts, NEW r, NEW i \in Nat, r + (i \div Epv(k)) \in Regs
  PROVE  /\ Element(f, r, k, i) \in Word(Bits(k))
         /\ Element(f, r, k, i) \in Nat
<1> DEFINE reg == r + (i \div Epv(k))  it == i % Epv(k)  pos == it * k
           F == [j \in 0 .. k-1 |-> f[reg][pos + j] * 2^(UW * j)]
<1>1. Element(f, r, k, i) = SumFunction(F)
  BY DEF Element
<1>2. k \in 1 .. VLENB /\ VLENB \in Nat
  BY VectorAssumption DEF Parts
<1>3. it \in 0 .. Epv(k)-1
  BY ElementPlace
<1>4. reg \in Regs
  OBVIOUS
<1> HIDE DEF reg, it
<1>5. ASSUME NEW j \in 0 .. k-1
      PROVE  f[reg][pos + j] \in Unit /\ 2^(UW * j) \in Nat \ {0}
  <2>1. pos + j \in 0 .. VLENB-1
    BY <1>3, ItemBytes
  <2>2. j \in 0 .. 2 * VLENB
    BY <1>2
  <2> QED  BY <2>1, <2>2, <1>4, TypedFile, BytePow
<1>6. Unit \subseteq Int
  BY DEF Unit, Word
<1> HIDE DEF pos
<1>7. ASSUME NEW j \in 0 .. k-1 PROVE F[j] \in Int /\ \E b \in Unit : F[j] = b * 2^(UW * j)
  <2> DEFINE b == f[reg][pos + j]  p == 2^(UW * j)
  <2>1. b \in Unit /\ b \in Int /\ p \in Nat /\ F[j] = b * p
    BY <1>5, <1>6
  <2> HIDE DEF b, p, F
  <2>2. F[j] \in Int
    BY <2>1
  <2>3. F[j] = b * 2^(UW * j)
    BY <2>1 DEF p
  <2> QED  BY <2>1, <2>2, <2>3
<1>8. F \in [0 .. k-1 -> Int]
  BY <1>7
<1> HIDE DEF F
<1>9. k \in 0 .. VLENB
  BY <1>2
<1>10. SumFunction(F) \in Word(UW * k)
  BY <1>7, <1>8, <1>9, SumBelow
<1>11. Bits(k) = UW * k
  <2>1. k \in 0 .. 2 * VLENB
    BY <1>2
  <2> QED  BY <2>1, BytePow
<1>12. Word(Bits(k)) \subseteq Nat
  BY DEF Word
<1> QED  BY <1>1, <1>10, <1>11, <1>12

-----------------------------------------------------------------------------
(* Mask registers: writing one bit, and writing the bits of a set. *)

\* Powers of two up to the values of a byte: they are products of smaller ones.
LEMMA BitPowers ==
  ASSUME NEW a \in Nat, NEW b \in Nat, a + b <= UW
  PROVE  2^(a + b) = 2^a * 2^b /\ 2^a \in Nat \ {0} /\ 2^b \in Nat \ {0} /\ 2^(a + b) \in Nat \ {0}
<1>1. UW \in Nat \ {0} /\ VLENB \in Nat \ {0}
  BY VectorAssumption
<1> DEFINE N == 2 * UW * VLENB
<1>2. N \in Nat /\ Powers(N) /\ \A n \in 0 .. N : 2^n \in Nat \ {0}
  BY Pow
<1>3. UW <= N
  <2>1. UW * 1 <= UW * (2 * VLENB) /\ UW * 1 = UW
    BY <1>1
  <2>2. N = UW * (2 * VLENB)
    BY <1>1
  <2> QED  BY <2>1, <2>2
<1> HIDE DEF N
<1>4. a + b <= N /\ a \in 0 .. N /\ b \in 0 .. N /\ a + b \in 0 .. N
  BY <1>1, <1>2, <1>3
<1>5. 2^(a + b) = 2^a * 2^b
  BY <1>2, <1>4, PowersAdd
<1> QED  BY <1>2, <1>4, <1>5

\* A byte around its bit p: the bits above, the bit and the bits below.
LEMMA ByteAround ==
  ASSUME NEW b \in Int, NEW p \in 0 .. UW-1
  PROVE  \E h \in Int, l \in 0 .. 2^p - 1 :
            /\ b = h * (2 * 2^p) + (Bit(b, p) * 2^p + l) /\ Bit(b, p) \in 0 .. 1
            /\ b \div (2 * 2^p) = h
<1>0. UW \in Nat \ {0} /\ p \in Nat /\ p + 0 <= UW
  BY VectorAssumption
<1> DEFINE P == 2^p  q == b \div P  t == q % 2  h == q \div 2  l == b % P
<1>1. P \in Nat \ {0}
  BY <1>0, BitPowers
<1>2. Bit(b, p) = t
  BY DEF Bit
<1> HIDE DEF P
<1>3. q \in Int /\ l \in 0 .. P-1 /\ b = P * q + l
  BY <1>1, DivMod
<1> HIDE DEF q, l
<1>4. h \in Int /\ t \in 0 .. 1 /\ q = 2 * h + t
  BY <1>3
<1> HIDE DEF h, t
<1>5. P * (2 * h + t) = h * (2 * P) + t * P
  BY <1>1, <1>4
<1>6. b = h * (2 * P) + (t * P + l)
  <2> DEFINE y == h * (2 * P)  z == t * P
  <2>1. y \in Int /\ z \in Int /\ P * q = y + z
    BY <1>1, <1>4, <1>5
  <2> HIDE DEF y, z
  <2>2. b = y + (z + l)
    BY <2>1, <1>3
  <2> QED  BY <2>2 DEF y, z
<1>7. t * P + l \in 0 .. 2 * P - 1 /\ 2 * P \in Nat \ {0}
  BY <1>1, <1>3, <1>4
<1>8. b \div (2 * P) = h
  <2> DEFINE y == 2 * P  z == t * P + l
  <2>1. y \in Nat \ {0} /\ z \in 0 .. y - 1 /\ b = h * y + z
    BY <1>6, <1>7
  <2> HIDE DEF y, z
  <2>2. b \div y = h
    BY <2>1, <1>4, Unique
  <2> QED  BY <2>2 DEF y
<1> QED  BY <1>2, <1>3, <1>4, <1>6, <1>8 DEF P

\* the byte b with its bit p set to c
BitSet(b, p, c) == b + (Flag(c) - Bit(b, p)) * 2^p

\* It is a byte, has that bit and keeps the others.
LEMMA BitSetBits ==
  ASSUME NEW b \in Unit, NEW p \in 0 .. UW-1, NEW c \in BOOLEAN
  PROVE  /\ BitSet(b, p, c) \in Unit
         /\ \A q \in 0 .. UW-1 : (Bit(BitSet(b, p, c), q) = 1) <=> (IF q = p THEN c ELSE Bit(b, q) = 1)
<1>0. UW \in Nat \ {0} /\ p \in Nat /\ b \in Int
  BY VectorAssumption DEF Unit, Word
<1> DEFINE P == 2^p  t == Bit(b, p)  n == BitSet(b, p, c)
<1>1. P \in Nat \ {0}
  <2>1. p + 0 <= UW
    BY <1>0
  <2> QED  BY <2>1, <1>0, BitPowers
<1>2. PICK h \in Int, l \in 0 .. P - 1 : b = h * (2 * P) + (t * P + l) /\ t \in 0 .. 1 /\ b \div (2 * P) = h
  BY <1>0, ByteAround
<1>3. Flag(c) \in 0 .. 1 /\ (Flag(c) = 1 <=> c)
  BY DEF Flag
<1> DEFINE e == Flag(c)
<1>4. e \in 0 .. 1 /\ (e = 1 <=> c) /\ n = b + (e - t) * P
  BY <1>3 DEF BitSet
<1> HIDE DEF P, t, n, e
<1>5. n = h * (2 * P) + (e * P + l) /\ n \in Int
  <2>1. (e - t) * P = e * P - t * P /\ e * P \in Int /\ t * P \in Int /\ h * (2 * P) \in Int
    BY <1>1, <1>2, <1>4
  <2> DEFINE y == h * (2 * P)  ep == e * P  tp == t * P
  <2>2. y \in Int /\ ep \in Int /\ tp \in Int /\ n = b + (ep - tp) /\ b = y + (tp + l)
    BY <2>1, <1>2, <1>4
  <2> HIDE DEF y, ep, tp
  <2>3. n = y + (ep + l) /\ n \in Int
    BY <2>2, <1>2, <1>1
  <2> QED  BY <2>3 DEF y, ep
<1>6. e * P + l \in 0 .. 2 * P - 1 /\ 2 * P \in Nat \ {0}
  BY <1>1, <1>2, <1>4
<1>10. n \in Int /\ h \in Int
  BY <1>5
<1>7. n \div (2 * P) = h
  <2> DEFINE y == 2 * P  s == e * P + l
  <2>1. y \in Nat \ {0} /\ s \in 0 .. y - 1 /\ n = h * y + s
    BY <1>5, <1>6
  <2> HIDE DEF y, s
  <2>2. n \div y = h
    BY <2>1, <1>10, Unique
  <2> QED  BY <2>2 DEF y
<1>8. n \in Unit
  <2> DEFINE m == UW - 1 - p  R == 2^m  Q == 2 * P
  <2>1. m \in Nat /\ (p + 1) + m <= UW /\ (p + 1) + m = UW /\ p + 1 \in Nat
    BY <1>0
  <2>2. 2^UW = 2^(p + 1) * R /\ R \in Nat \ {0}
    BY <2>1, BitPowers
  <2>3. 2^(p + 1) = Q
    <3>1. p + 1 <= UW /\ 1 \in Nat /\ 2^1 = 2
      BY <1>0
    <3>2. 2^(p + 1) = P * 2
      BY <3>1, <1>0, BitPowers DEF P
    <3> QED  BY <3>1, <3>2, <1>1
  <2> HIDE DEF m, R
  <2> DEFINE s == e * P + l  s0 == t * P + l
  <2>4. Q \in Nat \ {0} /\ s \in 0 .. Q - 1 /\ s0 \in 0 .. Q - 1 /\ n = h * Q + s /\ b = h * Q + s0
    BY <1>1, <1>2, <1>5, <1>6
  <2>5. b \in 0 .. Q * R - 1
    BY <2>2, <2>3 DEF Unit, Word
  <2> HIDE DEF Q, s, s0
  <2>6. h >= 0
    <3> SUFFICES ASSUME h <= -1 PROVE FALSE
      BY <1>2
    <3>1. h * Q <= -Q /\ h * Q \in Int
      BY <2>4, <1>2
    <3> QED  BY <3>1, <2>4, <2>5, <2>2
  <2>7. h <= R - 1
    <3> SUFFICES ASSUME h >= R PROVE FALSE
      BY <1>2, <2>2
    <3>1. h * Q >= Q * R /\ h * Q \in Int /\ Q * R \in Int
      BY <2>2, <2>4, <1>2
    <3> QED  BY <3>1, <2>4, <2>5
  <2>8. h * Q <= (R - 1) * Q /\ (R - 1) * Q = Q * R - Q /\ h * Q >= 0
    BY <2>2, <2>4, <2>6, <2>7, <1>2
  <2> DEFINE y == h * Q  w == Q * R
  <2>9. y \in Nat /\ w \in Nat /\ y <= w - Q /\ n = y + s
    BY <2>2, <2>4, <2>6, <2>8, <1>2
  <2> HIDE DEF y, w
  <2>10. n \in 0 .. w - 1
    BY <2>4, <2>9
  <2> QED  BY <2>2, <2>3, <2>10 DEF Unit, Word, w
<1>9. ASSUME NEW q \in 0 .. UW-1 PROVE (Bit(n, q) = 1) <=> (IF q = p THEN c ELSE Bit(b, q) = 1)
  <2>1. CASE q = p
    <3>1. n \div P = 2 * h + e
      <4>1. n = (2 * h + e) * P + l
        <5>1. (2 * h + e) * P = h * (2 * P) + e * P
          BY <1>1, <1>2, <1>4
        <5> DEFINE y == h * (2 * P)  ep == e * P
        <5>2. y \in Int /\ ep \in Int /\ n = y + (ep + l) /\ (2 * h + e) * P = y + ep
          BY <5>1, <1>1, <1>2, <1>4, <1>5
        <5> HIDE DEF y, ep
        <5> QED  BY <5>2, <1>2, <1>1
      <4> DEFINE g == 2 * h + e
      <4>2. g \in Int
        BY <1>2, <1>4
      <4> HIDE DEF g
      <4>3. n \div P = g
        BY <4>1, <4>2, <1>1, <1>2, <1>5, Unique DEF g
      <4> QED  BY <4>3 DEF g
    <3>2. (2 * h + e) % 2 = e
      BY <1>2, <1>4
    <3>3. Bit(n, q) = e
      BY <2>1, <3>1, <3>2 DEF Bit, P
    <3> QED  BY <2>1, <3>3, <1>4
  <2>2. CASE q > p
    <3> DEFINE m == q - p - 1  R == 2^m  Q == 2 * P
    <3>1. m \in Nat /\ (p + 1) + m <= UW /\ (p + 1) + m = q /\ p + 1 \in Nat
      BY <1>0, <2>2
    <3>2. 2^q = 2^(p + 1) * R /\ R \in Nat \ {0}
      BY <3>1, BitPowers
    <3>3. 2^(p + 1) = Q
      <4>1. p + 1 <= UW /\ 1 \in Nat /\ 2^1 = 2
        BY <1>0
      <4>2. 2^(p + 1) = P * 2
        BY <4>1, <1>0, BitPowers DEF P
      <4> QED  BY <4>1, <4>2, <1>1
    <3>4. Q \in Nat \ {0} /\ n \div Q = h /\ b \div Q = h
      BY <1>2, <1>6, <1>7
    <3> HIDE DEF m, R, Q
    <3>5. n \div (Q * R) = h \div R /\ b \div (Q * R) = h \div R
      <4>1. R \in Nat \ {0} /\ Q \in Nat \ {0}
        BY <3>2, <3>4
      <4>2. n \div (Q * R) = (n \div Q) \div R
        BY <4>1, <1>10, DivDiv
      <4>3. b \div (Q * R) = (b \div Q) \div R
        BY <4>1, <1>0, DivDiv
      <4> QED  BY <4>2, <4>3, <3>4
    <3>6. Bit(n, q) = Bit(b, q)
      BY <3>2, <3>3, <3>5 DEF Bit
    <3>7. q # p
      BY <2>2, <1>0
    <3> QED  BY <3>6, <3>7
  <2>3. CASE q < p
    <3> DEFINE m == p - q - 1  R == 2^m  Q == 2^q
    <3>1. m \in Nat /\ (q + 1) + m <= UW /\ (q + 1) + m = p /\ q + 1 \in Nat /\ q \in Nat
      BY <1>0, <2>3
    <3>2. 2^p = 2^(q + 1) * R /\ R \in Nat \ {0}
      BY <3>1, BitPowers
    <3>3. 2^(q + 1) = Q * 2 /\ Q \in Nat \ {0}
      <4>1. q + 1 <= UW /\ 1 \in Nat /\ 2^1 = 2
        BY <3>1, <1>0, <2>3
      <4>2. 2^(q + 1) = Q * 2^1 /\ Q \in Nat \ {0}
        BY <4>1, <3>1, BitPowers
      <4> QED  BY <4>1, <4>2
    <3> DEFINE B == b \div Q  r == b % Q  k == (e - t) * R
    <3>4. B \in Int /\ r \in 0 .. Q-1 /\ b = Q * B + r
      <4> HIDE DEF Q
      <4> QED  BY <3>3, <1>0, DivMod
    <3> HIDE DEF R, Q, B, r, m
    <3>5. P = (Q * 2) * R
      BY <3>2, <3>3 DEF P
    <3>6. k \in Int /\ (e - t) * P = (2 * k) * Q
      BY <3>2, <3>3, <3>5, <1>2, <1>4
    <3> HIDE DEF k
    <3>7. n = (B + 2 * k) * Q + r
      <4>1. (B + 2 * k) * Q = Q * B + (2 * k) * Q
        BY <3>3, <3>4, <3>6
      <4> DEFINE y == Q * B  w == (2 * k) * Q
      <4>2. y \in Int /\ w \in Int /\ n = b + w /\ b = y + r /\ (B + 2 * k) * Q = y + w
        BY <4>1, <3>3, <3>4, <3>6, <1>4
      <4> HIDE DEF y, w
      <4> QED  BY <4>2, <3>4, <3>3
    <3> DEFINE g == B + 2 * k
    <3>8. g \in Int /\ n = g * Q + r
      BY <3>4, <3>6, <3>7
    <3>9. g % 2 = B % 2
      BY <3>4, <3>6
    <3> HIDE DEF g
    <3>10. n \div Q = g
      BY <3>3, <3>4, <3>8, <1>10, Unique
    <3>11. Bit(n, q) = Bit(b, q)
      BY <3>9, <3>10 DEF Bit, B, Q
    <3>12. q # p
      BY <2>3, <1>0
    <3> QED  BY <3>11, <3>12
  <2> QED  BY <2>1, <2>2, <2>3, <1>0
<1> QED  BY <1>8, <1>9 DEF n

\* Bit i of a mask register has one place: a byte of the register and a bit of the byte.
LEMMA BitPlace ==
  ASSUME NEW i \in Index
  PROVE  /\ i \in Nat /\ i \div UW \in 0 .. VLENB-1 /\ i % UW \in 0 .. UW-1
         /\ \A j \in Index : (j \div UW = i \div UW /\ j % UW = i % UW) => j = i
<1>1. UW \in Nat \ {0} /\ VLENB \in Nat \ {0}
  BY VectorAssumption
<1> DEFINE q == i \div UW  m == i % UW
<1>2. i \in 0 .. UW * VLENB - 1
  BY DEF Index
<1>3. i \in Nat /\ q \in Int /\ m \in 0 .. UW-1 /\ i = UW * q + m
  BY <1>1, <1>2, DivMod
<1>4. q >= 0 /\ q < VLENB
  <2> HIDE DEF q, m
  <2>1. q >= 0
    <3> SUFFICES ASSUME q <= -1 PROVE FALSE
      BY <1>3
    <3>1. UW * q <= -UW /\ UW * q \in Int
      BY <1>1, <1>3
    <3> QED  BY <3>1, <1>1, <1>3
  <2>2. q < VLENB
    <3> SUFFICES ASSUME q >= VLENB PROVE FALSE
      BY <1>1, <1>3
    <3>1. UW * q >= UW * VLENB /\ UW * q \in Int /\ UW * VLENB \in Int
      BY <1>1, <1>3
    <3> QED  BY <3>1, <1>1, <1>2, <1>3
  <2> QED  BY <2>1, <2>2
<1>5. ASSUME NEW j \in Index, j \div UW = q, j % UW = m PROVE j = i
  <2>1. j \in Int
    BY <1>1 DEF Index
  <2>2. j = UW * q + m
    BY <2>1, <1>1, <1>5, DivMod
  <2> HIDE DEF q, m
  <2> QED  BY <2>2, <1>3
<1> QED  BY <1>1, <1>3, <1>4, <1>5

\* Writing one bit of a mask register changes that bit and no other of any register.
LEMMA SetBitBits ==
  ASSUME NEW f \in Files, NEW r \in Regs, NEW i \in Index, NEW c \in BOOLEAN
  PROVE  /\ SetBit(f, r, i, c) \in Files
         /\ \A s \in Regs, j \in Index :
              MaskBit(SetBit(f, r, i, c), s, j) <=> (IF s = r /\ j = i THEN c ELSE MaskBit(f, s, j))
<1> DEFINE q == i \div UW  m == i % UW  b == f[r][q]  n == BitSet(b, m, c)  g == SetBit(f, r, i, c)
<1>1. q \in 0 .. VLENB-1 /\ m \in 0 .. UW-1
  BY BitPlace
<1>2. b \in Unit
  BY <1>1, TypedFile
<1>3. g = [f EXCEPT ![r] = [f[r] EXCEPT ![q] = n]]
  BY DEF SetBit, BitSet
<1>4. /\ f = [s \in Regs |-> f[s]]
      /\ \A s \in Regs : f[s] = [u \in 0 .. VLENB-1 |-> f[s][u]]
      /\ \A s \in Regs, u \in 0 .. VLENB-1 : f[s][u] \in Unit
  BY TypedFile DEF IsFile
<1> HIDE DEF q, m, n, g
<1>5. g = [s \in Regs |-> IF s = r THEN [u \in 0 .. VLENB-1 |-> IF u = q THEN n ELSE f[r][u]] ELSE f[s]]
  <2>1. [f[r] EXCEPT ![q] = n] = [u \in 0 .. VLENB-1 |-> IF u = q THEN n ELSE f[r][u]]
    BY <1>1, <1>4
  <2> DEFINE new == [u \in 0 .. VLENB-1 |-> IF u = q THEN n ELSE f[r][u]]
  <2>2. g = [f EXCEPT ![r] = new]
    BY <1>3, <2>1
  <2> HIDE DEF new
  <2>3. g = [s \in Regs |-> IF s = r THEN new ELSE f[s]]
    BY <1>4, <2>2
  <2> QED  BY <2>3 DEF new
<1>6. \A s \in Regs, u \in 0 .. VLENB-1 : g[s][u] = IF s = r /\ u = q THEN n ELSE f[s][u]
  BY <1>5
<1> HIDE DEF b
<1>7. n \in Unit /\ \A p \in 0 .. UW-1 : (Bit(n, p) = 1) <=> (IF p = m THEN c ELSE Bit(b, p) = 1)
  BY <1>1, <1>2, BitSetBits DEF n
<1>8. IsFile(g)
  <2>1. g = [s \in Regs |-> g[s]]
    BY <1>5
  <2>2. ASSUME NEW s \in Regs PROVE g[s] = [u \in 0 .. VLENB-1 |-> g[s][u]]
    <3>1. g[s] = IF s = r THEN [u \in 0 .. VLENB-1 |-> IF u = q THEN n ELSE f[r][u]] ELSE f[s]
      BY <1>5
    <3> QED  BY <3>1, <1>4, <2>2
  <2> QED  BY <2>1, <2>2 DEF IsFile
<1>9. g \in Files
  <2>1. \A s \in Regs, u \in 0 .. VLENB-1 : g[s][u] \in Unit
    BY <1>4, <1>6, <1>7
  <2> QED  BY <2>1, <1>8, TypedFile
<1>10. ASSUME NEW s \in Regs, NEW j \in Index
       PROVE  MaskBit(g, s, j) <=> (IF s = r /\ j = i THEN c ELSE MaskBit(f, s, j))
  <2> DEFINE jq == j \div UW  jm == j % UW
  <2>1. jq \in 0 .. VLENB-1 /\ jm \in 0 .. UW-1
    BY BitPlace
  <2>2. (jq = q /\ jm = m) <=> j = i
    BY BitPlace DEF q, m
  <2>3. MaskBit(g, s, j) <=> Bit(g[s][jq], jm) = 1
    BY DEF MaskBit
  <2>4. MaskBit(f, s, j) <=> Bit(f[s][jq], jm) = 1
    BY DEF MaskBit
  <2> HIDE DEF jq, jm
  <2>5. g[s][jq] = IF s = r /\ jq = q THEN n ELSE f[s][jq]
    BY <1>6, <2>1
  <2>6. CASE s = r /\ jq = q
    <3>1. g[s][jq] = n /\ f[s][jq] = b
      BY <2>5, <2>6 DEF b
    <3>2. Bit(n, jm) = 1 <=> (IF jm = m THEN c ELSE Bit(b, jm) = 1)
      BY <1>7, <2>1
    <3> QED  BY <3>1, <3>2, <2>2, <2>3, <2>4, <2>6
  <2>7. CASE ~(s = r /\ jq = q)
    <3>1. g[s][jq] = f[s][jq] /\ ~(s = r /\ j = i)
      BY <2>2, <2>5, <2>7
    <3> QED  BY <3>1, <2>3, <2>4
  <2> QED  BY <2>6, <2>7
<1> QED  BY <1>9, <1>10 DEF g

\* Writing the bits of a set changes each to its value, in whatever order, and no other.
LEMMA SetBitsBits ==
  ASSUME NEW f \in Files, NEW r \in Regs, NEW is \in SUBSET Index, NEW val, \A i \in is : val[i] \in BOOLEAN
  PROVE  /\ SetBits(f, r, is, val) \in Files
         /\ \A s \in Regs, j \in Index :
              MaskBit(SetBits(f, r, is, val), s, j) <=> (IF s = r /\ j \in is THEN val[j] ELSE MaskBit(f, s, j))
<1>0. IsFiniteSet(is)
  <2>1. UW * VLENB - 1 \in Int
    BY VectorAssumption
  <2>2. IsFiniteSet(Index)
    BY <2>1, FS_Interval DEF Index
  <2> QED  BY <2>2, FS_Subset
<1> DEFINE op == [p \in is \X Files |-> SetBit(p[2], r, p[1], val[p[1]])]
           ch == [s \in SUBSET is |-> CHOOSE e \in s : TRUE]
           iter == CHOOSE iter : iter = [s \in SUBSET is |-> IF s = {} THEN f
                     ELSE LET e == CHOOSE e \in s : TRUE IN SetBit(iter[s \ {e}], r, e, val[e])]
<1>1. SetBits(f, r, is, val) = iter[is]
  BY Zenon DEF SetBits, FoldSet, MapThenFoldSet
<1>2. \A e \in is, g \in Files : op[<<e, g>>] = SetBit(g, r, e, val[e]) /\ SetBit(g, r, e, val[e]) \in Files
  <2>1. ASSUME NEW e \in is, NEW g \in Files PROVE SetBit(g, r, e, val[e]) \in Files
    <3>1. e \in Index /\ val[e] \in BOOLEAN
      BY <2>1
    <3> QED  BY <3>1, SetBitBits, Zenon
  <2> QED  BY <2>1
<1>3. op \in [is \X Files -> Files]
  BY <1>2
<1>4. \A s \in SUBSET is : s # {} => ch[s] \in s
  OBVIOUS
<1>5. \A s \in SUBSET is : ch[s] = CHOOSE e \in s : TRUE
  OBVIOUS
<1> HIDE DEF op, ch
<1>6. PICK h \in [SUBSET is -> Files] : Folds(h, is, ch, f, op)
  BY <1>0, <1>3, <1>4, FoldExists, Zenon
<1>7. ASSUME NEW s \in SUBSET is
      PROVE  h[s] = IF s = {} THEN f ELSE LET e == CHOOSE e \in s : TRUE IN SetBit(h[s \ {e}], r, e, val[e])
  <2>1. h[s] = FoldStep(h, ch, f, op, s)
    BY <1>6 DEF Folds
  <2>2. CASE s = {}
    BY <2>1, <2>2 DEF FoldStep
  <2>3. CASE s # {}
    <3> DEFINE e == CHOOSE e \in s : TRUE
    <3>1. e \in s /\ ch[s] = e
      BY <2>3, <1>4, <1>5
    <3> HIDE DEF e
    <3>2. e \in is /\ h[s \ {e}] \in Files
      BY <3>1, <1>6
    <3>3. op[<<e, h[s \ {e}]>>] = SetBit(h[s \ {e}], r, e, val[e])
      BY <3>2, <1>2
    <3>4. h[s] = SetBit(h[s \ {e}], r, e, val[e])
      BY <2>1, <2>3, <3>1, <3>3 DEF FoldStep
    <3> QED  BY <2>3, <3>4 DEF e
  <2> QED  BY <2>2, <2>3
<1>8. h = [s \in SUBSET is |-> IF s = {} THEN f
             ELSE LET e == CHOOSE e \in s : TRUE IN SetBit(h[s \ {e}], r, e, val[e])]
  <2>1. h = [s \in SUBSET is |-> h[s]]
    BY <1>6
  <2> QED  BY <1>7, <2>1
<1>9. iter = [s \in SUBSET is |-> IF s = {} THEN f
             ELSE LET e == CHOOSE e \in s : TRUE IN SetBit(iter[s \ {e}], r, e, val[e])]
  BY <1>8, Zenon
<1> HIDE DEF iter
<1> DEFINE Right(s) == iter[s] \in Files /\ \A t \in Regs, j \in Index :
              MaskBit(iter[s], t, j) <=> (IF t = r /\ j \in s THEN val[j] ELSE MaskBit(f, t, j))
           T == {s \in SUBSET is : ~Right(s)}
<1>10. ASSUME T # {} PROVE FALSE
  <2>1. PICK s \in T : \A e \in s : s \ {e} \notin T
    <3>1. T \in SUBSET SUBSET is
      OBVIOUS
    <3> HIDE DEF T
    <3> QED  BY <1>0, <1>10, <3>1, LeastSubset
  <2>2. s \in SUBSET is /\ ~Right(s)
    BY <2>1
  <2>3. CASE s = {}
    <3>1. iter[s] = f
      BY <1>9, <2>2, <2>3
    <3>2. Right(s)
      BY <2>3, <3>1
    <3> QED  BY <2>2, <3>2
  <2>4. CASE s # {}
    <3> DEFINE e == CHOOSE e \in s : TRUE
    <3>1. e \in s /\ iter[s] = SetBit(iter[s \ {e}], r, e, val[e])
      BY <1>9, <2>2, <2>4
    <3> HIDE DEF e
    <3> DEFINE g == iter[s \ {e}]
    <3>2. Right(s \ {e})
      <4> HIDE DEF Right
      <4> QED  BY <2>1, <2>2, <3>1
    <3>3. g \in Files /\ \A t \in Regs, j \in Index :
              MaskBit(g, t, j) <=> (IF t = r /\ j \in s \ {e} THEN val[j] ELSE MaskBit(f, t, j))
      BY <3>2
    <3>4. e \in Index /\ val[e] \in BOOLEAN /\ iter[s] = SetBit(g, r, e, val[e])
      BY <2>2, <3>1
    <3> HIDE DEF g
    <3>5. iter[s] \in Files /\ \A t \in Regs, j \in Index :
              MaskBit(iter[s], t, j) <=> (IF t = r /\ j = e THEN val[e] ELSE MaskBit(g, t, j))
      BY <3>3, <3>4, SetBitBits
    <3>6. Right(s)
      <4>1. ASSUME NEW t \in Regs, NEW j \in Index
            PROVE  MaskBit(iter[s], t, j) <=> (IF t = r /\ j \in s THEN val[j] ELSE MaskBit(f, t, j))
        BY <3>1, <3>3, <3>5
      <4> QED  BY <4>1, <3>5
    <3> QED  BY <2>2, <3>6
  <2> QED  BY <2>3, <2>4
<1>11. Right(is)
  BY <1>10
<1> QED  BY <1>1, <1>11

-----------------------------------------------------------------------------
(* The state of the unit: a legal length and type, a file and a memory of bytes, numbers in *)
(* vstart and the scalar register.  Every value an instruction writes is a number, because  *)
(* every element it reads lies in the register file.                                        *)

Memories == [0 .. MemSize-1 -> Unit]
VectorState ==
  /\ LengthFits
  /\ v \in Files /\ vstart \in Nat /\ mem \in Memories /\ x \in Int

\* The widths of the instructions divide a register.
LEMMA Widths ==
  ASSUME LengthFits
  PROVE  /\ sew \in {1, 2, 4, 8} /\ lmul \in {0, 1, 2, 4, 8, 16, 32, 64}
         /\ sew \in Parts /\ (sew < 8 => 2 * sew \in Parts) /\ (sew > 1 => sew \div 2 \in Parts)
         /\ 1 \in Parts /\ 2 \in Parts /\ 4 \in Parts
         /\ lmul <= 8 * sew * UW
<1>0. UW \in Nat \ {0} /\ VLENB \in Nat \ {0} /\ VLENB % 4 = 0
  BY VectorAssumption
<1>1. sew \in {1, 2, 4, 8} /\ lmul \in {0, 1, 2, 4, 8, 16, 32, 64}
  BY VectorAssumption DEF LengthFits, Selectable, sew, lmul
<1>2. VLENB % sew = 0 /\ (sew < 8 => VLENB % (2 * sew) = 0) /\ lmul <= 8 * sew * UW
  BY VectorAssumption DEF LengthFits, Selectable, sew, lmul
<1> HIDE DEF sew, lmul
<1>3. ASSUME NEW k \in {1, 2, 4, 8, 16}, VLENB % k = 0 PROVE k \in Parts
  <2>1. k <= VLENB
    BY <1>0, <1>3
  <2> QED  BY <2>1, <1>0, <1>3 DEF Parts
<1>4. VLENB % 1 = 0 /\ VLENB % 2 = 0
  BY <1>0
<1>5. 1 \in Parts /\ 2 \in Parts /\ 4 \in Parts
  BY <1>0, <1>3, <1>4
<1>6. sew \in Parts
  BY <1>1, <1>2, <1>3
<1>7. sew < 8 => 2 * sew \in Parts
  <2> SUFFICES ASSUME sew < 8 PROVE 2 * sew \in Parts
    OBVIOUS
  <2>1. 2 * sew \in {1, 2, 4, 8, 16}
    BY <1>1
  <2>2. VLENB % (2 * sew) = 0
    BY <1>2
  <2> QED  BY <2>1, <2>2, <1>3
<1>8. sew > 1 => sew \div 2 \in Parts
  <2> SUFFICES ASSUME sew > 1 PROVE sew \div 2 \in Parts
    OBVIOUS
  <2>1. CASE sew = 8
    <3>1. sew \div 2 = 4
      BY <2>1
    <3> QED  BY <3>1, <1>5
  <2>2. CASE sew \in {2, 4}
    <3>1. sew \div 2 = 1 \/ sew \div 2 = 2
      BY <2>2
    <3> QED  BY <3>1, <1>5
  <2> QED  BY <2>1, <2>2, <1>1
<1> QED  BY <1>1, <1>2, <1>5, <1>6, <1>7, <1>8

\* How far a group reaches: elements below VLMAX lie within c registers when the multiplier
\* of their width is at most 8 * c.
LEMMA GroupReach ==
  ASSUME LengthFits, NEW k \in Parts, NEW c \in Nat, lmul * k <= c * (8 * sew),
         NEW i \in Nat, i < max_vl
  PROVE  i \div Epv(k) \in Nat /\ i \div Epv(k) < c
<1>0. VLENB \in Nat \ {0} /\ k \in Nat \ {0} /\ Epv(k) \in Nat \ {0} /\ VLENB = k * Epv(k)
  BY PartFacts
<1>1. sew \in Nat \ {0} /\ lmul \in Nat
  BY Widths
<1> DEFINE s == 8 * sew  n == Epv(k)  a == VLENB * lmul  m == a \div s  q == i \div n
<1>2. s \in Nat \ {0} /\ n \in Nat \ {0} /\ a \in Nat /\ VLENB = k * n
  BY <1>0, <1>1
<1>3. max_vl = m
  BY DEF max_vl, MaxVl, sew, lmul
<1>4. q \in Nat
  BY ElementPlace
<1>12. lmul * k <= c * s
  OBVIOUS
<1> HIDE DEF s, n
<1>5. m \in Int /\ s * m <= a
  <2> HIDE DEF a
  <2>0. s \in Nat \ {0} /\ a \in Int
    BY <1>2
  <2>1. m \in Int /\ a = s * m + (a % s) /\ a % s \in 0 .. s-1
    BY <2>0, DivMod
  <2> DEFINE r == a % s  y == s * m
  <2>2. y \in Int /\ r \in 0 .. s-1 /\ a = y + r
    BY <2>1, <1>2
  <2> HIDE DEF r, y
  <2>3. y <= a
    BY <2>2, <1>2
  <2> QED  BY <2>1, <2>3 DEF y
<1>6. i + 1 <= m
  BY <1>3, <1>5
<1>7. i \div n = q /\ n * q <= i
  <2>0. n \in Nat \ {0} /\ i \in Int
    BY <1>2
  <2>1. q \in Int /\ i = n * q + (i % n) /\ i % n \in 0 .. n-1
    BY <2>0, DivMod
  <2> DEFINE r == i % n  y == n * q
  <2>2. y \in Int /\ r \in 0 .. n-1 /\ i = y + r
    BY <2>1, <1>2
  <2> HIDE DEF r, y
  <2>3. y <= i
    BY <2>2, <1>2
  <2> QED  BY <2>3 DEF y
<1> HIDE DEF q, m, a
<1>8. q < c
  <2> SUFFICES ASSUME q >= c PROVE FALSE
    BY <1>4
  <2>1. n * c <= n * q
    BY <1>2, <1>4
  <2>2. n * c + 1 <= m /\ n * c \in Nat
    BY <2>1, <1>2, <1>4, <1>5, <1>6, <1>7
  <2> DEFINE e == n * c
  <2>3. s * (e + 1) <= s * m
    BY <2>2, <1>2, <1>5
  <2>4. s * (e + 1) <= a
    <3> DEFINE y == s * (e + 1)  z == s * m
    <3>1. y \in Int /\ z \in Int /\ y <= z /\ z <= a /\ a \in Int
      BY <2>2, <2>3, <1>2, <1>5
    <3> HIDE DEF y, z
    <3>2. y <= a
      BY <3>1
    <3> QED  BY <3>2 DEF y
  <2>5. k * (s * (e + 1)) <= k * a
    BY <2>2, <2>4, <1>0, <1>2
  <2>6. k * a = VLENB * (lmul * k)
    BY <1>0, <1>1 DEF a
  <2>7. VLENB * (lmul * k) <= VLENB * (c * s)
    BY <1>0, <1>1, <1>2, <1>12
  <2>8. VLENB * (c * s) = k * (s * e)
    BY <1>2, <1>0
  <2>9. k * (s * (e + 1)) = k * (s * e) + k * s /\ k * s > 0 /\ k * (s * e) \in Int
    BY <2>2, <1>0, <1>2
  <2> DEFINE y == k * (s * e)  z == k * s  ka == k * a  w == VLENB * (c * s)  t == k * (s * (e + 1))
             lk == VLENB * (lmul * k)
  <2>11. y \in Int /\ z \in Int /\ ka \in Int /\ w \in Int /\ t \in Int /\ lk \in Int
    BY <2>2, <1>0, <1>1, <1>2
  <2>10. y \in Int /\ z \in Int /\ z > 0 /\ t = y + z /\ w = y /\ t <= ka /\ ka = lk /\ lk <= w
    BY <2>5, <2>6, <2>7, <2>8, <2>9, <1>0, <1>2
  <2> HIDE DEF y, z, ka, w, t, lk
  <2> QED  BY <2>10, <2>11
<1> QED  BY <1>4, <1>8 DEF q, n

\* The length of a group fits the index of a mask register.
LEMMA LengthIndex ==
  ASSUME LengthFits
  PROVE  /\ max_vl \in Nat /\ vl \in Nat /\ vl <= max_vl /\ max_vl <= UW * VLENB
         /\ \A i \in Nat : i < max_vl => i \in Index
         /\ \A i \in Index : i \in Nat
<1>0. UW \in Nat \ {0} /\ VLENB \in Nat \ {0}
  BY VectorAssumption
<1>1. max_vl \in Nat /\ vl \in Nat /\ vl <= max_vl
  BY MaxVlIsNat DEF LengthFits, VlFits, max_vl
<1>2. sew \in Nat \ {0} /\ lmul \in Nat /\ lmul <= 8 * sew * UW
  BY Widths
<1> DEFINE s == 8 * sew  a == VLENB * lmul  m == a \div s
<1>3. max_vl = m
  BY DEF max_vl, MaxVl, sew, lmul
<1>4. s \in Nat \ {0} /\ a \in Nat
  BY <1>0, <1>2
<1>5. a <= s * (UW * VLENB)
  <2>1. VLENB * lmul <= VLENB * (8 * sew * UW)
    BY <1>0, <1>2
  <2>2. VLENB * (8 * sew * UW) = s * (UW * VLENB)
    BY <1>0, <1>2
  <2> QED  BY <2>1, <2>2
<1> HIDE DEF s, a
<1>6. m <= UW * VLENB
  <2> DEFINE y == UW * VLENB
  <2>1. y \in Nat /\ a <= s * y
    BY <1>0, <1>5
  <2>2. m \in Int /\ a = s * m + (a % s) /\ a % s \in 0 .. s-1
    BY <1>4, DivMod
  <2> HIDE DEF y, m
  <2> SUFFICES ASSUME m >= y + 1 PROVE FALSE
    BY <2>1, <2>2 DEF y
  <2>3. s * m >= s * (y + 1)
    BY <1>4, <2>1, <2>2
  <2>4. s * (y + 1) = s * y + s /\ s * y \in Int /\ s * m \in Int
    BY <1>4, <2>1, <2>2
  <2> DEFINE sm == s * m  sy == s * y  sy1 == s * (y + 1)  r == a % s
  <2>5. sm \in Int /\ sy \in Int /\ sm >= sy1 /\ sy1 = sy + s /\ a <= sy /\ a = sm + r /\ r \in 0 .. s-1
    BY <2>1, <2>2, <2>3, <2>4
  <2> HIDE DEF sm, sy, sy1, r
  <2> QED  BY <2>5, <1>4
<1>7. UW * VLENB \in Nat
  BY <1>0
<1> HIDE DEF m, max_vl
<1>8. \A i \in Nat : i < max_vl => i \in Index
  BY <1>1, <1>3, <1>6, <1>7 DEF Index
<1>9. \A i \in Index : i \in Nat
  BY <1>7 DEF Index
<1> QED  BY <1>1, <1>3, <1>6, <1>8, <1>9

\* Casts and signed views of numbers are numbers, for the widths of up to two registers.
LEMMA CastNumbers ==
  ASSUME NEW k \in 0 .. 2 * VLENB
  PROVE  /\ \A a \in Int : Trunc(Bits(k), a) \in Int /\ Trunc(Bits(k), a) \in Word(Bits(k))
         /\ \A a \in Int : Signed(Bits(k), a) \in Int
         /\ 2^Bits(k) \in Nat \ {0} /\ Bits(k) \in 0 .. 2 * UW * VLENB
<1>1. 2^Bits(k) \in Nat \ {0} /\ Bits(k) \in 0 .. 2 * UW * VLENB
  BY BytePow
<1> DEFINE w == Bits(k)
<1> HIDE DEF w
<1>2. 2^w \in Nat \ {0}
  BY <1>1 DEF w
<1>3. ASSUME NEW a \in Int PROVE Trunc(w, a) \in Int /\ Trunc(w, a) \in Word(w)
  <2>1. Trunc(w, a) \in Word(w)
    BY <1>2, TruncWord
  <2> QED  BY <2>1 DEF Word
<1>4. ASSUME NEW a \in Int PROVE Signed(w, a) \in Int
  <2> DEFINE p == 2^w  q == 2^(w - 1)
  <2>1. Signed(w, a) = IF a >= q THEN a - p ELSE a
    BY DEF Signed
  <2>2. p \in Int
    BY <1>2
  <2> HIDE DEF p, q
  <2> QED  BY <2>1, <2>2
<1> QED  BY <1>1, <1>3, <1>4 DEF w

\* The widths of operands, of twice and of half a width.
LEMMA OperandWidths ==
  ASSUME LengthFits
  PROVE  /\ sew \in 1 .. VLENB /\ 2 * sew \in 1 .. 2 * VLENB
         /\ 2 * Bits(sew) = Bits(2 * sew)
         /\ sew > 1 => sew \div 2 \in 1 .. VLENB /\ Bits(sew) \div 2 = Bits(sew \div 2)
         /\ sew < 8 => 2 * sew \in 1 .. VLENB
<1>1. UW \in Nat \ {0} /\ VLENB \in Nat \ {0}
  BY VectorAssumption
<1>2. /\ sew \in {1, 2, 4, 8} /\ sew \in Parts /\ (sew < 8 => 2 * sew \in Parts)
      /\ (sew > 1 => sew \div 2 \in Parts)
  BY Widths
<1> HIDE DEF sew
<1>3. sew \in 1 .. VLENB /\ 2 * sew \in 1 .. 2 * VLENB
  BY <1>1, <1>2 DEF Parts
<1>4. 2 * Bits(sew) = Bits(2 * sew)
  BY <1>1, <1>2 DEF Bits
<1>5. sew > 1 => sew \div 2 \in 1 .. VLENB /\ Bits(sew) \div 2 = Bits(sew \div 2)
  <2> SUFFICES ASSUME sew > 1 PROVE Bits(sew) \div 2 = Bits(sew \div 2)
    BY <1>2 DEF Parts
  <2> DEFINE b == sew \div 2
  <2>1. b \in Nat /\ sew = 2 * b
    BY <1>2
  <2> HIDE DEF b
  <2>2. Bits(sew) = (b * UW) * 2 + 0 /\ b * UW \in Int
    BY <2>1, <1>1 DEF Bits
  <2> DEFINE y == b * UW
  <2>3. y \in Int /\ Bits(sew) = y * 2
    BY <2>2
  <2> HIDE DEF y
  <2>4. Bits(sew) \div 2 = y
    BY <2>3
  <2> QED  BY <2>4 DEF y, b, Bits
<1>6. sew < 8 => 2 * sew \in 1 .. VLENB
  BY <1>1, <1>2 DEF Parts
<1> QED  BY <1>3, <1>4, <1>5, <1>6

\* An element below VLMAX of a source whose width is at most twice that of the type, or
\* whose multiplier is legal, is a word of its width.
LEMMA SourceWord ==
  ASSUME VectorState, NEW k \in Parts, lmul * k <= 16 * (8 * sew), NEW r \in 0 .. 16,
         NEW i \in Nat, i < max_vl
  PROVE  Element(v, r, k, i) \in Word(Bits(k)) /\ Element(v, r, k, i) \in Nat
<1>1. LengthFits /\ v \in Files
  BY DEF VectorState
<1>2. i \div Epv(k) \in Nat /\ i \div Epv(k) < 16
  BY <1>1, GroupReach
<1> DEFINE q == i \div Epv(k)
<1> HIDE DEF q
<1>3. q \in Nat /\ q < 16
  BY <1>2 DEF q
<1>4. r + q \in Regs
  BY <1>3 DEF Regs
<1>5. r + (i \div Epv(k)) \in Regs
  BY <1>4 DEF q
<1> QED  BY <1>1, <1>5, ElementWord

\* The sources of the type's width, of twice and of half of it, and of two bytes.
LEMMA OperandWords ==
  ASSUME VectorState, NEW r \in 0 .. 16, NEW i \in Nat, i < max_vl
  PROVE  /\ Element(v, r, sew, i) \in Word(Bits(sew)) /\ Element(v, r, sew, i) \in Nat
         /\ sew < 8 => Element(v, r, 2 * sew, i) \in Nat
         /\ sew > 1 => Element(v, r, sew \div 2, i) \in Nat
         /\ Element(v, r, 2, i) \in Nat
<1>1. LengthFits
  BY DEF VectorState
<1>2. /\ sew \in {1, 2, 4, 8} /\ lmul \in {0, 1, 2, 4, 8, 16, 32, 64}
      /\ sew \in Parts /\ (sew < 8 => 2 * sew \in Parts) /\ (sew > 1 => sew \div 2 \in Parts)
      /\ 2 \in Parts
  BY <1>1, Widths
<1>3. Element(v, r, sew, i) \in Word(Bits(sew)) /\ Element(v, r, sew, i) \in Nat
  <2>1. lmul * sew <= 16 * (8 * sew)
    BY <1>2
  <2> QED  BY <2>1, <1>2, SourceWord
<1>4. ASSUME sew < 8 PROVE Element(v, r, 2 * sew, i) \in Nat
  <2> DEFINE k == 2 * sew
  <2>1. lmul * k <= 16 * (8 * sew)
    BY <1>2
  <2>2. k \in Parts
    BY <1>2, <1>4
  <2> HIDE DEF k
  <2>3. Element(v, r, k, i) \in Nat
    BY <2>1, <2>2, SourceWord
  <2> QED  BY <2>3 DEF k
<1>5. ASSUME sew > 1 PROVE Element(v, r, sew \div 2, i) \in Nat
  <2> DEFINE k == sew \div 2
  <2>1. lmul * k <= 16 * (8 * sew)
    <3> HIDE DEF lmul, sew
    <3>1. k <= sew /\ k \in Nat
      BY <1>2
    <3> QED  BY <1>2, <3>1
  <2>2. k \in Parts
    BY <1>2, <1>5
  <2> HIDE DEF k
  <2>3. Element(v, r, k, i) \in Nat
    BY <2>1, <2>2, SourceWord
  <2> QED  BY <2>3 DEF k
<1>6. Element(v, r, 2, i) \in Nat
  <2>1. lmul * 2 <= 16 * (8 * sew)
    BY <1>2
  <2> QED  BY <2>1, <1>2, SourceWord
<1> QED  BY <1>3, <1>4, <1>5, <1>6

\* Element 0 of a register.
LEMMA FirstElement ==
  ASSUME VectorState, NEW r \in Regs
  PROVE  Element(v, r, sew, 0) \in Word(Bits(sew)) /\ Element(v, r, sew, 0) \in Nat
<1>1. LengthFits /\ v \in Files /\ sew \in Parts
  BY Widths DEF VectorState
<1>2. Epv(sew) \in Nat \ {0}
  BY <1>1, PartFacts
<1>3. 0 \div Epv(sew) = 0
  <2> DEFINE n == Epv(sew)
  <2>1. n \in Nat \ {0} /\ 0 = 0 * n + 0 /\ 0 \in 0 .. n-1
    BY <1>2
  <2> HIDE DEF n
  <2>2. 0 \div n = 0
    BY <2>1
  <2> QED  BY <2>2 DEF n
<1>4. r + (0 \div Epv(sew)) \in Regs
  BY <1>3 DEF Regs
<1> QED  BY <1>1, <1>4, ElementWord

\* the values a loop up to vl writes are numbers
IntValues(val) == \A i \in Nat : i < vl => val[i] \in Int

\* What the element operators of the unit make of words are numbers.
LEMMA ElementNumbers ==
  ASSUME LengthFits, NEW a \in Nat, NEW b \in Nat
  PROVE  /\ \A op \in SingleWidth : SingleOp(op, a, b) \in Int
         /\ Vwaddu(Bits(sew), a, b) \in Int /\ Vnsrl(Bits(sew), a, b) \in Int
         /\ \A c \in Int : Vmacc(Bits(sew), a, b, c) \in Int
         /\ \A m : Vmerge(Bits(sew), a, b, m) \in Int
         /\ sew > 1 => Vsext2(Bits(sew), a) \in Int
         /\ FlaggedOp(a).v \in Int
<1> DEFINE w == Bits(sew)
<1>1. /\ \A y \in Int : Trunc(w, y) \in Int
      /\ \A y \in Int : Trunc(2 * w, y) \in Int
      /\ w \in Nat \ {0} /\ \A e \in 0 .. 2 * w : 2^e \in Nat \ {0}
  <2>1. sew \in 0 .. 2 * VLENB /\ 2 * sew \in 0 .. 2 * VLENB /\ 2 * w = Bits(2 * sew)
    BY OperandWidths, VectorAssumption
  <2>2. \A y \in Int : Trunc(w, y) \in Int
    BY <2>1, CastNumbers
  <2>3. \A y \in Int : Trunc(Bits(2 * sew), y) \in Int
    BY <2>1, CastNumbers
  <2>4. Bits(2 * sew) \in 0 .. 2 * UW * VLENB
    BY <2>1, CastNumbers
  <2>5. w \in Nat \ {0}
    <3>1. sew \in Nat \ {0} /\ UW \in Nat \ {0}
      BY OperandWidths, VectorAssumption
    <3> HIDE DEF sew
    <3> QED  BY <3>1 DEF Bits
  <2> HIDE DEF w
  <2>6. ASSUME NEW e \in 0 .. 2 * w PROVE 2^e \in Nat \ {0}
    <3> DEFINE N == 2 * UW * VLENB
    <3>1. N \in Nat /\ \A n \in 0 .. N : 2^n \in Nat \ {0}
      BY Pow
    <3>2. 2 * w \in 0 .. N
      BY <2>1, <2>4
    <3> HIDE DEF N
    <3>3. e \in 0 .. N
      BY <2>5, <3>1, <3>2
    <3> QED  BY <3>1, <3>3
  <2> QED  BY <2>1, <2>2, <2>3, <2>5, <2>6
<1>2. \A op \in SingleWidth : SingleOp(op, a, b) \in Int
  <2>1. Vadd(w, a, b) \in Int /\ Vrsub(w, a, b) \in Int
    <3>1. a + b \in Int /\ b - a \in Int
      OBVIOUS
    <3> HIDE DEF w
    <3> QED  BY <1>1, <3>1 DEF Vadd, Vrsub
  <2>2. Vsll(w, a, b) \in Int
    <3> HIDE DEF w
    <3> DEFINE e == b % w  p == 2^e
    <3>1. e \in 0 .. 2 * w
      <4>1. e \in 0 .. w - 1
        BY <1>1, DivMod
      <4> HIDE DEF e
      <4> QED  BY <1>1, <4>1
    <3> HIDE DEF e
    <3>2. p \in Nat
      BY <1>1, <3>1
    <3> HIDE DEF p
    <3>3. a * p \in Int
      BY <3>2
    <3>4. Trunc(w, a * p) \in Int
      BY <1>1, <3>3
    <3> QED  BY <3>4 DEF Vsll, Shl, p, e
  <2>3. Vmax(w, a, b) \in Int
    <3>1. Vmax(w, a, b) = a \/ Vmax(w, a, b) = b
      <4> HIDE DEF w
      <4> QED  BY Zenon DEF Vmax
    <3> QED  BY <3>1
  <2> HIDE DEF w
  <2>4. \A op \in SingleWidth : SingleOp(op, a, b) \in {Vadd(w, a, b), Vrsub(w, a, b), Vsll(w, a, b), Vmax(w, a, b)}
    BY Zenon DEF SingleWidth, SingleOp, w
  <2> QED  BY <2>1, <2>2, <2>3, <2>4
<1>3. Vwaddu(w, a, b) \in Int
  <2>1. a + b \in Int
    OBVIOUS
  <2> HIDE DEF w
  <2> QED  BY <1>1, <2>1 DEF Vwaddu
<1>4. Vnsrl(w, a, b) \in Int
  <2> HIDE DEF w
  <2> DEFINE e == b % (2 * w)  p == 2^e
  <2>1. e \in 0 .. 2 * w
    <3> DEFINE m == 2 * w
    <3>1. m \in Nat \ {0}
      BY <1>1
    <3> HIDE DEF m
    <3>2. b % m \in 0 .. m - 1
      BY <3>1, DivMod
    <3> DEFINE f == b % m
    <3> HIDE DEF f
    <3>3. f \in 0 .. m
      BY <3>1, <3>2 DEF f
    <3> QED  BY <3>3 DEF f, m
  <2> HIDE DEF e
  <2>2. p \in Nat \ {0}
    BY <1>1, <2>1
  <2> HIDE DEF p
  <2>3. a \div p \in Int
    BY <2>2
  <2>4. Trunc(w, a \div p) \in Int
    BY <1>1, <2>3
  <2> QED  BY <2>4 DEF Vnsrl, Shr, p, e
<1>5. ASSUME NEW c \in Int PROVE Vmacc(w, a, b, c) \in Int
  <2>1. b * a + c \in Int
    OBVIOUS
  <2> HIDE DEF w
  <2> QED  BY <1>1, <2>1 DEF Vmacc
<1>6. \A m : Vmerge(w, a, b, m) \in Int
  BY DEF Vmerge
<1>7. ASSUME sew > 1 PROVE Vsext2(w, a) \in Int
  <2> DEFINE h == w \div 2
  <2>1. h = Bits(sew \div 2) /\ sew \div 2 \in 0 .. 2 * VLENB
    BY <1>7, OperandWidths, VectorAssumption
  <2>2. Signed(Bits(sew \div 2), a) \in Int
    BY <2>1, CastNumbers
  <2> DEFINE s == Signed(h, a)
  <2>3. s \in Int
    BY <2>1, <2>2
  <2> HIDE DEF s, w
  <2>4. Trunc(w, s) \in Int
    BY <1>1, <2>3
  <2> QED  BY <2>4 DEF Vsext2, Sext, s, h
<1>8. FlaggedOp(a).v \in Int
  BY DEF FlaggedOp
<1> QED  BY <1>2, <1>3, <1>4, <1>5, <1>6, <1>7, <1>8

\* Every loop of the arithmetic instructions writes numbers.
LEMMA ArithmeticValues ==
  ASSUME VectorState
  PROVE  /\ \A op \in SingleWidth, scalar \in BOOLEAN : IntValues(BinaryValues(op, scalar))
         /\ sew < 8 => IntValues(WideningValues) /\ IntValues(NarrowingValues)
         /\ IntValues(MergeValues) /\ \A d \in {Vd, VdOdd} : IntValues(TernaryValues(d))
         /\ sew > 1 => IntValues(UnaryValues)
         /\ IntValues(FlaggedValues) /\ IntValues(IotaValues) /\ IntValues(IdValues)
<1>1. LengthFits /\ vstart \in Nat
  BY DEF VectorState
<1>2. ASSUME NEW i \in Nat, i < vl PROVE i \in Index /\ i < max_vl
  <2>1. max_vl \in Nat /\ vl \in Nat /\ vl <= max_vl /\ \A j \in Nat : j < max_vl => j \in Index
    BY <1>1, LengthIndex
  <2> HIDE DEF max_vl, Index
  <2>2. i < max_vl
    BY <2>1, <1>2
  <2> QED  BY <2>1, <2>2
<1>3. ASSUME NEW i \in Nat, i < vl
      PROVE  /\ Src2(sew, i) \in Nat /\ \A scalar \in BOOLEAN : Src1(sew, i, scalar) \in Nat
             /\ \A d \in {Vd, VdOdd} : Element(v, d, sew, i) \in Nat
             /\ sew < 8 => Element(v, Vd, 2*sew, i) \in Nat
             /\ sew > 1 => Element(v, Vs2, sew \div 2, i) \in Nat
  <2>1. i < max_vl
    BY <1>2, <1>3
  <2>2. \A r \in 0 .. 16 : /\ Element(v, r, sew, i) \in Nat
                           /\ sew < 8 => Element(v, r, 2 * sew, i) \in Nat
                           /\ sew > 1 => Element(v, r, sew \div 2, i) \in Nat
    BY <2>1, OperandWords
  <2>3. Vs2 \in 0 .. 16 /\ Vs1 \in 0 .. 16 /\ Vd \in 0 .. 16 /\ VdOdd \in 0 .. 16 /\ Vs1 \in Regs
    BY DEF Vs2, Vs1, Vd, VdOdd, Regs
  <2>4. Element(v, Vs1, sew, 0) \in Nat
    BY <2>3, FirstElement
  <2> QED  BY <2>2, <2>3, <2>4 DEF Src2, Src1
<1>4. ASSUME NEW op \in SingleWidth, NEW scalar \in BOOLEAN PROVE IntValues(BinaryValues(op, scalar))
  <2>1. ASSUME NEW i \in Nat, i < vl PROVE BinaryValues(op, scalar)[i] \in Int
    <3>1. BinaryValues(op, scalar)[i] = SingleOp(op, Src2(sew, i), Src1(sew, i, scalar))
      BY <2>1, <1>2 DEF BinaryValues, Values
    <3> DEFINE a == Src2(sew, i)  b == Src1(sew, i, scalar)
    <3>2. a \in Nat /\ b \in Nat
      BY <1>3, <2>1
    <3> HIDE DEF a, b
    <3>3. SingleOp(op, a, b) \in Int
      BY <1>1, <3>2, ElementNumbers
    <3> QED  BY <3>1, <3>3 DEF a, b
  <2> QED  BY <2>1 DEF IntValues
<1>5. ASSUME sew < 8 PROVE IntValues(WideningValues) /\ IntValues(NarrowingValues)
  <2>1. ASSUME NEW i \in Nat, i < vl PROVE WideningValues[i] \in Int /\ NarrowingValues[i] \in Int
    <3> DEFINE a == Src2(sew, i)  b == Src1(sew, i, FALSE)  c == Element(v, Vd, 2*sew, i)
    <3>1. WideningValues[i] = Vwaddu(Bits(sew), a, b) /\ NarrowingValues[i] = Vnsrl(Bits(sew), c, b)
      BY <2>1, <1>2 DEF WideningValues, NarrowingValues, Values
    <3>2. a \in Nat /\ b \in Nat /\ c \in Nat
      BY <1>3, <1>5, <2>1
    <3> HIDE DEF a, b, c
    <3>3. Vwaddu(Bits(sew), a, b) \in Int
      BY <1>1, <3>2, ElementNumbers
    <3>4. Vnsrl(Bits(sew), c, b) \in Int
      BY <1>1, <3>2, ElementNumbers
    <3> QED  BY <3>1, <3>3, <3>4
  <2> QED  BY <2>1 DEF IntValues
<1>6. IntValues(MergeValues)
  <2>1. ASSUME NEW i \in Nat, i < vl PROVE MergeValues[i] \in Int
    <3> DEFINE a == Src2(sew, i)  b == Src1(sew, i, FALSE)  m == Active(i)
    <3>1. MergeValues[i] = Vmerge(Bits(sew), a, b, m)
      BY <2>1, <1>2 DEF MergeValues, Values
    <3>2. a \in Nat /\ b \in Nat
      BY <1>3, <2>1
    <3> HIDE DEF a, b, m
    <3>3. Vmerge(Bits(sew), a, b, m) \in Int
      BY <1>1, <3>2, ElementNumbers
    <3> QED  BY <3>1, <3>3
  <2> QED  BY <2>1 DEF IntValues
<1>7. ASSUME NEW d \in {Vd, VdOdd} PROVE IntValues(TernaryValues(d))
  <2>1. ASSUME NEW i \in Nat, i < vl PROVE TernaryValues(d)[i] \in Int
    <3> DEFINE a == Src2(sew, i)  b == Src1(sew, i, FALSE)  c == Element(v, d, sew, i)
    <3>1. TernaryValues(d)[i] = Vmacc(Bits(sew), a, b, c)
      BY <2>1, <1>2 DEF TernaryValues, Values
    <3>2. a \in Nat /\ b \in Nat /\ c \in Int
      <4>1. a \in Nat /\ b \in Nat
        BY <1>3, <2>1
      <4>2. c \in Nat
        BY <1>3, <1>7, <2>1, Zenon
      <4> HIDE DEF a, b, c
      <4> QED  BY <4>1, <4>2
    <3> HIDE DEF a, b, c
    <3>3. Vmacc(Bits(sew), a, b, c) \in Int
      BY <1>1, <3>2, ElementNumbers
    <3> QED  BY <3>1, <3>3
  <2> QED  BY <2>1 DEF IntValues
<1>8. ASSUME sew > 1 PROVE IntValues(UnaryValues)
  <2>1. ASSUME NEW i \in Nat, i < vl PROVE UnaryValues[i] \in Int
    <3> DEFINE a == Element(v, Vs2, sew \div 2, i)
    <3>1. UnaryValues[i] = Vsext2(Bits(sew), a)
      BY <2>1, <1>2 DEF UnaryValues, Values
    <3>2. a \in Nat
      BY <1>3, <1>8, <2>1
    <3> HIDE DEF a
    <3>3. Vsext2(Bits(sew), a) \in Int
      BY <1>1, <1>8, <3>2, ElementNumbers
    <3> QED  BY <3>1, <3>3
  <2> QED  BY <2>1 DEF IntValues
<1>9. IntValues(FlaggedValues)
  <2>1. ASSUME NEW i \in Nat, i < vl PROVE FlaggedValues[i] \in Int
    <3> DEFINE a == Src2(sew, i)
    <3>1. FlaggedValues[i] = FlaggedOp(a).v
      BY <2>1, <1>2 DEF FlaggedValues, Values
    <3>2. a \in Nat
      BY <1>3, <2>1
    <3> HIDE DEF a
    <3>3. FlaggedOp(a).v \in Int
      BY <1>1, <3>2, ElementNumbers
    <3> QED  BY <3>1, <3>3
  <2> QED  BY <2>1 DEF IntValues
<1>10. IntValues(IotaValues)
  <2>1. ASSUME NEW i \in Nat, i < vl PROVE IotaValues[i] \in Int
    <3> DEFINE s == {j \in vstart .. i-1 : Active(j) /\ MaskBit(v, Vs2, j)}
    <3>1. IotaValues[i] = Cardinality(s)
      BY <2>1, <1>2 DEF IotaValues, Values
    <3>2. IsFiniteSet(vstart .. i-1)
      BY <1>1, FS_Interval
    <3>3. s \in SUBSET (vstart .. i-1)
      OBVIOUS
    <3> HIDE DEF s
    <3>4. Cardinality(s) \in Nat
      BY <3>2, <3>3, FS_Subset, FS_CardinalityType
    <3> QED  BY <3>1, <3>4
  <2> QED  BY <2>1 DEF IntValues
<1>11. IntValues(IdValues)
  <2>1. ASSUME NEW i \in Nat, i < vl PROVE IdValues[i] \in Int
    <3>1. IdValues[i] = i - vstart
      BY <2>1, <1>2 DEF IdValues, Values
    <3> QED  BY <3>1, <1>1
  <2> QED  BY <2>1 DEF IntValues
<1> QED  BY <1>4, <1>5, <1>6, <1>7, <1>8, <1>9, <1>10, <1>11

\* The registers of a group of eight start where the code's table says so.
LEMMA GroupTwo == GroupSize(Vs2) = 2
<1>1. 2 % 8 = 2
  OBVIOUS
<1> QED  BY <1>1 DEF GroupSize, Vs2

\* The elements of the source group of a gather are words.
LEMMA GatheredWord ==
  ASSUME VectorState, NEW j \in Nat, j < GroupSize(Vs2) * Epv(sew)
  PROVE  Src2(sew, j) \in Nat
<1>1. LengthFits /\ v \in Files /\ sew \in Parts
  BY Widths DEF VectorState
<1> DEFINE n == Epv(sew)  q == j \div n
<1>2. n \in Nat \ {0} /\ j < 2 * n
  BY <1>1, GroupTwo, PartFacts
<1>3. q \in Nat /\ j % n \in 0 .. n-1 /\ j = n * q + (j % n)
  BY <1>1, ElementPlace
<1>4. q < 2
  <2> DEFINE m == j % n  y == n * q
  <2> HIDE DEF n, q
  <2>1. y \in Int /\ m \in 0 .. n-1 /\ j = y + m
    BY <1>2, <1>3
  <2> HIDE DEF m
  <2> SUFFICES ASSUME q >= 2 PROVE FALSE
    BY <1>3
  <2>2. y >= n * 2
    BY <1>2, <1>3
  <2> HIDE DEF y
  <2> QED  BY <2>1, <2>2, <1>2
<1> HIDE DEF q
<1>5. Vs2 + q \in Regs
  BY <1>3, <1>4 DEF Vs2, Regs
<1>6. Vs2 + (j \div Epv(sew)) \in Regs
  BY <1>5 DEF q, n
<1> QED  BY <1>1, <1>6, ElementWord DEF Src2

\* Every loop of the permutations writes numbers.
LEMMA PermutedValues ==
  ASSUME VectorState
  PROVE  /\ \A scalar \in BOOLEAN : IntValues(GatherValues(sew, scalar))
         /\ IntValues(GatherValues(2, FALSE))
         /\ \A offset \in Int : IntValues(SlideValues(offset))
         /\ \A offset \in Int, scalar \in Int : IntValues(Slide1Values(offset, scalar))
<1>1. LengthFits
  BY DEF VectorState
<1>2. max_vl \in Nat /\ \A i \in Nat : i < vl => i \in Index /\ i < max_vl
  <2>1. max_vl \in Nat /\ vl \in Nat /\ vl <= max_vl /\ \A j \in Nat : j < max_vl => j \in Index
    BY <1>1, LengthIndex
  <2> HIDE DEF max_vl, Index
  <2> QED  BY <2>1
<1>3. ASSUME NEW i \in Nat, i < max_vl
      PROVE  /\ Src2(sew, i) \in Nat /\ Src1(2, i, FALSE) \in Nat
             /\ \A scalar \in BOOLEAN : Src1(sew, i, scalar) \in Nat
  <2>1. Vs2 \in 0 .. 16 /\ Vs1 \in 0 .. 16 /\ Vs1 \in Regs
    BY DEF Vs2, Vs1, Regs
  <2>2. Src2(sew, i) \in Nat /\ Element(v, Vs1, 2, i) \in Nat /\ Element(v, Vs1, sew, i) \in Nat
    BY <2>1, <1>3, OperandWords DEF Src2
  <2>3. Element(v, Vs1, sew, 0) \in Nat
    BY <2>1, FirstElement
  <2> QED  BY <2>2, <2>3 DEF Src1
<1>4. ASSUME NEW k, NEW scalar, \A i \in Nat : i < vl => Src1(k, i, scalar) \in Nat
      PROVE  IntValues(GatherValues(k, scalar))
  <2>1. ASSUME NEW i \in Nat, i < vl PROVE GatherValues(k, scalar)[i] \in Int
    <3> DEFINE j == Src1(k, i, scalar)
    <3>1. i \in Index
      BY <1>2, <2>1
    <3>2. GatherValues(k, scalar)[i] = IF j < GroupSize(Vs2) * Epv(sew) THEN Src2(sew, j) ELSE 0
      BY <2>1, <3>1 DEF GatherValues, Values
    <3>3. j \in Nat
      BY <2>1, <1>4
    <3> HIDE DEF j
    <3>4. j < GroupSize(Vs2) * Epv(sew) => Src2(sew, j) \in Nat
      BY <3>3, GatheredWord
    <3> QED  BY <3>2, <3>4
  <2> QED  BY <2>1 DEF IntValues
<1>5. \A scalar \in BOOLEAN : IntValues(GatherValues(sew, scalar))
  <2> SUFFICES ASSUME NEW scalar \in BOOLEAN PROVE IntValues(GatherValues(sew, scalar))
    OBVIOUS
  <2>1. \A i \in Nat : i < vl => Src1(sew, i, scalar) \in Nat
    BY <1>2, <1>3
  <2> QED  BY <2>1, <1>4
<1>6. IntValues(GatherValues(2, FALSE))
  <2>1. \A i \in Nat : i < vl => Src1(2, i, FALSE) \in Nat
    BY <1>2, <1>3
  <2> QED  BY <2>1, <1>4
<1>7. ASSUME NEW i \in Nat, NEW offset \in Int
      PROVE  i - offset \in 0 .. max_vl - 1 => Src2(sew, i - offset) \in Nat
  <2> SUFFICES ASSUME i - offset \in 0 .. max_vl - 1 PROVE Src2(sew, i - offset) \in Nat
    OBVIOUS
  <2> DEFINE j == i - offset
  <2> HIDE DEF max_vl
  <2>1. j \in Nat /\ j < max_vl
    BY <1>2
  <2> HIDE DEF j
  <2>2. Src2(sew, j) \in Nat
    BY <2>1, <1>3
  <2> QED  BY <2>2 DEF j
<1>8. ASSUME NEW offset \in Int PROVE IntValues(SlideValues(offset))
  <2>1. ASSUME NEW i \in Nat, i < vl PROVE SlideValues(offset)[i] \in Int
    <3> DEFINE e == Src2(sew, i - offset)  c == i - offset \in 0 .. max_vl - 1
    <3>1. SlideValues(offset)[i] = IF c THEN e ELSE 0
      BY <2>1, <1>2 DEF SlideValues, Values
    <3>2. c => e \in Nat
      BY <1>7
    <3> HIDE DEF c, e
    <3> QED  BY <3>1, <3>2
  <2> QED  BY <2>1 DEF IntValues
<1>9. ASSUME NEW offset \in Int, NEW scalar \in Int PROVE IntValues(Slide1Values(offset, scalar))
  <2>1. ASSUME NEW i \in Nat, i < vl PROVE Slide1Values(offset, scalar)[i] \in Int
    <3> DEFINE e == Src2(sew, i - offset)  c == i - offset \in 1 .. max_vl - 1  b == i - offset \in 0 .. max_vl - 1
    <3>1. Slide1Values(offset, scalar)[i] = IF c THEN e ELSE scalar
      BY <2>1, <1>2 DEF Slide1Values, Values
    <3>2. b => e \in Nat
      BY <1>7
    <3>3. c => b
      <4> HIDE DEF max_vl
      <4> QED  BY <1>2
    <3> HIDE DEF c, e, b
    <3> QED  BY <3>1, <3>2, <3>3
  <2> QED  BY <2>1 DEF IntValues
<1> QED  BY <1>2, <1>5, <1>6, <1>8, <1>9

-----------------------------------------------------------------------------
(* Counting what lies below an element. *)

\* the members of mm from a up to but not including i
Upto(mm, a, i) == {j \in a .. i-1 : j \in mm}

\* One element further counts one more when it is a member.
LEMMA CountStep ==
  ASSUME NEW mm, NEW a \in Int, NEW i \in Int, i >= a
  PROVE  /\ IsFiniteSet(Upto(mm, a, i)) /\ Cardinality(Upto(mm, a, i)) \in Nat
         /\ i \in mm => /\ Upto(mm, a, i + 1) = Upto(mm, a, i) \cup {i}
                        /\ Cardinality(Upto(mm, a, i + 1)) = Cardinality(Upto(mm, a, i)) + 1
         /\ i \notin mm => Upto(mm, a, i + 1) = Upto(mm, a, i)
         /\ Cardinality(Upto(mm, a, a)) = 0 /\ i \notin Upto(mm, a, i)
<1>1. IsFiniteSet(a .. i-1)
  BY FS_Interval
<1>2. Upto(mm, a, i) \in SUBSET (a .. i-1)
  BY DEF Upto
<1>3. IsFiniteSet(Upto(mm, a, i))
  BY <1>1, <1>2, FS_Subset
<1>4. Upto(mm, a, i + 1) = IF i \in mm THEN Upto(mm, a, i) \cup {i} ELSE Upto(mm, a, i)
  <2>1. \A j \in Int : j \in a .. (i+1)-1 <=> j \in a .. i-1 \/ j = i
    OBVIOUS
  <2> QED  BY <2>1 DEF Upto
<1>5. i \notin Upto(mm, a, i)
  BY DEF Upto
<1>6. Upto(mm, a, a) = {}
  BY DEF Upto
<1>7. Cardinality(Upto(mm, a, i)) \in Nat /\ Cardinality(Upto(mm, a, a)) = 0
  BY <1>3, <1>6, FS_EmptySet, FS_CardinalityType
<1>8. Cardinality(Upto(mm, a, i) \cup {i}) = Cardinality(Upto(mm, a, i)) + 1
  BY <1>3, <1>5, FS_AddElement, Zenon
<1>9. ASSUME i \in mm
      PROVE  Upto(mm, a, i + 1) = Upto(mm, a, i) \cup {i}
  BY <1>4, <1>9, Zenon
<1>10. ASSUME i \notin mm PROVE Upto(mm, a, i + 1) = Upto(mm, a, i)
  BY <1>4, <1>10, Zenon
<1> QED  BY <1>3, <1>5, <1>7, <1>8, <1>9, <1>10, Zenon

\* Fewer members lie below a member than up to any later element.
LEMMA CountBelow ==
  ASSUME NEW mm, NEW a \in Int, NEW n \in Nat, NEW i \in a .. a + n - 1, i \in mm
  PROVE  Cardinality(Upto(mm, a, i)) < Cardinality(Upto(mm, a, a + n))
<1> DEFINE A == Upto(mm, a, i)  B == Upto(mm, a, a + n)
<1>1. IsFiniteSet(B) /\ Cardinality(B) \in Nat
  <2>1. a + n \in Int /\ a + n >= a
    OBVIOUS
  <2> QED  BY <2>1, CountStep
<1>2. IsFiniteSet(A) /\ Cardinality(A) \in Nat /\ i \notin A
  <2>1. i \in Int /\ i >= a
    OBVIOUS
  <2> QED  BY <2>1, CountStep
<1>3. A \cup {i} \in SUBSET B
  BY DEF Upto
<1> HIDE DEF A, B
<1>4. Cardinality(A \cup {i}) = Cardinality(A) + 1
  BY <1>2, FS_AddElement
<1>5. Cardinality(A \cup {i}) <= Cardinality(B)
  BY <1>1, <1>3, FS_Subset
<1>6. Cardinality(A) < Cardinality(B)
  BY <1>1, <1>2, <1>4, <1>5
<1> QED  BY <1>6 DEF A, B

\* the active elements, and how many of them lie between vstart and i
ActiveSet == {j \in Nat : Active(j)}
Rank(i) == Cardinality(Upto(ActiveSet, vstart, i))

\* s holds the active elements from vstart to m, each at its rank
InOrder(s, m) ==
  /\ s \in Seq(Nat) /\ Len(s) = Rank(m)
  /\ \A q \in 1 .. Len(s) : s[q] \in vstart .. m-1 /\ Active(s[q])
  /\ \A i \in vstart .. m-1 : Active(i) => s[Rank(i) + 1] = i

\* One element further, for every element at once.
LEMMA CountNext ==
  \A mm : \A a, i \in Int : i >= a =>
     Cardinality(Upto(mm, a, i + 1)) = Cardinality(Upto(mm, a, i)) + (IF i \in mm THEN 1 ELSE 0)
<1>1. SUFFICES ASSUME NEW mm, NEW a \in Int, NEW i \in Int, i >= a
               PROVE  Cardinality(Upto(mm, a, i + 1)) = Cardinality(Upto(mm, a, i)) + (IF i \in mm THEN 1 ELSE 0)
  OBVIOUS
<1> QED  BY <1>1, CountStep

\* vcompress packs the active elements in their order.
LEMMA PackedInOrder ==
  ASSUME vstart \in Nat, vl \in Nat, vstart <= vl
  PROVE  InOrder(Packed, vl)
<1> DEFINE N == vl - vstart
           op == [p \in (1 .. N) \X Seq(Nat) |->
                    IF Active(vstart + p[1] - 1) THEN Append(p[2], vstart + p[1] - 1) ELSE p[2]]
           Eq(h) == h = [n \in 0 .. N |-> IF n = 0 THEN << >>
                           ELSE IF Active(vstart + n - 1) THEN Append(h[n - 1], vstart + n - 1) ELSE h[n - 1]]
           after == CHOOSE h : Eq(h)
<1>1. Packed = after[N]
  BY Zenon DEF Packed
<1>2. N \in Nat /\ vstart + N = vl
  OBVIOUS
<1>3. op \in [(1 .. N) \X Seq(Nat) -> Seq(Nat)]
  <2>1. ASSUME NEW n \in 1 .. N, NEW s \in Seq(Nat)
        PROVE  (IF Active(vstart + n - 1) THEN Append(s, vstart + n - 1) ELSE s) \in Seq(Nat)
    <3>1. vstart + n - 1 \in Nat
      BY <1>2
    <3> DEFINE e == vstart + n - 1
    <3> HIDE DEF e
    <3>2. Append(s, e) \in Seq(Nat)
      BY <3>1 DEF e
    <3> QED  BY <3>2 DEF e
  <2> QED  BY <2>1
<1>4. << >> \in Seq(Nat)
  OBVIOUS
<1>5. \A n \in 1 .. N, s \in Seq(Nat) :
         op[<<n, s>>] = IF Active(vstart + n - 1) THEN Append(s, vstart + n - 1) ELSE s
  OBVIOUS
<1> HIDE DEF op, N
<1>6. PICK g \in [0 .. N -> Seq(Nat)] : Follows(g, N, << >>, op)
  BY <1>2, <1>3, <1>4, LoopExists
<1>7. Eq(g)
  <2>1. ASSUME NEW n \in 0 .. N
        PROVE  g[n] = IF n = 0 THEN << >>
                           ELSE IF Active(vstart + n - 1) THEN Append(g[n - 1], vstart + n - 1) ELSE g[n - 1]
    <3>1. g[n] = IF n = 0 THEN << >> ELSE op[<<n, g[n-1]>>]
      BY <1>6 DEF Follows
    <3>2. CASE n # 0
      <4>1. n \in 1 .. N /\ n - 1 \in 0 .. N
        BY <1>2, <3>2
      <4>2. g[n-1] \in Seq(Nat)
        BY <4>1, <1>6
      <4> QED  BY <4>1, <4>2, <3>1, <3>2, <1>5
    <3> QED  BY <3>1, <3>2
  <2>2. g = [n \in 0 .. N |-> g[n]]
    BY <1>6
  <2> QED  BY <2>1, <2>2
<1>8. Eq(after)
  <2> HIDE DEF Eq
  <2> QED  BY <1>7, Zenon
<1> HIDE DEF after
<1>9. \A n \in 0 .. N : after[n] = IF n = 0 THEN << >>
              ELSE IF Active(vstart + n - 1) THEN Append(after[n - 1], vstart + n - 1) ELSE after[n - 1]
  BY <1>8
<1> HIDE DEF Eq
<1> DEFINE P == {n \in 0 .. N : InOrder(after[n], vstart + n)}
<1>10. 0 \in P
  <2>1. after[0] = << >> /\ 0 \in 0 .. N
    BY <1>2, <1>9
  <2>2. Rank(vstart) = 0
    <3>1. vstart \in Int /\ vstart >= vstart
      OBVIOUS
    <3>2. Cardinality(Upto(ActiveSet, vstart, vstart)) = 0
      BY <3>1, CountStep, Zenon
    <3> QED  BY <3>2 DEF Rank
  <2>3. vstart + 0 = vstart /\ vstart .. vstart - 1 = {}
    OBVIOUS
  <2>4. InOrder(<< >>, vstart)
    BY <2>2, <2>3 DEF InOrder
  <2> QED  BY <2>1, <2>3, <2>4
<1>11. ASSUME NEW n \in 0 .. N-1, n \in P PROVE n + 1 \in P
  <2> DEFINE s == after[n]  m == vstart + n
  <2>1. n + 1 \in 0 .. N /\ (n + 1) - 1 = n /\ n + 1 # 0 /\ vstart + (n + 1) - 1 = m /\ vstart + (n + 1) = m + 1
        /\ m \in Nat /\ m >= vstart
    BY <1>2
  <2>2. after[n + 1] = IF Active(m) THEN Append(s, m) ELSE s
    <3>1. after[n + 1] = IF Active(vstart + (n + 1) - 1) THEN Append(after[(n + 1) - 1], vstart + (n + 1) - 1)
                         ELSE after[(n + 1) - 1]
      BY <1>9, <2>1
    <3> QED  BY <3>1, <2>1
  <2>3. InOrder(s, m)
    BY <1>11
  <2> HIDE DEF s, m, P
  <2>4. s \in Seq(Nat) /\ Len(s) = Rank(m) /\ Len(s) \in Nat
    BY <2>3 DEF InOrder
  <2>5. Rank(m + 1) = Rank(m) + (IF Active(m) THEN 1 ELSE 0)
    <3>1. m \in ActiveSet <=> Active(m)
      BY <2>1 DEF ActiveSet
    <3>2. Cardinality(Upto(ActiveSet, vstart, m + 1))
            = Cardinality(Upto(ActiveSet, vstart, m)) + (IF m \in ActiveSet THEN 1 ELSE 0)
      <4>1. vstart \in Int /\ m \in Int /\ m >= vstart
        BY <2>1
      <4>2. \A i \in Int : i >= vstart =>
              Cardinality(Upto(ActiveSet, vstart, i + 1))
                = Cardinality(Upto(ActiveSet, vstart, i)) + (IF i \in ActiveSet THEN 1 ELSE 0)
        BY CountNext
      <4> QED  BY <4>1, <4>2
    <3> QED  BY <3>1, <3>2 DEF Rank
  <2>6. CASE ~Active(m)
    <3>1. InOrder(s, m + 1)
      <4>1. s \in Seq(Nat) /\ Len(s) = Rank(m + 1)
        BY <2>4, <2>5, <2>6
      <4>2. \A q \in 1 .. Len(s) : s[q] \in vstart .. (m+1)-1 /\ Active(s[q])
        BY <2>1, <2>3 DEF InOrder
      <4>3. ASSUME NEW i \in vstart .. (m+1)-1, Active(i) PROVE s[Rank(i) + 1] = i
        <5>1. i # m
          BY <4>3, <2>6
        <5>2. i \in vstart .. m-1
          BY <5>1, <2>1
        <5> QED  BY <5>2, <4>3, <2>3 DEF InOrder
      <4> QED  BY <4>1, <4>2, <4>3 DEF InOrder
    <3> QED  BY <3>1, <2>1, <2>2, <2>6 DEF P
  <2>7. CASE Active(m)
    <3> DEFINE t == Append(s, m)
    <3>1. t \in Seq(Nat) /\ Len(t) = Len(s) + 1 /\ t[Len(s) + 1] = m /\ \A q \in 1 .. Len(s) : t[q] = s[q]
      BY <2>1, <2>4
    <3> HIDE DEF t
    <3>2. InOrder(t, m + 1)
      <4>1. t \in Seq(Nat) /\ Len(t) = Rank(m + 1)
        BY <3>1, <2>4, <2>5, <2>7
      <4>2. ASSUME NEW q \in 1 .. Len(t) PROVE t[q] \in vstart .. (m+1)-1 /\ Active(t[q])
        <5>1. CASE q = Len(s) + 1
          <6>1. m \in vstart .. (m+1)-1
            BY <2>1
          <6> QED  BY <5>1, <6>1, <3>1, <2>7
        <5>2. CASE q # Len(s) + 1
          <6>1. q \in 1 .. Len(s) /\ t[q] = s[q]
            BY <5>2, <3>1, <2>4
          <6>2. s[q] \in vstart .. m-1 /\ Active(s[q])
            BY <6>1, <2>3 DEF InOrder
          <6>3. s[q] \in vstart .. (m+1)-1
            BY <6>2, <2>1
          <6> QED  BY <6>1, <6>2, <6>3
        <5> QED  BY <5>1, <5>2
      <4>3. ASSUME NEW i \in vstart .. (m+1)-1, Active(i) PROVE t[Rank(i) + 1] = i
        <5>1. CASE i = m
          BY <5>1, <3>1, <2>4
        <5>2. CASE i # m
          <6>1. i \in vstart .. m-1
            BY <5>2, <2>1
          <6>2. s[Rank(i) + 1] = i
            BY <6>1, <4>3, <2>3 DEF InOrder
          <6>3. Rank(i) \in Nat /\ Rank(i) < Rank(m)
            <7>1. i \in vstart .. vstart + n - 1 /\ i \in ActiveSet /\ m = vstart + n /\ i \in Int /\ i >= vstart /\ n \in Nat
              BY <6>1, <4>3, <2>1 DEF ActiveSet, m
            <7>2. Rank(i) < Rank(vstart + n)
              <8>1. vstart \in Int
                OBVIOUS
              <8>2. Cardinality(Upto(ActiveSet, vstart, i)) < Cardinality(Upto(ActiveSet, vstart, vstart + n))
                BY <7>1, <8>1, CountBelow, Zenon
              <8> QED  BY <8>2 DEF Rank
            <7>3. Rank(i) \in Nat
              <8>1. vstart \in Int
                OBVIOUS
              <8>2. Cardinality(Upto(ActiveSet, vstart, i)) \in Nat
                BY <7>1, <8>1, CountStep, Zenon
              <8> QED  BY <8>2 DEF Rank
            <7> QED  BY <7>1, <7>2, <7>3
          <6>4. Rank(i) + 1 \in 1 .. Len(s)
            BY <6>3, <2>4
          <6> QED  BY <6>2, <6>4, <3>1
        <5> QED  BY <5>1, <5>2
      <4> QED  BY <4>1, <4>2, <4>3 DEF InOrder
    <3> QED  BY <3>2, <2>1, <2>2, <2>7 DEF P, t
  <2> QED  BY <2>6, <2>7
<1> HIDE DEF P
<1>12. 0 .. N \subseteq P
  BY <1>2, <1>10, <1>11, StepByStep
<1>13. N \in 0 .. N
  BY <1>2
<1>14. InOrder(after[N], vstart + N)
  BY <1>12, <1>13 DEF P
<1> QED  BY <1>1, <1>2, <1>14

\* vcompress packs no more elements than there are from vstart to vl.
LEMMA PackedFits ==
  ASSUME vstart \in Nat, vl \in Nat, vstart <= vl
  PROVE  Len(Packed) \in Nat /\ Len(Packed) <= vl - vstart
<1>1. Len(Packed) = Rank(vl)
  BY PackedInOrder DEF InOrder
<1>2. IsFiniteSet(vstart .. vl-1) /\ Cardinality(vstart .. vl-1) = vl - vstart
  <2>1. vstart \in Int /\ vl - 1 \in Int
    OBVIOUS
  <2>2. /\ IsFiniteSet(vstart .. vl-1)
        /\ Cardinality(vstart .. vl-1) = IF vstart > vl-1 THEN 0 ELSE (vl-1) - vstart + 1
    BY <2>1, FS_Interval, Zenon
  <2> QED  BY <2>2
<1>3. Upto(ActiveSet, vstart, vl) \in SUBSET (vstart .. vl-1)
  BY DEF Upto
<1>4. Rank(vl) \in Nat /\ Rank(vl) <= Cardinality(vstart .. vl-1)
  BY <1>2, <1>3, FS_Subset, FS_CardinalityType DEF Rank
<1> QED  BY <1>1, <1>2, <1>4

\* vcompress leaves a file of bytes.
LEMMA CompressTyped ==
  ASSUME VectorState, NEW d \in Nat
  PROVE  CompressResult(v, d) \in Files
<1>1. LengthFits /\ v \in Files /\ vstart \in Nat /\ sew \in Parts /\ vl \in Nat
  BY Widths DEF VectorState, LengthFits
<1>2. CASE vstart >= vl
  BY <1>1, <1>2 DEF CompressResult
<1>3. CASE ~(vstart >= vl)
  <2> DEFINE val == [i \in Index |-> IF i < Len(Packed) THEN Src2(sew, Packed[i + 1]) ELSE 0]
  <2>1. CompressResult(v, d) = ElementLoop(v, d, sew, 0, Len(Packed), val, All)
    BY <1>3 DEF CompressResult
  <2>2. InOrder(Packed, vl) /\ Len(Packed) \in Nat /\ Len(Packed) <= vl - vstart
    <3>1. vstart <= vl
      BY <1>1, <1>3
    <3> QED  BY <1>1, <3>1, PackedInOrder, PackedFits
  <2>3. ASSUME NEW i \in 0 .. Len(Packed)-1 PROVE val[i] \in Int
    <3>0. max_vl \in Nat /\ vl <= max_vl /\ \A j \in Nat : j < max_vl => j \in Index
      BY <1>1, LengthIndex
    <3> DEFINE p == Packed[i + 1]
    <3>1. i + 1 \in 1 .. Len(Packed) /\ i \in Nat /\ i < Len(Packed) /\ i < vl
      BY <1>1, <2>2
    <3>2. p \in vstart .. vl-1
      BY <2>2, <3>1 DEF InOrder
    <3> HIDE DEF p, max_vl, Index
    <3>3. p \in Nat /\ p < max_vl /\ i \in Index
      BY <1>1, <3>0, <3>1, <3>2
    <3>4. Vs2 \in 0 .. 16
      BY DEF Vs2
    <3>5. Src2(sew, p) \in Nat
      BY <3>3, <3>4, OperandWords DEF Src2
    <3>6. val[i] = Src2(sew, p)
      BY <3>1, <3>3 DEF p
    <3> QED  BY <3>5, <3>6
  <2> HIDE DEF val
  <2>4. 0 \in Nat
    OBVIOUS
  <2>5. ElementLoop(v, d, sew, 0, Len(Packed), val, All) \in Files
    BY <1>1, <2>2, <2>3, <2>4, LoopTyped
  <2> QED  BY <2>1, <2>5
<1> QED  BY <1>2, <1>3

\* Moves of whole registers leave a file of bytes.
LEMMA VmvrTyped ==
  ASSUME VectorState, NEW n \in {1, 2, 4}
  PROVE  VmvrResult(n) \in Files
<1>1. v \in Files /\ vstart \in Nat /\ Epv(sew) \in Nat \ {0}
  BY Widths, PartFacts DEF VectorState
<1> DEFINE s == vstart \div Epv(sew)
<1>2. s \in Nat
  <2> DEFINE e == Epv(sew)
  <2>1. e \in Nat \ {0}
    BY <1>1
  <2> HIDE DEF e
  <2>2. vstart \div e \in Nat
    BY <1>1, <2>1
  <2> QED  BY <2>2 DEF e
<1> HIDE DEF s
<1>3. ASSUME NEW r \in Regs PROVE (IF r - Vd \in s .. n-1 THEN v[Vs2 + r - Vd] ELSE v[r]) \in [0 .. VLENB-1 -> Unit]
  <2>1. r - Vd \in s .. n-1 => Vs2 + r - Vd \in Regs
    BY <1>2 DEF Regs, Vs2, Vd
  <2> QED  BY <2>1, <1>1 DEF Files
<1>4. VmvrResult(n) = [r \in Regs |-> IF r - Vd \in s .. n-1 THEN v[Vs2 + r - Vd] ELSE v[r]]
  BY DEF VmvrResult, s
<1> QED  BY <1>3, <1>4 DEF Files

-----------------------------------------------------------------------------
(* The logical instructions of the mask, from the byte loop to the bits. *)

\* what an instruction of MaskLogic makes of two bits
LogicBit(op, a, b) ==
    CASE op = "vmand" -> a /\ b       [] op = "vmandnot" -> a /\ ~b
      [] op = "vmor" -> a \/ b        [] op = "vmornot" -> a \/ ~b
      [] op = "vmxor" -> ~(a <=> b)   [] op = "vmnand" -> ~(a /\ b)
      [] op = "vmnor" -> ~(a \/ b)    [] op = "vmxnor" -> a <=> b

\* Bytes are words whose bits the powers of two reach.
LEMMA UnitPowers ==
  /\ UW \in Nat \ {0} /\ VLENB \in Nat \ {0} /\ Powers(UW) /\ 2^UW \in Nat \ {0} /\ Unit = Word(UW)
  /\ UW * VLENB \in Nat
<1>1. UW \in Nat \ {0} /\ VLENB \in Nat \ {0}
  BY VectorAssumption
<1> DEFINE N == 2 * UW * VLENB
<1>2. N \in Nat /\ Powers(N) /\ \A n \in 0 .. N : 2^n \in Nat \ {0}
  BY Pow
<1>3. UW <= N
  <2>1. UW * 1 <= UW * (2 * VLENB) /\ UW * 1 = UW
    BY <1>1
  <2>2. N = UW * (2 * VLENB)
    BY <1>1
  <2> QED  BY <2>1, <2>2
<1>4. UW * VLENB \in Nat
  BY <1>1
<1> HIDE DEF N
<1>5. \A k \in 0 .. UW - 1 : k \in 0 .. N - 1
  BY <1>1, <1>2, <1>3
<1>6. UW \in 0 .. N
  BY <1>1, <1>2, <1>3
<1> QED  BY <1>1, <1>2, <1>4, <1>5, <1>6 DEF Powers, Unit

\* They work bit by bit on bytes.
LEMMA LogicBits ==
  ASSUME NEW op \in MaskLogic, NEW a \in Unit, NEW b \in Unit
  PROVE  /\ MaskLogicOp(op, a, b) \in Unit
         /\ \A j \in 0 .. UW-1 :
              (Bit(MaskLogicOp(op, a, b), j) = 1) <=> LogicBit(op, Bit(a, j) = 1, Bit(b, j) = 1)
<1>0. UW \in Nat /\ Powers(UW) /\ Unit = Word(UW)
  BY UnitPowers
<1> DEFINE nb == Inv(UW, b)
<1>1. nb \in Unit /\ \A j \in 0 .. UW-1 : Bit(b, j) \in 0 .. 1 /\ Bit(nb, j) = 1 - Bit(b, j)
  BY <1>0, InvBits
<1>2. ASSUME NEW c \in Unit
      PROVE  /\ (a & c) \in Unit /\ (a | c) \in Unit /\ (a ^^ c) \in Unit
             /\ \A j \in 0 .. UW-1 : BitByBit(a, c, j)
  BY <1>0, WordBits
<1>3. ASSUME NEW c \in Unit
      PROVE  Inv(UW, c) \in Unit /\ \A j \in 0 .. UW-1 : Bit(c, j) \in 0 .. 1 /\ Bit(Inv(UW, c), j) = 1 - Bit(c, j)
  BY <1>0, InvBits
<1> HIDE DEF nb
<1>4. CASE op = "vmand"
  <2>1. MaskLogicOp(op, a, b) = (a & b)
    BY <1>4 DEF MaskLogicOp
  <2> QED  BY <1>2, <1>4, <2>1 DEF BitByBit, LogicBit
<1>5. CASE op = "vmandnot"
  <2>1. MaskLogicOp(op, a, b) = (a & nb)
    BY <1>5 DEF MaskLogicOp, nb
  <2> QED  BY <1>1, <1>2, <1>5, <2>1 DEF BitByBit, LogicBit
<1>6. CASE op = "vmor"
  <2>1. MaskLogicOp(op, a, b) = (a | b)
    BY <1>6 DEF MaskLogicOp
  <2> QED  BY <1>2, <1>6, <2>1 DEF BitByBit, LogicBit
<1>7. CASE op = "vmornot"
  <2>1. MaskLogicOp(op, a, b) = (a | nb)
    BY <1>7 DEF MaskLogicOp, nb
  <2> QED  BY <1>1, <1>2, <1>7, <2>1 DEF BitByBit, LogicBit
<1>8. CASE op = "vmxor"
  <2>1. MaskLogicOp(op, a, b) = (a ^^ b)
    BY <1>8 DEF MaskLogicOp
  <2> QED  BY <1>2, <1>8, <2>1 DEF BitByBit, LogicBit
<1>9. CASE op = "vmnand"
  <2>1. MaskLogicOp(op, a, b) = Inv(UW, a & b)
    BY <1>9 DEF MaskLogicOp
  <2> QED  BY <1>2, <1>3, <1>9, <2>1 DEF BitByBit, LogicBit
<1>10. CASE op = "vmnor"
  <2>1. MaskLogicOp(op, a, b) = Inv(UW, a | b)
    BY <1>10 DEF MaskLogicOp
  <2> QED  BY <1>2, <1>3, <1>10, <2>1 DEF BitByBit, LogicBit
<1>11. CASE op = "vmxnor"
  <2>1. MaskLogicOp(op, a, b) = Inv(UW, a ^^ b)
    BY <1>11 DEF MaskLogicOp
  <2> QED  BY <1>2, <1>3, <1>11, <2>1 DEF BitByBit, LogicBit
<1> QED  BY <1>4, <1>5, <1>6, <1>7, <1>8, <1>9, <1>10, <1>11 DEF MaskLogic

\* On two bits alone they give the bit.
LEMMA LogicFlags ==
  ASSUME NEW op \in MaskLogic, NEW a \in BOOLEAN, NEW b \in BOOLEAN
  PROVE  (MaskLogicOp(op, Flag(a), Flag(b)) % 2 = 1) <=> LogicBit(op, a, b)
<1>1. UW \in Nat \ {0} /\ Unit = Word(UW) /\ Powers(UW)
  BY UnitPowers
<1>2. ASSUME NEW c \in BOOLEAN PROVE Flag(c) \in Unit /\ Bit(Flag(c), 0) = Flag(c)
  <2>0. Flag(c) \in {0, 1}
    BY DEF Flag
  <2>1. 2^UW \in Nat /\ 2^UW >= 2
    <3> DEFINE h == 2^(UW - 1)
    <3>1. UW - 1 \in 0 .. UW /\ UW - 1 \in 0 .. UW-1 /\ (UW - 1) + 1 = UW
      BY <1>1
    <3>2. h \in Nat \ {0} /\ 2^((UW - 1) + 1) = 2 * h
      BY <1>1, <3>1, PowersPositive DEF Powers
    <3> HIDE DEF h
    <3> QED  BY <3>1, <3>2
  <2>2. Flag(c) \in Unit
    BY <1>1, <2>0, <2>1 DEF Word
  <2>3. 2^0 = 1
    OBVIOUS
  <2>4. (Flag(c) \div 1) % 2 = Flag(c)
    BY <2>0
  <2> QED  BY <2>2, <2>3, <2>4 DEF Bit
<1>3. 0 \in 0 .. UW-1
  BY <1>1
<1> DEFINE z == MaskLogicOp(op, Flag(a), Flag(b))
<1>4. z \in Unit /\ (Bit(z, 0) = 1 <=> LogicBit(op, Bit(Flag(a), 0) = 1, Bit(Flag(b), 0) = 1))
  BY <1>2, <1>3, LogicBits
<1>5. (Bit(Flag(a), 0) = 1) = a /\ (Bit(Flag(b), 0) = 1) = b
  BY <1>2 DEF Flag
<1> HIDE DEF z
<1>6. Bit(z, 0) = z % 2
  <2>1. z \in Nat
    BY <1>1, <1>4 DEF Word
  <2>2. 2^0 = 1
    OBVIOUS
  <2>3. z \div 1 = z
    BY <2>1
  <2> QED  BY <2>2, <2>3 DEF Bit
<1> QED  BY <1>4, <1>5, <1>6 DEF z

\* the byte r under the mask m, the byte old elsewhere
Mix(r, m, old) == (r & m) | (old & Inv(UW, m))

\* It takes each bit from where the mask says.
LEMMA MixBits ==
  ASSUME NEW r \in Unit, NEW m \in Unit, NEW old \in Unit
  PROVE  /\ Mix(r, m, old) \in Unit
         /\ \A j \in 0 .. UW-1 :
              (Bit(Mix(r, m, old), j) = 1) <=> IF Bit(m, j) = 1 THEN Bit(r, j) = 1 ELSE Bit(old, j) = 1
<1>0. UW \in Nat /\ Powers(UW) /\ Unit = Word(UW)
  BY UnitPowers
<1> DEFINE n == Inv(UW, m)  a == r & m  b == old & n
<1>1. n \in Unit /\ \A j \in 0 .. UW-1 : Bit(m, j) \in 0 .. 1 /\ Bit(n, j) = 1 - Bit(m, j)
  BY <1>0, InvBits
<1> HIDE DEF n
<1>2. a \in Unit /\ \A j \in 0 .. UW-1 : BitByBit(r, m, j)
  BY <1>0, WordBits
<1>3. b \in Unit /\ \A j \in 0 .. UW-1 : BitByBit(old, n, j)
  BY <1>0, <1>1, WordBits
<1>4. \A j \in 0 .. UW-1 : /\ Bit(a, j) = IF Bit(r, j) = 1 /\ Bit(m, j) = 1 THEN 1 ELSE 0
                           /\ Bit(b, j) = IF Bit(old, j) = 1 /\ Bit(n, j) = 1 THEN 1 ELSE 0
  BY <1>2, <1>3 DEF BitByBit
<1> HIDE DEF a, b
<1>5. (a | b) \in Unit /\ \A j \in 0 .. UW-1 : BitByBit(a, b, j)
  BY <1>0, <1>2, <1>3, WordBits
<1>6. \A j \in 0 .. UW-1 : Bit(a | b, j) = IF Bit(a, j) = 1 \/ Bit(b, j) = 1 THEN 1 ELSE 0
  BY <1>5 DEF BitByBit
<1>7. Mix(r, m, old) = (a | b)
  BY DEF Mix, a, b, n
<1> QED  BY <1>1, <1>4, <1>5, <1>6, <1>7

\* Places in a register are ordered as the bits are.
LEMMA PlaceOrder ==
  ASSUME NEW i \in Nat, NEW j \in Nat, i <= j
  PROVE  i \div UW <= j \div UW /\ (i \div UW = j \div UW => i % UW <= j % UW)
<1>1. UW \in Nat \ {0}
  BY UnitPowers
<1> DEFINE a == i \div UW  b == j \div UW  m == i % UW  n == j % UW
<1>2. i = UW * a + m /\ j = UW * b + n /\ a \in Int /\ b \in Int /\ m \in 0 .. UW-1 /\ n \in 0 .. UW-1
  <2>1. i \in Int /\ j \in Int
    OBVIOUS
  <2> QED  BY <1>1, <2>1, DivMod
<1> HIDE DEF a, b, m, n
<1>3. a <= b
  <2> SUFFICES ASSUME a >= b + 1 PROVE FALSE
    BY <1>2
  <2>1. UW * a >= UW * (b + 1) /\ UW * (b + 1) = UW * b + UW
    BY <1>1, <1>2
  <2> DEFINE y == UW * a  z == UW * b  w == UW * (b + 1)
  <2>2. y \in Int /\ z \in Int /\ y >= w /\ w = z + UW /\ i = y + m /\ j = z + n
    BY <1>1, <1>2, <2>1
  <2> HIDE DEF y, z, w
  <2> QED  BY <1>1, <1>2, <2>2
<1>4. a = b => m <= n
  <2> DEFINE y == UW * a
  <2>1. a = b => y \in Int /\ i = y + m /\ j = y + n
    BY <1>1, <1>2
  <2> HIDE DEF y
  <2> QED  BY <1>2, <2>1
<1> QED  BY <1>3, <1>4 DEF a, b, m, n

\* The byte loop from one bit to another is the operation on the bits between, and when
\* they lie in different bytes it keeps the bits before.
LEMMA LogicAcross ==
  ASSUME NEW op \in MaskLogic, NEW f \in Files, NEW from \in Nat, from < UW * VLENB,
         NEW to \in 0 .. UW * VLENB
  PROVE  LET g == BitwiseMaskBinaryOp(op, f, from, to) IN
         /\ g \in Files
         /\ to > 0 => \A i \in from .. to-1 :
              MaskBit(g, VdOdd, i) <=> LogicBit(op, MaskBit(f, Vs2, i), MaskBit(f, Vs1, i))
         /\ (to > 0 /\ from \div UW < (to-1) \div UW) => \A i \in 0 .. from-1 :
              MaskBit(g, VdOdd, i) <=> MaskBit(f, VdOdd, i)
<1>0. UW \in Nat \ {0} /\ VLENB \in Nat \ {0} /\ Powers(UW) /\ Unit = Word(UW) /\ UW * VLENB \in Nat
  BY UnitPowers
<1> DEFINE g == BitwiseMaskBinaryOp(op, f, from, to)
           sb == from \div UW  fm == from % UW  low == 2^fm - 1  sm == Inv(UW, low)
           eb == IF to = 0 THEN 0 ELSE (to - 1) \div UW
           tm == IF to = 0 THEN 0 ELSE ((to - 1) % UW) + 1
           em == IF to = 0 THEN 0 ELSE 2^(((to - 1) % UW) + 1) - 1
           res(u) == MaskLogicOp(op, f[Vs2][u], f[Vs1][u])
           old == f[VdOdd]
           first == [old EXCEPT ![sb] = Mix(res(sb), sm, old[sb])]
           middle == [u \in 0 .. VLENB-1 |-> IF u \in sb+1 .. eb-1 THEN res(u) ELSE first[u]]
           new == [middle EXCEPT ![eb] = Mix(res(eb), em, middle[eb])]
<1>1. g = [f EXCEPT ![VdOdd] = new]
  BY DEF BitwiseMaskBinaryOp, Mix, Inv, MaxU
<1>2. /\ f = [s \in Regs |-> f[s]]
      /\ \A s \in Regs : f[s] = [u \in 0 .. VLENB-1 |-> f[s][u]]
      /\ \A s \in Regs, u \in 0 .. VLENB-1 : f[s][u] \in Unit
  BY TypedFile DEF IsFile
<1>3. VdOdd \in Regs /\ Vs2 \in Regs /\ Vs1 \in Regs
  BY DEF VdOdd, Vs2, Vs1, Regs
<1>4. from \in Index /\ (to # 0 => to - 1 \in Index)
  BY <1>0 DEF Index
<1>5. sb \in 0 .. VLENB-1 /\ fm \in 0 .. UW-1
  BY <1>4, BitPlace
<1>6. eb \in 0 .. VLENB-1 /\ tm \in 0 .. UW
  <2>1. CASE to = 0
    BY <2>1, <1>0
  <2>2. CASE to # 0
    <3>1. (to - 1) \div UW \in 0 .. VLENB-1 /\ (to - 1) % UW \in 0 .. UW-1
      BY <2>2, <1>4, BitPlace
    <3> DEFINE m == (to - 1) % UW
    <3>2. m + 1 \in 0 .. UW
      <4>1. m \in 0 .. UW-1
        BY <3>1
      <4> HIDE DEF m
      <4> QED  BY <4>1, <1>0
    <3> QED  BY <2>2, <3>1, <3>2
  <2> QED  BY <2>1, <2>2
<1>7. em \in Unit /\ \A j \in 0 .. UW-1 : Bit(em, j) = IF j < tm THEN 1 ELSE 0
  <2>1. em = 2^tm - 1
    <3>1. 2^0 = 1
      OBVIOUS
    <3>2. CASE to = 0
      <4>1. tm = 0 /\ em = 0
        BY <3>2
      <4> HIDE DEF tm, em
      <4> QED  BY <4>1, <3>1
    <3>3. CASE to # 0
      BY <3>3
    <3> QED  BY <3>2, <3>3
  <2> HIDE DEF em, tm
  <2>2. 2^tm - 1 \in Word(UW) /\ \A j \in 0 .. UW-1 : Bit(2^tm - 1, j) = IF j < tm THEN 1 ELSE 0
    <3>1. UW \in Nat
      BY <1>0
    <3> QED  BY <3>1, <1>0, <1>6, LowBits, Zenon
  <2> QED  BY <1>0, <2>1, <2>2
<1>8. sm \in Unit /\ \A j \in 0 .. UW-1 : Bit(sm, j) = IF j < fm THEN 0 ELSE 1
  <2>0. UW \in Nat /\ fm \in 0 .. UW
    BY <1>0, <1>5
  <2> HIDE DEF fm
  <2>1. low \in Word(UW) /\ \A j \in 0 .. UW-1 : Bit(low, j) = IF j < fm THEN 1 ELSE 0
    BY <1>0, <2>0, LowBits, Zenon
  <2> HIDE DEF low
  <2>2. sm \in Word(UW) /\ \A j \in 0 .. UW-1 : Bit(sm, j) = 1 - Bit(low, j)
    BY <1>0, <2>0, <2>1, InvBits
  <2> QED  BY <1>0, <2>1, <2>2
<1>9. ASSUME NEW u \in 0 .. VLENB-1
      PROVE  /\ res(u) \in Unit /\ old[u] \in Unit
             /\ \A j \in 0 .. UW-1 :
                  (Bit(res(u), j) = 1) <=> LogicBit(op, Bit(f[Vs2][u], j) = 1, Bit(f[Vs1][u], j) = 1)
  <2> DEFINE a == f[Vs2][u]  b == f[Vs1][u]
  <2>1. a \in Unit /\ b \in Unit /\ old[u] \in Unit
    BY <1>2, <1>3
  <2> HIDE DEF a, b
  <2>2. /\ MaskLogicOp(op, a, b) \in Unit
        /\ \A j \in 0 .. UW-1 : (Bit(MaskLogicOp(op, a, b), j) = 1) <=> LogicBit(op, Bit(a, j) = 1, Bit(b, j) = 1)
    BY <2>1, LogicBits
  <2> QED  BY <2>1, <2>2 DEF a, b
<1> DEFINE Mixed(m, r, o, n) == /\ n \in Unit
             /\ \A j \in 0 .. UW-1 : (Bit(n, j) = 1) <=> IF Bit(m, j) = 1 THEN Bit(r, j) = 1 ELSE Bit(o, j) = 1
<1>10. old = [u \in 0 .. VLENB-1 |-> old[u]]
  BY <1>2, <1>3
<1> HIDE DEF sm, em, sb, eb, res, old, g, fm, tm
<1>11. Mixed(sm, res(sb), old[sb], Mix(res(sb), sm, old[sb]))
  <2>1. res(sb) \in Unit /\ old[sb] \in Unit
    BY <1>5, <1>9
  <2> QED  BY <1>8, <2>1, MixBits
<1>12. first = [u \in 0 .. VLENB-1 |-> IF u = sb THEN Mix(res(sb), sm, old[sb]) ELSE old[u]]
  BY <1>5, <1>10
<1> HIDE DEF first
<1>13. ASSUME NEW u \in 0 .. VLENB-1 PROVE middle[u] \in Unit
  <2>1. first[u] \in Unit
    BY <1>9, <1>11, <1>12
  <2> QED  BY <2>1, <1>9
<1>14. \A u \in 0 .. VLENB-1 : middle[u] = IF u \in sb+1 .. eb-1 THEN res(u)
                                          ELSE IF u = sb THEN Mix(res(sb), sm, old[sb]) ELSE old[u]
  BY <1>12
<1>15. middle = [u \in 0 .. VLENB-1 |-> middle[u]]
  OBVIOUS
<1> HIDE DEF middle
<1>16. Mixed(em, res(eb), middle[eb], Mix(res(eb), em, middle[eb]))
  <2>1. res(eb) \in Unit /\ middle[eb] \in Unit
    BY <1>6, <1>9, <1>13
  <2> QED  BY <1>7, <2>1, MixBits
<1>17. new = [u \in 0 .. VLENB-1 |-> IF u = eb THEN Mix(res(eb), em, middle[eb]) ELSE middle[u]]
  BY <1>6, <1>15
<1>18. new \in [0 .. VLENB-1 -> Unit]
  <2>1. ASSUME NEW u \in 0 .. VLENB-1 PROVE (IF u = eb THEN Mix(res(eb), em, middle[eb]) ELSE middle[u]) \in Unit
    BY <1>13, <1>16
  <2> QED  BY <1>17, <2>1
<1> HIDE DEF new
<1>19. g \in Files /\ g[VdOdd] = new
  BY <1>1, <1>2, <1>3, <1>18 DEF Files
<1>20. ASSUME NEW i \in Index
       PROVE  /\ i \div UW \in 0 .. VLENB-1 /\ i % UW \in 0 .. UW-1 /\ i \in Nat
              /\ MaskBit(g, VdOdd, i) <=> Bit(new[i \div UW], i % UW) = 1
              /\ MaskBit(f, VdOdd, i) <=> Bit(old[i \div UW], i % UW) = 1
              /\ LogicBit(op, MaskBit(f, Vs2, i), MaskBit(f, Vs1, i)) <=> Bit(res(i \div UW), i % UW) = 1
  <2>1. i \div UW \in 0 .. VLENB-1 /\ i % UW \in 0 .. UW-1 /\ i \in Nat
    BY BitPlace
  <2>2. (Bit(res(i \div UW), i % UW) = 1)
           <=> LogicBit(op, Bit(f[Vs2][i \div UW], i % UW) = 1, Bit(f[Vs1][i \div UW], i % UW) = 1)
    BY <1>9, <2>1
  <2> QED  BY <1>19, <2>1, <2>2 DEF MaskBit, old
<1>21. ASSUME to > 0, NEW i \in from .. to-1
       PROVE  MaskBit(g, VdOdd, i) <=> LogicBit(op, MaskBit(f, Vs2, i), MaskBit(f, Vs1, i))
  <2> DEFINE q == i \div UW  m == i % UW
  <2>1. i \in Index /\ to - 1 \in Nat /\ i \in Nat /\ i <= to - 1 /\ from <= i
    BY <1>0 DEF Index
  <2>2. q \in 0 .. VLENB-1 /\ m \in 0 .. UW-1
    BY <1>20, <2>1
  <2>3. q <= eb /\ (q = eb => m < tm)
    <3> DEFINE a == (to - 1) \div UW  b == (to - 1) % UW
    <3>1. q <= a /\ (q = a => m <= b)
      BY <2>1, PlaceOrder
    <3>2. eb = a /\ tm = b + 1
      BY <1>21 DEF eb, tm
    <3>3. b \in 0 .. UW-1
      <4>1. to - 1 \in Index
        BY <1>4, <1>21
      <4> QED  BY <4>1, BitPlace
    <3> HIDE DEF a, b, q, m
    <3> QED  BY <3>1, <3>2, <3>3, <2>2
  <2>4. sb <= q /\ (q = sb => ~(m < fm))
    <3>1. sb <= q /\ (sb = q => fm <= m)
      BY <2>1, PlaceOrder DEF sb, fm
    <3> HIDE DEF q, m
    <3> QED  BY <3>1, <2>2, <1>5
  <2> HIDE DEF q, m, Mixed
  <2>5. Bit(new[q], m) = 1 <=> Bit(res(q), m) = 1
    <3>1. CASE q = eb
      <4>1. new[q] = Mix(res(eb), em, middle[eb]) /\ Bit(em, m) = 1
        BY <1>7, <1>17, <2>2, <2>3, <3>1
      <4> QED  BY <1>16, <2>2, <3>1, <4>1 DEF Mixed
    <3>2. CASE q # eb /\ q = sb
      <4>1. new[q] = middle[q] /\ ~(q \in sb+1 .. eb-1)
        BY <1>5, <1>17, <2>2, <3>2
      <4>2. middle[q] = Mix(res(sb), sm, old[sb]) /\ Bit(sm, m) = 1
        BY <1>8, <1>14, <2>2, <2>4, <3>2, <4>1
      <4> QED  BY <1>11, <2>2, <3>2, <4>1, <4>2 DEF Mixed
    <3>3. CASE q # eb /\ q # sb
      <4>1. new[q] = middle[q] /\ q \in sb+1 .. eb-1
        BY <1>5, <1>6, <1>17, <2>2, <2>3, <2>4, <3>3
      <4>2. middle[q] = res(q)
        BY <1>14, <2>2, <4>1
      <4> QED  BY <4>1, <4>2
    <3> QED  BY <3>1, <3>2, <3>3
  <2> QED  BY <1>20, <2>1, <2>5 DEF q, m
<1>22. ASSUME to > 0, from \div UW < (to-1) \div UW, NEW i \in 0 .. from-1
       PROVE  MaskBit(g, VdOdd, i) <=> MaskBit(f, VdOdd, i)
  <2> DEFINE q == i \div UW  m == i % UW
  <2>1. i \in Index /\ i \in Nat /\ i + 1 <= from
    BY <1>0 DEF Index
  <2>2. q \in 0 .. VLENB-1 /\ m \in 0 .. UW-1
    BY <1>20, <2>1
  <2>3. sb < eb
    BY <1>22 DEF sb, eb
  <2>4. q <= sb /\ (q = sb => m < fm)
    <3>1. i <= from
      BY <2>1
    <3>2. q <= sb /\ (q = sb => m <= fm)
      BY <2>1, <3>1, PlaceOrder DEF sb, fm
    <3>3. (q = sb /\ m = fm) => i = from
      BY <1>4, <2>1, BitPlace DEF sb, fm
    <3> HIDE DEF q, m
    <3> QED  BY <3>2, <3>3, <2>1, <2>2, <1>5
  <2> HIDE DEF q, m, Mixed
  <2>5. new[q] = middle[q] /\ ~(q \in sb+1 .. eb-1)
    BY <1>5, <1>6, <1>17, <2>2, <2>3, <2>4
  <2>6. Bit(middle[q], m) = 1 <=> Bit(old[q], m) = 1
    <3>1. CASE q = sb
      <4>1. middle[q] = Mix(res(sb), sm, old[sb]) /\ Bit(sm, m) = 0
        BY <1>8, <1>14, <2>2, <2>4, <2>5, <3>1
      <4> QED  BY <1>11, <2>2, <3>1, <4>1 DEF Mixed
    <3>2. CASE q # sb
      BY <1>14, <2>2, <2>5, <3>2
    <3> QED  BY <3>1, <3>2
  <2> QED  BY <1>20, <2>1, <2>5, <2>6 DEF q, m
<1> QED  BY <1>19, <1>21, <1>22 DEF g

-----------------------------------------------------------------------------
(* Reductions: what the loop carries. *)

\* one step of a reduction, and the accumulator it starts with
Accumulate(op, a, e) ==
  LET w == Bits(sew) IN
  CASE op = "vredsum" -> Vredsum(w, a, e)   [] op = "vredand" -> Vredand(a, e)
    [] op = "vredor" -> Vredor(a, e)        [] op = "vredxor" -> Vredxor(a, e)
    [] op = "vredminu" -> Vredminu(a, e)    [] op = "vredmin" -> Vredmin(w, a, e)
    [] op = "vredmaxu" -> Vredmaxu(a, e)    [] op = "vredmax" -> Vredmax(w, a, e)
    [] op = "vwredsumu" -> Vwredsumu(w, a, e) [] op = "vwredsum" -> Vwredsum(w, a, e)
StartOf(op) ==
  IF op = "vwredsum" THEN Sext(Bits(sew), 2 * Bits(sew), Element(v, Vs1, sew, 0)) ELSE Element(v, Vs1, sew, 0)
\* h holds the accumulator after each element
Accumulated(op, h) ==
  /\ h \in [0 .. vl -> Nat] /\ h[0] = StartOf(op)
  /\ \A i \in 0 .. vl-1 : h[i + 1] = IF Active(i) THEN Accumulate(op, h[i], Src2(sew, i)) ELSE h[i]

\* A number cast to single or double width is a word of it.
LEMMA CastNaturals ==
  ASSUME LengthFits, NEW a \in Int
  PROVE  /\ Trunc(Bits(sew), a) \in Word(Bits(sew)) /\ Trunc(Bits(sew), a) \in Nat
         /\ Trunc(2 * Bits(sew), a) \in Word(2 * Bits(sew)) /\ Trunc(2 * Bits(sew), a) \in Nat
         /\ Signed(Bits(sew), a) \in Int
<1>1. sew \in 0 .. 2 * VLENB /\ 2 * sew \in 0 .. 2 * VLENB /\ 2 * Bits(sew) = Bits(2 * sew)
  BY OperandWidths, VectorAssumption
<1>2. Trunc(Bits(sew), a) \in Word(Bits(sew)) /\ Signed(Bits(sew), a) \in Int
  BY <1>1, CastNumbers
<1>3. Trunc(Bits(2 * sew), a) \in Word(Bits(2 * sew))
  BY <1>1, CastNumbers
<1> QED  BY <1>1, <1>2, <1>3 DEF Word

\* A step of a reduction makes a word of a word and an element.
LEMMA AccumulateNat ==
  ASSUME LengthFits, NEW op \in Reductions, NEW a \in Nat, NEW e \in Nat
  PROVE  Accumulate(op, a, e) \in Nat
<1> DEFINE w == Bits(sew)
<1>1. \A y \in Int : Trunc(w, y) \in Nat /\ Trunc(2 * w, y) \in Nat /\ Signed(w, y) \in Int
  BY CastNaturals
<1> HIDE DEF w
<1>2. a + e \in Int
  OBVIOUS
<1>3. Vredsum(w, a, e) \in Nat /\ Vwredsumu(w, a, e) \in Nat
  BY <1>1, <1>2 DEF Vredsum, Vwredsumu, Vadd
<1>4. Vwredsum(w, a, e) \in Nat
  <2>1. Sext(w, 2 * w, e) \in Nat
    BY <1>1 DEF Sext
  <2>2. a + Sext(w, 2 * w, e) \in Int
    BY <2>1
  <2> QED  BY <1>1, <2>2 DEF Vwredsum
<1>5. Vredand(a, e) \in Nat /\ Vredor(a, e) \in Nat /\ Vredxor(a, e) \in Nat
  BY AndBits, OrBits, XorBits DEF Vredand, Vredor, Vredxor
<1>6. Vredminu(a, e) \in Nat /\ Vredmaxu(a, e) \in Nat /\ Vredmin(w, a, e) \in Nat /\ Vredmax(w, a, e) \in Nat
  BY DEF Vredminu, Vredmaxu, Vredmin, Vredmax, Lesser, Greater, Vmin, Vmax
<1> QED  BY <1>3, <1>4, <1>5, <1>6 DEF Reductions, Accumulate, w

\* The result of a reduction is what its accumulator holds after the last element.
LEMMA ReducedLoop ==
  ASSUME VectorState, NEW op \in Reductions
  PROVE  \E h : Accumulated(op, h) /\ Reduced(op) = h[vl]
<1>1. LengthFits /\ vl \in Nat /\ vl <= max_vl /\ max_vl \in Nat
  BY LengthIndex DEF VectorState
<1>2. ASSUME NEW i \in 0 .. vl-1 PROVE Src2(sew, i) \in Nat
  <2>1. i \in Nat /\ i < max_vl
    <3> HIDE DEF max_vl
    <3> QED  BY <1>1
  <2>2. Vs2 \in 0 .. 16
    BY DEF Vs2
  <2> QED  BY <2>1, <2>2, OperandWords DEF Src2
<1>3. StartOf(op) \in Nat
  <2>1. Element(v, Vs1, sew, 0) \in Nat
    <3>1. Vs1 \in Regs
      BY DEF Vs1, Regs
    <3> QED  BY <3>1, FirstElement
  <2>2. Sext(Bits(sew), 2 * Bits(sew), Element(v, Vs1, sew, 0)) \in Nat
    <3> DEFINE e == Element(v, Vs1, sew, 0)
    <3> HIDE DEF e
    <3>1. Signed(Bits(sew), e) \in Int
      BY <1>1, <2>1, CastNaturals DEF e
    <3>2. Sext(Bits(sew), 2 * Bits(sew), e) \in Nat
      BY <1>1, <3>1, CastNaturals DEF Sext
    <3> QED  BY <3>2 DEF e
  <2> QED  BY <2>1, <2>2 DEF StartOf
<1> DEFINE step == [p \in (1 .. vl) \X Nat |->
                      IF Active(p[1] - 1) THEN Accumulate(op, p[2], Src2(sew, p[1] - 1)) ELSE p[2]]
           Eq(h) == h = [i \in 0 .. vl |-> IF i = 0 THEN StartOf(op)
                      ELSE IF Active(i - 1) THEN Accumulate(op, h[i - 1], Src2(sew, i - 1)) ELSE h[i - 1]]
           after == CHOOSE h : Eq(h)
<1>4. Reduced(op) = after[vl]
  BY Zenon DEF Reduced, Accumulate, StartOf
<1>5. ASSUME NEW n \in 1 .. vl, NEW a \in Nat
      PROVE  (IF Active(n - 1) THEN Accumulate(op, a, Src2(sew, n - 1)) ELSE a) \in Nat
  <2>1. n - 1 \in 0 .. vl-1
    BY <1>1
  <2>2. Src2(sew, n - 1) \in Nat
    BY <1>2, <2>1
  <2>3. Accumulate(op, a, Src2(sew, n - 1)) \in Nat
    BY <1>1, <2>2, AccumulateNat
  <2> QED  BY <2>3
<1>6. step \in [(1 .. vl) \X Nat -> Nat]
  BY <1>5
<1>7. \A n \in 1 .. vl, a \in Nat :
         step[<<n, a>>] = IF Active(n - 1) THEN Accumulate(op, a, Src2(sew, n - 1)) ELSE a
  OBVIOUS
<1> HIDE DEF step
<1>8. PICK g \in [0 .. vl -> Nat] : Follows(g, vl, StartOf(op), step)
  BY <1>1, <1>3, <1>6, LoopExists
<1>9. Eq(g)
  <2>1. ASSUME NEW i \in 0 .. vl
        PROVE  g[i] = IF i = 0 THEN StartOf(op)
                      ELSE IF Active(i - 1) THEN Accumulate(op, g[i - 1], Src2(sew, i - 1)) ELSE g[i - 1]
    <3>1. g[i] = IF i = 0 THEN StartOf(op) ELSE step[<<i, g[i-1]>>]
      BY <1>8 DEF Follows
    <3>2. CASE i # 0
      <4>1. i \in 1 .. vl /\ i - 1 \in 0 .. vl
        BY <1>1, <3>2
      <4>2. g[i-1] \in Nat
        BY <4>1, <1>8
      <4> QED  BY <4>1, <4>2, <3>1, <3>2, <1>7
    <3> QED  BY <3>1, <3>2
  <2>2. g = [i \in 0 .. vl |-> g[i]]
    BY <1>8
  <2> QED  BY <2>1, <2>2
<1>10. Eq(after)
  <2> HIDE DEF Eq
  <2> QED  BY <1>9, Zenon
<1> HIDE DEF after
<1>11. \A i \in 0 .. vl : after[i] = IF i = 0 THEN StartOf(op)
              ELSE IF Active(i - 1) THEN Accumulate(op, after[i - 1], Src2(sew, i - 1)) ELSE after[i - 1]
  BY <1>10
<1>12. after = [i \in 0 .. vl |-> after[i]]
  BY <1>10
<1> HIDE DEF Eq
<1>13. after[0] = StartOf(op)
  BY <1>1, <1>11
<1>14. ASSUME NEW i \in 0 .. vl-1
       PROVE  after[i + 1] = IF Active(i) THEN Accumulate(op, after[i], Src2(sew, i)) ELSE after[i]
  <2>1. i + 1 \in 0 .. vl /\ i + 1 # 0 /\ (i + 1) - 1 = i
    BY <1>1
  <2> DEFINE j == i + 1
  <2>2. after[j] = IF Active(j - 1) THEN Accumulate(op, after[j - 1], Src2(sew, j - 1)) ELSE after[j - 1]
    BY <1>11, <2>1
  <2> QED  BY <2>1, <2>2
<1>15. \A i \in 0 .. vl : after[i] \in Nat
  <2> DEFINE P == {i \in 0 .. vl : after[i] \in Nat}
  <2>1. 0 \in P
    BY <1>1, <1>3, <1>13
  <2>2. ASSUME NEW i \in 0 .. vl-1, i \in P PROVE i + 1 \in P
    <3>1. after[i] \in Nat /\ Src2(sew, i) \in Nat /\ i + 1 \in 0 .. vl
      BY <1>1, <1>2, <2>2
    <3>2. Accumulate(op, after[i], Src2(sew, i)) \in Nat
      BY <1>1, <3>1, AccumulateNat
    <3> QED  BY <1>14, <3>1, <3>2
  <2>3. 0 .. vl \subseteq P
    <3> HIDE DEF P
    <3> QED  BY <1>1, <2>1, <2>2, StepByStep
  <2> QED  BY <2>3
<1>16. after \in [0 .. vl -> Nat]
  BY <1>12, <1>15
<1>17. Accumulated(op, after)
  BY <1>13, <1>14, <1>16 DEF Accumulated
<1> QED  BY <1>4, <1>17

-----------------------------------------------------------------------------
(* Every instruction of the unit keeps the state. *)

\* all of the state but the length
Typed == v \in Files /\ vstart \in Nat /\ mem \in Memories /\ x \in Int

\* A loop up to vl that writes numbers.
LEMMA WholeLoopTyped ==
  ASSUME VectorState, NEW k \in Parts, NEW d \in Nat, NEW val, NEW wr, IntValues(val)
  PROVE  ElementLoop(v, d, k, vstart, vl, val, wr) \in Files
<1>1. v \in Files /\ vstart \in Nat /\ vl \in Nat
  BY LengthIndex DEF VectorState
<1>2. \A e \in vstart .. vl-1 : val[e] \in Int
  <2>1. \A e \in vstart .. vl-1 : e \in Nat /\ e < vl
    BY <1>1
  <2> QED  BY <2>1 DEF IntValues
<1> QED  BY <1>1, <1>2, LoopTyped

\* An instruction with the checks of a helper keeps the state when its loop does.
LEMMA GuardedTyped ==
  ASSUME VectorState, NEW ok \in BOOLEAN, NEW f, ok => f \in Files, Guarded(ok, f)
  PROVE  Typed'
<1>1. v \in Files /\ vstart \in Nat /\ mem \in Memories /\ x \in Int
  BY DEF VectorState
<1>2. CASE Nothing
  BY <1>1, <1>2 DEF Nothing, Typed, Memories, Files
<1>3. CASE Raise
  BY <1>1, <1>3 DEF Raise, Typed
<1>4. CASE ok /\ Write(f)
  BY <1>1, <1>4 DEF Write, Typed
<1> QED  BY <1>2, <1>3, <1>4 DEF Guarded

\* The arithmetic instructions write vectors of numbers.
LEMMA ArithmeticTyped ==
  ASSUME VectorState, NEW d \in {Vd, VdOdd}
  PROVE  /\ \A op \in SingleWidth, scalar \in BOOLEAN : BinaryVectorOp(op, d, scalar) => Typed'
         /\ WideningVectorOp(d) => Typed'
         /\ NarrowingVectorOp(Vs2) => Typed'
         /\ (MaskBinaryVectorOp(d) => Typed') /\ (TernaryVectorOp(d) => Typed')
         /\ UnaryVectorOp(d) => Typed'
         /\ (Viota(d) => Typed') /\ (Vid(d) => Typed')
<1>0. sew \in Parts /\ (sew < 8 => 2*sew \in Parts) /\ d \in Nat /\ Vs2 \in Nat
  BY Widths DEF VectorState, Vd, VdOdd, Vs2
<1>1. ASSUME NEW op \in SingleWidth, NEW scalar \in BOOLEAN, BinaryVectorOp(op, d, scalar) PROVE Typed'
  <2> DEFINE f == ElementLoop(v, d, sew, vstart, vl, BinaryValues(op, scalar), Masked)
             ok == LmulOk(sew) /\ Enough(d, sew)
  <2>1. f \in Files
    BY <1>0, ArithmeticValues, WholeLoopTyped
  <2>2. Guarded(ok, f) /\ ok \in BOOLEAN
    BY <1>1 DEF BinaryVectorOp
  <2> HIDE DEF f, ok
  <2> QED  BY <2>1, <2>2, GuardedTyped
<1>2. ASSUME WideningVectorOp(d) PROVE Typed'
  <2> DEFINE f == ElementLoop(v, d, 2*sew, vstart, vl, WideningValues, Masked)
             ok == Widens /\ Enough(d, 2*sew)
  <2>1. ok => f \in Files
    <3> SUFFICES ASSUME sew < 8 PROVE f \in Files
      BY DEF Widens
    <3> DEFINE k == 2*sew
    <3>1. k \in Parts /\ IntValues(WideningValues)
      BY <1>0, ArithmeticValues
    <3> HIDE DEF k
    <3>2. ElementLoop(v, d, k, vstart, vl, WideningValues, Masked) \in Files
      BY <1>0, <3>1, WholeLoopTyped
    <3> QED  BY <3>2 DEF k
  <2>2. Guarded(ok, f) /\ ok \in BOOLEAN
    BY <1>2 DEF WideningVectorOp
  <2> HIDE DEF f, ok
  <2> QED  BY <2>1, <2>2, GuardedTyped
<1>3. ASSUME NarrowingVectorOp(Vs2) PROVE Typed'
  <2> DEFINE f == ElementLoop(v, Vs2, sew, vstart, vl, NarrowingValues, Masked)
             ok == Widens /\ Enough(Vs2, sew)
  <2>1. ok => f \in Files
    <3> SUFFICES ASSUME sew < 8 PROVE f \in Files
      BY DEF Widens
    <3> QED  BY <1>0, ArithmeticValues, WholeLoopTyped
  <2>2. Guarded(ok, f) /\ ok \in BOOLEAN
    BY <1>3 DEF NarrowingVectorOp
  <2> HIDE DEF f, ok
  <2> QED  BY <2>1, <2>2, GuardedTyped
<1>4. ASSUME MaskBinaryVectorOp(d) PROVE Typed'
  <2> DEFINE f == ElementLoop(v, d, sew, vstart, vl, MergeValues, All)
             ok == LmulOk(sew) /\ Enough(d, sew)
  <2>1. f \in Files
    BY <1>0, ArithmeticValues, WholeLoopTyped
  <2>2. Guarded(ok, f) /\ ok \in BOOLEAN
    BY <1>4 DEF MaskBinaryVectorOp
  <2> HIDE DEF f, ok
  <2> QED  BY <2>1, <2>2, GuardedTyped
<1>5. ASSUME TernaryVectorOp(d) PROVE Typed'
  <2> DEFINE f == ElementLoop(v, d, sew, vstart, vl, TernaryValues(d), Masked)
             ok == LmulOk(sew) /\ Enough(d, sew)
  <2>1. f \in Files
    BY <1>0, ArithmeticValues, WholeLoopTyped
  <2>2. Guarded(ok, f) /\ ok \in BOOLEAN
    BY <1>5 DEF TernaryVectorOp
  <2> HIDE DEF f, ok
  <2> QED  BY <2>1, <2>2, GuardedTyped
<1>6. ASSUME UnaryVectorOp(d) PROVE Typed'
  <2> DEFINE f == ElementLoop(v, d, sew, vstart, vl, UnaryValues, Masked)
             ok == sew > 1 /\ LmulOk(sew) /\ LmulOk(sew \div 2) /\ Enough(d, sew)
  <2>1. ok => f \in Files
    <3> SUFFICES ASSUME sew > 1 PROVE f \in Files
      OBVIOUS
    <3> QED  BY <1>0, ArithmeticValues, WholeLoopTyped
  <2>2. Guarded(ok, f) /\ ok \in BOOLEAN
    BY <1>6 DEF UnaryVectorOp
  <2> HIDE DEF f, ok
  <2> QED  BY <2>1, <2>2, GuardedTyped
<1>7. ASSUME NEW val, IntValues(val), MaskNullaryVectorOp(d, val) PROVE Typed'
  <2> DEFINE f == ElementLoop(v, d, sew, vstart, vl, val, Masked)
             ok == Enough(d, sew)
  <2>1. f \in Files
    BY <1>0, <1>7, WholeLoopTyped
  <2>2. Guarded(ok, f) /\ ok \in BOOLEAN
    BY <1>7 DEF MaskNullaryVectorOp, Enough
  <2> HIDE DEF f, ok
  <2> QED  BY <2>1, <2>2, GuardedTyped
<1>8. (Viota(d) => Typed') /\ (Vid(d) => Typed')
  BY <1>7, ArithmeticValues DEF Viota, Vid
<1> QED  BY <1>1, <1>2, <1>3, <1>4, <1>5, <1>6, <1>8

\* The unary operation that also flags.
LEMMA FlagsTyped ==
  ASSUME VectorState, NEW d \in {Vd, VdOdd}, UnaryVectorOpWithFflags(d)
  PROVE  Typed'
<1>0. sew \in Parts /\ d \in Nat
  BY Widths DEF VectorState, Vd, VdOdd
<1>1. v \in Files /\ vstart \in Nat /\ mem \in Memories /\ x \in Int
  BY DEF VectorState
<1> DEFINE f == ElementLoop(v, d, sew, vstart, vl, FlaggedValues, Masked)
<1>2. f \in Files
  BY <1>0, ArithmeticValues, WholeLoopTyped
<1>3. \/ Nothing
      \/ Raise
      \/ v' = f /\ vstart' = 0 /\ mem' = mem /\ x' = x
  BY DEF UnaryVectorOpWithFflags
<1> HIDE DEF f
<1> QED  BY <1>1, <1>2, <1>3 DEF Nothing, Raise, Typed, Memories

\* The permutations write vectors of numbers.
LEMMA PermutationTyped ==
  ASSUME VectorState
  PROVE  /\ \A scalar \in BOOLEAN : Vrgather(Vd, scalar) => Typed'
         /\ Vrgatherei16(Vd) => Typed'
         /\ \A offset \in Int : (Vslideup(Vd, offset) => Typed') /\ (Vslidedown(Vd, offset) => Typed')
         /\ \A scalar \in Int : /\ (Vslide1up(Vd, scalar) => Typed') /\ (Vslide1down(Vd, scalar) => Typed')
                                /\ (Vfslide1up(Vd, scalar) => Typed') /\ (Vfslide1down(Vd, scalar) => Typed')
         /\ \A d \in {Vd, VdOdd} : Vcompress(d) => Typed'
         /\ \A n \in {1, 2, 4} : Vmvr(n, Vd) => Typed'
<1>0. sew \in Parts /\ Vd \in Nat /\ VdOdd \in Nat
  BY Widths DEF VectorState, Vd, VdOdd
<1>1. v \in Files /\ vstart \in Nat /\ mem \in Memories /\ x \in Int
  BY DEF VectorState
<1>2. ASSUME NEW val, NEW wr, NEW ok \in BOOLEAN, IntValues(val),
             Guarded(ok, ElementLoop(v, Vd, sew, vstart, vl, val, wr))
      PROVE  Typed'
  <2> DEFINE f == ElementLoop(v, Vd, sew, vstart, vl, val, wr)
  <2>1. f \in Files
    BY <1>0, <1>2, WholeLoopTyped
  <2>2. Guarded(ok, f)
    BY <1>2
  <2> HIDE DEF f
  <2> QED  BY <2>1, <2>2, GuardedTyped
<1>3. ASSUME NEW val, NEW wr, IntValues(val), Permute(Vd, val, wr) PROVE Typed'
  <2>1. Guarded(PermuteRegs(Vd), ElementLoop(v, Vd, sew, vstart, vl, val, wr))
    BY <1>3 DEF Permute
  <2>2. PermuteRegs(Vd) \in BOOLEAN
    BY DEF PermuteRegs
  <2> QED  BY <2>1, <2>2, <1>2, <1>3
<1>4. ASSUME Step /\ Nothing PROVE Typed'
  BY <1>1, <1>4 DEF Nothing, Typed
<1>5. ASSUME Step /\ Raise PROVE Typed'
  BY <1>1, <1>5 DEF Raise, Typed
<1>6. \A scalar \in BOOLEAN : Vrgather(Vd, scalar) => Typed'
  BY <1>3, PermutedValues DEF Vrgather
<1>7. Vrgatherei16(Vd) => Typed'
  <2> DEFINE ok == (lmul * 2) \div sew <= 64 /\ PermuteRegs(Vd)
  <2>1. ok \in BOOLEAN
    OBVIOUS
  <2>2. Vrgatherei16(Vd) => Guarded(ok, ElementLoop(v, Vd, sew, vstart, vl, GatherValues(2, FALSE), ItemMask))
    BY DEF Vrgatherei16
  <2> HIDE DEF ok
  <2> QED  BY <2>1, <2>2, <1>2, PermutedValues
<1>8. ASSUME NEW offset \in Int
      PROVE  (Vslideup(Vd, offset) => Typed') /\ (Vslidedown(Vd, offset) => Typed')
  <2>1. -offset \in Int
    OBVIOUS
  <2>2. IntValues(SlideValues(offset)) /\ IntValues(SlideValues(-offset))
    BY <2>1, PermutedValues
  <2> QED  BY <2>2, <1>3, <1>4 DEF Vslideup, Vslidedown
<1>9. ASSUME NEW scalar \in Int
      PROVE  /\ (Vslide1up(Vd, scalar) => Typed') /\ (Vslide1down(Vd, scalar) => Typed')
             /\ (Vfslide1up(Vd, scalar) => Typed') /\ (Vfslide1down(Vd, scalar) => Typed')
  <2>1. 1 \in Int /\ -1 \in Int
    OBVIOUS
  <2>2. IntValues(Slide1Values(1, scalar)) /\ IntValues(Slide1Values(-1, scalar))
    BY <2>1, PermutedValues
  <2>3. (Vslide1up(Vd, scalar) => Typed') /\ (Vslide1down(Vd, scalar) => Typed')
    BY <2>2, <1>3 DEF Vslide1up, Vslide1down
  <2> QED  BY <2>3, <1>5 DEF Vfslide1up, Vfslide1down, Vfslide1
<1>10. ASSUME NEW d \in {Vd, VdOdd}, Vcompress(d) PROVE Typed'
  <2>1. CompressResult(v, d) \in Files
    BY <1>0, CompressTyped
  <2>2. PermuteRegs(d) \in BOOLEAN
    BY DEF PermuteRegs
  <2> QED  BY <1>10, <2>1, <2>2, GuardedTyped DEF Vcompress
<1>11. ASSUME NEW n \in {1, 2, 4}, Vmvr(n, Vd) PROVE Typed'
  <2> DEFINE ok == GroupSize(Vs2) >= n /\ GroupSize(Vd) >= n
  <2>1. VmvrResult(n) \in Files /\ ok \in BOOLEAN
    BY VmvrTyped
  <2>2. Guarded(ok, VmvrResult(n))
    BY <1>11 DEF Vmvr
  <2> HIDE DEF ok
  <2> QED  BY <2>1, <2>2, GuardedTyped
<1> QED  BY <1>6, <1>7, <1>8, <1>9, <1>10, <1>11

\* The first of a set of elements is one, and none of them lies before it.
LEMMA FirstIsFirst ==
  ASSUME vl \in Nat, NEW els \in SUBSET (0 .. vl-1)
  PROVE  /\ FirstOf(els) \in 0 .. vl
         /\ els = {} => FirstOf(els) = vl
         /\ els # {} => FirstOf(els) \in els
         /\ \A i \in els : FirstOf(els) <= i
<1>1. CASE els = {}
  BY <1>1 DEF FirstOf
<1>2. CASE els # {}
  <2>1. els \subseteq Nat
    OBVIOUS
  <2>2. \E k \in els : \A j \in els : k <= j
    BY <2>1, <1>2, LeastNumber
  <2> DEFINE m == CHOOSE k \in els : \A j \in els : k <= j
  <2>3. m \in els /\ \A j \in els : m <= j
    BY <2>2
  <2>4. FirstOf(els) = m
    BY <1>2 DEF FirstOf, Min
  <2> HIDE DEF m
  <2> QED  BY <2>1, <2>3, <2>4, <1>2
<1> QED  BY <1>1, <1>2

\* Sets of elements below vl lie in a mask register.
LEMMA ElementsInIndex ==
  ASSUME LengthFits
  PROVE  0 .. vl-1 \subseteq Index /\ \A i \in 0 .. vl-1 : i \in Nat /\ i < max_vl /\ i < vl
<1>1. max_vl \in Nat /\ vl \in Nat /\ vl <= max_vl /\ \A j \in Nat : j < max_vl => j \in Index
  BY LengthIndex
<1> HIDE DEF max_vl, Index
<1>2. \A i \in 0 .. vl-1 : i \in Nat /\ i < max_vl /\ i < vl
  BY <1>1
<1> QED  BY <1>1, <1>2

\* The mask results are register files.
LEMMA MaskResults ==
  ASSUME VectorState
  PROVE  /\ SetBits(v, VdOdd, {i \in vstart .. vl-1 : Active(i)}, CompareBits) \in Files
         /\ SetBits(v, VdOdd, vstart .. vl-1, CarryBits) \in Files
         /\ VmsbfResult(v) \in Files /\ VmsifResult(v) \in Files /\ VmsofResult(v) \in Files
<1>0. v \in Files /\ VdOdd \in Regs /\ vstart \in Nat /\ vl \in Nat /\ LengthFits
  BY LengthIndex DEF VectorState, VdOdd, Regs
<1>1. 0 .. vl-1 \subseteq Index
  BY <1>0, ElementsInIndex
<1>2. vstart .. vl-1 \subseteq Index
  <2>1. vstart .. vl-1 \subseteq 0 .. vl-1
    BY <1>0
  <2> QED  BY <1>1, <2>1
<1>3. ASSUME NEW is \in SUBSET Index, NEW val, \A i \in is : val[i] \in BOOLEAN
      PROVE  SetBits(v, VdOdd, is, val) \in Files
  BY <1>0, <1>3, SetBitsBits, Zenon
<1>4. SetBits(v, VdOdd, {i \in vstart .. vl-1 : Active(i)}, CompareBits) \in Files
  <2> DEFINE is == {i \in vstart .. vl-1 : Active(i)}
  <2>1. is \in SUBSET Index
    BY <1>2
  <2>2. \A i \in is : CompareBits[i] \in BOOLEAN
    BY <2>1 DEF CompareBits
  <2> HIDE DEF is
  <2>3. SetBits(v, VdOdd, is, CompareBits) \in Files
    BY <2>1, <2>2, <1>3
  <2> QED  BY <2>3 DEF is
<1>5. SetBits(v, VdOdd, vstart .. vl-1, CarryBits) \in Files
  <2> DEFINE is == vstart .. vl-1
  <2>1. is \in SUBSET Index
    BY <1>2
  <2>2. \A i \in is : CarryBits[i] \in BOOLEAN
    BY <2>1 DEF CarryBits
  <2> HIDE DEF is
  <2>3. SetBits(v, VdOdd, is, CarryBits) \in Files
    BY <2>1, <2>2, <1>3
  <2> QED  BY <2>3 DEF is
<1>6. ASSUME NEW is \in SUBSET (0 .. vl-1), NEW val, \A i \in Index : val[i] \in BOOLEAN
      PROVE  SetBits(v, VdOdd, is, val) \in Files
  <2>1. is \in SUBSET Index
    BY <1>1
  <2> QED  BY <2>1, <1>3, <1>6
<1>7. VmsbfResult(v) \in Files
  <2> DEFINE first == FirstOf(MaskSet(v, Vs2))
             is == {i \in 0 .. vl-1 : i >= first \/ Active(i)}  val == [i \in Index |-> i < first]
  <2>1. is \in SUBSET (0 .. vl-1) /\ \A i \in Index : val[i] \in BOOLEAN
    OBVIOUS
  <2>2. VmsbfResult(v) = SetBits(v, VdOdd, is, val)
    BY DEF VmsbfResult
  <2> HIDE DEF is, val
  <2> QED  BY <2>1, <2>2, <1>6
<1>8. VmsifResult(v) \in Files
  <2> DEFINE first == FirstOf(MaskSet(v, Vs2))
             is == {i \in 0 .. vl-1 : Active(i)}  val == [i \in Index |-> i <= first]
  <2>1. is \in SUBSET (0 .. vl-1) /\ \A i \in Index : val[i] \in BOOLEAN
    OBVIOUS
  <2>2. VmsifResult(v) = SetBits(v, VdOdd, is, val)
    BY DEF VmsifResult
  <2> HIDE DEF is, val
  <2> QED  BY <2>1, <2>2, <1>6
<1>9. VmsofResult(v) \in Files
  <2> DEFINE first == FirstOf(MaskSet(v, Vs2))
             is == {i \in 0 .. vl-1 : Active(i)}  val == [i \in Index |-> i = first]
  <2>1. is \in SUBSET (0 .. vl-1) /\ \A i \in Index : val[i] \in BOOLEAN
    OBVIOUS
  <2>2. VmsofResult(v) = SetBits(v, VdOdd, is, val)
    BY DEF VmsofResult
  <2> HIDE DEF is, val
  <2> QED  BY <2>1, <2>2, <1>6
<1> QED  BY <1>4, <1>5, <1>7, <1>8, <1>9

\* The instructions on masks keep the state.
LEMMA MasksTyped ==
  ASSUME VectorState
  PROVE  /\ BinaryVectorMaskOp => Typed'
         /\ SetMaskBinaryVectorMaskOp => Typed'
         /\ \A op \in MaskLogic : MaskLogical(op) => Typed'
         /\ Vcpop => Typed'
         /\ Vfirst => Typed'
         /\ (Vmsbf \/ Vmsif \/ Vmsof) => Typed'
<1>0. /\ v \in Files /\ vstart \in Nat /\ mem \in Memories /\ x \in Int /\ vl \in Nat /\ LengthFits
      /\ vl <= UW * VLENB /\ UW * VLENB \in Nat
  <2>1. LengthFits
    BY DEF VectorState
  <2>2. vl \in Nat /\ max_vl \in Nat /\ vl <= max_vl /\ max_vl <= UW * VLENB
    BY <2>1, LengthIndex
  <2>3. UW * VLENB \in Nat
    BY UnitPowers
  <2> HIDE DEF max_vl
  <2> QED  BY <2>1, <2>2, <2>3 DEF VectorState
<1>1. ASSUME NEW f \in Files, Guarded(TRUE, f) PROVE Typed'
  BY <1>1, GuardedTyped
<1>2. (BinaryVectorMaskOp => Typed') /\ (SetMaskBinaryVectorMaskOp => Typed')
  BY <1>1, MaskResults DEF BinaryVectorMaskOp, SetMaskBinaryVectorMaskOp
<1>3. ASSUME NEW op \in MaskLogic, MaskLogical(op) PROVE Typed'
  <2> DEFINE n == UW * VLENB
  <2>1. vstart < n /\ Guarded(TRUE, BitwiseMaskBinaryOp(op, v, vstart, vl))
    <3>1. VLENB * UW = n
      BY UnitPowers
    <3> QED  BY <3>1, <1>3 DEF MaskLogical
  <2>2. vl \in 0 .. n
    <3>1. vl <= n /\ n \in Nat /\ vl \in Nat
      BY <1>0
    <3> HIDE DEF n
    <3> QED  BY <3>1
  <2>3. BitwiseMaskBinaryOp(op, v, vstart, vl) \in Files
    BY <1>0, <2>1, <2>2, LogicAcross
  <2> QED  BY <2>1, <2>3, <1>1
<1>4. ASSUME NEW r PROVE MaskSet(v, r) \in SUBSET (0 .. vl-1) /\ Cardinality(MaskSet(v, r)) \in Nat
  <2>1. MaskSet(v, r) \in SUBSET (0 .. vl-1)
    BY DEF MaskSet
  <2>2. IsFiniteSet(0 .. vl-1)
    BY <1>0, FS_Interval
  <2> QED  BY <2>1, <2>2, FS_Subset, FS_CardinalityType
<1>5. ASSUME NEW n \in Int, AtStart(Scalar(n)) PROVE Typed'
  BY <1>0, <1>5 DEF AtStart, Scalar, Raise, Typed
<1>6. ASSUME NEW f \in Files, AtStart(Write(f)) PROVE Typed'
  BY <1>0, <1>6 DEF AtStart, Write, Raise, Typed
<1>7. Vcpop => Typed'
  <2>1. Cardinality(MaskSet(v, Vs2)) \in Int
    BY <1>4
  <2> QED  BY <2>1, <1>5 DEF Vcpop
<1>8. Vfirst => Typed'
  <2> DEFINE n == IF MaskSet(v, Vs2) = {} THEN -1 ELSE FirstOf(MaskSet(v, Vs2))
  <2>1. n \in Int
    <3>1. FirstOf(MaskSet(v, Vs2)) \in 0 .. vl
      BY <1>0, <1>4, FirstIsFirst
    <3> QED  BY <3>1, <1>0
  <2>2. Vfirst => AtStart(Scalar(n))
    BY DEF Vfirst
  <2> HIDE DEF n
  <2> QED  BY <2>1, <2>2, <1>5
<1>9. (Vmsbf \/ Vmsif \/ Vmsof) => Typed'
  BY <1>6, MaskResults DEF Vmsbf, Vmsif, Vmsof
<1> QED  BY <1>2, <1>3, <1>7, <1>8, <1>9

\* The moves of element 0 and the reductions keep the state.
LEMMA MovesTyped ==
  ASSUME VectorState
  PROVE  /\ (VmvToScalar \/ VmvFromScalar \/ Vfmvsf) => Typed'
         /\ \A flen \in FloatWidths : Vfmvfs(flen) => Typed'
         /\ \A op \in Reductions : ReductionVectorOp(op, VdOdd) => Typed'
<1>0. v \in Files /\ vstart \in Nat /\ mem \in Memories /\ x \in Int /\ vl \in Nat /\ LengthFits
  BY LengthIndex DEF VectorState
<1>1. /\ sew \in Parts /\ (sew < 8 => 2*sew \in Parts) /\ sew \in {1, 2, 4, 8}
      /\ sew \in 0 .. 2 * VLENB
  BY <1>0, Widths, OperandWidths, VectorAssumption
<1>2. ASSUME Nothing \/ Raise PROVE Typed'
  BY <1>0, <1>2 DEF Nothing, Raise, Typed
<1>3. Src2(sew, 0) \in Nat
  <2>1. Vs2 \in Regs
    BY DEF Vs2, Regs
  <2> QED  BY <2>1, FirstElement DEF Src2
<1>4. ASSUME NEW n \in Int, Scalar(n) PROVE Typed'
  BY <1>0, <1>4 DEF Scalar, Typed
<1>5. VmvToScalar => Typed'
  <2>1. Signed(Bits(sew), Src2(sew, 0)) \in Int
    BY <1>1, <1>3, CastNumbers
  <2> QED  BY <2>1, <1>2, <1>4 DEF VmvToScalar
<1>6. Put(v, Vd, sew, 0, Trunc(Bits(sew), x)) \in Files
  <2> DEFINE n == Trunc(Bits(sew), x)
  <2>1. n \in Int
    BY <1>0, <1>1, CastNumbers
  <2> HIDE DEF n
  <2>2. Put(v, Vd, sew, 0, n) \in Files
    BY <1>0, <1>1, <2>1, PutTyped
  <2> QED  BY <2>2 DEF n
<1>7. (VmvFromScalar \/ Vfmvsf) => Typed'
  <2> DEFINE f == Put(v, Vd, sew, 0, Trunc(Bits(sew), x))
  <2>1. (VmvFromScalar \/ Vfmvsf) =>
           \/ Nothing
           \/ Raise
           \/ v' = f /\ UNCHANGED <<vstart, x, mem>>
           \/ Write(f)
    BY DEF VmvFromScalar, Vfmvsf
  <2>2. f \in Files
    BY <1>6
  <2> HIDE DEF f
  <2>3. ASSUME v' = f /\ UNCHANGED <<vstart, x, mem>> PROVE Typed'
    BY <2>2, <2>3, <1>0 DEF Typed
  <2>4. ASSUME Write(f) PROVE Typed'
    BY <2>2, <2>4, <1>0 DEF Write, Typed
  <2> QED  BY <2>1, <2>3, <2>4, <1>2
<1>8. ASSUME NEW flen \in FloatWidths, Vfmvfs(flen) PROVE Typed'
  <2> DEFINE n == BoxedIn(flen, sew, Src2(sew, 0))
  <2>1. n \in Int
    <3>1. flen \in 0 .. 2 * VLENB
      <4>1. flen \in {1, 2, 4, 8} /\ VLENB \in Nat \ {0} /\ VLENB % 4 = 0
        BY VectorAssumption
      <4>2. VLENB >= 4
        BY <4>1
      <4> QED  BY <4>1, <4>2
    <3>2. 2^Bits(flen) \in Nat /\ 2^Bits(sew) \in Nat
      BY <3>1, <1>1, CastNumbers
    <3> QED  BY <3>2, <1>3 DEF BoxedIn
  <2>2. \/ Raise
        \/ x' = n /\ vstart' = 0 /\ UNCHANGED <<v, mem>>
    BY <1>8 DEF Vfmvfs
  <2> HIDE DEF n
  <2> QED  BY <2>1, <2>2, <1>0, <1>2 DEF Typed
<1>9. ASSUME NEW op \in Reductions, ReductionVectorOp(op, VdOdd) PROVE Typed'
  <2> DEFINE k == IF op \in {"vwredsum", "vwredsumu"} THEN 2*sew ELSE sew
             ok == k <= 8 /\ LmulOk(k) /\ LmulOk(sew)
             f == Put(v, VdOdd, k, 0, Reduced(op))
  <2>1. Nothing \/ Guarded(ok, f)
    BY <1>9 DEF ReductionVectorOp
  <2>2. ok => f \in Files
    <3> SUFFICES ASSUME k <= 8 PROVE f \in Files
      OBVIOUS
    <3>1. k \in Parts
      <4>1. CASE op \in {"vwredsum", "vwredsumu"}
        <5>1. 2*sew <= 8
          BY <4>1
        <5>2. sew < 8
          BY <5>1, <1>1
        <5> QED  BY <5>2, <4>1, <1>1
      <4>2. CASE op \notin {"vwredsum", "vwredsumu"}
        BY <4>2, <1>1
      <4> QED  BY <4>1, <4>2
    <3>2. Reduced(op) \in Int
      <4>1. PICK h : Accumulated(op, h) /\ Reduced(op) = h[vl]
        BY ReducedLoop
      <4>2. h[vl] \in Nat
        BY <4>1, <1>0 DEF Accumulated
      <4> QED  BY <4>1, <4>2
    <3> HIDE DEF k
    <3> QED  BY <1>0, <3>1, <3>2, PutTyped
  <2>3. ok \in BOOLEAN
    OBVIOUS
  <2> HIDE DEF ok, f
  <2> QED  BY <2>1, <2>2, <2>3, <1>2, GuardedTyped
<1> QED  BY <1>5, <1>7, <1>8, <1>9

\* Every step of the unit keeps the state, the length apart.
LEMMA UnitTyped ==
  ASSUME VectorState, UnitNext
  PROVE  Typed'
<1>0. /\ v \in Files /\ vstart \in Nat /\ mem \in Memories /\ x \in Int /\ vl \in Nat /\ max_vl \in Nat
  BY LengthIndex DEF VectorState
<1>1. ASSUME NEW rd_zero \in BOOLEAN, NEW rs1_zero \in BOOLEAN, NEW avl \in 0 .. 5, NEW t \in VTypes,
             Vsetvl(rd_zero, rs1_zero, avl, t)
      PROVE  Typed'
  <2>1. MaxVl(t) \in Nat
    BY <1>1, MaxVlIsNat DEF Vsetvl
  <2>2. v' = v /\ mem' = mem /\ vstart' = vstart
    BY <1>1 DEF Vsetvl, Raise
  <2>3. x' \in Int
    <3>1. x' \in {x, avl, MaxVl(t)}
      BY <1>1 DEF Vsetvl, Raise
    <3> QED  BY <3>1, <2>1, <1>0
  <2> QED  BY <2>2, <2>3, <1>0 DEF Typed
<1>2. ASSUME NEW n \in 0 .. max_vl, WriteVstart(n) PROVE Typed'
  <2>1. n \in Nat
    <3> HIDE DEF max_vl
    <3> QED  BY <1>0
  <2> QED  BY <1>0, <1>2, <2>1 DEF WriteVstart, Typed
<1>3. ASSUME \/ \E op \in SingleWidth, d \in {Vd, VdOdd}, scalar \in BOOLEAN : BinaryVectorOp(op, d, scalar)
             \/ \E d \in {Vd, VdOdd} : \/ WideningVectorOp(d) \/ MaskBinaryVectorOp(d) \/ TernaryVectorOp(d)
                              \/ UnaryVectorOp(d) \/ UnaryVectorOpWithFflags(d) \/ Viota(d) \/ Vid(d) \/ Vcompress(d)
             \/ NarrowingVectorOp(Vs2)
      PROVE Typed'
  <2>1. Vd \in {Vd, VdOdd}
    OBVIOUS
  <2> QED  BY <1>3, <2>1, ArithmeticTyped, FlagsTyped, PermutationTyped
<1>4. ASSUME \/ BinaryVectorMaskOp \/ SetMaskBinaryVectorMaskOp
             \/ \E op \in MaskLogic : MaskLogical(op)
             \/ Vcpop \/ Vfirst \/ Vmsbf \/ Vmsif \/ Vmsof
      PROVE Typed'
  BY <1>4, MasksTyped
<1>5. ASSUME \/ VmvToScalar \/ VmvFromScalar
             \/ \E op \in Reductions : ReductionVectorOp(op, VdOdd)
             \/ Vfmvsf
             \/ \E flen \in FloatWidths : flen >= sew /\ Vfmvfs(flen)
      PROVE Typed'
  BY <1>5, MovesTyped
<1>6. ASSUME \/ \E scalar \in BOOLEAN : Vrgather(Vd, scalar)
             \/ Vrgatherei16(Vd)
             \/ \E offset \in 0 .. 5 : Vslideup(Vd, offset) \/ Vslidedown(Vd, offset)
             \/ \E scalar \in {0, 3} : Vslide1up(Vd, scalar) \/ Vslide1down(Vd, scalar)
                              \/ Vfslide1up(Vd, scalar) \/ Vfslide1down(Vd, scalar)
             \/ \E n \in {1, 2, 4} : Vmvr(n, Vd)
      PROVE Typed'
  <2>1. \A offset \in 0 .. 5 : offset \in Int
    OBVIOUS
  <2>2. \A scalar \in {0, 3} : scalar \in Int
    OBVIOUS
  <2> QED  BY <1>6, <2>1, <2>2, PermutationTyped
<1> QED  BY <1>1, <1>2, <1>3, <1>4, <1>5, <1>6 DEF UnitNext

-----------------------------------------------------------------------------
(* Memory: what loads read and stores leave. *)

\* A load of up to twice the bytes of a register reads a number.
LEMMA LoadNumber ==
  ASSUME NEW mm \in Memories, NEW k \in 0 .. 2 * VLENB, NEW a \in Int
  PROVE  LoadAt(mm, k, a) \in Int
<1>0. VLENB \in Nat \ {0} /\ MemSize \in Nat \ {0} /\ Unit \subseteq Nat
  BY VectorAssumption DEF MemSize, Unit, Word
<1> DEFINE F == [j \in 0 .. k-1 |-> mm[(a + j) % MemSize] * 2^(UW * j)]
<1>1. ASSUME NEW j \in 0 .. k-1 PROVE mm[(a + j) % MemSize] * 2^(UW * j) \in Nat
  <2> DEFINE p == (a + j) % MemSize  q == 2^(UW * j)
  <2>1. p \in 0 .. MemSize-1
    <3>1. a + j \in Int
      BY <1>0
    <3> QED  BY <1>0, <3>1, DivMod
  <2>2. j \in 0 .. 2 * VLENB
    BY <1>0
  <2>3. q \in Nat
    BY <2>2, BytePow
  <2> HIDE DEF p, q
  <2>4. mm[p] \in Nat
    BY <1>0, <2>1 DEF Memories
  <2>5. mm[p] * q \in Nat
    BY <2>3, <2>4
  <2> QED  BY <2>5 DEF p, q
<1>2. F \in [0 .. k-1 -> Nat]
  BY <1>1
<1>3. IsFiniteSet(0 .. k-1)
  BY <1>0, FS_Interval
<1> HIDE DEF F
<1>4. SumFunction(F) \in Nat
  BY <1>2, <1>3, SumPoints
<1> QED  BY <1>4 DEF LoadAt, F

\* A store leaves a memory of bytes.
LEMMA StoreAtTyped ==
  ASSUME NEW mm \in Memories, NEW k \in 0 .. VLENB, NEW a \in Int, NEW value \in Int
  PROVE  StoreAt(mm, k, a, value) \in Memories
<1>0. VLENB \in Nat \ {0} /\ MemSize \in Nat \ {0}
  BY VectorAssumption DEF MemSize
<1>1. ASSUME NEW u \in 0 .. MemSize-1
      PROVE  (LET j == (u - a) % MemSize IN IF j < k THEN Shr(value, UW * j) % 2^UW ELSE mm[u]) \in Unit
  <2> DEFINE j == (u - a) % MemSize
  <2>1. j \in 0 .. MemSize-1
    <3>1. u - a \in Int
      BY <1>0
    <3> QED  BY <1>0, <3>1, DivMod
  <2> HIDE DEF j
  <2>2. j < k => Shr(value, UW * j) % 2^UW \in Unit
    <3> SUFFICES ASSUME j < k PROVE Shr(value, UW * j) % 2^UW \in Unit
      OBVIOUS
    <3>1. j \in 0 .. VLENB
      BY <1>0, <2>1
    <3> QED  BY <3>1, ByteOfNumber
  <2>3. mm[u] \in Unit
    BY DEF Memories
  <2>4. (IF j < k THEN Shr(value, UW * j) % 2^UW ELSE mm[u]) \in Unit
    BY <2>2, <2>3
  <2> QED  BY <2>4 DEF j
<1>2. DOMAIN mm = 0 .. MemSize-1
  BY DEF Memories
<1> QED  BY <1>1, <1>2 DEF StoreAt, Memories

\* one entry of a store
StoreOne(mm, k, e) == IF e.m THEN StoreAt(mm, k, e.a, e.v) ELSE mm
\* n entries of a store: addresses and values are numbers
EntriesTo(n, entries) ==
  /\ DOMAIN entries = 1 .. n
  /\ \A i \in 1 .. n : entries[i].a \in Int /\ entries[i].v \in Int
\* h holds the memory after each entry
StoresInOrder(h, mm, k, n, entries) ==
  /\ h \in [0 .. n -> Memories] /\ h[0] = mm
  /\ \A i \in 0 .. n-1 : h[i + 1] = StoreOne(h[i], k, entries[i + 1])

\* The last of the entries from 1 to i is i.
LEMMA LastOf ==
  ASSUME NEW n \in Nat, NEW els \in SUBSET (1 .. n), els # {}
  PROVE  Max(els) \in els /\ \A i \in 1 .. n : els = 1 .. i => Max(els) = i
<1> DEFINE T == {k \in Nat : n - k \in els}
<1>1. T \subseteq Nat /\ T # {}
  <2>1. PICK e \in els : TRUE
    OBVIOUS
  <2>2. n - e \in Nat /\ n - (n - e) = e
    BY <2>1
  <2> QED  BY <2>1, <2>2
<1>2. PICK k \in T : \A j \in T : k <= j
  <2> HIDE DEF T
  <2> QED  BY <1>1, LeastNumber
<1>3. n - k \in els /\ \A j \in els : n - k >= j
  <2>1. n - k \in els /\ k \in Nat
    BY <1>2
  <2>2. ASSUME NEW j \in els PROVE n - k >= j
    <3>1. n - j \in Nat /\ n - (n - j) = j
      BY <2>2
    <3>2. n - j \in T
      BY <3>1
    <3>3. k <= n - j
      BY <1>2, <3>2
    <3> QED  BY <2>1, <3>1, <3>3
  <2> QED  BY <2>1, <2>2
<1> DEFINE m == CHOOSE e \in els : \A j \in els : e >= j
<1>4. m \in els /\ \A j \in els : m >= j
  BY <1>3
<1>5. Max(els) = m
  BY DEF Max
<1> HIDE DEF m
<1>6. ASSUME NEW i \in 1 .. n, els = 1 .. i PROVE m = i
  <2>1. i \in els /\ m \in 1 .. i
    BY <1>4, <1>6
  <2>2. m >= i
    BY <1>4, <2>1
  <2> QED  BY <2>1, <2>2
<1> QED  BY <1>4, <1>5, <1>6

\* A store handles its entries in their order.
LEMMA StoreLoop ==
  ASSUME NEW mm \in Memories, NEW k \in 0 .. VLENB, NEW n \in Nat, NEW entries, EntriesTo(n, entries)
  PROVE  \E h : StoresInOrder(h, mm, k, n, entries) /\ StoreMemory(mm, k, entries) = h[n]
<1>1. DOMAIN entries = 1 .. n /\ \A i \in 1 .. n : entries[i].a \in Int /\ entries[i].v \in Int
  BY DEF EntriesTo
<1> DEFINE Eq(h) == h = [s \in SUBSET (DOMAIN entries) |-> IF s = {} THEN mm
                     ELSE LET e == Max(s) IN
                          IF entries[e].m THEN StoreAt(h[s \ {e}], k, entries[e].a, entries[e].v) ELSE h[s \ {e}]]
           iter == CHOOSE h : Eq(h)
           op == [p \in (1 .. n) \X Memories |-> StoreOne(p[2], k, entries[p[1]])]
           ch == [s \in SUBSET (1 .. n) |-> Max(s)]
<1>2. StoreMemory(mm, k, entries) = iter[1 .. n]
  <2>1. StoreMemory(mm, k, entries) = iter[DOMAIN entries]
    BY Zenon DEF StoreMemory, FoldLeft, MapThenFoldSet
  <2> QED  BY <1>1, <2>1
<1>3. ASSUME NEW i \in 1 .. n, NEW g \in Memories PROVE StoreOne(g, k, entries[i]) \in Memories
  <2>1. entries[i].a \in Int /\ entries[i].v \in Int
    BY <1>1
  <2>2. StoreAt(g, k, entries[i].a, entries[i].v) \in Memories
    <3> DEFINE a == entries[i].a  b == entries[i].v
    <3>1. a \in Int /\ b \in Int
      BY <2>1
    <3> HIDE DEF a, b
    <3>2. StoreAt(g, k, a, b) \in Memories
      BY <3>1, StoreAtTyped
    <3> QED  BY <3>2 DEF a, b
  <2> QED  BY <2>2 DEF StoreOne
<1>4. op \in [(1 .. n) \X Memories -> Memories]
  BY <1>3
<1>5. \A i \in 1 .. n, g \in Memories : op[<<i, g>>] = StoreOne(g, k, entries[i])
  OBVIOUS
<1>6. \A s \in SUBSET (1 .. n) : s # {} => Max(s) \in s
  BY LastOf
<1>7. \A s \in SUBSET (1 .. n) : ch[s] = Max(s)
  OBVIOUS
<1> HIDE DEF op, ch
<1>8. IsFiniteSet(1 .. n) /\ \A s \in SUBSET (1 .. n) : s # {} => ch[s] \in s
  <2>1. 1 \in Int /\ n \in Int
    OBVIOUS
  <2>2. IsFiniteSet(1 .. n)
    BY <2>1, FS_Interval, Zenon
  <2> QED  BY <1>6, <1>7, <2>2
<1>9. PICK h \in [SUBSET (1 .. n) -> Memories] : Folds(h, 1 .. n, ch, mm, op)
  BY <1>4, <1>8, FoldExists, Zenon
<1>10. ASSUME NEW s \in SUBSET (1 .. n)
      PROVE  h[s] = IF s = {} THEN mm
                     ELSE LET e == Max(s) IN
                          IF entries[e].m THEN StoreAt(h[s \ {e}], k, entries[e].a, entries[e].v) ELSE h[s \ {e}]
  <2>1. h[s] = FoldStep(h, ch, mm, op, s)
    BY <1>9 DEF Folds
  <2>2. CASE s = {}
    BY <2>1, <2>2 DEF FoldStep
  <2>3. CASE s # {}
    <3> DEFINE e == Max(s)
    <3>1. e \in s /\ ch[s] = e
      BY <2>3, <1>6, <1>7
    <3> HIDE DEF e
    <3>2. e \in 1 .. n /\ h[s \ {e}] \in Memories
      BY <3>1, <1>9
    <3>3. op[<<e, h[s \ {e}]>>] = StoreOne(h[s \ {e}], k, entries[e])
      BY <3>2, <1>5
    <3>4. h[s] = StoreOne(h[s \ {e}], k, entries[e])
      BY <2>1, <2>3, <3>1, <3>3 DEF FoldStep
    <3> QED  BY <2>3, <3>4 DEF StoreOne, e
  <2> QED  BY <2>2, <2>3
<1>11. Eq(h)
  <2>1. h = [s \in SUBSET (1 .. n) |-> h[s]]
    BY <1>9
  <2> QED  BY <1>1, <1>10, <2>1
<1>12. Eq(iter)
  <2> HIDE DEF Eq
  <2> QED  BY <1>11, Zenon
<1> HIDE DEF iter
<1>13. \A s \in SUBSET (1 .. n) :
         iter[s] = IF s = {} THEN mm
                     ELSE LET e == Max(s) IN
                          IF entries[e].m THEN StoreAt(iter[s \ {e}], k, entries[e].a, entries[e].v) ELSE iter[s \ {e}]
  BY <1>1, <1>12
<1> HIDE DEF Eq
<1> DEFINE g == [i \in 0 .. n |-> iter[1 .. i]]
<1>14. g[0] = mm /\ g[n] = iter[1 .. n]
  <2>1. 1 .. 0 = {} /\ 0 \in 0 .. n /\ n \in 0 .. n /\ {} \in SUBSET (1 .. n)
    OBVIOUS
  <2>2. iter[{}] = mm
    BY <1>13, <2>1
  <2> QED  BY <2>1, <2>2
<1>15. ASSUME NEW i \in 0 .. n-1 PROVE g[i + 1] = StoreOne(g[i], k, entries[i + 1])
  <2> DEFINE s == 1 .. i+1
  <2>1. s \in SUBSET (1 .. n) /\ i + 1 \in s /\ i + 1 \in 1 .. n /\ i + 1 \in 0 .. n /\ i \in 0 .. n
    OBVIOUS
  <2>2. s \ {i + 1} = 1 .. i
    <3>1. \A j \in s : j # i + 1 => j \in 1 .. i
      OBVIOUS
    <3>2. \A j \in 1 .. i : j \in s /\ j # i + 1
      OBVIOUS
    <3> QED  BY <3>1, <3>2, Zenon
  <2>3. s # {}
    BY <2>1
  <2>4. Max(s) = i + 1
    <3>1. s = 1 .. i+1
      OBVIOUS
    <3> HIDE DEF s
    <3> QED  BY <2>1, <2>3, <3>1, LastOf
  <2>5. g[i + 1] = iter[s] /\ g[i] = iter[1 .. i]
    BY <2>1
  <2> HIDE DEF s, g
  <2>6. iter[s] = IF entries[i + 1].m THEN StoreAt(iter[s \ {i + 1}], k, entries[i + 1].a, entries[i + 1].v)
                  ELSE iter[s \ {i + 1}]
    BY <1>13, <2>1, <2>3, <2>4
  <2> QED  BY <2>2, <2>5, <2>6 DEF StoreOne
<1>16. \A i \in 0 .. n : g[i] \in Memories
  <2> DEFINE P == {i \in 0 .. n : g[i] \in Memories}
  <2> HIDE DEF g
  <2>1. 0 \in P
    BY <1>14
  <2>2. ASSUME NEW i \in 0 .. n-1, i \in P PROVE i + 1 \in P
    <3>1. i + 1 \in 1 .. n /\ g[i] \in Memories /\ i + 1 \in 0 .. n
      BY <2>2
    <3> QED  BY <1>3, <1>15, <3>1
  <2>3. 0 .. n \subseteq P
    <3> HIDE DEF P
    <3> QED  BY <2>1, <2>2, StepByStep
  <2> QED  BY <2>3
<1>17. g \in [0 .. n -> Memories]
  BY <1>16
<1> HIDE DEF g
<1> QED  BY <1>2, <1>14, <1>15, <1>17 DEF StoresInOrder

\* A store leaves a memory of bytes.
LEMMA StoreTyped ==
  ASSUME NEW mm \in Memories, NEW k \in 0 .. VLENB, NEW n \in Nat, NEW entries, EntriesTo(n, entries)
  PROVE  StoreMemory(mm, k, entries) \in Memories
<1>1. PICK h : StoresInOrder(h, mm, k, n, entries) /\ StoreMemory(mm, k, entries) = h[n]
  BY StoreLoop
<1>2. n \in 0 .. n
  OBVIOUS
<1> QED  BY <1>1, <1>2 DEF StoresInOrder

\* Writing items of a register with numbers leaves a file of bytes.
LEMMA PutItemsTyped ==
  ASSUME NEW f \in Files, NEW k \in Parts, NEW reg, NEW is, NEW val, \A i \in is : val[i] \in Int
  PROVE  PutItems(f, reg, k, is, val) \in Files
<1>1. \A r \in Regs, u \in 0 .. VLENB-1 : f[r][u] \in Unit
  BY TypedFile
<1> DEFINE row == [u \in 0 .. VLENB-1 |-> IF u \div k \in is THEN Shr(val[u \div k], UW * (u % k)) % 2^UW ELSE f[reg][u]]
<1>2. ASSUME reg \in Regs, NEW u \in 0 .. VLENB-1 PROVE row[u] \in Unit
  <2> DEFINE m == u % k  q == u \div k  a == val[q]
  <2>1. m \in 0 .. VLENB
    BY ByteInItem
  <2>2. row[u] = IF q \in is THEN Shr(a, UW * m) % 2^UW ELSE f[reg][u]
    OBVIOUS
  <2> HIDE DEF m, q, row
  <2>3. q \in is => a \in Int
    OBVIOUS
  <2> HIDE DEF a
  <2>4. q \in is => Shr(a, UW * m) % 2^UW \in Unit
    BY <2>1, <2>3, ByteOfNumber
  <2> QED  BY <1>1, <1>2, <2>2, <2>4
<1>3. reg \in Regs => row \in [0 .. VLENB-1 -> Unit]
  BY <1>2
<1>4. PutItems(f, reg, k, is, val) = [f EXCEPT ![reg] = row]
  BY DEF PutItems
<1> HIDE DEF row
<1> QED  BY <1>3, <1>4 DEF Files

\* one register of the write back of a load: what is left of the buffers, where to go on in
\* them and from which item of the register
BackStates(n, e) == {p \in [f : Files, left : Nat, idx : Nat, item : 0 .. e] : p.idx + p.left = n}
BackStep(d, k, start, masks, values, j, p) ==
  LET count == Lesser(Epv(k) - p.item, p.left)
      is == {i \in p.item .. count-1 : masks[p.idx + i]}
  IN  IF p.left = 0 THEN p
      ELSE [f |-> PutItems(p.f, d + (start \div Epv(k)) + j - 1, k, is, [i \in is |-> values[p.idx + i]]),
            left |-> p.left - count, idx |-> p.idx + count, item |-> 0]

\* It reads no entry past the last and writes numbers.
LEMMA BackStepTyped ==
  ASSUME NEW k \in Parts, NEW d, NEW start, NEW n \in Nat, NEW masks, NEW values,
         \A i \in 0 .. n-1 : values[i] \in Int, NEW j, NEW p \in BackStates(n, Epv(k))
  PROVE  BackStep(d, k, start, masks, values, j, p) \in BackStates(n, Epv(k))
<1>1. /\ p.f \in Files /\ p.left \in Nat /\ p.idx \in Nat /\ p.item \in 0 .. Epv(k) /\ p.idx + p.left = n
      /\ p \in [f : Files, left : Nat, idx : Nat, item : 0 .. Epv(k)]
  BY DEF BackStates
<1>2. Epv(k) \in Nat \ {0}
  BY PartFacts
<1> DEFINE e == Epv(k)
           count == Lesser(e - p.item, p.left)
           is == {i \in p.item .. count-1 : masks[p.idx + i]}
           val == [i \in is |-> values[p.idx + i]]
           reg == d + (start \div e) + j - 1
<1>3. count \in Nat /\ count <= p.left
  <2> HIDE DEF e
  <2>1. e \in Nat
    BY <1>2 DEF e
  <2> QED  BY <1>1, <2>1 DEF Lesser, e
<1>4. ASSUME NEW i \in is PROVE val[i] \in Int
  <2> HIDE DEF count
  <2>1. i \in Nat /\ i <= count - 1
    BY <1>1, <1>3
  <2>2. p.idx + i \in 0 .. n-1
    BY <2>1, <1>1, <1>3
  <2> QED  BY <2>2
<1> HIDE DEF count, is, val, reg
<1>5. PutItems(p.f, reg, k, is, val) \in Files
  BY <1>1, <1>4, PutItemsTyped
<1> DEFINE g == PutItems(p.f, reg, k, is, val)
           next == [f |-> g, left |-> p.left - count, idx |-> p.idx + count, item |-> 0]
<1>6. next \in BackStates(n, e)
  <2> HIDE DEF g
  <2>1. g \in Files /\ p.left - count \in Nat /\ p.idx + count \in Nat /\ 0 \in 0 .. e
    BY <1>1, <1>2, <1>3, <1>5 DEF g
  <2>2. (p.idx + count) + (p.left - count) = n
    BY <1>1, <1>3
  <2> HIDE DEF e
  <2> QED  BY <2>1, <2>2 DEF BackStates
<1>7. BackStep(d, k, start, masks, values, j, p) = IF p.left = 0 THEN p ELSE next
  BY DEF BackStep, count, is, val, reg
<1> HIDE DEF next
<1> QED  BY <1>6, <1>7

\* The write back of a load leaves a file of bytes.
LEMMA WriteBackTyped ==
  ASSUME NEW f \in Files, NEW k \in Parts, NEW d, NEW start \in Nat, NEW length \in Nat, NEW n \in Nat,
         NEW masks, NEW values, \A i \in 0 .. n-1 : values[i] \in Int
  PROVE  WriteBackLoadData(f, d, k, start, length, n, masks, values) \in Files
<1>1. Epv(k) \in Nat \ {0}
  BY PartFacts
<1> DEFINE start_reg == start \div Epv(k)
           N == Greater(0, RegsFor(k, length) - start_reg)
           A == BackStates(n, Epv(k))
           base == [f |-> f, left |-> n, idx |-> 0, item |-> start % Epv(k)]
           op == [q \in (1 .. N) \X A |-> BackStep(d, k, start, masks, values, q[1], q[2])]
           Eq(h) == h = [j \in 0 .. N |-> IF j = 0 THEN base
                         ELSE BackStep(d, k, start, masks, values, j, h[j - 1])]
           after == CHOOSE h : Eq(h)
<1>2. WriteBackLoadData(f, d, k, start, length, n, masks, values) = after[N].f
  BY Zenon DEF WriteBackLoadData, BackStep
<1>3. N \in Nat
  <2> DEFINE e == Epv(k)  a == length + e - 1  q == a \div e
  <2>1. e \in Nat \ {0}
    BY <1>1
  <2> HIDE DEF e
  <2>2. a \in Int /\ start \in Int
    BY <2>1
  <2> HIDE DEF a
  <2>3. q \in Int /\ start \div e \in Int
    BY <2>1, <2>2, DivMod
  <2>4. RegsFor(k, length) = q /\ start_reg = start \div e
    BY DEF RegsFor, q, a, e
  <2> HIDE DEF q, start_reg
  <2> QED  BY <2>3, <2>4 DEF Greater
<1>4. base \in A
  <2> DEFINE e == Epv(k)  m == start % e
  <2>1. e \in Nat \ {0} /\ start \in Int
    BY <1>1
  <2>2. m \in 0 .. e-1
    BY <2>1, DivMod
  <2> HIDE DEF e, m
  <2>3. m \in 0 .. e /\ 0 \in Nat /\ 0 + n = n
    BY <2>1, <2>2
  <2>4. [f |-> f, left |-> n, idx |-> 0, item |-> m] \in BackStates(n, e)
    BY <2>3 DEF BackStates
  <2> QED  BY <2>4 DEF e, m
<1>5. ASSUME NEW j \in 1 .. N, NEW p \in A PROVE BackStep(d, k, start, masks, values, j, p) \in A
  BY BackStepTyped
<1> HIDE DEF N, A, base
<1>6. op \in [(1 .. N) \X A -> A]
  BY <1>5
<1>7. \A j \in 1 .. N, p \in A : op[<<j, p>>] = BackStep(d, k, start, masks, values, j, p)
  OBVIOUS
<1> HIDE DEF op
<1>8. PICK g \in [0 .. N -> A] : Follows(g, N, base, op)
  BY <1>3, <1>4, <1>6, LoopExists
<1>9. Eq(g)
  <2>1. ASSUME NEW j \in 0 .. N
        PROVE  g[j] = IF j = 0 THEN base ELSE BackStep(d, k, start, masks, values, j, g[j - 1])
    <3>1. g[j] = IF j = 0 THEN base ELSE op[<<j, g[j-1]>>]
      BY <1>8 DEF Follows
    <3>2. CASE j # 0
      <4>1. j \in 1 .. N /\ j - 1 \in 0 .. N
        BY <1>3, <3>2
      <4>2. g[j-1] \in A
        BY <4>1, <1>8
      <4> QED  BY <4>1, <4>2, <3>1, <3>2, <1>7
    <3> QED  BY <3>1, <3>2
  <2>2. g = [j \in 0 .. N |-> g[j]]
    BY <1>8
  <2> QED  BY <2>1, <2>2
<1>10. Eq(after)
  <2> HIDE DEF Eq
  <2> QED  BY <1>9, Zenon
<1> HIDE DEF after
<1>11. \A j \in 0 .. N : after[j] = IF j = 0 THEN base ELSE BackStep(d, k, start, masks, values, j, after[j - 1])
  BY <1>10
<1> HIDE DEF Eq
<1> DEFINE P == {j \in 0 .. N : after[j] \in A}
<1>12. 0 \in P
  BY <1>3, <1>4, <1>11
<1>13. ASSUME NEW j \in 0 .. N-1, j \in P PROVE j + 1 \in P
  <2>1. j + 1 \in 1 .. N /\ (j + 1) - 1 = j /\ j + 1 # 0 /\ j + 1 \in 0 .. N /\ after[j] \in A
    BY <1>3, <1>13
  <2> DEFINE i == j + 1
  <2>2. after[i] = BackStep(d, k, start, masks, values, i, after[i - 1])
    BY <1>11, <2>1
  <2>3. BackStep(d, k, start, masks, values, i, after[j]) \in A
    BY <1>5, <2>1
  <2> QED  BY <2>1, <2>2, <2>3
<1>14. 0 .. N \subseteq P
  <2> HIDE DEF P
  <2> QED  BY <1>3, <1>12, <1>13, StepByStep
<1>15. after[N] \in A
  BY <1>3, <1>14
<1> QED  BY <1>2, <1>15 DEF A, BackStates

\* The registers of a field, and those the segments fill: at least one.
LEMMA FieldRegs ==
  ASSUME LengthFits, NEW k \in Parts, NEW emul \in Nat
  PROVE  /\ RegMul(emul) \in Nat \ {0} /\ SegmentRegs(k) \in Nat \ {0}
         /\ Emul(k) \in Nat
<1>0. k \in Nat \ {0} /\ VLENB \in Nat \ {0} /\ sew \in Nat \ {0} /\ lmul \in Nat /\ vl \in Nat
  BY PartFacts, Widths, LengthIndex
<1> HIDE DEF sew, lmul
<1>1. emul \div 8 \in Int
  BY DivMod
<1>2. (vl * k) \div VLENB \in Int
  <2>1. vl * k \in Int
    BY <1>0
  <2> QED  BY <1>0, <2>1, DivMod
<1>3. (k * lmul) \div sew \in Nat
  <2> DEFINE a == k * lmul  q == a \div sew  r == a % sew
  <2>1. a \in Nat
    BY <1>0
  <2> HIDE DEF a
  <2>2. q \in Int /\ r \in 0 .. sew-1 /\ a = sew * q + r
    BY <1>0, <2>1, DivMod
  <2> HIDE DEF q, r
  <2>3. q >= 0
    <3> SUFFICES ASSUME q <= -1 PROVE FALSE
      BY <2>2
    <3>1. sew * q <= sew * (-1)
      BY <2>2, <1>0
    <3> QED  BY <2>1, <2>2, <3>1, <1>0
  <2> QED  BY <2>2, <2>3 DEF q, a
<1>4. RegMul(emul) \in Nat \ {0}
  BY <1>1 DEF RegMul, Greater
<1>5. SegmentRegs(k) \in Nat \ {0}
  BY <1>2 DEF SegmentRegs, Greater
<1>6. Emul(k) \in Nat
  BY <1>3 DEF Emul
<1> QED  BY <1>4, <1>5, <1>6

\* the entries of a segment buffer have addresses
FieldAddresses(nf, addr) == \A a \in 0 .. nf-1, b \in 0 .. vl-1 : addr[<<a, b>>] \in Int

\* An entry of the buffers is a field of a segment: entry i is segment i % vl of field i \div vl.
LEMMA BufferEntry ==
  ASSUME vl \in Nat \ {0}, NEW nf \in Nat, NEW field \in 0 .. nf-1, NEW per_field \in Nat, per_field <= vl,
         NEW t \in 0 .. per_field-1
  PROVE  LET i == field * per_field + t IN
         i \in Nat /\ i \div vl \in 0 .. nf-1 /\ i % vl \in 0 .. vl-1
<1> DEFINE i == field * per_field + t  q == i \div vl  r == i % vl  a == field * per_field
<1>1. a \in Nat /\ i = a + t
  OBVIOUS
<1>2. a <= (nf - 1) * per_field
  OBVIOUS
<1>3. (nf - 1) * per_field + per_field = nf * per_field /\ nf * per_field <= nf * vl
  OBVIOUS
<1>4. i \in Nat /\ i < nf * vl
  <2> DEFINE b == (nf - 1) * per_field  c == nf * per_field  e == nf * vl
  <2>1. b \in Int /\ c \in Int /\ e \in Int /\ a <= b /\ b + per_field = c /\ c <= e
    BY <1>2, <1>3
  <2> HIDE DEF a, b, c, e, i
  <2>2. i \in Nat /\ i < e
    BY <1>1, <2>1
  <2> QED  BY <2>2 DEF e
<1> HIDE DEF i
<1>5. q \in Int /\ r \in 0 .. vl-1 /\ i = vl * q + r
  BY <1>4, DivMod
<1> HIDE DEF q, r
<1>6. q >= 0
  <2> SUFFICES ASSUME q <= -1 PROVE FALSE
    BY <1>5
  <2>1. vl * q <= vl * (-1)
    BY <1>5
  <2> QED  BY <1>4, <1>5, <2>1
<1>7. q <= nf - 1
  <2> SUFFICES ASSUME q >= nf PROVE FALSE
    BY <1>5
  <2>1. vl * q >= vl * nf
    BY <1>5
  <2>2. nf * vl = vl * nf
    OBVIOUS
  <2> QED  BY <1>4, <1>5, <2>1, <2>2
<1> QED  BY <1>4, <1>5, <1>6, <1>7 DEF q, r, i

\* The write back of a segment load reads entries of its buffers and leaves a file of bytes.
LEMMA SegmentBackTyped ==
  ASSUME VectorState, vl > 0, NEW k \in Parts, NEW d \in Nat, NEW nf \in Nat, NEW addr, FieldAddresses(nf, addr)
  PROVE  WriteBackSegmentLoadData(v, mem, d, k, nf, addr) \in Files
<1>0. v \in Files /\ mem \in Memories /\ LengthFits /\ vl \in Nat \ {0}
  BY LengthIndex DEF VectorState
<1>1. /\ RegMul(Emul(k)) \in Nat \ {0} /\ SegmentRegs(k) \in Nat \ {0} /\ Epv(k) \in Nat \ {0} /\ k \in 0 .. 2 * VLENB
  <2>1. Emul(k) \in Nat
    <3>1. 0 \in Nat
      OBVIOUS
    <3> QED  BY <1>0, <3>1, FieldRegs
  <2>2. k \in 0 .. 2 * VLENB
    BY PartFacts DEF Parts
  <2> QED  BY <1>0, <2>1, <2>2, FieldRegs, PartFacts
<1> DEFINE max_elements == Lesser(Epv(k), vl)
           per_field == Lesser(vl, SegmentRegs(k) * max_elements)
           value(i) == LoadAt(mem, k, addr[<<i \div vl, i % vl>>])
           rm == RegMul(Emul(k))
<1>2. max_elements \in Nat /\ per_field \in Nat /\ per_field <= vl
  <2> DEFINE e == Epv(k)  s == SegmentRegs(k)
  <2> HIDE DEF e, s
  <2>1. e \in Nat /\ s \in Nat
    BY <1>1 DEF e, s
  <2>2. Lesser(e, vl) \in Nat
    BY <2>1, <1>0 DEF Lesser
  <2>3. max_elements \in Nat
    BY <2>2 DEF e
  <2> DEFINE b == s * max_elements
  <2> HIDE DEF max_elements
  <2>4. b \in Nat
    BY <2>1, <2>3
  <2> HIDE DEF b
  <2>5. Lesser(vl, b) \in Nat /\ Lesser(vl, b) <= vl
    BY <2>4, <1>0 DEF Lesser
  <2> QED  BY <2>3, <2>5 DEF b, s
<1>3. rm \in Nat \ {0}
  BY <1>1
<1> HIDE DEF max_elements, per_field, rm
<1>4. ASSUME NEW reg \in Regs
      PROVE  LET field == (reg - d) \div rm
                 r == (reg - d) % rm
                 index(i) == field * per_field + r * max_elements + i
                 is == {i \in 0 .. max_elements-1 :
                         r * max_elements + i < per_field /\ Active(index(i) % vl)}
             IN  (IF field \in 0 .. nf-1 /\ r < SegmentRegs(k)
                  THEN PutItems(v, reg, k, is, [i \in is |-> value(index(i))])[reg]
                  ELSE v[reg]) \in [0 .. VLENB-1 -> Unit]
  <2> DEFINE field == (reg - d) \div rm
             r == (reg - d) % rm
             index(i) == field * per_field + r * max_elements + i
             is == {i \in 0 .. max_elements-1 :
                         r * max_elements + i < per_field /\ Active(index(i) % vl)}
             val == [i \in is |-> value(index(i))]
  <2>1. v[reg] \in [0 .. VLENB-1 -> Unit]
    BY <1>0 DEF Files
  <2>2. ASSUME field \in 0 .. nf-1
        PROVE  PutItems(v, reg, k, is, val)[reg] \in [0 .. VLENB-1 -> Unit]
    <3>1. r \in Nat
      <4>1. reg - d \in Int
        BY DEF Regs
      <4>2. r \in 0 .. rm-1
        BY <4>1, <1>3, DivMod
      <4> QED  BY <4>2, <1>3
    <3>2. ASSUME NEW i \in is PROVE val[i] \in Int
      <4> DEFINE t == r * max_elements + i
      <4> HIDE DEF field, r
      <4>1. i \in Nat /\ r * max_elements \in Nat /\ t < per_field
        BY <1>2, <3>1
      <4>2. t \in 0 .. per_field-1 /\ field \in Int
        BY <4>1, <1>2, <2>2
      <4> DEFINE j == field * per_field + t
      <4>3. index(i) = j
        <5>1. field * per_field \in Int
          BY <4>2, <1>2
        <5> QED  BY <4>1, <5>1
      <4> HIDE DEF t
      <4>4. j \div vl \in 0 .. nf-1 /\ j % vl \in 0 .. vl-1
        BY <4>2, <1>0, <1>2, <2>2, BufferEntry
      <4> HIDE DEF j
      <4>5. addr[<<j \div vl, j % vl>>] \in Int
        BY <4>4 DEF FieldAddresses
      <4> DEFINE a == addr[<<j \div vl, j % vl>>]
      <4>6. a \in Int
        BY <4>5
      <4> HIDE DEF a
      <4>7. LoadAt(mem, k, a) \in Int
        BY <4>6, <1>0, <1>1, LoadNumber
      <4>8. val[i] = LoadAt(mem, k, addr[<<index(i) \div vl, index(i) % vl>>])
        OBVIOUS
      <4> HIDE DEF val, index
      <4> QED  BY <4>3, <4>7, <4>8 DEF a
    <3> HIDE DEF val, is
    <3>3. PutItems(v, reg, k, is, val) \in Files
      BY <1>0, <3>2, PutItemsTyped
    <3> QED  BY <3>3 DEF Files
  <2> QED  BY <2>1, <2>2
<1> DEFINE row(reg) == LET field == (reg - d) \div rm
                 r == (reg - d) % rm
                 index(i) == field * per_field + r * max_elements + i
                 is == {i \in 0 .. max_elements-1 :
                         r * max_elements + i < per_field /\ Active(index(i) % vl)}
             IN  (IF field \in 0 .. nf-1 /\ r < SegmentRegs(k)
                  THEN PutItems(v, reg, k, is, [i \in is |-> value(index(i))])[reg]
                  ELSE v[reg])
<1>5. WriteBackSegmentLoadData(v, mem, d, k, nf, addr) = [reg \in Regs |-> row(reg)]
  BY DEF WriteBackSegmentLoadData, max_elements, per_field, rm
<1>6. \A reg \in Regs : row(reg) \in [0 .. VLENB-1 -> Unit]
  BY <1>4
<1> HIDE DEF row
<1> QED  BY <1>5, <1>6 DEF Files

\* The child instruction of a load keeps the state, whether it accepts the group or not.
LEMMA VlChildTyped ==
  ASSUME VectorState, NEW k \in Parts, NEW d, NEW start \in Nat, NEW length \in Nat, NEW n \in Nat,
         NEW masks, NEW values, \A i \in 0 .. n-1 : values[i] \in Int,
         VlChild(d, k, start, length, n, masks, values)
  PROVE  Typed'
<1>1. v \in Files /\ vstart \in Nat /\ mem \in Memories /\ x \in Int
  BY DEF VectorState
<1>2. WriteBackLoadData(v, d, k, start, length, n, masks, values) \in Files
  BY <1>1, WriteBackTyped
<1>3. /\ v' \in {v, WriteBackLoadData(v, d, k, start, length, n, masks, values)}
      /\ vstart' = 0 /\ mem' = mem /\ x' = x
  BY DEF VlChild
<1> QED  BY <1>1, <1>2, <1>3 DEF Typed

\* That of a segment load.
LEMMA VlSegmentChildTyped ==
  ASSUME VectorState, vl > 0, NEW k \in Parts, NEW d \in Nat, NEW nf \in Nat, NEW addr, FieldAddresses(nf, addr),
         VlSegmentChild(d, k, nf, addr)
  PROVE  Typed'
<1>1. v \in Files /\ vstart \in Nat /\ mem \in Memories /\ x \in Int
  BY DEF VectorState
<1>2. WriteBackSegmentLoadData(v, mem, d, k, nf, addr) \in Files
  BY SegmentBackTyped
<1>3. /\ v' \in {v, WriteBackSegmentLoadData(v, mem, d, k, nf, addr)}
      /\ vstart' = 0 /\ mem' = mem /\ x' = x
  BY DEF VlSegmentChild
<1> QED  BY <1>1, <1>2, <1>3 DEF Typed

\* An index vector of a legal multiplier lies in the register file, even where the code
\* reads it from twice as far as vl.
LEMMA OffsetNumber ==
  ASSUME VectorState, vstart <= vl, NEW iw \in {1, 2, 4}, EmulOk(iw), NEW i \in Nat, i < vl
  PROVE  Offset(iw, i) \in Nat /\ Offset(iw, vstart + i) \in Nat
<1>0. LengthFits /\ v \in Files /\ vstart \in Nat /\ vl \in Nat /\ max_vl \in Nat /\ vl <= max_vl /\ iw \in Parts
  BY Widths, LengthIndex DEF VectorState
<1>1. Epv(iw) \in Nat \ {0}
  BY <1>0, PartFacts
<1>2. lmul * iw <= 9 * (8 * sew)
  <2>0. sew \in Nat \ {0} /\ lmul \in Nat /\ iw \in Nat
    BY <1>0, Widths
  <2>1. (iw * lmul) \div sew <= 64
    BY DEF EmulOk, Emul
  <2> HIDE DEF sew, lmul
  <2> DEFINE a == iw * lmul  q == a \div sew  r == a % sew
  <2>2. a \in Nat /\ a = lmul * iw
    BY <2>0
  <2> HIDE DEF a
  <2>3. q \in Int /\ r \in 0 .. sew-1 /\ a = sew * q + r
    BY <2>0, <2>2, DivMod
  <2>4. q <= 64
    BY <2>1 DEF a
  <2> HIDE DEF q, r
  <2>5. sew * q <= sew * 64
    BY <2>0, <2>3, <2>4
  <2> DEFINE y == sew * q
  <2>6. y \in Int /\ y <= sew * 64 /\ a = y + r
    BY <2>0, <2>3, <2>5
  <2> HIDE DEF y
  <2>7. a <= 9 * (8 * sew)
    BY <2>0, <2>3, <2>6
  <2> QED  BY <2>2, <2>7
<1> HIDE DEF max_vl
<1>3. ASSUME NEW j \in Nat, j < max_vl PROVE j < 9 * Epv(iw)
  <2>1. j \div Epv(iw) \in Nat /\ j \div Epv(iw) < 9
    BY <1>0, <1>2, <1>3, GroupReach
  <2> DEFINE e == Epv(iw)  q == j \div e
  <2>2. e \in Nat \ {0} /\ q \in Nat /\ q <= 8
    BY <2>1, <1>1
  <2> HIDE DEF e
  <2>3. j = e * q + (j % e) /\ j % e \in 0 .. e-1
    BY <2>2, DivMod
  <2> HIDE DEF q
  <2>4. e * q <= e * 8
    BY <2>2
  <2>5. j < 9 * e
    BY <2>2, <2>3, <2>4
  <2> QED  BY <2>5 DEF e
<1>4. ASSUME NEW j \in Nat, j < 18 * Epv(iw) PROVE Offset(iw, j) \in Nat
  <2> DEFINE e == Epv(iw)  q == j \div e
  <2>1. e \in Nat \ {0} /\ j < 18 * e
    BY <1>1, <1>4
  <2> HIDE DEF e
  <2>2. q \in Int /\ j = e * q + (j % e) /\ j % e \in 0 .. e-1
    BY <2>1, DivMod
  <2> HIDE DEF q
  <2>3. q >= 0
    <3> SUFFICES ASSUME q <= -1 PROVE FALSE
      BY <2>2
    <3>1. e * q <= e * (-1)
      BY <2>1, <2>2
    <3> QED  BY <2>1, <2>2, <3>1
  <2>4. q < 18
    <3> SUFFICES ASSUME q >= 18 PROVE FALSE
      BY <2>2
    <3>1. e * q >= e * 18
      BY <2>1, <2>2
    <3> QED  BY <2>1, <2>2, <3>1
  <2>5. Vs2 + q \in Regs
    BY <2>2, <2>3, <2>4 DEF Vs2, Regs
  <2>6. Vs2 + (j \div Epv(iw)) \in Regs
    BY <2>5 DEF q, e
  <2>7. Element(v, Vs2, iw, j) \in Nat
    BY <1>0, <2>6, ElementWord
  <2> QED  BY <2>7 DEF Offset
<1> DEFINE e == Epv(iw)
<1>5. e \in Nat \ {0} /\ i < 9 * e
  BY <1>0, <1>1, <1>3
<1>6. vstart < 9 * e + 1
  <2>1. CASE vstart = 0
    BY <2>1, <1>5
  <2>2. CASE vstart # 0
    <3>1. vstart - 1 \in Nat /\ vstart - 1 < max_vl
      BY <1>0, <2>2
    <3>2. vstart - 1 < 9 * e
      BY <3>1, <1>3
    <3> HIDE DEF e
    <3> QED  BY <3>2, <1>0, <1>5
  <2> QED  BY <2>1, <2>2
<1> HIDE DEF e
<1>7. i < 18 * e /\ vstart + i < 18 * e /\ vstart + i \in Nat
  BY <1>0, <1>5, <1>6
<1>8. i < 18 * Epv(iw) /\ vstart + i < 18 * Epv(iw)
  BY <1>7 DEF e
<1> QED  BY <1>4, <1>7, <1>8

\* The loads of vectors keep the state.
LEMMA LoadsTyped ==
  ASSUME VectorState, NEW d \in {Vd, VdOdd}
  PROVE  /\ \A k \in {1, 2}, stride \in Int : VlStrided(k, d, 3, stride) => Typed'
         /\ Vlm(VdOdd, 6) => Typed'
         /\ \A iw \in {1, 2, 4} : VlIndexed(iw, d, 1) => Typed'
         /\ \A n \in {1, 2} : VlRegister(n, 2, d, 4) => Typed'
<1>0. /\ v \in Files /\ vstart \in Nat /\ mem \in Memories /\ x \in Int /\ vl \in Nat /\ LengthFits
      /\ sew \in Parts /\ 1 \in Parts /\ 2 \in Parts
      /\ VLENB \in Nat \ {0} /\ UW \in Nat \ {0}
  BY Widths, LengthIndex, VectorAssumption DEF VectorState
<1>1. \A k \in Parts : k \in 0 .. 2 * VLENB
  BY <1>0 DEF Parts
<1>2. ASSUME Nothing \/ Raise \/ Write(v) PROVE Typed'
  BY <1>0, <1>2 DEF Nothing, Raise, Write, Typed
<1>3. ASSUME NEW k \in {1, 2}, NEW stride \in Int, VlStrided(k, d, 3, stride) PROVE Typed'
  <2> DEFINE n == vl - vstart  masks == MaskFrom(vstart, n)
             values == [i \in Entries(n) |-> LoadAt(mem, k, 3 + (vstart + i) * stride)]
  <2>1. Nothing \/ (vstart <= vl /\ VlChild(d, k, vstart, vl, n, masks, values))
    BY <1>3 DEF VlStrided, InRange
  <2>2. CASE vstart <= vl /\ VlChild(d, k, vstart, vl, n, masks, values)
    <3>1. n \in Nat
      BY <1>0, <2>2
    <3>2. ASSUME NEW i \in 0 .. n-1 PROVE values[i] \in Int
      <4> DEFINE a == 3 + (vstart + i) * stride
      <4>1. a \in Int
        <5>1. vstart + i \in Int
          BY <1>0, <3>1
        <5> QED  BY <5>1
      <4>2. values[i] = LoadAt(mem, k, a)
        BY DEF Entries
      <4> HIDE DEF a, values
      <4>3. k \in 0 .. 2 * VLENB
        BY <1>0, <1>1
      <4> QED  BY <1>0, <4>1, <4>2, <4>3, LoadNumber
    <3>3. k \in Parts
      BY <1>0
    <3> HIDE DEF n, masks, values
    <3> QED  BY <1>0, <2>2, <3>1, <3>2, <3>3, VlChildTyped
  <2> QED  BY <1>2, <2>1, <2>2
<1>4. ASSUME Vlm(VdOdd, 6) PROVE Typed'
  <2> DEFINE n == MaskBytes - vstart
             values == [i \in Entries(n) |-> LoadAt(mem, 1, 6 + vstart + i)]
             masks == [i \in Entries(n) |-> TRUE]
  <2>0. MaskBytes \in Int
    <3> DEFINE a == vl + UW - 1
    <3>1. a \in Int
      BY <1>0
    <3> HIDE DEF a
    <3>2. a \div UW \in Int
      BY <1>0, <3>1, DivMod
    <3> QED  BY <3>2 DEF MaskBytes, a
  <2> DEFINE length == MaskBytes
  <2>1. Write(v) \/ (n > 0 /\ VlChild(VdOdd, 1, vstart, length, n, masks, values))
    BY <1>4, <1>0, <2>0 DEF Vlm
  <2>2. CASE n > 0 /\ VlChild(VdOdd, 1, vstart, length, n, masks, values)
    <3>1. n \in Nat /\ length \in Nat
      BY <1>0, <2>0, <2>2
    <3>2. ASSUME NEW i \in 0 .. n-1 PROVE values[i] \in Int
      <4> DEFINE a == 6 + vstart + i
      <4>1. a \in Int
        BY <1>0, <3>1
      <4>2. values[i] = LoadAt(mem, 1, a)
        BY DEF Entries
      <4> HIDE DEF a, values
      <4>3. 1 \in 0 .. 2 * VLENB
        BY <1>0, <1>1
      <4> QED  BY <1>0, <4>1, <4>2, <4>3, LoadNumber
    <3> HIDE DEF n, masks, values, length
    <3> QED  BY <1>0, <2>2, <3>1, <3>2, VlChildTyped
  <2> QED  BY <1>2, <2>1, <2>2
<1>5. ASSUME NEW iw \in {1, 2, 4}, VlIndexed(iw, d, 1) PROVE Typed'
  <2> DEFINE masks == [i \in Entries(vl) |-> Active((vstart + i) % (VLENB * UW))]
             values == [i \in Entries(vl) |-> LoadAt(mem, sew, 1 + Offset(iw, vstart + i))]
  <2>1. Raise \/ (vstart <= vl /\ EmulOk(iw) /\ VlChild(d, sew, vstart, vl, vl, masks, values))
    BY <1>5 DEF VlIndexed, InRange
  <2>2. CASE vstart <= vl /\ EmulOk(iw) /\ VlChild(d, sew, vstart, vl, vl, masks, values)
    <3>2. ASSUME NEW i \in 0 .. vl-1 PROVE values[i] \in Int
      <4> DEFINE o == Offset(iw, vstart + i)  a == 1 + o
      <4>1. a \in Int
        <5>1. i \in Nat /\ i < vl
          BY <1>0
        <5>2. o \in Nat
          BY <2>2, <5>1, OffsetNumber
        <5> QED  BY <5>2
      <4>2. values[i] = LoadAt(mem, sew, a)
        BY DEF Entries
      <4> HIDE DEF a, values
      <4>3. sew \in 0 .. 2 * VLENB
        BY <1>0, <1>1
      <4> QED  BY <1>0, <4>1, <4>2, <4>3, LoadNumber
    <3> HIDE DEF masks, values
    <3> QED  BY <1>0, <2>2, <3>2, VlChildTyped
  <2> QED  BY <1>2, <2>1, <2>2
<1>6. ASSUME NEW m \in {1, 2}, VlRegister(m, 2, d, 4) PROVE Typed'
  <2> DEFINE n == (VLENB * m) \div 2
             masks == [i \in Entries(n) |-> TRUE]
             values == [i \in Entries(n) |-> LoadAt(mem, 2, 4 + i * 2)]
  <2>1. VlChild(d, 2, 0, n, n, masks, values)
    BY <1>6 DEF VlRegister
  <2>2. n \in Nat
    <3> DEFINE a == VLENB * m
    <3>1. a \in Nat
      BY <1>0
    <3> HIDE DEF a
    <3>2. a \div 2 \in Nat
      BY <3>1
    <3> QED  BY <3>2 DEF a
  <2>3. ASSUME NEW i \in 0 .. n-1 PROVE values[i] \in Int
    <3> DEFINE a == 4 + i * 2
    <3>1. a \in Int
      BY <2>2
    <3>2. values[i] = LoadAt(mem, 2, a)
      BY DEF Entries
    <3> HIDE DEF a, values
    <3>3. 2 \in 0 .. 2 * VLENB
      BY <1>0, <1>1
    <3> QED  BY <1>0, <3>1, <3>2, <3>3, LoadNumber
  <2>4. 0 \in Nat
    OBVIOUS
  <2> HIDE DEF n, masks, values
  <2> QED  BY <1>0, <2>1, <2>2, <2>3, <2>4, VlChildTyped
<1> QED  BY <1>3, <1>4, <1>5, <1>6

\* The segment loads keep the state.
LEMMA SegmentLoadsTyped ==
  ASSUME VectorState, NEW sg \in Segments
  PROVE  /\ \A k \in {1, 2} : (VlSegment(k, sg[2], sg[1], 1) \/ VlSegmentStrided(k, sg[2], sg[1], 1, -2)) => Typed'
         /\ \A iw \in {1, 2, 4} : VlSegmentIndexed(iw, sg[2], sg[1], 1) => Typed'
<1>0. /\ v \in Files /\ vstart \in Nat /\ mem \in Memories /\ x \in Int /\ vl \in Nat /\ LengthFits
      /\ sew \in Parts /\ 1 \in Parts /\ 2 \in Parts /\ sew \in Nat
  BY Widths, LengthIndex DEF VectorState
<1>1. sg[1] \in Nat /\ sg[2] \in Nat
  BY DEF Segments, Vd, VdOdd
<1>2. ASSUME Raise PROVE Typed'
  BY <1>0, <1>2 DEF Raise, Typed
<1>3. ASSUME NEW k \in {1, 2}, VlSegment(k, sg[2], sg[1], 1) \/ VlSegmentStrided(k, sg[2], sg[1], 1, -2)
      PROVE  Typed'
  <2>1. \/ Raise
        \/ \E stride \in {sg[1] * k, -2} : vl > 0 /\ VlSegmentChild(sg[2], k, sg[1], Addresses(sg[1], k, 1, stride))
    BY <1>3 DEF VlSegment, VlSegmentStrided
  <2>2. ASSUME NEW stride \in {sg[1] * k, -2}, vl > 0,
               VlSegmentChild(sg[2], k, sg[1], Addresses(sg[1], k, 1, stride))
        PROVE  Typed'
    <3> DEFINE nf == sg[1]  addr == Addresses(nf, k, 1, stride)
    <3>1. nf \in Nat /\ stride \in Int /\ k \in Nat /\ k \in Parts
      BY <1>0, <1>1
    <3> HIDE DEF nf
    <3>2. FieldAddresses(nf, addr)
      <4>1. ASSUME NEW a \in 0 .. nf-1, NEW b \in 0 .. vl-1 PROVE addr[<<a, b>>] \in Int
        <5>1. addr[<<a, b>>] = 1 + b * stride + a * k
          BY DEF Addresses
        <5>2. b * stride \in Int /\ a * k \in Int
          BY <3>1, <1>0
        <5> HIDE DEF addr
        <5> QED  BY <5>1, <5>2
      <4> QED  BY <4>1 DEF FieldAddresses
    <3>3. VlSegmentChild(sg[2], k, nf, addr)
      BY <2>2 DEF nf
    <3> HIDE DEF addr
    <3> QED  BY <1>1, <2>2, <3>1, <3>2, <3>3, VlSegmentChildTyped
  <2> QED  BY <1>2, <2>1, <2>2
<1>4. ASSUME NEW iw \in {1, 2, 4}, VlSegmentIndexed(iw, sg[2], sg[1], 1) PROVE Typed'
  <2> DEFINE nf == sg[1]
             addr == [p \in (0 .. nf-1) \X (0 .. vl-1) |-> 1 + Offset(iw, p[2]) + p[1] * sew]
  <2>1. Raise \/ (vl > 0 /\ vstart <= vl /\ EmulOk(iw) /\ VlSegmentChild(sg[2], sew, nf, addr))
    BY <1>4 DEF VlSegmentIndexed, InRange
  <2>2. CASE vl > 0 /\ vstart <= vl /\ EmulOk(iw) /\ VlSegmentChild(sg[2], sew, nf, addr)
    <3>1. nf \in Nat
      BY <1>1
    <3> HIDE DEF nf
    <3>2. FieldAddresses(nf, addr)
      <4>1. ASSUME NEW a \in 0 .. nf-1, NEW b \in 0 .. vl-1 PROVE addr[<<a, b>>] \in Int
        <5>1. addr[<<a, b>>] = 1 + Offset(iw, b) + a * sew
          OBVIOUS
        <5>2. a * sew \in Int
          BY <3>1, <1>0
        <5>3. b \in Nat /\ b < vl
          BY <1>0
        <5>4. Offset(iw, b) \in Nat
          BY <2>2, <5>3, OffsetNumber
        <5> HIDE DEF addr
        <5> QED  BY <5>1, <5>2, <5>4
      <4> QED  BY <4>1 DEF FieldAddresses
    <3> HIDE DEF addr
    <3> QED  BY <1>0, <1>1, <2>2, <3>1, <3>2, VlSegmentChildTyped
  <2> QED  BY <1>2, <2>1, <2>2
<1> QED  BY <1>3, <1>4

\* A store keeps the state, with the stale entry of a recycled buffer or without.
LEMMA StoredTyped ==
  ASSUME VectorState, NEW k \in 0 .. VLENB, NEW n \in Nat, NEW entries, EntriesTo(n, entries),
         entries = [i \in 1 .. n |-> entries[i]], StoredOrStale(k, entries) \/ Stored(k, entries)
  PROVE  Typed'
<1>0. v \in Files /\ vstart \in Nat /\ mem \in Memories /\ x \in Int
  BY DEF VectorState
<1>1. ASSUME NEW m \in Nat, NEW all, EntriesTo(m, all), Stored(k, all) PROVE Typed'
  <2>1. StoreMemory(mem, k, all) \in Memories
    BY <1>0, <1>1, StoreTyped
  <2>2. mem' = StoreMemory(mem, k, all) /\ vstart' = 0 /\ v' = v /\ x' = x
    BY <1>1 DEF Stored
  <2> QED  BY <1>0, <2>1, <2>2 DEF Typed
<1>2. CASE Stored(k, entries)
  BY <1>1, <1>2
<1>3. ASSUME NEW e \in Stale, Stored(k, Append(entries, e)) PROVE Typed'
  <2>1. e.a \in Int /\ e.v \in Int
    <3>1. MemSize \in Int
      BY VectorAssumption DEF MemSize
    <3> QED  BY <3>1 DEF Stale
  <2> DEFINE T == {entries[i] : i \in 1 .. n} \cup {e}
  <2>2. \A i \in 1 .. n : entries[i] \in T
    OBVIOUS
  <2>3. e \in T
    OBVIOUS
  <2> HIDE DEF T
  <2>4. entries \in [1 .. n -> T]
    BY <2>2
  <2>5. entries \in Seq(T) /\ Len(entries) = n
    BY <2>4
  <2>6. /\ DOMAIN Append(entries, e) = 1 .. n+1
        /\ \A i \in 1 .. n+1 : Append(entries, e)[i] = IF i = n + 1 THEN e ELSE entries[i]
    BY <2>3, <2>5
  <2> DEFINE all == Append(entries, e)
  <2> HIDE DEF all
  <2>7. EntriesTo(n + 1, all)
    <3>1. ASSUME NEW i \in 1 .. n+1 PROVE all[i].a \in Int /\ all[i].v \in Int
      <4>1. CASE i = n + 1
        BY <4>1, <2>1, <2>6 DEF all
      <4>2. CASE i # n + 1
        <5>1. i \in 1 .. n
          BY <4>2
        <5> QED  BY <4>2, <5>1, <2>6 DEF EntriesTo, all
      <4> QED  BY <4>1, <4>2
    <3> QED  BY <3>1, <2>6 DEF EntriesTo, all
  <2>8. Stored(k, all) /\ n + 1 \in Nat
    BY <1>3 DEF all
  <2> QED  BY <1>1, <2>7, <2>8
<1> QED  BY <1>2, <1>3 DEF StoredOrStale

\* The source of a store has words.
LEMMA StoredWord ==
  ASSUME VectorState, NEW k \in Parts, EmulOk(k) \/ k = sew, NEW i \in Nat, i < vl
  PROVE  Element(v, Vd, k, i) \in Nat
<1>0. /\ v \in Files /\ LengthFits /\ vl \in Nat /\ max_vl \in Nat /\ vl <= max_vl
      /\ k \in Nat \ {0} /\ lmul \in Nat /\ sew \in Nat \ {0} /\ lmul <= 64
  BY Widths, LengthIndex, PartFacts DEF VectorState
<1>1. lmul * k <= 16 * (8 * sew)
  <2>1. CASE k = sew
    <3> HIDE DEF sew, lmul
    <3>1. lmul * sew <= 64 * sew
      BY <1>0
    <3>2. lmul * sew \in Int /\ 64 * sew <= 16 * (8 * sew)
      BY <1>0
    <3> QED  BY <2>1, <3>1, <3>2, <1>0
  <2>2. CASE EmulOk(k)
    <3>1. (k * lmul) \div sew <= 64
      BY <2>2 DEF EmulOk, Emul
    <3> HIDE DEF sew, lmul
    <3> DEFINE a == k * lmul  q == a \div sew  r == a % sew
    <3>2. a \in Nat /\ a = lmul * k
      BY <1>0
    <3> HIDE DEF a
    <3>3. q \in Int /\ r \in 0 .. sew-1 /\ a = sew * q + r
      <4>1. a \in Int /\ sew \in Nat \ {0}
        BY <1>0, <3>2
      <4> QED  BY <4>1, DivMod
    <3>4. q <= 64
      BY <3>1 DEF a
    <3> HIDE DEF q, r
    <3>5. sew * q <= sew * 64
      BY <1>0, <3>3, <3>4
    <3> DEFINE y == sew * q
    <3>6. y \in Int /\ y <= sew * 64 /\ a = y + r
      BY <1>0, <3>3, <3>5
    <3> HIDE DEF y
    <3>7. a <= 16 * (8 * sew)
      BY <1>0, <3>3, <3>6
    <3> QED  BY <3>2, <3>7
  <2> QED  BY <2>1, <2>2
<1>2. i < max_vl
  <2> HIDE DEF max_vl
  <2> QED  BY <1>0
<1>3. Vd \in 0 .. 16
  BY DEF Vd
<1> QED  BY <1>1, <1>2, <1>3, SourceWord

\* Quotients keep the order.
LEMMA QuotientOrder ==
  ASSUME NEW a \in Nat, NEW b \in Nat, a <= b, NEW e \in Nat \ {0}
  PROVE  a \div e \in Nat /\ b \div e \in Nat /\ a \div e <= b \div e
<1> DEFINE p == a \div e  q == b \div e  r == a % e  t == b % e
<1>1. p \in Int /\ r \in 0 .. e-1 /\ a = e * p + r
  BY DivMod
<1>2. q \in Int /\ t \in 0 .. e-1 /\ b = e * q + t
  BY DivMod
<1> HIDE DEF p, q, r, t
<1>3. p >= 0
  <2> SUFFICES ASSUME p <= -1 PROVE FALSE
    BY <1>1
  <2>1. e * p <= e * (-1)
    BY <1>1
  <2> QED  BY <1>1, <2>1
<1>4. p <= q
  <2> SUFFICES ASSUME p >= q + 1 PROVE FALSE
    BY <1>1, <1>2
  <2>1. e * p >= e * (q + 1) /\ e * (q + 1) = e * q + e
    BY <1>1, <1>2
  <2> DEFINE y == e * p  z == e * q
  <2>2. y \in Int /\ z \in Int /\ y >= z + e /\ a = y + r /\ b = z + t
    BY <1>1, <1>2, <2>1
  <2> HIDE DEF y, z
  <2> QED  BY <1>1, <1>2, <2>2
<1> QED  BY <1>1, <1>2, <1>3, <1>4 DEF p, q

\* A segment store that the check of the source group accepts reads only registers that
\* exist, and its entries are numbers.
LEMMA SegmentEntriesTyped ==
  ASSUME VectorState, vstart <= vl, NEW k \in Parts, NEW sg \in Segments, NEW emul \in Nat,
         EnoughSource(sg[2], k, sg[1], emul), NEW addr, FieldAddresses(sg[1], addr)
  PROVE  LET n == sg[1] * (vl - vstart)  entries == SegmentEntries(sg[2], k, sg[1], emul, addr) IN
         n \in Nat /\ EntriesTo(n, entries) /\ entries = [i \in 1 .. n |-> entries[i]]
<1>0. v \in Files /\ vstart \in Nat /\ vl \in Nat /\ LengthFits
  BY LengthIndex DEF VectorState
<1> DEFINE nf == sg[1]  s == sg[2]  e == Epv(k)  rm == RegMul(emul)  len == vl - vstart  n == nf * len
           top == vl \div e
<1>1. nf \in Nat \ {0} /\ s \in Nat /\ rm \in Nat \ {0} /\ e \in Nat \ {0}
  BY <1>0, FieldRegs, PartFacts DEF Segments, Vd, VdOdd
<1>2. len \in Nat /\ n \in Nat
  <2>1. len \in Nat
    BY <1>0
  <2> HIDE DEF len, nf
  <2>2. n \in Nat
    BY <1>1, <2>1
  <2> QED  BY <2>1, <2>2
<1>3. s + nf * GroupSize(s) <= 24 /\ nf * GroupSize(s) \in Nat
  <2>1. GroupSize(4) = 4 /\ GroupSize(9) = 1
    BY DEF GroupSize
  <2>2. sg \in {<<2, 4>>, <<2, 9>>, <<3, 9>>, <<5, 4>>}
    BY DEF Segments, Vd, VdOdd
  <2> QED  BY <2>1, <2>2
<1>4. rm * (nf - 1) + top <= nf * GroupSize(s)
  BY DEF EnoughSource
<1> HIDE DEF nf, s, e, rm, top
<1> DEFINE field(i) == (i - 1) % nf  segment(i) == vstart + ((i - 1) \div nf)
           value(i) == Element(v, s + field(i) * rm, k, segment(i))
           at(i) == addr[<<field(i), segment(i)>>]
           entries == [i \in 1 .. n |-> Entry(at(i), value(i), Active(segment(i)))]
<1>5. SegmentEntries(sg[2], k, sg[1], emul, addr) = entries
  BY DEF SegmentEntries, nf, s, rm
<1>6. ASSUME NEW i \in 1 .. n PROVE at(i) \in Int /\ value(i) \in Int
  <2> DEFINE a == i - 1  p == a \div nf  f == a % nf
  <2>1. a \in Nat /\ a < n
    BY <1>2
  <2> HIDE DEF a
  <2>2. p \in Int /\ f \in 0 .. nf-1 /\ a = nf * p + f
    <3>1. a \in Int /\ nf \in Nat \ {0}
      BY <2>1, <1>1
    <3> QED  BY <3>1, DivMod
  <2>3. field(i) = f /\ segment(i) = vstart + p
    BY DEF a
  <2> HIDE DEF p, f
  <2>4. p >= 0
    <3> SUFFICES ASSUME p <= -1 PROVE FALSE
      BY <2>2
    <3>1. nf * p <= nf * (-1)
      BY <1>1, <2>2
    <3> QED  BY <1>1, <2>1, <2>2, <3>1
  <2>5. p < len
    <3> SUFFICES ASSUME p >= len PROVE FALSE
      BY <1>2, <2>2
    <3> HIDE DEF len
    <3>1. nf * p >= nf * len
      BY <1>1, <1>2, <2>2
    <3> QED  BY <1>1, <1>2, <2>1, <2>2, <3>1
  <2> DEFINE g == vstart + p
  <2>6. g \in Nat /\ g < vl /\ g \in 0 .. vl-1
    BY <1>0, <2>2, <2>4, <2>5
  <2> HIDE DEF g
  <2>7. at(i) \in Int
    <3>1. at(i) = addr[<<f, g>>]
      BY <2>3 DEF g
    <3> HIDE DEF at
    <3>2. addr[<<f, g>>] \in Int
      BY <2>2, <2>6 DEF FieldAddresses, nf
    <3> QED  BY <3>1, <3>2
  <2>8. g \div e \in Nat /\ g \div e <= top /\ top \in Nat
    BY <1>0, <1>1, <2>6, QuotientOrder DEF top
  <2>9. s + f * rm \in Nat /\ (s + f * rm) + (g \div e) \in Regs
    <3> DEFINE h == f * rm  m == rm * (nf - 1)  q == g \div e  c == nf * GroupSize(s)
    <3>1. h \in Nat /\ m \in Nat /\ h <= m
      <4>1. h \in Nat /\ m \in Nat
        BY <1>1, <2>2
      <4>2. rm * f <= rm * (nf - 1)
        BY <1>1, <2>2
      <4>3. h = rm * f
        BY <1>1, <2>2
      <4> QED  BY <4>1, <4>2, <4>3
    <3>2. m + top <= c /\ s + c <= 24 /\ c \in Nat /\ q \in Nat /\ q <= top
      BY <1>3, <1>4, <2>8
    <3> HIDE DEF h, m, q, c
    <3>3. s + h \in Nat /\ (s + h) + q \in 0 .. 31
      BY <1>1, <2>8, <3>1, <3>2
    <3> QED  BY <3>3 DEF h, q, Regs
  <2>10. value(i) \in Int
    <3> DEFINE r == s + f * rm
    <3>1. r + (g \div Epv(k)) \in Regs
      BY <2>9 DEF e
    <3>2. value(i) = Element(v, r, k, g)
      BY <2>3 DEF g
    <3> HIDE DEF r, value
    <3>3. Element(v, r, k, g) \in Nat
      BY <1>0, <2>6, <3>1, ElementWord
    <3> QED  BY <3>2, <3>3
  <2> QED  BY <2>7, <2>10
<1> HIDE DEF at, value, segment, n
<1>7. DOMAIN entries = 1 .. n /\ entries = [i \in 1 .. n |-> entries[i]]
  OBVIOUS
<1>8. \A i \in 1 .. n : entries[i].a \in Int /\ entries[i].v \in Int
  BY <1>6 DEF Entry
<1> HIDE DEF entries
<1>9. n = sg[1] * (vl - vstart)
  BY DEF n, nf
<1> QED  BY <1>2, <1>5, <1>7, <1>8, <1>9 DEF EntriesTo

\* The stores of vectors keep the state.
LEMMA StoresTyped ==
  ASSUME VectorState
  PROVE  /\ \A k \in {1, 2, 4}, stride \in Int : VsStrided(k, 3, stride) => Typed'
         /\ Vsm(6) => Typed'
         /\ \A iw \in {1, 2, 4} : VsIndexed(iw, 1) => Typed'
         /\ \A m \in {1, 2} : VsRegister(m, 4) => Typed'
<1>0. /\ v \in Files /\ vstart \in Nat /\ mem \in Memories /\ x \in Int /\ vl \in Nat /\ LengthFits
      /\ sew \in Parts /\ 1 \in Parts /\ 2 \in Parts /\ 4 \in Parts
      /\ VLENB \in Nat \ {0} /\ UW \in Nat \ {0} /\ vl <= UW * VLENB
  <2>1. vl <= max_vl /\ max_vl <= UW * VLENB /\ max_vl \in Nat /\ vl \in Nat /\ UW * VLENB \in Nat
    BY LengthIndex, UnitPowers DEF VectorState
  <2>2. vl <= UW * VLENB
    <3> HIDE DEF max_vl
    <3> DEFINE b == UW * VLENB
    <3>1. vl <= max_vl /\ max_vl <= b /\ max_vl \in Nat /\ vl \in Nat /\ b \in Nat
      BY <2>1
    <3> HIDE DEF b
    <3>2. vl <= b
      BY <3>1
    <3> QED  BY <3>2 DEF b
  <2> QED  BY <2>1, <2>2, Widths, VectorAssumption DEF VectorState
<1>1. \A k \in Parts : k \in 0 .. VLENB
  BY <1>0 DEF Parts
<1>2. ASSUME Raise \/ Write(v) PROVE Typed'
  BY <1>0, <1>2 DEF Raise, Write, Typed
<1>3. ASSUME NEW k \in {1, 2, 4}, NEW stride \in Int, VsStrided(k, 3, stride) PROVE Typed'
  <2> DEFINE n == vl - vstart
             at(i) == 3 + (vstart + i - 1) * stride  value(i) == Element(v, Vd, k, vstart + i - 1)
             entries == [i \in 1 .. n |-> Entry(at(i), value(i), Active(vstart + i - 1))]
  <2>1. StoreVectorStrided(Vd, k, 3, stride) = entries
    BY DEF StoreVectorStrided
  <2>2. Raise \/ (vstart <= vl /\ EmulOk(k) /\ StoredOrStale(k, entries))
    BY <1>3, <2>1 DEF VsStrided, InRange
  <2>3. CASE vstart <= vl /\ EmulOk(k) /\ StoredOrStale(k, entries)
    <3>1. n \in Nat /\ k \in Parts
      BY <1>0, <2>3
    <3>2. ASSUME NEW i \in 1 .. n PROVE at(i) \in Int /\ value(i) \in Int
      <4> DEFINE j == vstart + i - 1
      <4>1. j \in Nat /\ j < vl
        BY <1>0, <3>1
      <4> HIDE DEF j
      <4>2. Element(v, Vd, k, j) \in Nat
        BY <2>3, <3>1, <4>1, StoredWord
      <4>3. 3 + j * stride \in Int
        BY <4>1
      <4> QED  BY <4>2, <4>3 DEF j
    <3> HIDE DEF at, value, n
    <3>3. EntriesTo(n, entries)
      BY <3>2 DEF EntriesTo, Entry
    <3>4. entries = [i \in 1 .. n |-> entries[i]]
      OBVIOUS
    <3>5. k \in 0 .. VLENB
      BY <1>1, <3>1
    <3> HIDE DEF entries
    <3> QED  BY <2>3, <3>1, <3>3, <3>4, <3>5, StoredTyped
  <2> QED  BY <1>2, <2>2, <2>3
<1>4. ASSUME Vsm(6) PROVE Typed'
  <2> DEFINE n == MaskBytes - vstart
             at(i) == 6 + vstart + i - 1  value(i) == v[VdOdd][vstart + i - 1]
             entries == [i \in 1 .. n |-> Entry(at(i), value(i), TRUE)]
  <2>0. MaskBytes \in Int /\ MaskBytes <= VLENB
    <3> DEFINE a == vl + UW - 1  q == a \div UW  r == a % UW
    <3>1. a \in Int /\ a <= UW * VLENB + UW - 1
      <4> DEFINE b == UW * VLENB
      <4>1. b \in Nat /\ vl <= b
        BY <1>0
      <4> HIDE DEF b
      <4>2. a \in Int /\ a <= b + UW - 1
        BY <1>0, <4>1
      <4> QED  BY <4>2 DEF b
    <3> HIDE DEF a
    <3>2. q \in Int /\ r \in 0 .. UW-1 /\ a = UW * q + r
      BY <1>0, <3>1, DivMod
    <3> HIDE DEF q, r
    <3>3. q <= VLENB
      <4> SUFFICES ASSUME q >= VLENB + 1 PROVE FALSE
        BY <1>0, <3>2
      <4>1. UW * q >= UW * (VLENB + 1) /\ UW * (VLENB + 1) = UW * VLENB + UW /\ UW * VLENB \in Int
        BY <1>0, <3>2
      <4> DEFINE b == UW * VLENB  y == UW * q
      <4>2. b \in Int /\ y \in Int /\ y >= b + UW /\ a <= b + UW - 1 /\ a = y + r
        BY <1>0, <3>1, <3>2, <4>1
      <4> HIDE DEF b, y
      <4> QED  BY <4>2, <3>1, <3>2, <1>0
    <3> QED  BY <3>2, <3>3 DEF MaskBytes, q, a
  <2>1. Write(v) \/ (n > 0 /\ Stored(1, entries))
    <3> HIDE DEF entries
    <3>2. \/ Write(v)
          \/ ~(n <= 0) /\ Stored(1, [j \in 1 .. n |-> Entry(6 + vstart + j - 1, v[VdOdd][vstart + j - 1], TRUE)])
      BY <1>4 DEF Vsm
    <3>3. ~(n <= 0) => n > 0
      BY <2>0, <1>0
    <3> QED  BY <3>2, <3>3 DEF entries
  <2>2. CASE n > 0 /\ Stored(1, entries)
    <3>1. n \in Nat
      BY <1>0, <2>0, <2>2
    <3>2. ASSUME NEW i \in 1 .. n PROVE at(i) \in Int /\ value(i) \in Int
      <4> DEFINE j == vstart + i - 1
      <4>1. j \in 0 .. VLENB-1
        BY <1>0, <2>0, <3>1
      <4>2. at(i) \in Int
        BY <1>0
      <4> HIDE DEF j
      <4>3. v[VdOdd][j] \in Unit /\ Unit \subseteq Int
        BY <1>0, <4>1, TypedFile DEF VdOdd, Regs, Unit, Word
      <4> QED  BY <4>2, <4>3 DEF j
    <3> HIDE DEF at, value, n
    <3>3. EntriesTo(n, entries)
      BY <3>2 DEF EntriesTo, Entry
    <3>4. entries = [i \in 1 .. n |-> entries[i]]
      OBVIOUS
    <3>5. 1 \in 0 .. VLENB
      BY <1>0
    <3> HIDE DEF entries
    <3> QED  BY <2>2, <3>1, <3>3, <3>4, <3>5, StoredTyped
  <2> QED  BY <1>2, <2>1, <2>2
<1>5. ASSUME NEW iw \in {1, 2, 4}, VsIndexed(iw, 1) PROVE Typed'
  <2> DEFINE n == Greater(0, vl - 2 * vstart)
             at(i) == 1 + Offset(iw, vstart + i - 1)
             value(i, old) == IF i - 1 < vstart THEN old ELSE Element(v, Vd, sew, i - 1)
             entries(old) == [i \in 1 .. n |-> Entry(at(i), value(i, old), Active(vstart + i - 1))]
             olds == IF vstart = 0 THEN {0} ELSE {0, MaxU(Bits(sew))}
  <2>1. Raise \/ (vstart <= vl /\ EmulOk(iw) /\ \E old \in olds : StoredOrStale(sew, entries(old)))
    BY <1>5 DEF VsIndexed, InRange
  <2>2. ASSUME vstart <= vl, EmulOk(iw), NEW old \in olds, StoredOrStale(sew, entries(old)) PROVE Typed'
    <3>1. n \in Nat /\ (n # 0 => n = vl - 2 * vstart)
      BY <1>0 DEF Greater
    <3>0. old \in Int
      <4>1. sew \in 0 .. 2 * VLENB
        BY <1>0, <1>1
      <4>2. 2^Bits(sew) \in Nat \ {0}
        BY <4>1, CastNumbers
      <4> QED  BY <4>2 DEF MaxU
    <3>2. ASSUME NEW i \in 1 .. n PROVE at(i) \in Int /\ value(i, old) \in Int
      <4> HIDE DEF n
      <4> DEFINE j == i - 1
      <4>1. j \in Nat /\ j < vl /\ vstart + i - 1 = vstart + j
        BY <1>0, <3>1
      <4>2. Offset(iw, vstart + j) \in Nat
        <5> HIDE DEF j
        <5> QED  BY <2>2, <4>1, OffsetNumber
      <4>3. at(i) \in Int
        BY <4>1, <4>2
      <4>4. Element(v, Vd, sew, j) \in Nat
        <5> HIDE DEF j
        <5>1. sew \in Parts /\ (EmulOk(sew) \/ sew = sew)
          BY <1>0
        <5> QED  BY <4>1, <5>1, StoredWord
      <4> HIDE DEF olds, at
      <4> QED  BY <3>0, <4>3, <4>4
    <3> DEFINE all == entries(old)
    <3> HIDE DEF at, value, n
    <3>3. EntriesTo(n, all)
      BY <3>2 DEF EntriesTo, Entry
    <3>4. all = [i \in 1 .. n |-> all[i]]
      OBVIOUS
    <3>5. sew \in 0 .. VLENB
      BY <1>0, <1>1
    <3>6. StoredOrStale(sew, all)
      BY <2>2
    <3> HIDE DEF all
    <3> QED  BY <3>1, <3>3, <3>4, <3>5, <3>6, StoredTyped
  <2> HIDE DEF olds, entries
  <2> QED  BY <1>2, <2>1, <2>2
<1>6. ASSUME NEW m \in {1, 2}, VsRegister(m, 4) PROVE Typed'
  <2> DEFINE k == VLENB \div 2
             n == 2 * m
             at(i) == 4 + (i-1) * k  value(i) == Element(v, Vd, k, i-1)
             entries == [i \in 1 .. n |-> Entry(at(i), value(i), TRUE)]
  <2>1. Stored(k, entries)
    BY <1>6 DEF VsRegister
  <2>2. k \in Parts /\ k \in Nat \ {0} /\ k \in 0 .. VLENB /\ Epv(k) = 2
    <3>1. VLENB % 4 = 0 /\ VLENB \in Nat \ {0}
      BY VectorAssumption
    <3>2. VLENB = 2 * k /\ k \in 1 .. VLENB
      BY <3>1
    <3> HIDE DEF k
    <3>3. VLENB % k = 0 /\ VLENB \div k = 2
      <4>1. VLENB = 2 * k + 0 /\ 0 \in 0 .. k-1 /\ VLENB \in Int /\ k \in Nat \ {0} /\ 2 \in Int
        BY <3>1, <3>2
      <4> QED  BY <4>1, Unique
    <3> QED  BY <3>2, <3>3, <3>1 DEF Parts, Epv
  <2> HIDE DEF k
  <2>3. ASSUME NEW i \in 1 .. n PROVE at(i) \in Int /\ value(i) \in Int
    <3> DEFINE j == i - 1
    <3>1. j \in 0 .. 3
      OBVIOUS
    <3> HIDE DEF j
    <3>2. j \in Nat /\ 4 + j * k \in Int
      BY <2>2, <3>1
    <3>3. Vd + (j \div 2) \in Regs
      BY <3>1 DEF Vd, Regs
    <3>4. Vd + (j \div Epv(k)) \in Regs
      BY <2>2, <3>3
    <3>5. Element(v, Vd, k, j) \in Nat
      BY <1>0, <2>2, <3>2, <3>4, ElementWord
    <3> QED  BY <3>2, <3>5 DEF j
  <2>4. n \in Nat
    OBVIOUS
  <2> HIDE DEF at, value, n
  <2>5. EntriesTo(n, entries)
    BY <2>3 DEF EntriesTo, Entry
  <2>6. entries = [i \in 1 .. n |-> entries[i]]
    OBVIOUS
  <2> HIDE DEF entries
  <2> QED  BY <2>1, <2>2, <2>4, <2>5, <2>6, StoredTyped
<1> QED  BY <1>3, <1>4, <1>5, <1>6

\* The segment stores keep the state.
LEMMA SegmentStoresTyped ==
  ASSUME VectorState, NEW sg \in Segments
  PROVE  /\ \A k \in {1, 2} : (VsSegment(k, sg[2], sg[1], 1) \/ VsSegmentStrided(k, sg[2], sg[1], 1, -2)) => Typed'
         /\ \A iw \in {1, 2, 4} : VsSegmentIndexed(iw, sg[2], sg[1], 1) => Typed'
<1>0. /\ v \in Files /\ vstart \in Nat /\ mem \in Memories /\ x \in Int /\ vl \in Nat /\ LengthFits
      /\ sew \in Parts /\ 1 \in Parts /\ 2 \in Parts /\ sew \in Nat /\ lmul \in Nat
  BY Widths, LengthIndex DEF VectorState
<1>1. sg[1] \in Nat /\ sg[2] \in Nat
  BY DEF Segments, Vd, VdOdd
<1>2. ASSUME Raise PROVE Typed'
  BY <1>0, <1>2 DEF Raise, Typed
<1>3. \A k \in Parts : k \in 0 .. VLENB
  BY DEF Parts
<1>4. ASSUME vstart <= vl, NEW k \in Parts, NEW emul \in Nat, EnoughSource(sg[2], k, sg[1], emul),
             NEW addr, FieldAddresses(sg[1], addr), StoredOrStale(k, SegmentEntries(sg[2], k, sg[1], emul, addr))
      PROVE  Typed'
  <2> DEFINE n == sg[1] * (vl - vstart)  entries == SegmentEntries(sg[2], k, sg[1], emul, addr)
  <2>1. n \in Nat /\ EntriesTo(n, entries) /\ entries = [i \in 1 .. n |-> entries[i]]
    BY <1>4, SegmentEntriesTyped
  <2>2. StoredOrStale(k, entries) /\ k \in 0 .. VLENB
    BY <1>3, <1>4
  <2> HIDE DEF n, entries
  <2> QED  BY <2>1, <2>2, StoredTyped
<1>5. ASSUME NEW k \in {1, 2}, VsSegment(k, sg[2], sg[1], 1) \/ VsSegmentStrided(k, sg[2], sg[1], 1, -2)
      PROVE  Typed'
  <2> DEFINE base1 == 1 - vstart * sg[1] * k  base2 == 1 - vstart * (-2)
  <2>1. \/ Raise
        \/ \E stride \in {sg[1] * k, -2}, base \in {base1, base2} :
             /\ vstart <= vl /\ EnoughSource(sg[2], k, sg[1], Emul(k))
             /\ StoredOrStale(k, SegmentEntries(sg[2], k, sg[1], Emul(k), Addresses(sg[1], k, base, stride)))
    <3>1. CASE VsSegment(k, sg[2], sg[1], 1)
      BY <3>1 DEF VsSegment, InRange
    <3>2. CASE VsSegmentStrided(k, sg[2], sg[1], 1, -2)
      BY <3>2 DEF VsSegmentStrided, InRange
    <3> QED  BY <1>5, <3>1, <3>2
  <2>2. base1 \in Int /\ base2 \in Int /\ sg[1] * k \in Int /\ k \in Parts
    BY <1>0, <1>1
  <2> HIDE DEF base1, base2
  <2>3. ASSUME NEW stride \in {sg[1] * k, -2}, NEW base \in {base1, base2}, vstart <= vl,
               EnoughSource(sg[2], k, sg[1], Emul(k)),
               StoredOrStale(k, SegmentEntries(sg[2], k, sg[1], Emul(k), Addresses(sg[1], k, base, stride)))
        PROVE  Typed'
    <3> DEFINE nf == sg[1]  addr == Addresses(nf, k, base, stride)
    <3>1. nf \in Nat /\ stride \in Int /\ base \in Int /\ k \in Nat
      BY <2>2, <1>1
    <3>2. addr = Addresses(sg[1], k, base, stride)
      OBVIOUS
    <3> HIDE DEF nf
    <3>3. FieldAddresses(nf, addr)
      <4>1. ASSUME NEW a \in 0 .. nf-1, NEW b \in 0 .. vl-1 PROVE addr[<<a, b>>] \in Int
        <5>1. addr[<<a, b>>] = base + b * stride + a * k
          BY DEF Addresses
        <5>2. b * stride \in Int /\ a * k \in Int
          BY <3>1, <1>0
        <5> HIDE DEF addr
        <5> QED  BY <5>1, <5>2, <3>1
      <4> QED  BY <4>1 DEF FieldAddresses
    <3> HIDE DEF addr
    <3>4. Emul(k) \in Nat
      <4>1. 0 \in Nat
        OBVIOUS
      <4> QED  BY <1>0, <2>2, <4>1, FieldRegs
    <3>5. FieldAddresses(sg[1], addr) /\ StoredOrStale(k, SegmentEntries(sg[2], k, sg[1], Emul(k), addr))
      BY <2>3, <3>2, <3>3 DEF nf
    <3> QED  BY <1>4, <2>2, <2>3, <3>4, <3>5
  <2> QED  BY <1>2, <2>1, <2>3
<1>6. ASSUME NEW iw \in {1, 2, 4}, VsSegmentIndexed(iw, sg[2], sg[1], 1) PROVE Typed'
  <2> DEFINE nf == sg[1]
             addr == [p \in (0 .. nf-1) \X (0 .. vl-1) |-> 1 + Signed(Bits(iw), Offset(iw, p[2])) + p[1] * sew]
  <2>1. Raise \/ (/\ vstart <= vl /\ EmulOk(iw) /\ EnoughSource(sg[2], sew, nf, lmul)
                  /\ StoredOrStale(sew, SegmentEntries(sg[2], sew, nf, lmul, addr)))
    BY <1>6 DEF VsSegmentIndexed, InRange
  <2>2. CASE /\ vstart <= vl /\ EmulOk(iw) /\ EnoughSource(sg[2], sew, nf, lmul)
             /\ StoredOrStale(sew, SegmentEntries(sg[2], sew, nf, lmul, addr))
    <3>1. nf \in Nat /\ iw \in 0 .. 2 * VLENB
      <4>1. iw \in Parts
        BY <1>0, Widths
      <4>2. iw \in 0 .. VLENB /\ VLENB \in Nat
        BY <1>3, <4>1, VectorAssumption
      <4> QED  BY <4>2, <1>1
    <3> HIDE DEF nf
    <3>2. FieldAddresses(nf, addr)
      <4>1. ASSUME NEW a \in 0 .. nf-1, NEW b \in 0 .. vl-1 PROVE addr[<<a, b>>] \in Int
        <5>1. addr[<<a, b>>] = 1 + Signed(Bits(iw), Offset(iw, b)) + a * sew
          OBVIOUS
        <5>2. a * sew \in Int
          BY <3>1, <1>0
        <5>3. b \in Nat /\ b < vl
          BY <1>0
        <5>4. Offset(iw, b) \in Nat
          BY <2>2, <5>3, OffsetNumber
        <5>5. Signed(Bits(iw), Offset(iw, b)) \in Int
          BY <3>1, <5>4, CastNumbers
        <5> HIDE DEF addr
        <5> QED  BY <5>1, <5>2, <5>5
      <4> QED  BY <4>1 DEF FieldAddresses
    <3> HIDE DEF addr
    <3> QED  BY <1>0, <1>4, <2>2, <3>2 DEF nf
  <2> QED  BY <1>2, <2>1, <2>2
<1> QED  BY <1>5, <1>6

\* Every load and store keeps the state, the length apart.
LEMMA MemTyped ==
  ASSUME VectorState, MemNext
  PROVE  Typed'
<1>1. \A stride \in {-1, 0, 3} : stride \in Int
  OBVIOUS
<1>2. ASSUME \/ \E k \in {1, 2}, d \in {Vd, VdOdd}, stride \in {-1, 0, 3} : VlStrided(k, d, 3, stride)
             \/ Vlm(VdOdd, 6)
             \/ \E iw \in {1, 2, 4}, d \in {Vd, VdOdd} : VlIndexed(iw, d, 1)
             \/ \E n \in {1, 2}, d \in {Vd, VdOdd} : VlRegister(n, 2, d, 4)
      PROVE  Typed'
  <2>1. VdOdd \in {Vd, VdOdd}
    OBVIOUS
  <2> QED  BY <1>1, <1>2, <2>1, LoadsTyped
<1>3. ASSUME \/ \E k \in {1, 2, 4}, stride \in {-1, 3} : VsStrided(k, 3, stride)
             \/ Vsm(6) \/ (\E iw \in {1, 2, 4} : VsIndexed(iw, 1))
             \/ \E n \in {1, 2} : VsRegister(n, 4)
      PROVE  Typed'
  BY <1>1, <1>3, StoresTyped
<1>4. ASSUME \/ \E k \in {1, 2}, sg \in Segments :
                  VlSegment(k, sg[2], sg[1], 1) \/ VlSegmentStrided(k, sg[2], sg[1], 1, -2)
             \/ \E iw \in {1, 2, 4}, sg \in Segments : VlSegmentIndexed(iw, sg[2], sg[1], 1)
      PROVE  Typed'
  BY <1>4, SegmentLoadsTyped
<1>5. ASSUME \/ \E k \in {1, 2}, sg \in Segments :
                  VsSegment(k, sg[2], sg[1], 1) \/ VsSegmentStrided(k, sg[2], sg[1], 1, -2)
             \/ \E iw \in {1, 2, 4}, sg \in Segments : VsSegmentIndexed(iw, sg[2], sg[1], 1)
      PROVE  Typed'
  BY <1>5, SegmentStoresTyped
<1> QED  BY <1>2, <1>3, <1>4, <1>5 DEF MemNext

-----------------------------------------------------------------------------
(* The state of the unit holds for every sequence of instructions. *)

\* A byte of a mask is a byte.
LEMMA MaskByte ==
  ASSUME NEW F \in [0 .. UW-1 -> Int], \A j \in 0 .. UW-1 : F[j] \in {0, 2^j}
  PROVE  SumFunction(F) \in Unit
<1>0. UW \in Nat \ {0} /\ Powers(UW) /\ Unit = Word(UW)
  BY UnitPowers
<1>1. IsFiniteSet(0 .. UW-1)
  <2>1. 0 \in Int /\ UW-1 \in Int
    BY <1>0
  <2> QED  BY <2>1, FS_Interval, Zenon
<1>2. PICK h : IsSum(h, 0 .. UW-1, F) /\ SumFunction(F) = h[0 .. UW-1]
  BY <1>1, SumOfFunction
<1> DEFINE T == {m \in 0 .. UW : h[0 .. m-1] \in 0 .. 2^m - 1}
<1>3. 0 \in T
  <2>1. 0 .. 0-1 = {} /\ 2^0 = 1
    OBVIOUS
  <2>2. h[{}] = 0
    BY <1>2 DEF IsSum
  <2>3. 0 .. 2^0 - 1 = 0 .. 0
    BY <2>1
  <2>4. 0 \in 0 .. UW /\ 0 \in 0 .. 0
    BY <1>0
  <2> QED  BY <2>1, <2>2, <2>3, <2>4
<1>4. ASSUME NEW m \in 0 .. UW-1, m \in T PROVE m + 1 \in T
  <2>1. m \in 0 .. UW-1 /\ m \in Nat /\ m + 1 \in 0 .. UW /\ (m+1)-1 = m /\ m \in 0 .. UW
    BY <1>0
  <2> DEFINE s == h[0 .. m-1]  p == 2^m
  <2>3. s \in 0 .. p - 1
    BY <1>4
  <2>4. p \in Nat \ {0} /\ 2^(m + 1) = 2 * p
    BY <1>0, <2>1, PowersPositive DEF Powers
  <2>5. F[m] \in {0, p}
    OBVIOUS
  <2> HIDE DEF T
  <2>6. 0 .. m \in SUBSET (0 .. UW-1) /\ m \in 0 .. m /\ (0 .. m) \ {m} = 0 .. m-1
    <3>1. 0 .. m \subseteq 0 .. UW-1 /\ m \in 0 .. m
      BY <1>0, <2>1
    <3>2. \A j \in 0 .. m : j # m => j \in 0 .. m-1
      BY <2>1
    <3>3. \A j \in 0 .. m-1 : j \in 0 .. m /\ j # m
      BY <2>1
    <3> QED  BY <3>1, <3>2, <3>3, Zenon
  <2>7. h[0 .. m] = F[m] + s
    <3>1. h[0 .. m] = F[m] + h[(0 .. m) \ {m}]
      BY <1>2, <2>6, Zenon DEF IsSum
    <3> QED  BY <2>6, <3>1
  <2> HIDE DEF s, p
  <2>8. F[m] + s \in 0 .. 2 * p - 1
    BY <2>3, <2>4, <2>5
  <2>9. h[0 .. (m+1)-1] \in 0 .. 2^(m+1) - 1
    BY <2>1, <2>4, <2>7, <2>8
  <2> QED  BY <2>1, <2>9 DEF T
<1>5. 0 .. UW \subseteq T
  <2> HIDE DEF T
  <2> QED  BY <1>0, <1>3, <1>4, StepByStep
<1>6. UW \in T
  BY <1>0, <1>5
<1> QED  BY <1>0, <1>2, <1>6 DEF Word

\* The unit starts in such a state.
LEMMA InitTyped ==
  ASSUME Init
  PROVE  VectorState
<1>0. UW \in Nat \ {0} /\ VLENB \in Nat \ {0} /\ MemSize \in Nat /\ 2^UW \in Nat \ {0} /\ Unit = 0 .. 2^UW - 1
  BY UnitPowers DEF MemSize, Unit, Word
<1>1. LengthFits
  <2>1. vtype \in Selectable /\ vl \in 0 .. MaxVl(vtype)
    BY Zenon DEF Init
  <2>2. MaxVl(vtype) \in Nat
    BY <2>1, MaxVlIsNat
  <2> QED  BY <2>1, <2>2 DEF LengthFits, VlFits, max_vl
<1>2. vstart \in Nat /\ x \in Int
  <2>1. vtype \in Selectable /\ vstart \in 0 .. MaxVl(vtype) /\ x = 0
    BY Zenon DEF Init
  <2>2. MaxVl(vtype) \in Nat
    BY <2>1, MaxVlIsNat
  <2> QED  BY <2>1, <2>2
<1>3. ASSUME NEW a \in Int PROVE a % 2^UW \in Unit
  BY <1>0, DivMod
<1>4. mem \in Memories
  <2>1. mem = [a \in 0 .. MemSize-1 |-> (5 * a + 2) % 2^UW]
    BY DEF Init, MemSize
  <2>2. ASSUME NEW a \in 0 .. MemSize-1 PROVE (5 * a + 2) % 2^UW \in Unit
    <3>1. 5 * a + 2 \in Int
      BY <1>0
    <3> QED  BY <1>3, <3>1
  <2> QED  BY <2>1, <2>2 DEF Memories
<1>5. v \in Files
  <2>1. PICK mask \in Masks :
             v = [r \in Regs |-> [u \in 0 .. VLENB-1 |->
                    IF r = VMask
                    THEN SumFunction([j \in 0 .. UW-1 |-> IF UW * u + j \in mask THEN 2^j ELSE 0])
                    ELSE (3 * r + 2 * u + (r * u) \div 3) % 2^UW]]
    BY DEF Init
  <2>2. ASSUME NEW u \in 0 .. VLENB-1
        PROVE  SumFunction([j \in 0 .. UW-1 |-> IF UW * u + j \in mask THEN 2^j ELSE 0]) \in Unit
    <3> DEFINE F == [j \in 0 .. UW-1 |-> IF UW * u + j \in mask THEN 2^j ELSE 0]
    <3>1. \A j \in 0 .. UW-1 : 2^j \in Nat
      BY <1>0, UnitPowers, PowersPositive
    <3>2. F \in [0 .. UW-1 -> Int] /\ \A j \in 0 .. UW-1 : F[j] \in {0, 2^j}
      BY <3>1
    <3> HIDE DEF F
    <3>3. SumFunction(F) \in Unit
      BY <3>2, MaskByte
    <3> QED  BY <3>3 DEF F
  <2>3. ASSUME NEW r \in Regs, NEW u \in 0 .. VLENB-1
        PROVE  (3 * r + 2 * u + (r * u) \div 3) % 2^UW \in Unit
    <3>1. r \in Int /\ u \in Int
      BY <1>0 DEF Regs
    <3> DEFINE a == r * u
    <3>2. a \in Int
      BY <3>1
    <3> HIDE DEF a
    <3>3. 3 * r + 2 * u + a \div 3 \in Int
      BY <3>1, <3>2
    <3> QED  BY <3>3, <1>3 DEF a
  <2>4. \A r \in Regs, u \in 0 .. VLENB-1 :
           (IF r = VMask
            THEN SumFunction([j \in 0 .. UW-1 |-> IF UW * u + j \in mask THEN 2^j ELSE 0])
            ELSE (3 * r + 2 * u + (r * u) \div 3) % 2^UW) \in Unit
    BY <2>2, <2>3, Zenon
  <2> QED  BY <2>1, <2>4 DEF Files
<1> QED  BY <1>1, <1>2, <1>4, <1>5 DEF VectorState

\* Every step keeps the state.
LEMMA StateStep ==
  ASSUME VectorState, [Next]_vars
  PROVE  VectorState'
<1>1. LengthFits'
  <2>0. LengthFits
    BY DEF VectorState
  <2>1. CASE \E rd_zero, rs1_zero \in BOOLEAN, avl \in 0 .. 5, t \in VTypes :
                Vsetvl(rd_zero, rs1_zero, avl, t)
    BY <2>0, <2>1, VsetvlFits
  <2>2. CASE Keeps
    BY <2>0, <2>2 DEF Keeps, LengthFits, VlFits, max_vl, MaxVl
  <2>3. UNCHANGED vars => Keeps
    BY DEF vars, Keeps
  <2> QED  BY <2>1, <2>2, <2>3, UnitKeeps, MemKeeps DEF Next
<1>2. Typed'
  <2>1. CASE UnitNext
    BY <2>1, UnitTyped
  <2>2. CASE MemNext
    BY <2>2, MemTyped
  <2>3. CASE UNCHANGED vars
    <3>1. v' = v /\ vstart' = vstart /\ mem' = mem /\ x' = x
      BY <2>3 DEF vars
    <3> QED  BY <3>1 DEF VectorState, Typed
  <2> QED  BY <2>1, <2>2, <2>3 DEF Next
<1> QED  BY <1>1, <1>2 DEF VectorState, Typed

\* Registers and memory hold bytes, vl is legal and vstart and the scalar register are
\* numbers after any sequence of instructions whose source groups hold what they read
\* (the code does not check; no other is an action): none leaves a value that is no word.
THEOREM StateStaysTyped == Spec => []VectorState
<1>1. Init => VectorState
  BY InitTyped
<1>2. VectorState /\ [Next]_vars => VectorState'
  BY StateStep
<1> QED  BY <1>1, <1>2, PTL DEF Spec

-----------------------------------------------------------------------------
(* Reductions: what the accumulator is after each element. *)

\* A remainder taken before a sum does not change the remainder of the sum.
LEMMA ModSum ==
  ASSUME NEW M \in Nat \ {0}, NEW a \in Int, NEW b \in Int
  PROVE  ((a % M) + b) % M = (a + b) % M /\ (a % M) \in Int
<1> DEFINE r == a % M  q == a \div M  c == r + b  t == c % M  u == c \div M
<1>1. q \in Int /\ r \in 0 .. M-1 /\ a = M * q + r
  BY DivMod
<1> HIDE DEF q, r
<1>2. c \in Int
  BY <1>1
<1> HIDE DEF c
<1>3. u \in Int /\ t \in 0 .. M-1 /\ c = M * u + t
  BY <1>2, DivMod
<1> HIDE DEF u, t
<1>4. a + b = (q + u) * M + t
  <2>1. (q + u) * M = M * q + M * u
    BY <1>1, <1>3
  <2>2. c = r + b
    BY DEF c
  <2> DEFINE y == M * q  z == M * u  s == (q + u) * M
  <2>3. y \in Int /\ z \in Int /\ s = y + z /\ a = y + r /\ c = z + t
    BY <1>1, <1>3, <2>1
  <2> HIDE DEF y, z, s
  <2>4. a + b = s + t
    BY <1>1, <1>3, <2>2, <2>3
  <2> QED  BY <2>4 DEF s
<1>5. (a + b) % M = t
  <2>1. a + b \in Int /\ q + u \in Int /\ t \in 0 .. M-1
    BY <1>1, <1>3
  <2> QED  BY <1>4, <2>1, Unique
<1> QED  BY <1>1, <1>5 DEF t, c, r

\* p is the sums of F over the members of mm below 0, 1, .., n; h is a sum of them modulo M.
SumsUpTo(p, n, mm, F) ==
  /\ p[0] = 0
  /\ \A i \in 0 .. n-1 : /\ i \in mm => F[i] \in Int /\ p[i + 1] = F[i] + p[i]
                         /\ i \notin mm => p[i + 1] = p[i]
AddsModulo(h, n, M, mm, F) ==
  \A i \in 0 .. n-1 : /\ i \in mm => h[i + 1] = (h[i] + F[i]) % M
                      /\ i \notin mm => h[i + 1] = h[i]

\* An accumulator that adds the members' terms modulo M holds their sum modulo M.
LEMMA RunningSum ==
  ASSUME NEW n \in Nat, NEW M \in Nat \ {0}, NEW mm, NEW c \in Int, NEW h, NEW p, NEW F,
         h[0] = c % M, SumsUpTo(p, n, mm, F), AddsModulo(h, n, M, mm, F)
  PROVE  h[n] = (c + p[n]) % M
<1> DEFINE P == {i \in 0 .. n : p[i] \in Int /\ h[i] = (c + p[i]) % M}
<1>1. 0 \in P
  BY DEF SumsUpTo
<1>2. ASSUME NEW i \in 0 .. n-1, i \in P PROVE i + 1 \in P
  <2>1. p[i] \in Int /\ h[i] = (c + p[i]) % M /\ i + 1 \in 0 .. n
    BY <1>2
  <2>2. CASE i \in mm
    <3>1. F[i] \in Int /\ h[i + 1] = (h[i] + F[i]) % M /\ p[i + 1] = F[i] + p[i]
      BY <2>2 DEF SumsUpTo, AddsModulo
    <3> DEFINE a == c + p[i]
    <3>2. a \in Int
      BY <2>1
    <3> HIDE DEF a
    <3>3. ((a % M) + F[i]) % M = (a + F[i]) % M
      BY <3>1, <3>2, ModSum
    <3>4. a + F[i] = c + p[i + 1]
      BY <2>1, <3>1 DEF a
    <3>5. h[i + 1] = (c + p[i + 1]) % M
      BY <2>1, <3>1, <3>3, <3>4 DEF a
    <3> QED  BY <2>1, <3>1, <3>5
  <2>3. CASE i \notin mm
    <3>1. h[i + 1] = h[i] /\ p[i + 1] = p[i]
      BY <2>3 DEF SumsUpTo, AddsModulo
    <3> QED  BY <2>1, <3>1
  <2> QED  BY <2>2, <2>3
<1>3. 0 .. n \subseteq P
  <2> HIDE DEF P
  <2> QED  BY <1>1, <1>2, StepByStep
<1> QED  BY <1>3

\* h keeps the better of itself and each member; z is a number of T that none is better than
KeepsBetter(h, n, mm, F, key) ==
  \A i \in 0 .. n-1 : /\ i \in mm => /\ F[i] \in Nat /\ h[i + 1] \in {h[i], F[i]}
                                     /\ (h[i] \in Nat => key[h[i + 1]] >= key[h[i]] /\ key[h[i + 1]] >= key[F[i]])
                      /\ i \notin mm => h[i + 1] = h[i]
Best(z, T, key) == z \in T /\ z \in Nat /\ \A y \in T : y \in Nat /\ key[z] >= key[y]
Terms(c, F, n, mm) == {c} \cup {F[i] : i \in {j \in 0 .. n-1 : j \in mm}}

\* An accumulator that keeps the better of itself and each member ends with the best.
LEMMA RunningExtreme ==
  ASSUME NEW n \in Nat, NEW mm, NEW c \in Nat, NEW h, NEW F, NEW key \in [Nat -> Int], h[0] = c,
         KeepsBetter(h, n, mm, F, key)
  PROVE  Best(h[n], Terms(c, F, n, mm), key)
<1> DEFINE els(i) == {c} \cup {F[j] : j \in {j \in 0 .. i-1 : j \in mm}}
           P == {i \in 0 .. n : h[i] \in els(i) /\ h[i] \in Nat /\ \A y \in els(i) : y \in Nat /\ key[h[i]] >= key[y]}
<1>1. 0 \in P
  <2>1. els(0) = {c}
    OBVIOUS
  <2>2. key[c] \in Int
    OBVIOUS
  <2> HIDE DEF els
  <2> QED  BY <2>1, <2>2
<1>2. ASSUME NEW i \in 0 .. n-1, i \in P PROVE i + 1 \in P
  <2>0. i + 1 \in 0 .. n /\ i \in Nat
    OBVIOUS
  <2>1. h[i] \in els(i) /\ h[i] \in Nat /\ \A y \in els(i) : y \in Nat /\ key[h[i]] >= key[y]
    BY <1>2
  <2>2. CASE i \in mm
    <3>1. els(i + 1) = els(i) \cup {F[i]}
      <4>1. \A j \in 0 .. (i+1)-1 : j \in 0 .. i-1 \/ j = i
        BY <2>0
      <4>2. \A j \in 0 .. i-1 : j \in 0 .. (i+1)-1
        BY <2>0
      <4>3. i \in 0 .. (i+1)-1
        BY <2>0
      <4>4. {j \in 0 .. (i+1)-1 : j \in mm} = {j \in 0 .. i-1 : j \in mm} \cup {i}
        BY <2>2, <4>1, <4>2, <4>3, Zenon
      <4> QED  BY <4>4
    <3>2. /\ F[i] \in Nat /\ h[i + 1] \in {h[i], F[i]}
          /\ key[h[i + 1]] >= key[h[i]] /\ key[h[i + 1]] >= key[F[i]]
      BY <2>1, <2>2 DEF KeepsBetter
    <3>3. h[i + 1] \in Nat /\ h[i + 1] \in els(i + 1)
      <4> HIDE DEF els
      <4> QED  BY <2>1, <3>1, <3>2
    <3>4. ASSUME NEW y \in els(i + 1) PROVE y \in Nat /\ key[h[i + 1]] >= key[y]
      <4>1. y \in els(i) \/ y = F[i]
        BY <3>1
      <4> HIDE DEF els
      <4>2. CASE y = F[i]
        BY <3>2, <4>2
      <4>3. CASE y \in els(i)
        <5>1. y \in Nat /\ key[h[i]] >= key[y]
          BY <2>1, <4>3
        <5>2. key[h[i]] \in Int /\ key[y] \in Int /\ key[h[i + 1]] \in Int
          BY <2>1, <3>3, <5>1
        <5> QED  BY <3>2, <5>1, <5>2
      <4> QED  BY <4>1, <4>2, <4>3
    <3> QED  BY <2>0, <3>3, <3>4
  <2>3. CASE i \notin mm
    <3>1. els(i + 1) = els(i)
      <4>1. \A j \in 0 .. (i+1)-1 : j \in 0 .. i-1 \/ j = i
        BY <2>0
      <4>2. \A j \in 0 .. i-1 : j \in 0 .. (i+1)-1
        BY <2>0
      <4>3. {j \in 0 .. (i+1)-1 : j \in mm} = {j \in 0 .. i-1 : j \in mm}
        BY <2>3, <4>1, <4>2, Zenon
      <4> QED  BY <4>3
    <3>2. h[i + 1] = h[i]
      BY <2>3 DEF KeepsBetter
    <3> HIDE DEF els
    <3> QED  BY <2>0, <2>1, <3>1, <3>2
  <2> QED  BY <2>2, <2>3
<1>3. 0 .. n \subseteq P
  <2> HIDE DEF P
  <2> QED  BY <1>1, <1>2, StepByStep
<1>4. n \in P
  BY <1>3
<1> QED  BY <1>4 DEF Best, Terms

\* q can raise the flag b at each member; b ends raised when it began so or one did
Raises(b, n, mm, q) ==
  /\ b[0] \in BOOLEAN
  /\ \A i \in 0 .. n-1 : /\ q[i] \in BOOLEAN
                         /\ i \in mm => b[i + 1] = (b[i] \/ q[i])
                         /\ i \notin mm => b[i + 1] = b[i]
RaisedByOne(b, n, mm, q) == b[n] <=> (b[0] \/ \E i \in {j \in 0 .. n-1 : j \in mm} : q[i])

\* A flag that each member can raise is raised in the end when it was at first or by one of
\* the members.
LEMMA RunningAny ==
  ASSUME NEW n \in Nat, NEW mm, NEW b, NEW q, Raises(b, n, mm, q)
  PROVE  RaisedByOne(b, n, mm, q)
<1> DEFINE P == {i \in 0 .. n : b[i] \in BOOLEAN /\ (b[i] <=> (b[0] \/ \E j \in 0 .. i-1 : j \in mm /\ q[j]))}
<1>1. 0 \in P
  BY DEF Raises
<1>2. ASSUME NEW i \in 0 .. n-1, i \in P PROVE i + 1 \in P
  <2>0. i + 1 \in 0 .. n /\ i \in Nat
    OBVIOUS
  <2>1. b[i] \in BOOLEAN /\ (b[i] <=> (b[0] \/ \E j \in 0 .. i-1 : j \in mm /\ q[j]))
    BY <1>2
  <2>2. \A j : j \in 0 .. (i+1)-1 <=> (j \in 0 .. i-1 \/ j = i)
    BY <2>0
  <2>3. (\E j \in 0 .. (i+1)-1 : j \in mm /\ q[j]) <=> ((\E j \in 0 .. i-1 : j \in mm /\ q[j]) \/ (i \in mm /\ q[i]))
    BY <2>2, Zenon
  <2>4. b[i + 1] \in BOOLEAN /\ (b[i + 1] <=> (b[i] \/ (i \in mm /\ q[i])))
    <3>1. CASE i \in mm
      <4>1. q[i] \in BOOLEAN /\ b[i + 1] = (b[i] \/ q[i])
        BY <3>1 DEF Raises
      <4> QED  BY <4>1, <3>1, <2>1
    <3>2. CASE i \notin mm
      <4>1. b[i + 1] = b[i]
        BY <3>2 DEF Raises
      <4> QED  BY <4>1, <3>2, <2>1
    <3> QED  BY <3>1, <3>2
  <2>5. b[i + 1] <=> (b[0] \/ \E j \in 0 .. (i+1)-1 : j \in mm /\ q[j])
    BY <2>1, <2>3, <2>4
  <2> QED  BY <2>0, <2>4, <2>5
<1>3. 0 .. n \subseteq P
  <2> HIDE DEF P
  <2> QED  BY <1>1, <1>2, StepByStep
<1>4. n \in P
  BY <1>3
<1> QED  BY <1>4 DEF RaisedByOne

\* The library's sum over the members below n is what adding them in order gives.
LEMMA PartialSums ==
  ASSUME NEW n \in Nat, NEW mm, NEW F \in [{j \in 0 .. n-1 : j \in mm} -> Int]
  PROVE  \E p : SumsUpTo(p, n, mm, F) /\ p[n] = SumFunction(F)
<1> DEFINE upto(i) == {j \in 0 .. i-1 : j \in mm}
<1>1. IsFiniteSet(upto(n))
  <2>1. 0 \in Int /\ n-1 \in Int
    OBVIOUS
  <2>2. IsFiniteSet(0 .. n-1)
    BY <2>1, FS_Interval, Zenon
  <2>3. upto(n) \subseteq 0 .. n-1
    OBVIOUS
  <2> HIDE DEF upto
  <2> QED  BY <2>2, <2>3, FS_Subset
<1>2. PICK g : IsSum(g, upto(n), F) /\ SumFunction(F) = g[upto(n)]
  BY <1>1, SumOfFunction
<1> DEFINE p == [i \in 0 .. n |-> g[upto(i)]]
<1>3. p[0] = 0 /\ p[n] = SumFunction(F)
  <2>1. upto(0) = {}
    OBVIOUS
  <2>2. g[{}] = 0
    BY <1>2 DEF IsSum
  <2> HIDE DEF upto
  <2> QED  BY <1>2, <2>1, <2>2
<1>4. ASSUME NEW i \in 0 .. n-1
      PROVE  (i \in mm => p[i + 1] = F[i] + p[i]) /\ (i \notin mm => p[i + 1] = p[i])
  <2>0. i + 1 \in 0 .. n /\ i \in 0 .. n /\ i \in Nat
    OBVIOUS
  <2>1. p[i + 1] = g[upto(i + 1)] /\ p[i] = g[upto(i)]
    <3> HIDE DEF upto
    <3> QED  BY <2>0
  <2>2. \A j : j \in 0 .. (i+1)-1 <=> (j \in 0 .. i-1 \/ j = i)
    BY <2>0
  <2>3. CASE i \in mm
    <3>1. i \notin 0 .. i-1
      BY <2>0
    <3>2. i \in upto(i + 1) /\ upto(i + 1) \ {i} = upto(i)
      BY <2>2, <2>3, <3>1, Zenon
    <3>3. upto(i + 1) \in SUBSET upto(n)
      <4>1. \A j \in 0 .. (i+1)-1 : j \in 0 .. n-1
        BY <2>0
      <4> QED  BY <4>1, Zenon
    <3> HIDE DEF upto, p
    <3>4. g[upto(i + 1)] = F[i] + g[upto(i + 1) \ {i}]
      BY <1>2, <3>2, <3>3, Zenon DEF IsSum
    <3> QED  BY <2>1, <2>3, <3>2, <3>4
  <2>4. CASE i \notin mm
    <3>1. upto(i + 1) = upto(i)
      BY <2>2, <2>4, Zenon
    <3> HIDE DEF upto, p
    <3> QED  BY <2>1, <2>4, <3>1
  <2> QED  BY <2>3, <2>4
<1> HIDE DEF p
<1>5. \A i \in 0 .. n-1 : i \in mm => F[i] \in Int
  OBVIOUS
<1> QED  BY <1>3, <1>4, <1>5 DEF SumsUpTo

\* what a reduction is over: vs1[0] and the active elements of vs2
ActiveBelow == {i \in 0 .. vl-1 : Active(i)}
Leading == Element(v, Vs1, sew, 0)
Reducing == {Leading} \cup {Src2(sew, i) : i \in ActiveBelow}

\* They are words of the type's width, of which the powers of two and the signs are known.
LEMMA ReducingWords ==
  ASSUME VectorState
  PROVE  /\ Leading \in Word(Bits(sew)) /\ Leading \in Nat /\ vl \in Nat /\ LengthFits
         /\ \A i \in 0 .. vl-1 : Src2(sew, i) \in Word(Bits(sew)) /\ Src2(sew, i) \in Nat
         /\ Bits(sew) \in Nat /\ TwosComplement(Bits(sew)) /\ Powers(Bits(sew))
         /\ 2^(2 * Bits(sew)) \in Nat \ {0} /\ Word(Bits(sew)) \subseteq Word(2 * Bits(sew))
<1>1. LengthFits /\ vl \in Nat /\ vl <= max_vl /\ max_vl \in Nat
  BY LengthIndex DEF VectorState
<1>2. ASSUME NEW i \in 0 .. vl-1 PROVE Src2(sew, i) \in Word(Bits(sew)) /\ Src2(sew, i) \in Nat
  <2>1. i \in Nat /\ i < max_vl
    <3> HIDE DEF max_vl
    <3> QED  BY <1>1
  <2>2. Vs2 \in 0 .. 16
    BY DEF Vs2
  <2> QED  BY <2>1, <2>2, OperandWords DEF Src2
<1>3. Leading \in Word(Bits(sew)) /\ Leading \in Nat
  <2>1. Vs1 \in Regs
    BY DEF Vs1, Regs
  <2> QED  BY <2>1, FirstElement DEF Leading
<1>4. sew \in 1 .. VLENB /\ 2 * sew \in 1 .. 2 * VLENB /\ 2 * Bits(sew) = Bits(2 * sew) /\ VLENB \in Nat /\ sew \in Nat
  BY <1>1, OperandWidths, VectorAssumption
<1> DEFINE w == Bits(sew)
<1>5. w \in Nat /\ TwosComplement(w) /\ 2^(2 * w) \in Nat \ {0} /\ w <= 2 * UW * VLENB /\ 2 * w <= 2 * UW * VLENB
  <2> HIDE DEF sew
  <2>1. sew \in 0 .. 2 * VLENB /\ sew > 0 /\ 2 * sew \in 0 .. 2 * VLENB
    BY <1>4
  <2>2. UW * sew \in 0 .. 2 * UW * VLENB /\ Bits(sew) = UW * sew /\ TwosComplement(UW * sew)
    BY <2>1, BytePow
  <2> DEFINE s2 == 2 * sew
  <2> HIDE DEF s2
  <2>3. s2 \in 0 .. 2 * VLENB
    BY <2>1 DEF s2
  <2>4. UW * s2 \in 0 .. 2 * UW * VLENB /\ Bits(s2) = UW * s2 /\ 2^(UW * s2) \in Nat \ {0}
    BY <2>3, BytePow
  <2>5. 2 * UW * VLENB \in Nat
    BY Pow
  <2>6. 2 * Bits(sew) = Bits(s2)
    BY <1>4 DEF s2
  <2> QED  BY <2>2, <2>4, <2>5, <2>6
<1> DEFINE N == 2 * UW * VLENB
<1>6. N \in Nat /\ Powers(N)
  BY Pow
<1> HIDE DEF w, N
<1>7. Powers(w)
  <2>1. w \in Nat /\ w <= N
    BY <1>5 DEF N
  <2>2. \A k \in 0 .. w-1 : k \in 0 .. N-1
    BY <1>6, <2>1
  <2> QED  BY <1>6, <2>2 DEF Powers
<1>8. Word(w) \subseteq Word(2 * w)
  <2> DEFINE p == 2^w  q == 2^(2 * w)
  <2>1. q = p * p
    <3>1. w \in Nat /\ w + w <= N
      BY <1>5 DEF N
    <3>2. 2^(w + w) = 2^w * 2^w
      BY <1>6, <3>1, PowersAdd
    <3>3. w + w = 2 * w
      BY <1>5
    <3> QED  BY <3>2, <3>3
  <2>2. p \in Nat \ {0} /\ q \in Nat \ {0}
    BY <1>5 DEF TwosComplement
  <2> HIDE DEF p, q
  <2>3. p <= p * p
    BY <2>2
  <2>4. p <= q
    BY <2>1, <2>2, <2>3
  <2>5. 0 .. p-1 \subseteq 0 .. q-1
    BY <2>2, <2>4
  <2> QED  BY <2>5 DEF Word, p, q
<1> QED  BY <1>1, <1>2, <1>3, <1>5, <1>7, <1>8 DEF w

\* The members of the set of active elements below vl.
LEMMA ActiveMembers ==
  ASSUME vl \in Nat
  PROVE  /\ ActiveBelow = {j \in 0 .. vl-1 : j \in ActiveSet}
         /\ \A i \in 0 .. vl-1 : i \in ActiveSet <=> Active(i)
<1>1. \A i \in 0 .. vl-1 : i \in ActiveSet <=> Active(i)
  BY DEF ActiveSet
<1> QED  BY <1>1 DEF ActiveBelow

\* each step adds the number val of the element, modulo M
AddsValues(op, val, M) ==
  /\ StartOf(op) = val[Leading] % M /\ val[Leading] \in Int
  /\ \A i \in 0 .. vl-1 : val[Src2(sew, i)] \in Int
  /\ \A a \in Nat, i \in 0 .. vl-1 : Accumulate(op, a, Src2(sew, i)) = (a + val[Src2(sew, i)]) % M

\* A reduction whose step adds a number for each element, modulo M, is a sum modulo M.
LEMMA ReducedSum ==
  ASSUME VectorState, NEW op \in Reductions, NEW M \in Nat \ {0}, NEW val, AddsValues(op, val, M)
  PROVE  Reduced(op) = (val[Leading] + SumFunction([i \in ActiveBelow |-> val[Src2(sew, i)]])) % M
<1>1. vl \in Nat
  BY ReducingWords
<1> DEFINE mm == ActiveSet  F == [i \in ActiveBelow |-> val[Src2(sew, i)]]
<1>2. ActiveBelow = {j \in 0 .. vl-1 : j \in mm} /\ \A i \in 0 .. vl-1 : i \in mm <=> Active(i)
  BY <1>1, ActiveMembers
<1>3. PICK h : Accumulated(op, h) /\ Reduced(op) = h[vl]
  BY ReducedLoop
<1>4. F \in [{j \in 0 .. vl-1 : j \in mm} -> Int]
  <2>1. \A i \in ActiveBelow : val[Src2(sew, i)] \in Int
    BY DEF ActiveBelow, AddsValues
  <2>2. F \in [ActiveBelow -> Int]
    BY <2>1
  <2> QED  BY <1>2, <2>2
<1>5. \A i \in 0 .. vl-1 : i \in mm => F[i] = val[Src2(sew, i)]
  BY <1>2 DEF ActiveBelow
<1> HIDE DEF F, mm
<1>6. PICK p : SumsUpTo(p, vl, mm, F) /\ p[vl] = SumFunction(F)
  BY <1>1, <1>4, PartialSums
<1> DEFINE c == val[Leading]
<1>7. AddsModulo(h, vl, M, mm, F)
  <2> SUFFICES ASSUME NEW i \in 0 .. vl-1
               PROVE  (i \in mm => h[i + 1] = (h[i] + F[i]) % M) /\ (i \notin mm => h[i + 1] = h[i])
    BY DEF AddsModulo
  <2>1. h[i] \in Nat
    <3>1. i \in 0 .. vl
      BY <1>1
    <3> QED  BY <1>3, <3>1 DEF Accumulated
  <2>2. h[i + 1] = IF Active(i) THEN Accumulate(op, h[i], Src2(sew, i)) ELSE h[i]
    BY <1>3 DEF Accumulated
  <2>3. Accumulate(op, h[i], Src2(sew, i)) = (h[i] + val[Src2(sew, i)]) % M
    BY <2>1 DEF AddsValues
  <2> QED  BY <1>2, <1>5, <2>2, <2>3
<1>8. h[0] = c % M /\ c \in Int
  BY <1>3 DEF Accumulated, AddsValues
<1> HIDE DEF c
<1>9. h[vl] = (c + p[vl]) % M
  <2>1. M \in Nat \ {0} /\ SumsUpTo(p, vl, mm, F)
    BY <1>6
  <2> QED  BY <1>1, <2>1, <1>7, <1>8, RunningSum
<1> QED  BY <1>3, <1>6, <1>9 DEF F, c

\* vredsum, vwredsumu and vwredsum are sums.
LEMMA SumsAreTotals ==
  ASSUME VectorState
  PROVE  LET w == Bits(sew)
             signed == [e \in Reducing |-> Signed(w, e)]
             total(val) == val[Leading] + SumFunction([i \in ActiveBelow |-> val[Src2(sew, i)]])
         IN  /\ Reduced("vredsum") = Trunc(w, total([e \in Reducing |-> e]))
             /\ Reduced("vwredsumu") = Trunc(2*w, total([e \in Reducing |-> e]))
             /\ Reduced("vwredsum") = Trunc(2*w, total(signed))
<1> DEFINE w == Bits(sew)
           signed == [e \in Reducing |-> Signed(w, e)]  same == [e \in Reducing |-> e]
<1>0. /\ vl \in Nat /\ Leading \in Word(w) /\ Leading \in Nat /\ w \in Nat /\ TwosComplement(w)
      /\ 2^(2 * w) \in Nat \ {0} /\ Word(w) \subseteq Word(2 * w)
      /\ \A i \in 0 .. vl-1 : Src2(sew, i) \in Word(w) /\ Src2(sew, i) \in Nat
  BY ReducingWords
<1>1. \A i \in ActiveBelow : i \in 0 .. vl-1
  BY DEF ActiveBelow
<1>2. Reducing \subseteq Word(w) /\ Reducing \subseteq Nat /\ Leading \in Reducing
  BY <1>0, <1>1 DEF Reducing
<1>3. \A e \in Word(w) : Signed(w, e) \in Int
  BY <1>0, SignedWord
<1>4. 2^w \in Nat \ {0}
  BY <1>0 DEF TwosComplement
<1> HIDE DEF w
\* every element of vs2, active or not
<1> DEFINE sv == [e \in Word(w) |-> Signed(w, e)]  nv == [e \in Word(w) |-> e]
<1>5. /\ \A e \in Word(w) : nv[e] = e /\ nv[e] \in Int /\ sv[e] = Signed(w, e) /\ sv[e] \in Int
      /\ [i \in ActiveBelow |-> nv[Src2(sew, i)]] = [i \in ActiveBelow |-> same[Src2(sew, i)]]
      /\ [i \in ActiveBelow |-> sv[Src2(sew, i)]] = [i \in ActiveBelow |-> signed[Src2(sew, i)]]
      /\ nv[Leading] = same[Leading] /\ sv[Leading] = signed[Leading]
  <2>1. \A e \in Word(w) : e \in Int
    BY <1>4 DEF Word
  <2>2. \A i \in ActiveBelow : Src2(sew, i) \in Reducing
    BY DEF Reducing
  <2>3. \A e \in Reducing : nv[e] = same[e] /\ sv[e] = signed[e]
    BY <1>2
  <2>4. \A e \in Word(w) : nv[e] = e /\ nv[e] \in Int /\ sv[e] = Signed(w, e) /\ sv[e] \in Int
    BY <1>3, <2>1
  <2> HIDE DEF nv, sv, same, signed
  <2> QED  BY <1>2, <2>2, <2>3, <2>4
<1> HIDE DEF nv, sv, same, signed
<1>6. \A e \in Word(w) : Trunc(w, e) = e /\ Trunc(2 * w, e) = e
  <2>1. ASSUME NEW e \in Word(w) PROVE Trunc(w, e) = e
    BY <1>0, <2>1, SignedWord
  <2>2. ASSUME NEW e \in Word(2 * w) PROVE Trunc(2 * w, e) = e
    <3> DEFINE m == 2^(2 * w)
    <3>1. m \in Nat \ {0} /\ e \in 0 .. m-1
      BY <1>0 DEF Word
    <3> HIDE DEF m
    <3>2. e % m = e
      BY <3>1
    <3> QED  BY <3>2 DEF Trunc, m
  <2> QED  BY <1>0, <2>1, <2>2
<1>7. Reduced("vredsum") = (nv[Leading] + SumFunction([i \in ActiveBelow |-> nv[Src2(sew, i)]])) % 2^w
  <2>1. StartOf("vredsum") = nv[Leading] % 2^w
    BY <1>0, <1>5, <1>6 DEF StartOf, Leading, Trunc
  <2>2. ASSUME NEW a \in Nat, NEW i \in 0 .. vl-1
        PROVE  Accumulate("vredsum", a, Src2(sew, i)) = (a + nv[Src2(sew, i)]) % 2^w
    <3>1. nv[Src2(sew, i)] = Src2(sew, i)
      BY <1>0, <1>5
    <3> QED  BY <3>1 DEF Accumulate, Vredsum, Vadd, Trunc, w
  <2>3. nv[Leading] \in Int /\ \A i \in 0 .. vl-1 : nv[Src2(sew, i)] \in Int
    BY <1>0, <1>5
  <2>4. "vredsum" \in Reductions
    BY DEF Reductions
  <2> QED  BY <1>4, <2>1, <2>2, <2>3, <2>4, ReducedSum DEF AddsValues
<1>8. Reduced("vwredsumu") = (nv[Leading] + SumFunction([i \in ActiveBelow |-> nv[Src2(sew, i)]])) % 2^(2*w)
  <2>1. StartOf("vwredsumu") = nv[Leading] % 2^(2*w)
    BY <1>0, <1>5, <1>6 DEF StartOf, Leading, Trunc
  <2>2. ASSUME NEW a \in Nat, NEW i \in 0 .. vl-1
        PROVE  Accumulate("vwredsumu", a, Src2(sew, i)) = (a + nv[Src2(sew, i)]) % 2^(2*w)
    <3>1. nv[Src2(sew, i)] = Src2(sew, i)
      BY <1>0, <1>5
    <3> QED  BY <3>1 DEF Accumulate, Vwredsumu, Trunc, w
  <2>3. nv[Leading] \in Int /\ \A i \in 0 .. vl-1 : nv[Src2(sew, i)] \in Int
    BY <1>0, <1>5
  <2>4. "vwredsumu" \in Reductions
    BY DEF Reductions
  <2> QED  BY <1>0, <2>1, <2>2, <2>3, <2>4, ReducedSum DEF AddsValues
<1>9. Reduced("vwredsum") = (sv[Leading] + SumFunction([i \in ActiveBelow |-> sv[Src2(sew, i)]])) % 2^(2*w)
  <2>1. StartOf("vwredsum") = sv[Leading] % 2^(2*w)
    BY <1>0, <1>5 DEF StartOf, Leading, Sext, Trunc, w
  <2>2. ASSUME NEW a \in Nat, NEW i \in 0 .. vl-1
        PROVE  Accumulate("vwredsum", a, Src2(sew, i)) = (a + sv[Src2(sew, i)]) % 2^(2*w)
    <3> DEFINE s == Signed(w, Src2(sew, i))  M == 2^(2*w)
    <3>1. sv[Src2(sew, i)] = s /\ s \in Int /\ M \in Nat \ {0}
      BY <1>0, <1>5
    <3>2. Accumulate("vwredsum", a, Src2(sew, i)) = (a + (s % M)) % M
      BY DEF Accumulate, Vwredsum, Sext, Trunc, w
    <3> HIDE DEF s, M
    <3>3. ((s % M) + a) % M = (s + a) % M /\ s % M \in Int
      <4>1. s \in Int /\ a \in Int /\ M \in Nat \ {0}
        BY <3>1
      <4> QED  BY <4>1, ModSum, Zenon
    <3>4. (s % M) + a = a + (s % M) /\ s + a = a + s
      BY <3>1, <3>3
    <3> QED  BY <3>1, <3>2, <3>3, <3>4 DEF M
  <2>3. sv[Leading] \in Int /\ \A i \in 0 .. vl-1 : sv[Src2(sew, i)] \in Int
    BY <1>0, <1>5
  <2>4. "vwredsum" \in Reductions
    BY DEF Reductions
  <2> QED  BY <1>0, <2>1, <2>2, <2>3, <2>4, ReducedSum DEF AddsValues
<1> QED  BY <1>5, <1>7, <1>8, <1>9 DEF Trunc, w, same, signed

\* Max of the library is the greatest member.
LEMMA MaxIs ==
  ASSUME NEW T \in SUBSET Int, NEW z \in T, \A y \in T : z >= y
  PROVE  Max(T) = z
<1>1. \A y \in T : (\A u \in T : y >= u) => y = z
  OBVIOUS
<1> QED  BY <1>1 DEF Max

\* Min of the library is the least member.
LEMMA MinIs ==
  ASSUME NEW T \in SUBSET Int, NEW z \in T, \A y \in T : z <= y
  PROVE  Min(T) = z
<1>1. \A y \in T : (\A u \in T : y <= u) => y = z
  OBVIOUS
<1> QED  BY <1>1 DEF Min

\* each step keeps the better of the accumulator and the element
PicksBetter(op, key) ==
  /\ StartOf(op) = Leading
  /\ \A a \in Nat, i \in 0 .. vl-1 :
       LET b == Src2(sew, i)  r == Accumulate(op, a, b) IN
       r \in {a, b} /\ key[r] >= key[a] /\ key[r] >= key[b]

\* A reduction whose step keeps the better of the accumulator and the element ends with the best.
LEMMA ReducedExtreme ==
  ASSUME VectorState, NEW op \in Reductions, NEW key \in [Nat -> Int], PicksBetter(op, key)
  PROVE  Best(Reduced(op), Reducing, key)
<1>1. vl \in Nat /\ Leading \in Nat /\ \A i \in 0 .. vl-1 : Src2(sew, i) \in Nat
  BY ReducingWords
<1> DEFINE mm == ActiveSet  F == [i \in 0 .. vl-1 |-> Src2(sew, i)]
<1>2. ActiveBelow = {j \in 0 .. vl-1 : j \in mm} /\ \A i \in 0 .. vl-1 : i \in mm <=> Active(i)
  BY <1>1, ActiveMembers
<1>3. PICK h : Accumulated(op, h) /\ Reduced(op) = h[vl]
  BY ReducedLoop
<1>4. Terms(Leading, F, vl, mm) = Reducing
  <2>1. Terms(Leading, F, vl, mm) = {Leading} \cup {F[i] : i \in ActiveBelow}
    BY <1>2 DEF Terms
  <2>2. \A i \in ActiveBelow : F[i] = Src2(sew, i)
    BY DEF ActiveBelow
  <2> HIDE DEF F
  <2> QED  BY <2>1, <2>2 DEF Reducing
<1>5. \A i \in 0 .. vl-1 : F[i] = Src2(sew, i)
  OBVIOUS
<1> HIDE DEF F, mm
<1>6. KeepsBetter(h, vl, mm, F, key)
  <2> SUFFICES ASSUME NEW i \in 0 .. vl-1
               PROVE  /\ i \in mm => /\ F[i] \in Nat /\ h[i + 1] \in {h[i], F[i]}
                                     /\ (h[i] \in Nat => key[h[i + 1]] >= key[h[i]] /\ key[h[i + 1]] >= key[F[i]])
                      /\ i \notin mm => h[i + 1] = h[i]
    BY DEF KeepsBetter
  <2>1. h[i] \in Nat
    <3>1. i \in 0 .. vl
      BY <1>1
    <3> QED  BY <1>3, <3>1 DEF Accumulated
  <2>2. h[i + 1] = IF Active(i) THEN Accumulate(op, h[i], Src2(sew, i)) ELSE h[i]
    BY <1>3 DEF Accumulated
  <2> DEFINE r == Accumulate(op, h[i], Src2(sew, i))
  <2>3. r \in {h[i], Src2(sew, i)} /\ key[r] >= key[h[i]] /\ key[r] >= key[Src2(sew, i)]
    BY <2>1 DEF PicksBetter
  <2> HIDE DEF r
  <2>4. F[i] = Src2(sew, i) /\ F[i] \in Nat /\ (i \in mm <=> Active(i))
    BY <1>1, <1>2, <1>5
  <2>5. i \in mm => h[i + 1] = r
    BY <2>2, <2>4 DEF r
  <2>6. i \notin mm => h[i + 1] = h[i]
    BY <2>2, <2>4
  <2> QED  BY <2>3, <2>4, <2>5, <2>6
<1>7. h[0] = Leading
  BY <1>3 DEF Accumulated, PicksBetter
<1>8. Best(h[vl], Terms(Leading, F, vl, mm), key)
  BY <1>1, <1>6, <1>7, RunningExtreme
<1> QED  BY <1>3, <1>4, <1>8

\* vredmaxu, vredminu, vredmax and vredmin are the extremes.
LEMMA ExtremesAreExtremes ==
  ASSUME VectorState
  PROVE  LET w == Bits(sew)
             signed == [e \in Reducing |-> Signed(w, e)]
         IN  /\ Reduced("vredmaxu") = Max(Reducing) /\ Reduced("vredminu") = Min(Reducing)
             /\ Signed(w, Reduced("vredmax")) = Max({signed[e] : e \in Reducing})
             /\ Signed(w, Reduced("vredmin")) = Min({signed[e] : e \in Reducing})
<1> DEFINE w == Bits(sew)
<1>0. /\ Leading \in Nat /\ w \in Nat /\ TwosComplement(w)
      /\ \A i \in 0 .. vl-1 : Src2(sew, i) \in Nat
  BY ReducingWords
<1>1. \A op \in {"vredmaxu", "vredminu", "vredmax", "vredmin"} : op \in Reductions /\ StartOf(op) = Leading
  BY DEF Reductions, StartOf, Leading
<1>2. \A a \in Nat : Signed(w, a) \in Int
  <2>1. 2^w \in Nat /\ 2^(w-1) \in Nat
    BY <1>0 DEF TwosComplement
  <2> HIDE DEF w
  <2> QED  BY <2>1 DEF Signed
<1>3. ASSUME NEW a \in Nat, NEW i \in 0 .. vl-1
      PROVE  LET b == Src2(sew, i) IN
             /\ Accumulate("vredmaxu", a, b) = IF a < b THEN b ELSE a
             /\ Accumulate("vredminu", a, b) = IF b < a THEN b ELSE a
             /\ Accumulate("vredmax", a, b) = IF Signed(w, a) > Signed(w, b) THEN a ELSE b
             /\ Accumulate("vredmin", a, b) = IF Signed(w, a) < Signed(w, b) THEN a ELSE b
  BY DEF Accumulate, Vredmaxu, Vredminu, Vredmax, Vredmin, Vmax, Vmin, Greater, Lesser
<1> HIDE DEF w
<1> DEFINE up == [a \in Nat |-> a]  down == [a \in Nat |-> -a]
           sup == [a \in Nat |-> Signed(w, a)]  sdown == [a \in Nat |-> -Signed(w, a)]
<1>4. /\ up \in [Nat -> Int] /\ down \in [Nat -> Int] /\ sup \in [Nat -> Int] /\ sdown \in [Nat -> Int]
      /\ \A a \in Nat : /\ up[a] = a /\ down[a] = -a
                        /\ sup[a] = Signed(w, a) /\ sdown[a] = -Signed(w, a)
  BY <1>2
<1> HIDE DEF up, down, sup, sdown
<1>5. PicksBetter("vredmaxu", up) /\ PicksBetter("vredminu", down)
  BY <1>0, <1>1, <1>3, <1>4 DEF PicksBetter
<1>6. PicksBetter("vredmax", sup) /\ PicksBetter("vredmin", sdown)
  BY <1>0, <1>1, <1>2, <1>3, <1>4 DEF PicksBetter
<1>7. /\ Best(Reduced("vredmaxu"), Reducing, up) /\ Best(Reduced("vredminu"), Reducing, down)
      /\ Best(Reduced("vredmax"), Reducing, sup) /\ Best(Reduced("vredmin"), Reducing, sdown)
  BY <1>1, <1>4, <1>5, <1>6, ReducedExtreme
<1>8. Reducing \subseteq Nat
  BY <1>7 DEF Best
<1>9. Reduced("vredmaxu") = Max(Reducing)
  <2>1. Reducing \in SUBSET Int /\ Reduced("vredmaxu") \in Reducing /\ \A y \in Reducing : Reduced("vredmaxu") >= y
    BY <1>4, <1>7, <1>8 DEF Best
  <2> QED  BY <2>1, MaxIs
<1>10. Reduced("vredminu") = Min(Reducing)
  <2>1. Reducing \in SUBSET Int /\ Reduced("vredminu") \in Reducing /\ \A y \in Reducing : Reduced("vredminu") <= y
    BY <1>4, <1>7, <1>8 DEF Best
  <2> QED  BY <2>1, MinIs
<1> DEFINE signed == [e \in Reducing |-> Signed(w, e)]  T == {signed[e] : e \in Reducing}
<1>11. Signed(w, Reduced("vredmax")) = Max(T)
  <2>1. Reduced("vredmax") \in Reducing /\ \A y \in Reducing : Signed(w, Reduced("vredmax")) >= Signed(w, y)
    BY <1>4, <1>7 DEF Best
  <2>2. \A e \in Reducing : signed[e] = Signed(w, e) /\ signed[e] \in Int
    BY <1>2, <1>8
  <2> HIDE DEF signed
  <2>3. T \in SUBSET Int /\ Signed(w, Reduced("vredmax")) \in T /\ \A y \in T : Signed(w, Reduced("vredmax")) >= y
    BY <2>1, <2>2
  <2> HIDE DEF T
  <2> QED  BY <2>3, MaxIs
<1>12. Signed(w, Reduced("vredmin")) = Min(T)
  <2>1. Reduced("vredmin") \in Reducing /\ \A y \in Reducing : Signed(w, Reduced("vredmin")) <= Signed(w, y)
    <3>1. \A y \in Reducing : /\ Signed(w, y) \in Int /\ -Signed(w, Reduced("vredmin")) >= -Signed(w, y)
      BY <1>2, <1>4, <1>7 DEF Best
    <3>2. Reduced("vredmin") \in Reducing
      BY <1>7 DEF Best
    <3> QED  BY <3>1, <3>2
  <2>2. \A e \in Reducing : signed[e] = Signed(w, e) /\ signed[e] \in Int
    BY <1>2, <1>8
  <2> HIDE DEF signed
  <2>3. T \in SUBSET Int /\ Signed(w, Reduced("vredmin")) \in T /\ \A y \in T : Signed(w, Reduced("vredmin")) <= y
    BY <2>1, <2>2
  <2> HIDE DEF T
  <2> QED  BY <2>3, MinIs
<1> QED  BY <1>9, <1>10, <1>11, <1>12 DEF w

\* the flag fl of the accumulator is up when that of the accumulator before or the element is
TracksFlag(op, fl, W) ==
  /\ StartOf(op) = Leading /\ Leading \in W /\ fl \in [W -> BOOLEAN]
  /\ \A i \in 0 .. vl-1 : Src2(sew, i) \in W
  /\ \A a \in W, b \in W : LET r == Accumulate(op, a, b) IN r \in W /\ fl[r] = (fl[a] \/ fl[b])

\* A reduction over words that keeps a flag up ends with it up when an element has it up.
LEMMA ReducedAny ==
  ASSUME VectorState, NEW op \in Reductions, NEW W, NEW fl, TracksFlag(op, fl, W)
  PROVE  Reduced(op) \in W /\ (fl[Reduced(op)] <=> \E e \in Reducing : fl[e])
<1>1. vl \in Nat
  BY ReducingWords
<1> DEFINE mm == ActiveSet
<1>2. ActiveBelow = {j \in 0 .. vl-1 : j \in mm} /\ \A i \in 0 .. vl-1 : i \in mm <=> Active(i)
  BY <1>1, ActiveMembers
<1> HIDE DEF mm
<1>3. PICK h : Accumulated(op, h) /\ Reduced(op) = h[vl]
  BY ReducedLoop
<1> DEFINE T == {i \in 0 .. vl : h[i] \in W}
<1>4. 0 \in T /\ h[0] = Leading
  BY <1>1, <1>3 DEF Accumulated, TracksFlag
<1>5. ASSUME NEW i \in 0 .. vl-1, h[i] \in W
      PROVE  /\ h[i + 1] \in W
             /\ i \in mm => fl[h[i + 1]] = (fl[h[i]] \/ fl[Src2(sew, i)])
             /\ i \notin mm => h[i + 1] = h[i]
  <2>1. h[i + 1] = IF Active(i) THEN Accumulate(op, h[i], Src2(sew, i)) ELSE h[i]
    BY <1>3 DEF Accumulated
  <2> DEFINE r == Accumulate(op, h[i], Src2(sew, i))
  <2>2. r \in W /\ fl[r] = (fl[h[i]] \/ fl[Src2(sew, i)])
    BY <1>5 DEF TracksFlag
  <2> HIDE DEF r
  <2>3. CASE Active(i)
    <3>1. h[i + 1] = r /\ i \in mm
      BY <1>2, <2>1, <2>3 DEF r
    <3> QED  BY <2>2, <3>1
  <2>4. CASE ~Active(i)
    <3>1. h[i + 1] = h[i] /\ i \notin mm
      BY <1>2, <2>1, <2>4
    <3> QED  BY <1>5, <3>1
  <2> QED  BY <2>3, <2>4
<1>6. 0 .. vl \subseteq T
  <2>1. \A i \in 0 .. vl-1 : i \in T => i + 1 \in T
    <3> SUFFICES ASSUME NEW i \in 0 .. vl-1, i \in T PROVE i + 1 \in T
      OBVIOUS
    <3>1. i + 1 \in 0 .. vl /\ h[i] \in W
      BY <1>1
    <3> QED  BY <1>5, <3>1
  <2> HIDE DEF T
  <2> QED  BY <1>1, <1>4, <2>1, StepByStep
<1>7. \A i \in 0 .. vl : h[i] \in W
  BY <1>6
<1> DEFINE b == [i \in 0 .. vl |-> fl[h[i]]]  q == [i \in 0 .. vl-1 |-> fl[Src2(sew, i)]]
<1>8. Raises(b, vl, mm, q)
  <2>1. b[0] \in BOOLEAN
    <3>1. 0 \in 0 .. vl
      BY <1>1
    <3>2. b[0] = fl[h[0]] /\ h[0] \in W
      BY <1>7, <3>1
    <3>3. fl \in [W -> BOOLEAN]
      BY DEF TracksFlag
    <3> HIDE DEF b
    <3> QED  BY <3>2, <3>3
  <2>2. ASSUME NEW i \in 0 .. vl-1
        PROVE  /\ q[i] \in BOOLEAN
               /\ i \in mm => b[i + 1] = (b[i] \/ q[i])
               /\ i \notin mm => b[i + 1] = b[i]
    <3>1. i \in 0 .. vl /\ i + 1 \in 0 .. vl
      BY <1>1
    <3>2. b[i] = fl[h[i]] /\ b[i + 1] = fl[h[i + 1]] /\ q[i] = fl[Src2(sew, i)]
      BY <3>1
    <3>3. fl[Src2(sew, i)] \in BOOLEAN
      BY DEF TracksFlag
    <3>4. h[i] \in W
      BY <1>7, <3>1
    <3> HIDE DEF b, q
    <3> QED  BY <1>5, <3>2, <3>3, <3>4
  <2> HIDE DEF b, q
  <2> QED  BY <2>1, <2>2 DEF Raises
<1>9. RaisedByOne(b, vl, mm, q)
  <2> HIDE DEF b, q
  <2> QED  BY <1>1, <1>8, RunningAny
<1>10. b[vl] = fl[Reduced(op)] /\ b[0] = fl[Leading] /\ \A i \in ActiveBelow : q[i] = fl[Src2(sew, i)]
  BY <1>1, <1>3, <1>4 DEF ActiveBelow
<1> HIDE DEF b, q
<1>11. fl[Reduced(op)] <=> (fl[Leading] \/ \E i \in ActiveBelow : fl[Src2(sew, i)])
  <2>1. b[vl] <=> (b[0] \/ \E i \in ActiveBelow : q[i])
    BY <1>2, <1>9 DEF RaisedByOne
  <2> QED  BY <1>10, <2>1
<1>12. (\E e \in Reducing : fl[e]) <=> (fl[Leading] \/ \E i \in ActiveBelow : fl[Src2(sew, i)])
  BY Zenon DEF Reducing
<1>13. Reduced(op) \in W
  BY <1>1, <1>3, <1>7
<1> QED  BY <1>11, <1>12, <1>13

\* What and, or and exclusive or of two words do to the flag of one bit.
LEMMA FlagOfBits ==
  ASSUME VectorState, NEW j \in 0 .. Bits(sew)-1
  PROVE  /\ TracksFlag("vredor", [e \in Word(Bits(sew)) |-> Bit(e, j) = 1], Word(Bits(sew)))
         /\ TracksFlag("vredand", [e \in Word(Bits(sew)) |-> Bit(e, j) # 1], Word(Bits(sew)))
<1> DEFINE w == Bits(sew)
<1>1. /\ Leading \in Word(w) /\ w \in Nat /\ Powers(w) /\ \A i \in 0 .. vl-1 : Src2(sew, i) \in Word(w)
  BY ReducingWords
<1>2. /\ StartOf("vredor") = Leading /\ StartOf("vredand") = Leading
      /\ \A a, b \in Word(w) : Accumulate("vredor", a, b) = (a | b) /\ Accumulate("vredand", a, b) = (a & b)
  BY DEF StartOf, Leading, Accumulate, Vredor, Vredand
<1> HIDE DEF w
<1>3. ASSUME NEW a \in Word(w), NEW b \in Word(w)
      PROVE  /\ (a & b) \in Word(w) /\ (a | b) \in Word(w) /\ BitByBit(a, b, j)
  BY <1>1, WordBits DEF w
<1> DEFINE ones == [e \in Word(w) |-> Bit(e, j) = 1]  zeros == [e \in Word(w) |-> Bit(e, j) # 1]
<1>4. /\ ones \in [Word(w) -> BOOLEAN] /\ zeros \in [Word(w) -> BOOLEAN]
      /\ \A e \in Word(w) : (ones[e] <=> Bit(e, j) = 1) /\ (zeros[e] <=> Bit(e, j) # 1)
  OBVIOUS
<1> HIDE DEF ones, zeros
<1>5. ASSUME NEW a \in Word(w), NEW b \in Word(w)
      PROVE  ones[a | b] = (ones[a] \/ ones[b]) /\ zeros[a & b] = (zeros[a] \/ zeros[b])
  <2>1. /\ (a & b) \in Word(w) /\ (a | b) \in Word(w)
        /\ Bit(a & b, j) = (IF Bit(a, j) = 1 /\ Bit(b, j) = 1 THEN 1 ELSE 0)
        /\ Bit(a | b, j) = (IF Bit(a, j) = 1 \/ Bit(b, j) = 1 THEN 1 ELSE 0)
    BY <1>3 DEF BitByBit
  <2>2. (ones[a | b] <=> (ones[a] \/ ones[b])) /\ (zeros[a & b] <=> (zeros[a] \/ zeros[b]))
    BY <1>4, <2>1
  <2>3. ones[a | b] \in BOOLEAN /\ zeros[a & b] \in BOOLEAN
    BY <1>4, <2>1
  <2> QED  BY <2>2, <2>3
<1>6. TracksFlag("vredor", ones, Word(w)) /\ TracksFlag("vredand", zeros, Word(w))
  <2>1. ASSUME NEW a \in Word(w), NEW b \in Word(w)
        PROVE  /\ Accumulate("vredor", a, b) \in Word(w)
               /\ ones[Accumulate("vredor", a, b)] = (ones[a] \/ ones[b])
               /\ Accumulate("vredand", a, b) \in Word(w)
               /\ zeros[Accumulate("vredand", a, b)] = (zeros[a] \/ zeros[b])
    <3>1. Accumulate("vredor", a, b) = (a | b) /\ Accumulate("vredand", a, b) = (a & b)
      BY <1>2
    <3> QED  BY <1>3, <1>5, <3>1
  <2>2. TracksFlag("vredor", ones, Word(w))
    BY <1>1, <1>2, <1>4, <2>1, Zenon DEF TracksFlag
  <2>3. TracksFlag("vredand", zeros, Word(w))
    BY <1>1, <1>2, <1>4, <2>1, Zenon DEF TracksFlag
  <2> QED  BY <2>2, <2>3
<1> QED  BY <1>6 DEF ones, zeros, w

\* vredor and vredand are the bits that some or all have.
LEMMA OrAndBits ==
  ASSUME VectorState, NEW j \in 0 .. Bits(sew)-1
  PROVE  /\ (Bit(Reduced("vredor"), j) = 1) = (\E e \in Reducing : Bit(e, j) = 1)
         /\ (Bit(Reduced("vredand"), j) = 1) = (\A e \in Reducing : Bit(e, j) = 1)
<1> DEFINE w == Bits(sew)
           ones == [e \in Word(w) |-> Bit(e, j) = 1]  zeros == [e \in Word(w) |-> Bit(e, j) # 1]
<1>1. TracksFlag("vredor", ones, Word(w)) /\ TracksFlag("vredand", zeros, Word(w))
  BY FlagOfBits
<1>2. Reducing \subseteq Word(w)
  <2>1. /\ Leading \in Word(w) /\ \A i \in 0 .. vl-1 : Src2(sew, i) \in Word(w)
    BY ReducingWords
  <2> HIDE DEF w
  <2> QED  BY <2>1 DEF Reducing, ActiveBelow
<1> HIDE DEF w
<1>3. \A e \in Word(w) : (ones[e] <=> Bit(e, j) = 1) /\ (zeros[e] <=> Bit(e, j) # 1)
  OBVIOUS
<1> HIDE DEF ones, zeros
<1>4. "vredor" \in Reductions /\ "vredand" \in Reductions
  BY DEF Reductions
<1>5. /\ Reduced("vredor") \in Word(w) /\ (ones[Reduced("vredor")] <=> \E e \in Reducing : ones[e])
      /\ Reduced("vredand") \in Word(w) /\ (zeros[Reduced("vredand")] <=> \E e \in Reducing : zeros[e])
  BY <1>1, <1>4, ReducedAny
<1>6. Bit(Reduced("vredor"), j) = 1 <=> (\E e \in Reducing : Bit(e, j) = 1)
  BY <1>2, <1>3, <1>5, Zenon
<1>7. Bit(Reduced("vredand"), j) = 1 <=> (\A e \in Reducing : Bit(e, j) = 1)
  BY <1>2, <1>3, <1>5, Zenon
<1> QED  BY <1>6, <1>7

\* vredxor has the bits that an odd number of them have.
LEMMA XorBitSums ==
  ASSUME VectorState, NEW j \in 0 .. Bits(sew)-1
  PROVE  LET bits == [e \in Reducing |-> Bit(e, j)] IN
         Bit(Reduced("vredxor"), j) = (bits[Leading] + SumFunction([i \in ActiveBelow |-> bits[Src2(sew, i)]])) % 2
<1> DEFINE w == Bits(sew)
<1>1. /\ Leading \in Word(w) /\ w \in Nat /\ Powers(w) /\ \A i \in 0 .. vl-1 : Src2(sew, i) \in Word(w)
      /\ vl \in Nat
  BY ReducingWords
<1>2. /\ StartOf("vredxor") = Leading /\ "vredxor" \in Reductions
      /\ \A a, b \in Word(w) : Accumulate("vredxor", a, b) = (a ^^ b)
  BY DEF StartOf, Leading, Accumulate, Vredxor, Reductions
<1> HIDE DEF w
<1>3. ASSUME NEW a \in Word(w), NEW b \in Word(w)
      PROVE  /\ (a ^^ b) \in Word(w) /\ Bit(a, j) \in 0 .. 1 /\ Bit(b, j) \in 0 .. 1
             /\ Bit(a ^^ b, j) = (Bit(a, j) + Bit(b, j)) % 2
  <2>1. (a ^^ b) \in Word(w) /\ BitByBit(a, b, j)
    BY <1>1, WordBits DEF w
  <2> DEFINE p == Bit(a, j)  q == Bit(b, j)
  <2>2. p \in 0 .. 1 /\ q \in 0 .. 1 /\ Bit(a ^^ b, j) = IF p = q THEN 0 ELSE 1
    BY <2>1 DEF BitByBit
  <2> HIDE DEF p, q
  <2>3. (p + q) % 2 = IF p = q THEN 0 ELSE 1
    BY <2>2
  <2> QED  BY <2>1, <2>2, <2>3 DEF p, q
<1> DEFINE mm == ActiveSet  F == [i \in ActiveBelow |-> Bit(Src2(sew, i), j)]
<1>4. ActiveBelow = {i \in 0 .. vl-1 : i \in mm} /\ \A i \in 0 .. vl-1 : i \in mm <=> Active(i)
  BY <1>1, ActiveMembers
<1>5. F \in [{i \in 0 .. vl-1 : i \in mm} -> Int]
  <2>1. \A i \in ActiveBelow : Bit(Src2(sew, i), j) \in Int
    BY <1>1, <1>3 DEF ActiveBelow
  <2>2. F \in [ActiveBelow -> Int]
    BY <2>1
  <2> QED  BY <1>4, <2>2
<1>6. \A i \in 0 .. vl-1 : i \in mm => F[i] = Bit(Src2(sew, i), j)
  BY <1>4
<1> HIDE DEF F, mm
<1>7. PICK p : SumsUpTo(p, vl, mm, F) /\ p[vl] = SumFunction(F)
  BY <1>1, <1>5, PartialSums
<1>8. PICK h : Accumulated("vredxor", h) /\ Reduced("vredxor") = h[vl]
  BY <1>2, ReducedLoop
<1> DEFINE T == {i \in 0 .. vl : h[i] \in Word(w)}
<1>9. ASSUME NEW i \in 0 .. vl-1, h[i] \in Word(w)
      PROVE  /\ h[i + 1] \in Word(w)
             /\ i \in mm => Bit(h[i + 1], j) = (Bit(h[i], j) + F[i]) % 2
             /\ i \notin mm => h[i + 1] = h[i]
  <2>1. h[i + 1] = IF Active(i) THEN Accumulate("vredxor", h[i], Src2(sew, i)) ELSE h[i]
    BY <1>8 DEF Accumulated
  <2>2. CASE Active(i)
    <3>1. h[i + 1] = (h[i] ^^ Src2(sew, i)) /\ i \in mm
      BY <1>1, <1>2, <1>4, <1>9, <2>1, <2>2
    <3>2. F[i] = Bit(Src2(sew, i), j) /\ Src2(sew, i) \in Word(w)
      BY <1>1, <1>6, <3>1
    <3> QED  BY <1>3, <1>9, <3>1, <3>2
  <2>3. CASE ~Active(i)
    BY <1>4, <1>9, <2>1, <2>3
  <2> QED  BY <2>2, <2>3
<1>10. h[0] = Leading /\ 0 \in T
  BY <1>1, <1>2, <1>8 DEF Accumulated
<1>11. 0 .. vl \subseteq T
  <2>1. \A i \in 0 .. vl-1 : i \in T => i + 1 \in T
    <3> SUFFICES ASSUME NEW i \in 0 .. vl-1, i \in T PROVE i + 1 \in T
      OBVIOUS
    <3>1. i + 1 \in 0 .. vl /\ h[i] \in Word(w)
      BY <1>1
    <3> QED  BY <1>9, <3>1
  <2> HIDE DEF T
  <2> QED  BY <1>1, <1>10, <2>1, StepByStep
<1>12. \A i \in 0 .. vl : h[i] \in Word(w)
  BY <1>11
<1> DEFINE b == [i \in 0 .. vl |-> Bit(h[i], j)]  c == Bit(Leading, j)
<1>13. AddsModulo(b, vl, 2, mm, F)
  <2>1. ASSUME NEW i \in 0 .. vl-1
        PROVE  (i \in mm => b[i + 1] = (b[i] + F[i]) % 2) /\ (i \notin mm => b[i + 1] = b[i])
    <3>1. i \in 0 .. vl /\ i + 1 \in 0 .. vl
      BY <1>1
    <3>2. b[i] = Bit(h[i], j) /\ b[i + 1] = Bit(h[i + 1], j) /\ h[i] \in Word(w)
      BY <1>12, <3>1
    <3> HIDE DEF b
    <3> QED  BY <1>9, <3>2
  <2> HIDE DEF b
  <2> QED  BY <2>1 DEF AddsModulo
<1>14. b[0] = c % 2 /\ c \in Int /\ b[vl] = Bit(Reduced("vredxor"), j)
  <2>1. b[0] = Bit(Leading, j) /\ b[vl] = Bit(Reduced("vredxor"), j)
    BY <1>1, <1>8, <1>10
  <2>2. c \in 0 .. 1
    BY <1>1, <1>3
  <2> HIDE DEF b
  <2>3. b[0] = c
    BY <2>1
  <2> HIDE DEF c
  <2>4. c % 2 = c
    BY <2>2
  <2> QED  BY <2>1, <2>2, <2>3, <2>4
<1> HIDE DEF b, c
<1>15. b[vl] = (c + p[vl]) % 2
  <2>1. 2 \in Nat \ {0}
    OBVIOUS
  <2> QED  BY <1>1, <1>7, <1>13, <1>14, <2>1, RunningSum
<1> DEFINE bits == [e \in Reducing |-> Bit(e, j)]
<1>16. bits[Leading] = c /\ F = [i \in ActiveBelow |-> bits[Src2(sew, i)]]
  <2>1. bits[Leading] = c
    BY DEF Reducing, c
  <2>2. \A i \in ActiveBelow : bits[Src2(sew, i)] = Bit(Src2(sew, i), j)
    BY DEF Reducing
  <2> HIDE DEF bits
  <2> QED  BY <2>1, <2>2 DEF F
<1> HIDE DEF bits
<1>17. Bit(Reduced("vredxor"), j) = (c + SumFunction(F)) % 2
  BY <1>7, <1>14, <1>15
<1> QED  BY <1>16, <1>17 DEF bits

\* A reduction is the sum, the extreme or the bitwise combination of vs1[0] and the active
\* elements.
LEMMA ReductionsFold == ASSUME VectorState PROVE ReductionsAreFolds
<1> DEFINE w == Bits(sew)
           signed == [e \in Reducing |-> Signed(w, e)]
           total(val) == val[Leading] + SumFunction([i \in ActiveBelow |-> val[Src2(sew, i)]])
<1>1. /\ Reduced("vredsum") = Trunc(w, total([e \in Reducing |-> e]))
      /\ Reduced("vwredsumu") = Trunc(2*w, total([e \in Reducing |-> e]))
      /\ Reduced("vwredsum") = Trunc(2*w, total(signed))
  BY SumsAreTotals
<1>2. /\ Reduced("vredmaxu") = Max(Reducing) /\ Reduced("vredminu") = Min(Reducing)
      /\ Signed(w, Reduced("vredmax")) = Max({signed[e] : e \in Reducing})
      /\ Signed(w, Reduced("vredmin")) = Min({signed[e] : e \in Reducing})
  BY ExtremesAreExtremes
<1>3. ASSUME NEW j \in 0 .. w-1
      PROVE  /\ (Bit(Reduced("vredor"), j) = 1) = (\E e \in Reducing : Bit(e, j) = 1)
             /\ (Bit(Reduced("vredand"), j) = 1) = (\A e \in Reducing : Bit(e, j) = 1)
             /\ Bit(Reduced("vredxor"), j) = total([e \in Reducing |-> Bit(e, j)]) % 2
  BY OrAndBits, XorBitSums
<1>4. /\ ActiveBelow = {i \in 0 .. vl-1 : Active(i)} /\ Leading = Element(v, Vs1, sew, 0)
      /\ Reducing = {Leading} \cup {Src2(sew, i) : i \in ActiveBelow}
  BY DEF ActiveBelow, Leading, Reducing
<1>5. \A j \in 0 .. w-1 :
             /\ (Bit(Reduced("vredor"), j) = 1) = (\E e \in Reducing : Bit(e, j) = 1)
             /\ (Bit(Reduced("vredand"), j) = 1) = (\A e \in Reducing : Bit(e, j) = 1)
             /\ Bit(Reduced("vredxor"), j) = total([e \in Reducing |-> Bit(e, j)]) % 2
  BY <1>3, Zenon
<1> QED  BY <1>1, <1>2, <1>5, Zenon DEF ReductionsAreFolds, ActiveBelow, Leading, Reducing

-----------------------------------------------------------------------------
(* The active elements of every instruction, in every state. *)

\* The bits of a mask register that SetBits wrote, as a set.
LEMMA WrittenBits ==
  ASSUME VectorState, NEW is \in SUBSET Index, NEW val, \A i \in is : val[i] \in BOOLEAN
  PROVE  BitsOf(SetBits(v, VdOdd, is, val), VdOdd)
           = {i \in Index : IF i \in is THEN val[i] ELSE MaskBit(v, VdOdd, i)}
<1> DEFINE g == SetBits(v, VdOdd, is, val)
<1>1. v \in Files /\ VdOdd \in Regs
  BY DEF VectorState, VdOdd, Regs
<1>2. \A s \in Regs, j \in Index :
         MaskBit(g, s, j) <=> (IF s = VdOdd /\ j \in is THEN val[j] ELSE MaskBit(v, s, j))
  BY <1>1, SetBitsBits, Zenon
<1> HIDE DEF g
<1>3. \A j \in Index : MaskBit(g, VdOdd, j) <=> (IF j \in is THEN val[j] ELSE MaskBit(v, VdOdd, j))
  BY <1>1, <1>2
<1>4. BitsOf(g, VdOdd) = {j \in Index : MaskBit(g, VdOdd, j)}
  BY DEF BitsOf, Index
<1>5. BitsOf(g, VdOdd) = {i \in Index : IF i \in is THEN val[i] ELSE MaskBit(v, VdOdd, i)}
  BY <1>3, <1>4
<1> QED  BY <1>5 DEF g

\* A compare writes the bits of the active elements from vstart and no other.
LEMMA ComparedBits ==
  ASSUME VectorState
  PROVE  BitsOf(SetBits(v, VdOdd, {i \in vstart .. vl-1 : Active(i)}, CompareBits), VdOdd)
         = {i \in 0 .. UW * VLENB - 1 :
              IF i \in vstart .. vl-1 /\ Active(i) THEN CompareBits[i] ELSE MaskBit(v, VdOdd, i)}
<1> DEFINE is == {i \in vstart .. vl-1 : Active(i)}
<1>1. is \in SUBSET Index
  <2>1. vstart \in Nat /\ vl \in Nat /\ LengthFits
    BY LengthIndex DEF VectorState
  <2>2. 0 .. vl-1 \subseteq Index
    BY <2>1, ElementsInIndex
  <2>3. vstart .. vl-1 \subseteq 0 .. vl-1
    BY <2>1
  <2> QED  BY <2>2, <2>3
<1>2. \A i \in is : CompareBits[i] \in BOOLEAN
  BY <1>1 DEF CompareBits
<1>3. \A i : i \in is <=> (i \in vstart .. vl-1 /\ Active(i))
  OBVIOUS
<1> HIDE DEF is
<1>4. BitsOf(SetBits(v, VdOdd, is, CompareBits), VdOdd)
        = {i \in Index : IF i \in is THEN CompareBits[i] ELSE MaskBit(v, VdOdd, i)}
  BY <1>1, <1>2, WrittenBits
<1>5. {i \in Index : IF i \in is THEN CompareBits[i] ELSE MaskBit(v, VdOdd, i)}
        = {i \in 0 .. UW * VLENB - 1 :
              IF i \in vstart .. vl-1 /\ Active(i) THEN CompareBits[i] ELSE MaskBit(v, VdOdd, i)}
  BY <1>3 DEF Index
<1> QED  BY <1>4, <1>5 DEF is

\* In every state of the unit the loops write the active elements and no other.
LEMMA ActiveElements == VectorState => ActiveElementsOnly
<1> SUFFICES ASSUME VectorState PROVE ActiveElementsOnly
  OBVIOUS
<1>1. IsFile(v) /\ vl \in Nat /\ vstart \in Nat /\ LengthFits
  BY TypedFile, LengthIndex DEF VectorState
<1>2. sew \in Parts /\ (sew < 8 => 2 * sew \in Parts)
  BY <1>1, Widths
<1>3. \A k \in Parts : \A val, wr : LoopIsFlat(k, val, wr)
  BY <1>1, LoopsAreFlat
<1>4. \A val, wr : LoopIsFlat(sew, val, wr) /\ (Widens => LoopIsFlat(2*sew, val, wr))
  BY <1>2, <1>3 DEF Widens
<1> QED  BY <1>4, ComparedBits, ReductionsFold DEF ActiveElementsOnly

\* An instruction changes exactly the active elements from vstart to vl of its destination
\* group and nothing of any other register; stopped at any element and restarted there by
\* vstart it gives the same; and a reduction is the sum, the extreme or the bitwise
\* combination of vs1[0] and the active elements.
THEOREM ActiveElementsAreWritten == Spec => []ActiveElementsOnly
<1>1. VectorState => ActiveElementsOnly
  BY ActiveElements
<1> QED  BY <1>1, StateStaysTyped, PTL

-----------------------------------------------------------------------------
(* The mask instructions against each other. *)

\* the set and active bits of vs2, the first of them, and what they are taken from
SetOnes == MaskSet(v, Vs2)
FirstOne == FirstOf(SetOnes)

\* The set ones are active elements and the first of them is where vl is when there is none.
LEMMA Ones ==
  ASSUME VectorState
  PROVE  /\ vl \in Nat /\ vstart \in Nat /\ LengthFits /\ 0 .. vl-1 \subseteq Index
         /\ SetOnes \subseteq ActiveBelow /\ ActiveBelow \subseteq 0 .. vl-1
         /\ FirstOne \in 0 .. vl
         /\ SetOnes = {} => FirstOne = vl
         /\ SetOnes # {} => FirstOne \in SetOnes
         /\ \A i \in SetOnes : FirstOne <= i
<1>1. vl \in Nat /\ vstart \in Nat /\ LengthFits
  BY LengthIndex DEF VectorState
<1>2. SetOnes \subseteq ActiveBelow /\ ActiveBelow \subseteq 0 .. vl-1
  BY DEF SetOnes, ActiveBelow, MaskSet
<1>3. 0 .. vl-1 \subseteq Index
  BY <1>1, ElementsInIndex
<1>4. SetOnes \in SUBSET (0 .. vl-1)
  BY <1>2
<1> QED  BY <1>1, <1>2, <1>3, <1>4, FirstIsFirst DEF FirstOne

\* vmsbf, vmsif and vmsof write their bits and no other.
LEMMA FlaggedBits ==
  ASSUME VectorState, NEW i \in Index
  PROVE  /\ i \in BitsOf(VmsbfResult(v), VdOdd) <=>
              IF i \in 0 .. vl-1 /\ (i >= FirstOne \/ i \in ActiveBelow) THEN i < FirstOne ELSE MaskBit(v, VdOdd, i)
         /\ i \in BitsOf(VmsifResult(v), VdOdd) <=>
              IF i \in ActiveBelow THEN i <= FirstOne ELSE MaskBit(v, VdOdd, i)
         /\ i \in BitsOf(VmsofResult(v), VdOdd) <=>
              IF i \in ActiveBelow THEN i = FirstOne ELSE MaskBit(v, VdOdd, i)
<1>1. 0 .. vl-1 \subseteq Index /\ \A j \in 0 .. vl-1 : j \in ActiveBelow <=> Active(j)
  BY Ones DEF ActiveBelow
<1>2. ASSUME NEW is \in SUBSET Index, NEW val, \A j \in is : val[j] \in BOOLEAN
      PROVE  i \in BitsOf(SetBits(v, VdOdd, is, val), VdOdd)
               <=> IF i \in is THEN val[i] ELSE MaskBit(v, VdOdd, i)
  <2>1. BitsOf(SetBits(v, VdOdd, is, val), VdOdd)
           = {j \in Index : IF j \in is THEN val[j] ELSE MaskBit(v, VdOdd, j)}
    BY <1>2, WrittenBits
  <2> QED  BY <2>1, Zenon
<1> DEFINE below == {j \in 0 .. vl-1 : j >= FirstOne \/ Active(j)}
           acts == {j \in 0 .. vl-1 : Active(j)}
           before == [j \in Index |-> j < FirstOne]  upto == [j \in Index |-> j <= FirstOne]
           only == [j \in Index |-> j = FirstOne]
<1>3. /\ VmsbfResult(v) = SetBits(v, VdOdd, below, before)
      /\ VmsifResult(v) = SetBits(v, VdOdd, acts, upto)
      /\ VmsofResult(v) = SetBits(v, VdOdd, acts, only)
  BY DEF VmsbfResult, VmsifResult, VmsofResult, FirstOne, SetOnes
<1>4. /\ below \in SUBSET Index /\ acts \in SUBSET Index
      /\ \A j \in Index : before[j] \in BOOLEAN /\ upto[j] \in BOOLEAN /\ only[j] \in BOOLEAN
      /\ (before[i] <=> i < FirstOne) /\ (upto[i] <=> i <= FirstOne) /\ (only[i] <=> i = FirstOne)
  <2>1. below \in SUBSET Index /\ acts \in SUBSET Index
    BY <1>1
  <2>2. /\ \A j \in Index : before[j] \in BOOLEAN /\ upto[j] \in BOOLEAN /\ only[j] \in BOOLEAN
        /\ (before[i] <=> i < FirstOne) /\ (upto[i] <=> i <= FirstOne) /\ (only[i] <=> i = FirstOne)
    <3>1. \A j \in Index : before[j] \in BOOLEAN
      OBVIOUS
    <3>2. \A j \in Index : upto[j] \in BOOLEAN
      OBVIOUS
    <3>3. \A j \in Index : only[j] \in BOOLEAN
      OBVIOUS
    <3>4. before[i] <=> i < FirstOne
      OBVIOUS
    <3>5. upto[i] <=> i <= FirstOne
      OBVIOUS
    <3>6. only[i] <=> i = FirstOne
      OBVIOUS
    <3> HIDE DEF before, upto, only
    <3> QED  BY <3>1, <3>2, <3>3, <3>4, <3>5, <3>6
  <2> QED  BY <2>1, <2>2
<1>5. /\ i \in below <=> (i \in 0 .. vl-1 /\ (i >= FirstOne \/ i \in ActiveBelow))
      /\ i \in acts <=> i \in ActiveBelow
  BY <1>1 DEF ActiveBelow
<1> HIDE DEF below, acts, before, upto, only
<1>6. i \in BitsOf(VmsbfResult(v), VdOdd) <=> IF i \in below THEN before[i] ELSE MaskBit(v, VdOdd, i)
  <2>1. below \in SUBSET Index /\ \A j \in below : before[j] \in BOOLEAN
    BY <1>4
  <2> QED  BY <1>2, <1>3, <2>1
<1>7. /\ i \in BitsOf(VmsifResult(v), VdOdd) <=> IF i \in acts THEN upto[i] ELSE MaskBit(v, VdOdd, i)
      /\ i \in BitsOf(VmsofResult(v), VdOdd) <=> IF i \in acts THEN only[i] ELSE MaskBit(v, VdOdd, i)
  <2>1. acts \in SUBSET Index /\ (\A j \in acts : upto[j] \in BOOLEAN) /\ \A j \in acts : only[j] \in BOOLEAN
    BY <1>4
  <2>2. i \in BitsOf(SetBits(v, VdOdd, acts, upto), VdOdd) <=> IF i \in acts THEN upto[i] ELSE MaskBit(v, VdOdd, i)
    BY <1>2, <2>1
  <2>3. i \in BitsOf(SetBits(v, VdOdd, acts, only), VdOdd) <=> IF i \in acts THEN only[i] ELSE MaskBit(v, VdOdd, i)
    BY <1>2, <2>1
  <2> QED  BY <1>3, <2>2, <2>3
<1>8. i \in BitsOf(VmsbfResult(v), VdOdd) <=>
              IF i \in 0 .. vl-1 /\ (i >= FirstOne \/ i \in ActiveBelow) THEN i < FirstOne ELSE MaskBit(v, VdOdd, i)
  BY <1>4, <1>5, <1>6, Zenon
<1>9. /\ i \in BitsOf(VmsifResult(v), VdOdd) <=>
              IF i \in ActiveBelow THEN i <= FirstOne ELSE MaskBit(v, VdOdd, i)
      /\ i \in BitsOf(VmsofResult(v), VdOdd) <=>
              IF i \in ActiveBelow THEN i = FirstOne ELSE MaskBit(v, VdOdd, i)
  BY <1>4, <1>5, <1>7, Zenon
<1> QED  BY <1>8, <1>9

\* viota counts the set ones below an element: none up to the first, all of them in the end.
LEMMA IotaCounts ==
  ASSUME VectorState, vstart = 0
  PROVE  /\ \A i \in 0 .. vl-1 : IotaValues[i] = 0 <=> i <= FirstOne
         /\ vl > 0 => Cardinality(SetOnes) = IotaValues[vl-1] + (IF vl-1 \in SetOnes THEN 1 ELSE 0)
<1>0. /\ vl \in Nat /\ 0 .. vl-1 \subseteq Index /\ SetOnes \subseteq 0 .. vl-1
      /\ FirstOne \in 0 .. vl /\ (SetOnes = {} => FirstOne = vl)
      /\ (SetOnes # {} => FirstOne \in SetOnes) /\ \A i \in SetOnes : FirstOne <= i
  BY Ones
<1>1. ASSUME NEW i \in 0 .. vl-1 PROVE IotaValues[i] = Cardinality(Upto(SetOnes, 0, i))
  <2>1. i \in Index /\ i < vl
    BY <1>0
  <2>2. IotaValues[i] = Cardinality({j \in vstart .. i-1 : Active(j) /\ MaskBit(v, Vs2, j)})
    BY <2>1 DEF IotaValues, Values
  <2>3. \A j \in 0 .. i-1 : j \in SetOnes <=> (Active(j) /\ MaskBit(v, Vs2, j))
    <3>1. \A j \in 0 .. i-1 : j \in 0 .. vl-1
      BY <1>0
    <3> QED  BY <3>1 DEF SetOnes, MaskSet
  <2>4. {j \in vstart .. i-1 : Active(j) /\ MaskBit(v, Vs2, j)} = Upto(SetOnes, 0, i)
    BY <2>3 DEF Upto
  <2> QED  BY <2>2, <2>4
<1>2. ASSUME NEW i \in 0 .. vl-1 PROVE IotaValues[i] = 0 <=> i <= FirstOne
  <2>1. IsFiniteSet(Upto(SetOnes, 0, i))
    <3>1. i \in Int /\ 0 \in Int /\ i >= 0
      OBVIOUS
    <3> QED  BY <3>1, CountStep
  <2>2. IotaValues[i] = 0 <=> Upto(SetOnes, 0, i) = {}
    BY <1>1, <2>1, FS_EmptySet
  <2>3. Upto(SetOnes, 0, i) = {} <=> i <= FirstOne
    <3>1. ASSUME i <= FirstOne, NEW j \in Upto(SetOnes, 0, i) PROVE FALSE
      <4>1. j \in 0 .. i-1 /\ FirstOne <= j
        BY <1>0, <3>1 DEF Upto
      <4> QED  BY <1>0, <3>1, <4>1
    <3>2. ASSUME ~(i <= FirstOne) PROVE FirstOne \in Upto(SetOnes, 0, i)
      <4>1. FirstOne \in 0 .. i-1 /\ FirstOne # vl
        BY <1>0, <3>2
      <4> QED  BY <1>0, <4>1 DEF Upto
    <3> QED  BY <3>1, <3>2
  <2> QED  BY <2>2, <2>3
<1>3. ASSUME vl > 0
      PROVE  Cardinality(SetOnes) = IotaValues[vl-1] + (IF vl-1 \in SetOnes THEN 1 ELSE 0)
  <2>1. vl-1 \in 0 .. vl-1 /\ vl-1 \in Int /\ 0 \in Int /\ vl-1 >= 0 /\ (vl-1) + 1 = vl
    BY <1>0, <1>3
  <2>2. Cardinality(Upto(SetOnes, 0, (vl-1) + 1))
          = Cardinality(Upto(SetOnes, 0, vl-1)) + (IF vl-1 \in SetOnes THEN 1 ELSE 0)
    BY <2>1, CountNext
  <2>3. Upto(SetOnes, 0, vl) = SetOnes
    BY <1>0 DEF Upto
  <2>4. IotaValues[vl-1] = Cardinality(Upto(SetOnes, 0, vl-1))
    BY <1>1, <2>1
  <2> QED  BY <2>1, <2>2, <2>3, <2>4
<1> QED  BY <1>2, <1>3

\* The byte loop of the logical mask instructions from vstart to vl.
LEMMA LogicBetween ==
  ASSUME VectorState, NEW op \in MaskLogic
  PROVE  LET new == BitsOf(BitwiseMaskBinaryOp(op, v, vstart, vl), VdOdd)
             old == BitsOf(v, VdOdd)
             bit(a, b) == MaskLogicOp(op, Flag(a), Flag(b)) % 2 = 1
         IN  /\ vl > 0 => \A i \in vstart .. vl-1 :
                  (i \in new) = bit(MaskBit(v, Vs2, i), MaskBit(v, Vs1, i))
             /\ (vl > 0 /\ vstart \div UW < (vl-1) \div UW) =>
                  \A i \in 0 .. vstart-1 : (i \in new) = (i \in old)
<1> DEFINE g == BitwiseMaskBinaryOp(op, v, vstart, vl)  N == UW * VLENB
<1>1. v \in Files /\ vl \in Nat /\ vstart \in Nat /\ vl <= N /\ N \in Nat
  BY LengthIndex, UnitPowers DEF VectorState
<1>2. Index = 0 .. N-1
  BY DEF Index
<1> HIDE DEF N
<1>3. ASSUME vstart < N
      PROVE  /\ vl > 0 => \A i \in vstart .. vl-1 :
                  MaskBit(g, VdOdd, i) <=> LogicBit(op, MaskBit(v, Vs2, i), MaskBit(v, Vs1, i))
             /\ (vl > 0 /\ vstart \div UW < (vl-1) \div UW) => \A i \in 0 .. vstart-1 :
                  MaskBit(g, VdOdd, i) <=> MaskBit(v, VdOdd, i)
  <2>1. vstart < UW * VLENB /\ vl \in 0 .. UW * VLENB
    BY <1>1, <1>3 DEF N
  <2> QED  BY <1>1, <2>1, LogicAcross
<1>4. /\ \A i \in Index : i \in BitsOf(g, VdOdd) <=> MaskBit(g, VdOdd, i)
      /\ \A i \in Index : i \in BitsOf(v, VdOdd) <=> MaskBit(v, VdOdd, i)
  BY DEF BitsOf, Index
<1>5. ASSUME vl > 0, NEW i \in vstart .. vl-1
      PROVE  (i \in BitsOf(g, VdOdd))
               = (MaskLogicOp(op, Flag(MaskBit(v, Vs2, i)), Flag(MaskBit(v, Vs1, i))) % 2 = 1)
  <2>1. vstart < N /\ i \in Index
    BY <1>1, <1>2, <1>5
  <2> DEFINE a == MaskBit(v, Vs2, i)  b == MaskBit(v, Vs1, i)
  <2>2. i \in BitsOf(g, VdOdd) <=> LogicBit(op, a, b)
    BY <1>3, <1>4, <1>5, <2>1
  <2>3. a \in BOOLEAN /\ b \in BOOLEAN
    BY DEF MaskBit
  <2> HIDE DEF a, b
  <2>4. (MaskLogicOp(op, Flag(a), Flag(b)) % 2 = 1) <=> LogicBit(op, a, b)
    BY <2>3, LogicFlags
  <2>5. i \in BitsOf(g, VdOdd) <=> (MaskLogicOp(op, Flag(a), Flag(b)) % 2 = 1)
    BY <2>2, <2>4, Zenon
  <2> QED  BY <2>5 DEF a, b
<1>6. ASSUME vl > 0, vstart \div UW < (vl-1) \div UW, NEW i \in 0 .. vstart-1
      PROVE  (i \in BitsOf(g, VdOdd)) = (i \in BitsOf(v, VdOdd))
  <2>1. vstart < vl
    <3> SUFFICES ASSUME vl-1 <= vstart PROVE FALSE
      BY <1>1
    <3>1. vl-1 \in Nat
      BY <1>1, <1>6
    <3>2. (vl-1) \div UW <= vstart \div UW
      BY <1>1, <3>1, PlaceOrder
    <3>3. (vl-1) \div UW \in Int /\ vstart \div UW \in Int
      <4>1. UW \in Nat \ {0} /\ vl-1 \in Int /\ vstart \in Int
        BY <1>1, <3>1, UnitPowers
      <4> QED  BY <4>1, DivMod
    <3> QED  BY <1>6, <3>2, <3>3
  <2>2. vstart < N /\ i \in Index
    BY <1>1, <1>2, <1>6, <2>1
  <2>3. i \in BitsOf(g, VdOdd) <=> i \in BitsOf(v, VdOdd)
    BY <1>3, <1>4, <1>6, <2>2
  <2> QED  BY <2>3
<1> HIDE DEF g
<1> QED  BY <1>5, <1>6 DEF g

\* In every state of the unit the mask instructions describe one first set bit, agree with
\* each other and are bit by bit what they say.
LEMMA MasksDescribe == VectorState => MaskInstructions
<1> SUFFICES ASSUME VectorState PROVE MaskInstructions
  OBVIOUS
<1> DEFINE act == {i \in 0 .. vl-1 : Active(i)}
           sbf == BitsOf(VmsbfResult(v), VdOdd)  sif == BitsOf(VmsifResult(v), VdOdd)
           sof == BitsOf(VmsofResult(v), VdOdd)  old == BitsOf(v, VdOdd)
           set == MaskSet(v, Vs2)
           tail == {i \in old : i >= vl}
<1>0. /\ vl \in Nat /\ vstart \in Nat /\ act \subseteq Index /\ act \subseteq 0 .. vl-1
      /\ set \subseteq act /\ FirstOne \in 0 .. vl
      /\ (set = {} => FirstOne = vl) /\ (set # {} => FirstOne \in set)
      /\ \A i \in set : FirstOne <= i
  BY Ones DEF ActiveBelow, SetOnes
<1>1. ASSUME NEW i \in Index
      PROVE  /\ i \in sbf <=> IF i \in 0 .. vl-1 /\ (i >= FirstOne \/ i \in act)
                              THEN i < FirstOne ELSE MaskBit(v, VdOdd, i)
             /\ i \in sif <=> IF i \in act THEN i <= FirstOne ELSE MaskBit(v, VdOdd, i)
             /\ i \in sof <=> IF i \in act THEN i = FirstOne ELSE MaskBit(v, VdOdd, i)
  BY FlaggedBits DEF ActiveBelow
<1>2. /\ sbf \subseteq Index /\ sif \subseteq Index /\ sof \subseteq Index /\ old \subseteq Index
      /\ \A i \in Index : i \in Nat /\ (i \in old <=> MaskBit(v, VdOdd, i))
  <2>1. \A i \in Index : i \in Nat
    BY BitPlace
  <2> QED  BY <2>1 DEF BitsOf, Index
<1>3. vstart = 0 =>
        /\ \A i \in 0 .. vl-1 : IotaValues[i] = 0 <=> i <= FirstOne
        /\ vl > 0 => Cardinality(set) = IotaValues[vl-1] + (IF vl-1 \in set THEN 1 ELSE 0)
  BY IotaCounts DEF SetOnes
<1> HIDE DEF act, sbf, sif, sof, old, set
<1>4. ASSUME NEW i \in act
      PROVE  /\ i \in Nat /\ i \in Index /\ i \in 0 .. vl-1
             /\ i \in sbf <=> i < FirstOne
             /\ i \in sif <=> i <= FirstOne
             /\ i \in sof <=> i = FirstOne
  BY <1>0, <1>1, <1>2
<1>5. FirstOne \in Nat
  BY <1>0
<1>6. sif \cap act = (sbf \cup sof) \cap act
  <2>1. \A i \in act : i \in sif <=> (i \in sbf \/ i \in sof)
    BY <1>4, <1>5
  <2> QED  BY <2>1, Zenon
<1>7. sbf \cap sof \cap act = {}
  <2>1. \A i \in act : ~(i \in sbf /\ i \in sof)
    BY <1>4, <1>5
  <2> QED  BY <2>1, Zenon
<1>8. ASSUME vstart = 0
      PROVE  /\ sof \cap act = {i \in set : IotaValues[i] = 0}
             /\ sbf \cap act = {i \in act \ set : IotaValues[i] = 0}
             /\ vl > 0 => Cardinality(set) = IotaValues[vl-1] + (IF vl-1 \in set THEN 1 ELSE 0)
  <2>1. \A i \in act : IotaValues[i] = 0 <=> i <= FirstOne
    BY <1>3, <1>4, <1>8
  <2>2. \A i \in act : i \in sof <=> (i \in set /\ i <= FirstOne)
    BY <1>0, <1>4, <1>5
  <2>3. \A i \in act : i \in sbf <=> (i \notin set /\ i <= FirstOne)
    BY <1>0, <1>4, <1>5
  <2>4. \A i : i \in sof \cap act <=> i \in {j \in set : IotaValues[j] = 0}
    BY <1>0, <2>1, <2>2
  <2>5. \A i : i \in sbf \cap act <=> i \in {j \in act \ set : IotaValues[j] = 0}
    BY <2>1, <2>3
  <2>6. sof \cap act = {i \in set : IotaValues[i] = 0} /\ sbf \cap act = {i \in act \ set : IotaValues[i] = 0}
    BY <2>4, <2>5
  <2> QED  BY <1>3, <1>8, <2>6
<1>9. \A s \in {sbf, sif, sof} : {i \in s : i >= vl} = tail
  <2>1. ASSUME NEW i \in Index, i >= vl
        PROVE  /\ i \in sbf <=> i \in old
               /\ i \in sif <=> i \in old
               /\ i \in sof <=> i \in old
    <3>1. i \notin 0 .. vl-1 /\ i \notin act
      BY <1>0, <1>2, <2>1
    <3> QED  BY <1>1, <1>2, <3>1
  <2>2. {i \in sbf : i >= vl} = {i \in old : i >= vl}
    BY <1>2, <2>1
  <2>3. {i \in sif : i >= vl} = {i \in old : i >= vl}
    BY <1>2, <2>1
  <2>4. {i \in sof : i >= vl} = {i \in old : i >= vl}
    BY <1>2, <2>1
  <2> QED  BY <2>2, <2>3, <2>4
<1>10. sof \cap act = (IF set = {} THEN {} ELSE {FirstOf(set)})
  <2>1. FirstOf(set) = FirstOne
    BY DEF FirstOne, SetOnes, set
  <2>2. CASE set = {}
    <3>1. FirstOne = vl
      BY <1>0, <2>2
    <3>2. \A i \in act : i # vl
      BY <1>0, <1>4
    <3>3. sof \cap act = {}
      BY <1>4, <3>1, <3>2
    <3> QED  BY <2>2, <3>3
  <2>3. CASE set # {}
    <3>1. FirstOne \in act
      BY <1>0, <2>3
    <3>2. sof \cap act = {FirstOne}
      BY <1>4, <3>1
    <3> QED  BY <2>1, <2>3, <3>2
  <2> QED  BY <2>2, <2>3
<1>11. \A op \in MaskLogic :
             LET new == BitsOf(BitwiseMaskBinaryOp(op, v, vstart, vl), VdOdd)
                 bit(a, b) == MaskLogicOp(op, Flag(a), Flag(b)) % 2 = 1
             IN  /\ vl > 0 => \A i \in vstart .. vl-1 :
                      (i \in new) = bit(MaskBit(v, Vs2, i), MaskBit(v, Vs1, i))
                 /\ (vl > 0 /\ vstart \div UW < (vl-1) \div UW) =>
                      \A i \in 0 .. vstart-1 : (i \in new) = (i \in old)
  BY LogicBetween DEF old
<1> QED  BY <1>6, <1>7, <1>8, <1>9, <1>10, <1>11, Zenon DEF MaskInstructions, act, sbf, sif, sof, old, set

\* On every mask, vl and contents: vmsif is vmsbf with vmsof, vmsof marks the set bit before
\* which viota counts none, vcpop is where viota ends, bits from vl on are kept, and the byte
\* loops of the logical instructions are the operations on bits.
THEOREM MasksAgree == Spec => []MaskInstructions
<1>1. VectorState => MaskInstructions
  BY MasksDescribe
<1> QED  BY <1>1, StateStaysTyped, PTL

-----------------------------------------------------------------------------
(* The permutations: what an element of a group is after a loop, and how they compose. *)

\* The bytes of a word of k bytes, each at its place, add up to the word.
LEMMA WordOfBytes ==
  ASSUME NEW k \in 1 .. VLENB, NEW a \in Word(UW * k)
  PROVE  SumFunction([j \in 0 .. k-1 |-> (Shr(a, UW * j) % 2^UW) * 2^(UW * j)]) = a
<1> DEFINE F == [j \in 0 .. k-1 |-> (Shr(a, UW * j) % 2^UW) * 2^(UW * j)]
           P == [j \in 0 .. k |-> 2^(UW * j)]
           u == 2^UW
<1>0. UW \in Nat \ {0} /\ VLENB \in Nat \ {0} /\ k \in Nat
  BY VectorAssumption
<1>1. \A j \in 0 .. k : 2^(UW * j) \in Nat \ {0}
  <2> SUFFICES ASSUME NEW j \in 0 .. k PROVE 2^(UW * j) \in Nat \ {0}
    OBVIOUS
  <2>1. j \in 0 .. 2 * VLENB
    BY <1>0
  <2> QED  BY <2>1, BytePow
<1>2. \A j \in 0 .. k-1 : 2^(UW * (j + 1)) = 2^(UW * j) * 2^UW
  <2> SUFFICES ASSUME NEW j \in 0 .. k-1 PROVE 2^(UW * (j + 1)) = 2^(UW * j) * 2^UW
    OBVIOUS
  <2>1. j \in 0 .. 2 * VLENB /\ j < 2 * VLENB
    BY <1>0
  <2> QED  BY <2>1, BytePow
<1>3. u \in Nat \ {0}
  <2>1. 1 \in 0 .. 2 * VLENB
    BY <1>0
  <2> QED  BY <2>1, BytePow
<1>4. P[0] = 1
  <2>1. 0 \in 0 .. k /\ UW * 0 = 0 /\ 2^0 = 1
    BY <1>0
  <2> QED  BY <2>1
<1>5. \A j \in 0 .. k-1 : P[j] \in Nat \ {0} /\ P[j+1] = P[j] * u
  <2> SUFFICES ASSUME NEW j \in 0 .. k-1 PROVE P[j] \in Nat \ {0} /\ P[j+1] = P[j] * u
    OBVIOUS
  <2>1. j \in 0 .. k /\ j + 1 \in 0 .. k
    BY <1>0
  <2>2. P[j] = 2^(UW * j) /\ P[j+1] = 2^(UW * (j+1))
    BY <2>1
  <2> QED  BY <2>1, <2>2, <1>1, <1>2
<1>6. a \in Nat /\ a < 2^(UW * k)
  <2>1. 2^(UW * k) \in Nat
    BY <1>0, <1>1
  <2> QED  BY <2>1 DEF Word
<1>7. \A j \in 0 .. k-1 : F[j] = ((a \div P[j]) % u) * P[j]
  <2> SUFFICES ASSUME NEW j \in 0 .. k-1 PROVE F[j] = ((a \div P[j]) % u) * P[j]
    OBVIOUS
  <2>1. j \in 0 .. k
    BY <1>0
  <2>2. P[j] = 2^(UW * j)
    BY <2>1
  <2>3. F[j] = (Shr(a, UW * j) % 2^UW) * 2^(UW * j)
    OBVIOUS
  <2> HIDE DEF P, F
  <2> QED  BY <2>2, <2>3 DEF Shr
<1>8. F \in [0 .. k-1 -> Int]
  <2>1. ASSUME NEW j \in 0 .. k-1 PROVE ((a \div P[j]) % u) * P[j] \in Int
    <3> DEFINE p == P[j]
    <3>1. p \in Nat \ {0}
      BY <1>5
    <3> HIDE DEF p, u
    <3>2. a \div p \in Int
      BY <3>1, <1>6, DivMod
    <3>3. (a \div p) % u \in 0 .. u-1
      BY <3>2, <1>3, DivMod
    <3>4. (a \div p) % u \in Int
      BY <3>3
    <3>5. ((a \div p) % u) * p \in Int
      BY <3>1, <3>4
    <3> QED  BY <3>5 DEF p
  <2>2. \A j \in 0 .. k-1 : F[j] \in Int
    <3> HIDE DEF F, P, u
    <3> QED  BY <2>1, <1>7
  <2>3. F = [j \in 0 .. k-1 |-> F[j]]
    OBVIOUS
  <2> HIDE DEF F
  <2> QED  BY <2>2, <2>3
<1> HIDE DEF F
<1>9. IsFiniteSet(0 .. k-1)
  BY <1>0, FS_Interval
<1>10. PICK h : IsSum(h, 0 .. k-1, F) /\ SumFunction(F) = h[0 .. k-1]
  BY <1>8, <1>9, SumOfFunction
<1>11. P[k] = 2^(UW * k)
  <2>1. k \in 0 .. k
    BY <1>0
  <2> QED  BY <2>1
<1> HIDE DEF P, u
<1>12. Places(k, u, P) /\ Digits(a, k, u, P, F)
  BY <1>4, <1>5, <1>7, Zenon DEF Places, Digits
<1>13. h[0 .. k-1] = a % P[k]
  <2>1. a \in Int
    BY <1>6
  <2> QED  BY <2>1, <1>0, <1>3, <1>10, <1>12, DigitsSum
<1>14. a % P[k] = a
  <2> DEFINE p == P[k]
  <2>1. p \in Nat \ {0} /\ a \in 0 .. p-1
    <3>1. 2^(UW * k) \in Nat \ {0}
      BY <1>0, <1>1
    <3> QED  BY <3>1, <1>6, <1>11
  <2> HIDE DEF p
  <2>2. a % p = a
    <3>1. a \in Int /\ 0 \in Int /\ a = 0 * p + a
      BY <2>1
    <3> QED  BY <2>1, <3>1, Unique
  <2> QED  BY <2>2 DEF p
<1> QED  BY <1>10, <1>13, <1>14 DEF F

\* Reading back what a loop wrote: element i of the group is the value written, when it is
\* a word of the width, and what it was before where nothing is written.
LEMMA FlatElement ==
  ASSUME NEW f \in Files, NEW k \in Parts, NEW d \in Nat, NEW from, NEW to, NEW val, NEW wr,
         NEW i \in Nat, d + (i \div Epv(k)) \in Regs,
         (i \in from .. to-1 /\ wr[i]) => val[i] \in Word(Bits(k))
  PROVE  Element(FlatWrite(f, d, k, from, to, val, wr), d, k, i)
           = IF i \in from .. to-1 /\ wr[i] THEN val[i] ELSE Element(f, d, k, i)
<1> DEFINE g == FlatWrite(f, d, k, from, to, val, wr)
           reg == d + (i \div Epv(k))  it == i % Epv(k)  pos == it * k
           W == i \in from .. to-1 /\ wr[i]
           G == [j \in 0 .. k-1 |-> g[reg][pos + j] * 2^(UW * j)]
           F == [j \in 0 .. k-1 |-> f[reg][pos + j] * 2^(UW * j)]
<1>1. Element(g, d, k, i) = SumFunction(G) /\ Element(f, d, k, i) = SumFunction(F)
  BY DEF Element
<1>2. k \in 1 .. VLENB /\ k \in Nat \ {0}
  BY VectorAssumption DEF Parts
<1>3. it \in 0 .. Epv(k)-1 /\ reg \in Regs
  BY ElementPlace
<1>4. \A r \in Regs, u \in 0 .. VLENB-1 : g[r][u] = FlatByte(f, d, k, from, to, val, wr, r, u)
  BY FlatFile
<1>5. ASSUME NEW j \in 0 .. k-1
      PROVE  g[reg][pos + j] = IF W THEN Shr(val[i], UW * j) % 2^UW ELSE f[reg][pos + j]
  <2> DEFINE u == pos + j
  <2>1. u \in 0 .. VLENB-1
    <3> HIDE DEF it
    <3> QED  BY <1>3, ItemBytes
  <2>2. u \div k = it /\ u % k = j
    <3> HIDE DEF it
    <3>0. it \in Int
      BY <1>3
    <3>1. u \in Int /\ u = it * k + j /\ k \in Nat \ {0}
      BY <3>0, <1>2
    <3> HIDE DEF u
    <3> QED  BY <3>0, <3>1, Unique
  <2> HIDE DEF u
  <2>3. (reg = d + (i \div Epv(k)) /\ u \div k = i % Epv(k))
           <=> (reg >= d /\ ((reg - d) * VLENB + u) \div k = i)
    <3>1. \A r \in Regs, w \in 0 .. VLENB-1 :
            (r = d + (i \div Epv(k)) /\ w \div k = i % Epv(k))
              <=> (r >= d /\ ((r - d) * VLENB + w) \div k = i)
      BY PlaceOfElement
    <3> HIDE DEF reg
    <3> QED  BY <3>1, <2>1, <1>3
  <2>4. reg >= d /\ ((reg - d) * VLENB + u) \div k = i
    BY <2>2, <2>3
  <2> DEFINE e == ((reg - d) * VLENB + u) \div k
  <2>5. g[reg][u] = IF reg >= d /\ e \in from .. to-1 /\ wr[e]
                    THEN Shr(val[e], UW * (u % k)) % 2^UW ELSE f[reg][u]
    <3> HIDE DEF g, reg
    <3> QED  BY <1>3, <1>4, <2>1 DEF FlatByte
  <2>6. e = i /\ reg >= d
    BY <2>4
  <2> HIDE DEF e, g, reg, it, pos
  <2> QED  BY <2>2, <2>5, <2>6 DEF u
<1>6. CASE W
  <2> DEFINE H == [j \in 0 .. k-1 |-> (Shr(val[i], UW * j) % 2^UW) * 2^(UW * j)]
  <2>1. \A j \in 0 .. k-1 : g[reg][pos + j] = Shr(val[i], UW * j) % 2^UW
    BY <1>5, <1>6
  <2>2. G = H
    <3> HIDE DEF g, reg, pos
    <3> QED  BY <2>1
  <2>3. val[i] \in Word(UW * k)
    <3>1. Bits(k) = UW * k
      BY <1>2, VectorAssumption DEF Bits
    <3> QED  BY <3>1, <1>6
  <2>4. SumFunction(H) = val[i]
    BY <1>2, <2>3, WordOfBytes
  <2> HIDE DEF H, G, F
  <2> QED  BY <1>1, <1>6, <2>2, <2>4
<1>7. CASE ~W
  <2>1. \A j \in 0 .. k-1 : g[reg][pos + j] = f[reg][pos + j]
    BY <1>5, <1>7
  <2>2. G = F
    <3> HIDE DEF g, reg, pos
    <3> QED  BY <2>1
  <2> HIDE DEF F, G
  <2> QED  BY <1>1, <1>7, <2>2
<1> QED  BY <1>6, <1>7

\* In a group of at most one register, an element is an item of that register, and the
\* elements below VLMAX of the source are words.
LEMMA OneRegister ==
  ASSUME VectorState, lmul <= 8, NEW i \in Nat, i < max_vl
  PROVE  /\ i \div Epv(sew) = 0 /\ i % Epv(sew) = i /\ i \in Index
         /\ Vd + (i \div Epv(sew)) \in Regs /\ Src2(sew, i) \in Word(Bits(sew))
         /\ ItemMask[i] = Active(i)
<1>1. LengthFits /\ sew \in Parts /\ sew \in Nat /\ lmul \in Nat
  BY Widths DEF VectorState
<1>2. i \div Epv(sew) \in Nat /\ i \div Epv(sew) < 1
  <2>1. lmul * sew <= 1 * (8 * sew) /\ 1 \in Nat
    <3> HIDE DEF lmul, sew
    <3> QED  BY <1>1
  <2> QED  BY <2>1, <1>1, GroupReach
<1>3. i % Epv(sew) \in Int /\ i = Epv(sew) * (i \div Epv(sew)) + (i % Epv(sew)) /\ Epv(sew) \in Nat
  <2>1. i % Epv(sew) \in 0 .. Epv(sew)-1 /\ i = Epv(sew) * (i \div Epv(sew)) + (i % Epv(sew))
    BY <1>1, ElementPlace
  <2>2. Epv(sew) \in Nat
    BY <1>1, PartFacts
  <2> QED  BY <2>1, <2>2
<1> DEFINE n == Epv(sew)  q == i \div n  m == i % n
<1>4. q = 0
  <2> HIDE DEF q
  <2>1. q \in Nat /\ q < 1
    BY <1>2 DEF q
  <2> QED  BY <2>1
<1>5. m = i
  <2> HIDE DEF n, q, m
  <2>1. m \in Int /\ i = n * q + m /\ n \in Nat
    BY <1>3 DEF n, q, m
  <2>2. n * q = 0
    BY <2>1, <1>4
  <2> QED  BY <2>1, <2>2
<1>6. i \in Index
  BY <1>1, LengthIndex
<1>7. Vd + q \in Regs
  BY <1>4 DEF Vd, Regs
<1>8. Src2(sew, i) \in Word(Bits(sew))
  <2>1. Vs2 \in 0 .. 16
    BY DEF Vs2
  <2> QED  BY <2>1, OperandWords DEF Src2
<1>9. ItemMask[i] = Active(i % Epv(sew))
  BY <1>6 DEF ItemMask
<1> QED  BY <1>4, <1>5, <1>6, <1>7, <1>8, <1>9

\* What a loop over such a group leaves in an element of it.
LEMMA LoopElement ==
  ASSUME VectorState, lmul <= 8, NEW n \in Nat, NEW val, NEW wr, NEW i \in Nat, i < max_vl,
         (i < n /\ wr[i]) => val[i] \in Word(Bits(sew))
  PROVE  Element(ElementLoop(v, Vd, sew, 0, n, val, wr), Vd, sew, i)
           = IF i < n /\ wr[i] THEN val[i] ELSE Element(v, Vd, sew, i)
<1>1. v \in Files /\ IsFile(v) /\ sew \in Parts
  BY Widths, TypedFile DEF VectorState
<1>2. Vd \in Nat /\ 0 \in Nat
  BY DEF Vd
<1>3. ElementLoop(v, Vd, sew, 0, n, val, wr) = FlatWrite(v, Vd, sew, 0, n, val, wr)
  BY <1>1, <1>2, LoopIsFlatWrite
<1>4. Vd + (i \div Epv(sew)) \in Regs
  BY OneRegister
<1>5. i \in 0 .. n-1 <=> i < n
  OBVIOUS
<1>6. (i \in 0 .. n-1 /\ wr[i]) => val[i] \in Word(Bits(sew))
  BY <1>5
<1>7. Element(FlatWrite(v, Vd, sew, 0, n, val, wr), Vd, sew, i)
        = IF i \in 0 .. n-1 /\ wr[i] THEN val[i] ELSE Element(v, Vd, sew, i)
  BY <1>1, <1>2, <1>4, <1>6, FlatElement
<1> QED  BY <1>3, <1>5, <1>7

\* 0 is a word of every width.
LEMMA ZeroWord == ASSUME LengthFits PROVE 0 \in Word(Bits(sew)) /\ 2^Bits(sew) \in Nat \ {0}
<1>1. sew \in 0 .. 2 * VLENB
  <2>1. sew \in 1 .. VLENB /\ VLENB \in Nat
    BY Widths, VectorAssumption DEF Parts
  <2> HIDE DEF sew
  <2> QED  BY <2>1
<1>2. 2^Bits(sew) \in Nat \ {0}
  BY <1>1, BytePow
<1> DEFINE p == 2^Bits(sew)
<1>3. 0 \in 0 .. p-1
  <2> HIDE DEF p
  <2>1. p \in Nat \ {0}
    BY <1>2 DEF p
  <2> QED  BY <2>1
<1> QED  BY <1>2, <1>3 DEF Word

\* A slide down by n gathers element i + n, with 0 from VLMAX on; a slide up by n gathers
\* element i - n and leaves the first n alone.
LEMMA SlidesGather ==
  ASSUME VectorState, lmul <= 8, NEW n \in Nat, NEW i \in Nat, i < vl
  PROVE  /\ Element(ElementLoop(v, Vd, sew, 0, vl, SlideValues(-n), SlideMask(-n)), Vd, sew, i)
              = IF ~Active(i) THEN Element(v, Vd, sew, i)
                ELSE IF i + n < max_vl THEN Src2(sew, i + n) ELSE 0
         /\ Element(ElementLoop(v, Vd, sew, 0, vl, SlideValues(n), SlideMask(n)), Vd, sew, i)
              = IF Active(i) /\ i >= n THEN Src2(sew, i - n) ELSE Element(v, Vd, sew, i)
<1>0. LengthFits
  BY DEF VectorState
<1>1. max_vl \in Nat /\ vl \in Nat /\ vl <= max_vl /\ i < max_vl
  <2>1. max_vl \in Nat /\ vl \in Nat /\ vl <= max_vl
    BY <1>0, LengthIndex
  <2> HIDE DEF max_vl
  <2> QED  BY <2>1
<1>2. i \in Index /\ ItemMask[i] = Active(i)
  BY <1>1, OneRegister
<1>3. ASSUME NEW offset \in Int
      PROVE  /\ SlideValues(offset)[i] = IF i - offset \in 0 .. max_vl - 1 THEN Src2(sew, i - offset) ELSE 0
             /\ SlideMask(offset)[i] <=> Active(i) /\ i - offset >= 0
             /\ SlideValues(offset)[i] \in Word(Bits(sew))
  <2>1. SlideValues(offset)[i] = IF i - offset \in 0 .. max_vl - 1 THEN Src2(sew, i - offset) ELSE 0
    BY <1>2 DEF SlideValues, Values
  <2>2. SlideMask(offset)[i] <=> Active(i) /\ i - offset >= 0
    BY <1>2 DEF SlideMask
  <2>3. i - offset \in 0 .. max_vl - 1 => Src2(sew, i - offset) \in Word(Bits(sew))
    <3> SUFFICES ASSUME i - offset \in 0 .. max_vl - 1 PROVE Src2(sew, i - offset) \in Word(Bits(sew))
      OBVIOUS
    <3> DEFINE j == i - offset
    <3>1. j \in Nat /\ j < max_vl
      <4> HIDE DEF max_vl
      <4> QED  BY <1>1
    <3> HIDE DEF j
    <3>2. Src2(sew, j) \in Word(Bits(sew))
      BY <3>1, OneRegister
    <3> QED  BY <3>2 DEF j
  <2>4. 0 \in Word(Bits(sew))
    BY <1>0, ZeroWord
  <2>5. SlideValues(offset)[i] \in Word(Bits(sew))
    <3> DEFINE c == i - offset \in 0 .. max_vl - 1  e == Src2(sew, i - offset)  W == Word(Bits(sew))
    <3>1. SlideValues(offset)[i] = (IF c THEN e ELSE 0) /\ (c => e \in W) /\ 0 \in W
      BY <2>1, <2>3, <2>4
    <3> HIDE DEF c, e, W
    <3>2. SlideValues(offset)[i] \in W
      BY <3>1
    <3> QED  BY <3>2 DEF W
  <2> QED  BY <2>1, <2>2, <2>5
<1>4. ASSUME NEW offset \in Int
      PROVE  Element(ElementLoop(v, Vd, sew, 0, vl, SlideValues(offset), SlideMask(offset)), Vd, sew, i)
               = IF Active(i) /\ i - offset >= 0
                 THEN IF i - offset \in 0 .. max_vl - 1 THEN Src2(sew, i - offset) ELSE 0
                 ELSE Element(v, Vd, sew, i)
  <2> DEFINE val == SlideValues(offset)  wr == SlideMask(offset)
  <2>1. val[i] \in Word(Bits(sew))
    BY <1>3
  <2>2. wr[i] <=> Active(i) /\ i - offset >= 0
    BY <1>3
  <2>3. val[i] = IF i - offset \in 0 .. max_vl - 1 THEN Src2(sew, i - offset) ELSE 0
    BY <1>3
  <2> HIDE DEF val, wr
  <2>4. Element(ElementLoop(v, Vd, sew, 0, vl, val, wr), Vd, sew, i)
           = IF i < vl /\ wr[i] THEN val[i] ELSE Element(v, Vd, sew, i)
    BY <2>1, <1>1, LoopElement
  <2>5. Element(ElementLoop(v, Vd, sew, 0, vl, val, wr), Vd, sew, i)
           = IF Active(i) /\ i - offset >= 0 THEN val[i] ELSE Element(v, Vd, sew, i)
    BY <2>2, <2>4
  <2>6. Element(ElementLoop(v, Vd, sew, 0, vl, val, wr), Vd, sew, i)
           = IF Active(i) /\ i - offset >= 0
             THEN IF i - offset \in 0 .. max_vl - 1 THEN Src2(sew, i - offset) ELSE 0
             ELSE Element(v, Vd, sew, i)
    BY <2>3, <2>5, Zenon
  <2> QED  BY <2>6 DEF val, wr
<1>5. -n \in Int /\ n \in Int /\ i - (-n) = i + n /\ i + n >= 0
  OBVIOUS
<1>6. (i + n \in 0 .. max_vl - 1) <=> (i + n < max_vl)
  <2> HIDE DEF max_vl
  <2> QED  BY <1>1
<1>7. i >= n => i - n \in 0 .. max_vl - 1
  <2> HIDE DEF max_vl
  <2> QED  BY <1>1
<1>8. (i - n >= 0) <=> (i >= n)
  OBVIOUS
<1>9. Element(ElementLoop(v, Vd, sew, 0, vl, SlideValues(-n), SlideMask(-n)), Vd, sew, i)
        = IF ~Active(i) THEN Element(v, Vd, sew, i)
          ELSE IF i + n < max_vl THEN Src2(sew, i + n) ELSE 0
  <2>1. Element(ElementLoop(v, Vd, sew, 0, vl, SlideValues(-n), SlideMask(-n)), Vd, sew, i)
               = IF Active(i) /\ i - (-n) >= 0
                 THEN IF i - (-n) \in 0 .. max_vl - 1 THEN Src2(sew, i - (-n)) ELSE 0
                 ELSE Element(v, Vd, sew, i)
    BY <1>4, <1>5
  <2> DEFINE s == Element(ElementLoop(v, Vd, sew, 0, vl, SlideValues(-n), SlideMask(-n)), Vd, sew, i)
             e == Element(v, Vd, sew, i)
  <2> HIDE DEF s, e, max_vl
  <2>2. s = IF Active(i) /\ i - (-n) >= 0
            THEN IF i - (-n) \in 0 .. max_vl - 1 THEN Src2(sew, i - (-n)) ELSE 0 ELSE e
    BY <2>1 DEF s, e
  <2>3. s = IF Active(i) THEN IF i + n < max_vl THEN Src2(sew, i + n) ELSE 0 ELSE e
    BY <2>2, <1>5, <1>6
  <2>4. s = IF ~Active(i) THEN e ELSE IF i + n < max_vl THEN Src2(sew, i + n) ELSE 0
    BY <2>3
  <2> QED  BY <2>4 DEF s, e
<1>10. Element(ElementLoop(v, Vd, sew, 0, vl, SlideValues(n), SlideMask(n)), Vd, sew, i)
        = IF Active(i) /\ i >= n THEN Src2(sew, i - n) ELSE Element(v, Vd, sew, i)
  <2>1. Element(ElementLoop(v, Vd, sew, 0, vl, SlideValues(n), SlideMask(n)), Vd, sew, i)
               = IF Active(i) /\ i - n >= 0
                 THEN IF i - n \in 0 .. max_vl - 1 THEN Src2(sew, i - n) ELSE 0
                 ELSE Element(v, Vd, sew, i)
    BY <1>4, <1>5
  <2> DEFINE s == Element(ElementLoop(v, Vd, sew, 0, vl, SlideValues(n), SlideMask(n)), Vd, sew, i)
             e == Element(v, Vd, sew, i)
  <2> HIDE DEF s, e, max_vl
  <2>2. s = IF Active(i) /\ i - n >= 0
            THEN IF i - n \in 0 .. max_vl - 1 THEN Src2(sew, i - n) ELSE 0 ELSE e
    BY <2>1 DEF s, e
  <2>3. s = IF Active(i) /\ i >= n THEN Src2(sew, i - n) ELSE e
    BY <2>2, <1>7, <1>8
  <2> QED  BY <2>3 DEF s, e
<1> QED  BY <1>9, <1>10

\* The one-element slides agree with the slides by one beside the scalar, which enters at
\* the end they slide from.
LEMMA Slide1Slides ==
  ASSUME LengthFits, NEW i \in Nat, i < vl
  PROVE  /\ i >= 2 => Slide1Values(1, 3)[i] = SlideValues(1)[i]
         /\ i < max_vl - 1 => Slide1Values(-1, 3)[i] = SlideValues(-1)[i]
         /\ i \in {0, 1} => Slide1Values(1, 3)[i] = 3
         /\ i = max_vl - 1 => Slide1Values(-1, 3)[i] = 3
<1>1. max_vl \in Nat /\ vl \in Nat /\ vl <= max_vl /\ \A j \in Nat : j < max_vl => j \in Index
  BY LengthIndex
<1>2. i \in Index /\ i < max_vl
  <2> HIDE DEF max_vl, Index
  <2> QED  BY <1>1
<1>3. ASSUME NEW offset \in Int
      PROVE  /\ SlideValues(offset)[i] = IF i - offset \in 0 .. max_vl - 1 THEN Src2(sew, i - offset) ELSE 0
             /\ Slide1Values(offset, 3)[i] = IF i - offset \in 1 .. max_vl - 1 THEN Src2(sew, i - offset) ELSE 3
  BY <1>2 DEF SlideValues, Slide1Values, Values
<1>4. 1 \in Int /\ -1 \in Int
  OBVIOUS
<1>5. /\ SlideValues(1)[i] = IF i - 1 \in 0 .. max_vl - 1 THEN Src2(sew, i - 1) ELSE 0
      /\ Slide1Values(1, 3)[i] = IF i - 1 \in 1 .. max_vl - 1 THEN Src2(sew, i - 1) ELSE 3
  BY <1>3, <1>4
<1>6. /\ SlideValues(-1)[i] = IF i - (-1) \in 0 .. max_vl - 1 THEN Src2(sew, i - (-1)) ELSE 0
      /\ Slide1Values(-1, 3)[i] = IF i - (-1) \in 1 .. max_vl - 1 THEN Src2(sew, i - (-1)) ELSE 3
  BY <1>3, <1>4
<1> HIDE DEF max_vl
<1>7. i >= 2 => i - 1 \in 1 .. max_vl - 1 /\ i - 1 \in 0 .. max_vl - 1
  BY <1>1, <1>2
<1>8. i < max_vl - 1 => i - (-1) \in 1 .. max_vl - 1 /\ i - (-1) \in 0 .. max_vl - 1
  BY <1>1, <1>2
<1>9. i \in {0, 1} => ~(i - 1 \in 1 .. max_vl - 1)
  BY <1>1
<1>10. i = max_vl - 1 => ~(i - (-1) \in 1 .. max_vl - 1)
  BY <1>1, <1>2
<1>11. i >= 2 => Slide1Values(1, 3)[i] = SlideValues(1)[i]
  BY <1>5, <1>7, Zenon
<1>12. i < max_vl - 1 => Slide1Values(-1, 3)[i] = SlideValues(-1)[i]
  BY <1>6, <1>8, Zenon
<1>13. i \in {0, 1} => Slide1Values(1, 3)[i] = 3
  BY <1>5, <1>9, Zenon
<1>14. i = max_vl - 1 => Slide1Values(-1, 3)[i] = 3
  BY <1>6, <1>10, Zenon
<1> QED  BY <1>11, <1>12, <1>13, <1>14, Zenon

\* A value boxed in a wider register and cut down again is itself.
LEMMA BoxedAndBack ==
  ASSUME LengthFits, NEW flen \in FloatWidths, flen >= sew, NEW a \in Word(Bits(sew))
  PROVE  Trunc(Bits(sew), BoxedIn(flen, sew, a)) = a
<1>0. UW \in Nat \ {0} /\ VLENB \in Nat \ {0} /\ VLENB % 4 = 0 /\ flen \in {1, 2, 4, 8}
  BY VectorAssumption
<1>1. sew \in {1, 2, 4, 8}
  BY Widths
<1> DEFINE k == sew
<1>2. k \in {1, 2, 4, 8} /\ flen >= k
  BY <1>1
<1> HIDE DEF k
<1>3. VLENB >= 4
  BY <1>0
<1>4. flen \in 0 .. 2 * VLENB /\ k \in 0 .. 2 * VLENB /\ flen - k \in 0 .. 2 * VLENB
  BY <1>0, <1>2, <1>3
<1>5. /\ Bits(k) = UW * k /\ Bits(flen) = UW * flen
      /\ 2^(UW * k) \in Nat \ {0} /\ 2^(UW * (flen - k)) \in Nat \ {0}
      /\ UW * flen \in 0 .. 2 * UW * VLENB /\ UW * k \in Nat /\ UW * (flen - k) \in Nat
  <2>1. Bits(k) = UW * k /\ UW * k \in 0 .. 2 * UW * VLENB /\ 2^(UW * k) \in Nat \ {0}
    BY <1>4, BytePow
  <2>2. Bits(flen) = UW * flen /\ UW * flen \in 0 .. 2 * UW * VLENB
    BY <1>4, BytePow
  <2>3. UW * (flen - k) \in 0 .. 2 * UW * VLENB /\ 2^(UW * (flen - k)) \in Nat \ {0}
    BY <1>4, BytePow
  <2> QED  BY <2>1, <2>2, <2>3
<1>6. UW * k + UW * (flen - k) = UW * flen
  BY <1>0, <1>2
<1>7. 2^(UW * flen) = 2^(UW * k) * 2^(UW * (flen - k))
  <2> DEFINE N == 2 * UW * VLENB  b == UW * k  c == UW * (flen - k)
  <2>1. N \in Nat /\ Powers(N) /\ b \in Nat /\ c \in Nat /\ b + c <= N
    <3>1. N \in Nat /\ Powers(N)
      BY Pow
    <3>2. UW * flen <= N
      BY <1>5
    <3> QED  BY <3>1, <3>2, <1>5, <1>6
  <2> HIDE DEF N, b, c
  <2>2. 2^(b + c) = 2^b * 2^c
    BY <2>1, PowersAdd
  <2> QED  BY <2>2, <1>6 DEF b, c
<1> DEFINE p == 2^Bits(k)  q == 2^(UW * (flen - k))  z == BoxedIn(flen, k, a)
<1>8. p \in Nat \ {0} /\ q \in Nat \ {0} /\ z = a + (p * q - p)
  BY <1>5, <1>7 DEF BoxedIn
<1>9. a \in 0 .. p-1
  BY DEF Word, k
<1> HIDE DEF p, q, z
<1>10. z \in Int /\ q - 1 \in Int /\ z = (q - 1) * p + a
  <2>1. p * q \in Int /\ (q - 1) * p = p * q - p
    BY <1>8
  <2> QED  BY <2>1, <1>8, <1>9
<1>11. z % p = a
  BY <1>8, <1>9, <1>10, Unique
<1> QED  BY <1>11 DEF Trunc, p, z, k

\* An element written to a register's first item is read back.
LEMMA PutElement ==
  ASSUME VectorState, NEW a \in Word(Bits(sew))
  PROVE  Element(Put(v, Vd, sew, 0, a), Vd, sew, 0) = a
<1>1. v \in Files /\ IsFile(v) /\ sew \in Parts
  BY Widths, TypedFile DEF VectorState
<1>2. Epv(sew) \in Nat \ {0}
  BY <1>1, PartFacts
<1>3. 0 \div Epv(sew) = 0 /\ 0 % Epv(sew) = 0
  <2> DEFINE n == Epv(sew)
  <2>1. n \in Nat \ {0} /\ 0 = 0 * n + 0 /\ 0 \in 0 .. n-1
    BY <1>2
  <2> HIDE DEF n
  <2>2. 0 \div n = 0 /\ 0 % n = 0
    BY <2>1, Unique
  <2> QED  BY <2>2 DEF n
<1>4. Vd \in Nat /\ 0 \in Nat /\ Vd + (0 \div Epv(sew)) = Vd /\ Vd + (0 \div Epv(sew)) \in Regs
  BY <1>3 DEF Vd, Regs
<1> DEFINE val == [e \in {0} |-> a]  wr == [e \in {0} |-> TRUE]
           g == FlatWrite(v, Vd, sew, 0, 0, val, wr)  h == FlatWrite(v, Vd, sew, 0, 0 + 1, val, wr)
<1>5. val[0] = a /\ wr[0]
  OBVIOUS
<1> HIDE DEF val, wr
<1>6. g = v
  BY <1>1, FlatNothing
<1>7. h = IF wr[0] THEN Put(g, Vd + (0 \div Epv(sew)), sew, 0 % Epv(sew), val[0]) ELSE g
  BY <1>1, <1>4, FlatStep
<1>8. h = Put(v, Vd, sew, 0, a)
  <2> HIDE DEF g, h
  <2> QED  BY <1>3, <1>4, <1>5, <1>6, <1>7
<1>9. 0 \in 0 .. (0 + 1)-1
  OBVIOUS
<1>10. Element(h, Vd, sew, 0) = IF 0 \in 0 .. (0 + 1)-1 /\ wr[0] THEN val[0] ELSE Element(v, Vd, sew, 0)
  BY <1>1, <1>4, <1>5, FlatElement
<1> HIDE DEF h
<1> QED  BY <1>5, <1>8, <1>9, <1>10

\* From vstart = 0, vcompress leaves each active element at its rank among them, and every
\* element of the group from as many as there are on as it was.
LEMMA CompressPlaces ==
  ASSUME VectorState, lmul <= 8, vstart = 0
  PROVE  /\ \A i \in 0 .. vl-1 : Active(i) =>
              Element(CompressResult(v, Vd), Vd, sew, Cardinality({j \in 0 .. i-1 : Active(j)})) = Src2(sew, i)
         /\ \A i \in Cardinality({j \in 0 .. vl-1 : Active(j)}) .. max_vl-1 :
              Element(CompressResult(v, Vd), Vd, sew, i) = Element(v, Vd, sew, i)
<1>0. LengthFits
  BY DEF VectorState
<1>1. max_vl \in Nat /\ vl \in Nat /\ vl <= max_vl /\ vstart \in Nat /\ vstart <= vl
  <2>1. max_vl \in Nat /\ vl \in Nat /\ vl <= max_vl
    BY <1>0, LengthIndex
  <2> HIDE DEF max_vl
  <2> QED  BY <2>1
<1> DEFINE L == Len(Packed)
           val == [i \in Index |-> IF i < Len(Packed) THEN Src2(sew, Packed[i + 1]) ELSE 0]
           R(i) == Cardinality({j \in 0 .. i-1 : Active(j)})
           new == CompressResult(v, Vd)
<1>2. InOrder(Packed, vl) /\ L \in Nat /\ L <= vl
  <2>1. InOrder(Packed, vl) /\ L \in Nat /\ L <= vl - vstart
    BY <1>1, PackedInOrder, PackedFits
  <2> HIDE DEF L
  <2>2. L <= vl
    BY <2>1, <1>1
  <2> QED  BY <2>1, <2>2
<1>3. \A i \in 0 .. vl : Rank(i) = R(i)
  <2> SUFFICES ASSUME NEW i \in 0 .. vl PROVE Rank(i) = R(i)
    OBVIOUS
  <2>1. Upto(ActiveSet, vstart, i) = {j \in 0 .. i-1 : Active(j)}
    <3>1. \A j : j \in Upto(ActiveSet, 0, i) <=> j \in 0 .. i-1 /\ Active(j)
      <4>1. \A j \in 0 .. i-1 : j \in Nat
        OBVIOUS
      <4> QED  BY <4>1, Zenon DEF Upto, ActiveSet
    <3>2. Upto(ActiveSet, 0, i) = {j \in 0 .. i-1 : Active(j)}
      BY <3>1, Zenon
    <3> QED  BY <3>2
  <2> QED  BY <2>1, Zenon DEF Rank
<1>4. L = R(vl)
  <2>1. Len(Packed) = Rank(vl)
    BY <1>2 DEF InOrder
  <2>2. vl \in 0 .. vl
    BY <1>1
  <2> HIDE DEF R
  <2> QED  BY <2>1, <2>2, <1>3
<1> HIDE DEF R
<1>5. ASSUME NEW i \in Nat, i < L
      PROVE  i < max_vl /\ val[i] = Src2(sew, Packed[i + 1]) /\ val[i] \in Word(Bits(sew))
  <2>1. i < max_vl /\ i < vl
    <3> HIDE DEF L, max_vl
    <3> QED  BY <1>1, <1>2, <1>5
  <2>2. i \in Index
    BY <2>1, <1>0, LengthIndex
  <2>3. val[i] = Src2(sew, Packed[i + 1])
    BY <2>2, <1>5
  <2> DEFINE p == Packed[i + 1]
  <2>4. p \in vstart .. vl-1
    <3>1. i + 1 \in 1 .. Len(Packed)
      BY <1>2, <1>5
    <3> QED  BY <3>1, <1>2 DEF InOrder
  <2> HIDE DEF p
  <2>5. p \in Nat /\ p < max_vl
    <3> HIDE DEF max_vl
    <3> QED  BY <2>4, <1>1
  <2>6. Src2(sew, p) \in Word(Bits(sew))
    BY <2>5, OneRegister
  <2> QED  BY <2>1, <2>3, <2>6 DEF p
<1>6. ASSUME NEW i \in Nat, i < max_vl
      PROVE  Element(new, Vd, sew, i) = IF i < L THEN Src2(sew, Packed[i + 1]) ELSE Element(v, Vd, sew, i)
  <2>1. CASE vstart >= vl
    <3>1. new = v
      BY <2>1 DEF CompressResult
    <3>2. ~(i < L)
      <4> HIDE DEF L
      <4> QED  BY <2>1, <1>1, <1>2
    <3> HIDE DEF new, L
    <3> QED  BY <3>1, <3>2
  <2>2. CASE ~(vstart >= vl)
    <3>1. new = ElementLoop(v, Vd, sew, 0, L, val, All)
      BY <2>2 DEF CompressResult
    <3>2. All[i]
      <4>1. i \in Index
        BY <1>6, <1>0, LengthIndex
      <4> QED  BY <4>1 DEF All
    <3> DEFINE wr == All
    <3>3. (i < L /\ wr[i]) => val[i] \in Word(Bits(sew))
      BY <1>5
    <3>4. i < L => val[i] = Src2(sew, Packed[i + 1])
      BY <1>5
    <3>5. L \in Nat
      BY <1>2
    <3> HIDE DEF L, val, wr, new
    <3>6. Element(ElementLoop(v, Vd, sew, 0, L, val, wr), Vd, sew, i)
            = IF i < L /\ wr[i] THEN val[i] ELSE Element(v, Vd, sew, i)
      BY <3>3, <3>5, <1>6, LoopElement
    <3>7. wr[i] /\ new = ElementLoop(v, Vd, sew, 0, L, val, wr)
      BY <3>1, <3>2 DEF wr
    <3> QED  BY <3>4, <3>6, <3>7
  <2> QED  BY <2>1, <2>2
<1>7. ASSUME NEW i \in 0 .. vl-1, Active(i) PROVE Element(new, Vd, sew, R(i)) = Src2(sew, i)
  <2>1. i \in vstart .. vl-1 /\ i \in 0 .. vl /\ i \in Int
    BY <1>1
  <2>2. Packed[Rank(i) + 1] = i
    BY <2>1, <1>2, <1>7 DEF InOrder
  <2>3. Rank(i) = R(i)
    BY <2>1, <1>3
  <2>4. R(i) \in Nat /\ R(i) < L
    <3>1. i \in ActiveSet
      BY <1>1, <1>7 DEF ActiveSet
    <3>2. vstart \in Int /\ vl \in Nat /\ i \in vstart .. vstart + vl - 1 /\ vstart + vl = vl /\ i >= vstart
      BY <2>1, <1>1
    <3>3. Cardinality(Upto(ActiveSet, vstart, i)) < Cardinality(Upto(ActiveSet, vstart, vstart + vl))
      BY <3>1, <3>2, CountBelow
    <3>4. Cardinality(Upto(ActiveSet, vstart, i)) \in Nat
      BY <2>1, <3>2, CountStep
    <3>5. Rank(i) \in Nat /\ Rank(i) < Rank(vl)
      BY <3>2, <3>3, <3>4 DEF Rank
    <3>6. L = Rank(vl)
      BY <1>2 DEF InOrder
    <3> HIDE DEF L
    <3> QED  BY <2>3, <3>5, <3>6
  <2> DEFINE r == R(i)
  <2>5. r \in Nat /\ r < L /\ Packed[r + 1] = i
    BY <2>2, <2>3, <2>4
  <2> HIDE DEF r
  <2>6. r < max_vl
    BY <2>5, <1>5
  <2>7. Element(new, Vd, sew, r) = IF r < L THEN Src2(sew, Packed[r + 1]) ELSE Element(v, Vd, sew, r)
    BY <2>5, <2>6, <1>6
  <2> HIDE DEF new, L
  <2>8. Element(new, Vd, sew, r) = Src2(sew, i)
    BY <2>5, <2>7
  <2> QED  BY <2>8 DEF r
<1>8. ASSUME NEW i \in R(vl) .. max_vl-1 PROVE Element(new, Vd, sew, i) = Element(v, Vd, sew, i)
  <2>1. i \in Nat /\ i < max_vl /\ ~(i < L)
    <3> HIDE DEF L, max_vl
    <3> QED  BY <1>1, <1>2, <1>4
  <2>2. Element(new, Vd, sew, i) = IF i < L THEN Src2(sew, Packed[i + 1]) ELSE Element(v, Vd, sew, i)
    BY <2>1, <1>6
  <2> HIDE DEF new, L
  <2> QED  BY <2>1, <2>2
<1> QED  BY <1>7, <1>8 DEF R, new

\* PermutesCompose holds in every state: gathering, compressing, sliding and boxing are
\* inverses and special cases of each other, for groups of at most one register.
LEMMA PermutesAgree == VectorState => PermutesCompose
<1> SUFFICES ASSUME VectorState, lmul <= 8, vstart = 0 PROVE PermutesCompose
  BY DEF PermutesCompose
<1>0. LengthFits
  BY DEF VectorState
<1> DEFINE slid(f, offset) == ElementLoop(f, Vd, sew, 0, vl, SlideValues(offset), SlideMask(offset))
           el(f, i) == Element(f, Vd, sew, i)
           packed == CompressResult(v, Vd)
           rank(i) == Cardinality({j \in 0 .. i-1 : Active(j)})
           act == {i \in 0 .. vl-1 : Active(i)}
<1>1. \A i \in act : el(packed, rank(i)) = Src2(sew, i)
  BY CompressPlaces
<1>2. \A i \in Cardinality(act) .. max_vl-1 : el(packed, i) = el(v, i)
  BY CompressPlaces
<1>3. ASSUME NEW n \in 0 .. 5, NEW i \in 0 .. vl-1
      PROVE  /\ el(slid(v, -n), i) = (IF i \notin act THEN el(v, i)
                                          ELSE IF i + n < max_vl THEN Src2(sew, i + n) ELSE 0)
             /\ el(slid(v, n), i) = (IF i \in act /\ i >= n THEN Src2(sew, i - n) ELSE el(v, i))
  <2>0. vl \in Nat
    BY <1>0 DEF LengthFits
  <2>1. i \in Nat /\ i < vl /\ n \in Nat
    BY <2>0
  <2>2. i \in act <=> Active(i)
    OBVIOUS
  <2> HIDE DEF act
  <2> QED  BY <2>1, <2>2, SlidesGather
<1>4. ASSUME NEW i \in act
      PROVE  /\ i >= 2 => Slide1Values(1, 3)[i] = SlideValues(1)[i]
             /\ i < max_vl - 1 => Slide1Values(-1, 3)[i] = SlideValues(-1)[i]
             /\ i \in {0, 1} => Slide1Values(1, 3)[i] = 3
             /\ i = max_vl - 1 => Slide1Values(-1, 3)[i] = 3
  <2>0. vl \in Nat /\ i \in 0 .. vl-1
    BY <1>0 DEF LengthFits
  <2>1. i \in Nat /\ i < vl
    BY <2>0
  <2> HIDE DEF act
  <2> QED  BY <2>1, <1>0, Slide1Slides
<1>5. ASSUME NEW flen \in FloatWidths, flen >= sew
      PROVE  el(Put(v, Vd, sew, 0, Trunc(Bits(sew), BoxedIn(flen, sew, Src2(sew, 0)))), 0) = Src2(sew, 0)
  <2> DEFINE a == Src2(sew, 0)
  <2>1. a \in Word(Bits(sew))
    <3>1. Vs2 \in Regs
      BY DEF Vs2, Regs
    <3> QED  BY <3>1, FirstElement DEF Src2
  <2> HIDE DEF a
  <2>2. Trunc(Bits(sew), BoxedIn(flen, sew, a)) = a
    BY <2>1, <1>0, <1>5, BoxedAndBack
  <2>3. Element(Put(v, Vd, sew, 0, a), Vd, sew, 0) = a
    BY <2>1, PutElement
  <2> QED  BY <2>2, <2>3 DEF a
<1> QED  BY <1>1, <1>2, <1>3, <1>4, <1>5, Zenon DEF PermutesCompose

\* After any number of instructions, for groups of at most one register: vcompress puts each
\* active element at its rank and writes no more, the slides are gathers at a distance with 0
\* from VLMAX on, vslide1down is a slide by one with the scalar last, vslide1up one from element
\* 2 on with the scalar in elements 0 and 1, and an element boxed and read back is the same
\* (riscv_vector_permute_instructions.cc, riscv_vector_fp_unary_instructions.cc).
THEOREM PermutationsCompose == Spec => []PermutesCompose
<1>1. VectorState => PermutesCompose
  BY PermutesAgree
<1>2. Spec => []VectorState
  BY StateStaysTyped
<1> QED  BY <1>1, <1>2, PTL

-----------------------------------------------------------------------------
(* Loads against stores: what a byte of memory is after a store, and what a load makes of it. *)

\* Bytes c .. c + k - 1 of a memory of M, counted from a base: seen from c, they are the first k.
LEMMA Reach ==
  ASSUME NEW M \in Nat \ {0}, NEW b \in Int, NEW c \in Nat, NEW k \in Nat, c + k <= M
  PROVE  /\ ((b - c) % M) < k <=> (b % M) \in c .. c + k - 1
         /\ ((b - c) % M) < k => ((b - c) % M) = (b % M) - c
         /\ b % M \in 0 .. M-1 /\ (b - c) % M \in 0 .. M-1
<1> DEFINE q == b \div M  y == b % M
<1>1. q \in Int /\ y \in 0 .. M-1 /\ b = M * q + y
  BY DivMod
<1> HIDE DEF q, y
<1>2. M * q = q * M /\ (q - 1) * M = q * M - M /\ q * M \in Int
  BY <1>1
<1> DEFINE t == q * M  s == (q - 1) * M
<1>3. t \in Int /\ s = t - M /\ b = t + y
  BY <1>1, <1>2
<1>4. b - c \in Int
  OBVIOUS
<1>5. CASE y >= c
  <2>1. y - c \in 0 .. M-1 /\ b - c = t + (y - c) /\ q \in Int
    <3> HIDE DEF t, s
    <3> QED  BY <1>1, <1>3, <1>5
  <2>2. (b - c) % M = y - c
    BY <1>4, <2>1, Unique
  <2> QED  BY <1>1, <1>5, <2>2 DEF y
<1>6. CASE ~(y >= c)
  <2>1. y - c + M \in 0 .. M-1 /\ b - c = s + (y - c + M) /\ q - 1 \in Int
    <3> HIDE DEF t, s
    <3> QED  BY <1>1, <1>3, <1>6
  <2>2. (b - c) % M = y - c + M
    BY <1>4, <2>1, Unique
  <2> QED  BY <1>1, <1>6, <2>2 DEF y
<1> QED  BY <1>5, <1>6

\* the byte that an entry leaves at u, and that entry c, or none, is the one that writes u
EntryByte(e, u) == Shr(e.v, UW * ((u - e.a) % MemSize)) % 2^UW
OnlyWriter(k, entries, n, u, c) ==
  \A i \in 1 .. n : (entries[i].m /\ ((u - entries[i].a) % MemSize) < k) <=> i = c

\* A byte that at most one entry of a store writes is what that entry says, or as it was.
LEMMA StoredByte ==
  ASSUME NEW mm \in Memories, NEW k \in 0 .. VLENB, NEW n \in Nat, NEW entries, EntriesTo(n, entries),
         NEW u \in 0 .. MemSize-1, NEW c, OnlyWriter(k, entries, n, u, c)
  PROVE  StoreMemory(mm, k, entries)[u] = IF c \in 1 .. n THEN EntryByte(entries[c], u) ELSE mm[u]
<1>1. PICK h : StoresInOrder(h, mm, k, n, entries) /\ StoreMemory(mm, k, entries) = h[n]
  BY StoreLoop
<1>2. h \in [0 .. n -> Memories] /\ h[0] = mm /\ \A i \in 0 .. n-1 : h[i + 1] = StoreOne(h[i], k, entries[i + 1])
  BY <1>1 DEF StoresInOrder
<1>3. \A i \in 1 .. n : (entries[i].m /\ ((u - entries[i].a) % MemSize) < k) <=> i = c
  BY DEF OnlyWriter
<1>4. ASSUME NEW g \in Memories, NEW i \in 1 .. n
      PROVE  StoreOne(g, k, entries[i])[u] = IF i = c THEN EntryByte(entries[c], u) ELSE g[u]
  <2>1. DOMAIN g = 0 .. MemSize-1
    BY DEF Memories
  <2> DEFINE e == entries[i]  w == (u - e.a) % MemSize
  <2>2. StoreAt(g, k, e.a, e.v)[u] = IF w < k THEN Shr(e.v, UW * w) % 2^UW ELSE g[u]
    BY <2>1, Zenon DEF StoreAt
  <2>3. StoreOne(g, k, e)[u] = IF e.m /\ w < k THEN Shr(e.v, UW * w) % 2^UW ELSE g[u]
    BY <2>2 DEF StoreOne
  <2>4. (e.m /\ w < k) <=> i = c
    BY <1>3
  <2>5. EntryByte(e, u) = Shr(e.v, UW * w) % 2^UW
    BY DEF EntryByte
  <2>6. i = c => EntryByte(entries[c], u) = EntryByte(e, u)
    OBVIOUS
  <2> HIDE DEF e, w
  <2>7. StoreOne(g, k, e)[u] = IF i = c THEN EntryByte(entries[c], u) ELSE g[u]
    BY <2>3, <2>4, <2>5, <2>6
  <2> QED  BY <2>7 DEF e
<1> DEFINE B == EntryByte(entries[c], u)
           P == {m \in 0 .. n : h[m][u] = IF c \in 1 .. m THEN B ELSE mm[u]}
<1> HIDE DEF B
<1>5. 0 \in P
  <2>1. ~(c \in 1 .. 0) /\ 0 \in 0 .. n
    OBVIOUS
  <2> QED  BY <2>1, <1>2
<1>6. ASSUME NEW m \in 0 .. n-1, m \in P PROVE m + 1 \in P
  <2>1. m + 1 \in 1 .. n /\ m + 1 \in 0 .. n /\ m \in 0 .. n
    OBVIOUS
  <2>2. h[m + 1][u] = IF m + 1 = c THEN B ELSE h[m][u]
    <3>1. h[m] \in Memories /\ h[m + 1] = StoreOne(h[m], k, entries[m + 1])
      BY <1>2, <2>1
    <3> QED  BY <3>1, <2>1, <1>4 DEF B
  <2>3. c \in 1 .. m+1 <=> (c \in 1 .. m \/ c = m + 1)
    <3>1. m \in Nat
      OBVIOUS
    <3> HIDE DEF P
    <3> QED  BY <3>1
  <2>4. h[m][u] = IF c \in 1 .. m THEN B ELSE mm[u]
    BY <1>6
  <2>5. h[m + 1][u] = IF c \in 1 .. m+1 THEN B ELSE mm[u]
    <3> HIDE DEF P
    <3> QED  BY <2>2, <2>3, <2>4
  <2> QED  BY <2>1, <2>5
<1>7. 0 .. n \subseteq P
  <2> HIDE DEF P
  <2> QED  BY <1>5, <1>6, StepByStep
<1>8. n \in P
  BY <1>7
<1> QED  BY <1>1, <1>8 DEF B

\* Bytes of memory that are those of a word are read as the word.
LEMMA LoadedWord ==
  ASSUME NEW mm, NEW k \in 1 .. VLENB, NEW a, NEW w \in Word(UW * k),
         \A j \in 0 .. k-1 : mm[(a + j) % MemSize] = Shr(w, UW * j) % 2^UW
  PROVE  LoadAt(mm, k, a) = w
<1> DEFINE F == [j \in 0 .. k-1 |-> mm[(a + j) % MemSize] * 2^(UW * j)]
           G == [j \in 0 .. k-1 |-> (Shr(w, UW * j) % 2^UW) * 2^(UW * j)]
<1>1. F = G
  OBVIOUS
<1>2. LoadAt(mm, k, a) = SumFunction(F)
  BY DEF LoadAt
<1>3. SumFunction(G) = w
  BY WordOfBytes
<1> HIDE DEF F, G
<1> QED  BY <1>1, <1>2, <1>3

\* What a flat write does depends on the mask and the values it writes only.
LEMMA FlatSame ==
  ASSUME NEW f, NEW d, NEW k, NEW from, NEW to, NEW val, NEW wr, NEW val2, NEW wr2,
         \A e \in from .. to-1 : (wr[e] <=> wr2[e]) /\ (wr[e] => val[e] = val2[e])
  PROVE  FlatWrite(f, d, k, from, to, val, wr) = FlatWrite(f, d, k, from, to, val2, wr2)
<1> DEFINE a == FlatWrite(f, d, k, from, to, val, wr)  b == FlatWrite(f, d, k, from, to, val2, wr2)
<1>1. /\ IsFile(a) /\ \A r \in Regs, u \in 0 .. VLENB-1 : a[r][u] = FlatByte(f, d, k, from, to, val, wr, r, u)
      /\ IsFile(b) /\ \A r \in Regs, u \in 0 .. VLENB-1 : b[r][u] = FlatByte(f, d, k, from, to, val2, wr2, r, u)
  BY FlatFile
<1> HIDE DEF a, b
<1>2. ASSUME NEW r \in Regs, NEW u \in 0 .. VLENB-1 PROVE a[r][u] = b[r][u]
  <2> DEFINE e == ((r - d) * VLENB + u) \div k
  <2>1. /\ a[r][u] = IF r >= d /\ e \in from .. to-1 /\ wr[e] THEN Shr(val[e], UW * (u % k)) % 2^UW ELSE f[r][u]
        /\ b[r][u] = IF r >= d /\ e \in from .. to-1 /\ wr2[e] THEN Shr(val2[e], UW * (u % k)) % 2^UW ELSE f[r][u]
    BY <1>1, <1>2 DEF FlatByte
  <2> HIDE DEF e
  <2>2. e \in from .. to-1 => (wr[e] <=> wr2[e]) /\ (wr[e] => val[e] = val2[e])
    OBVIOUS
  <2> QED  BY <2>1, <2>2
<1>3. a = b
  BY <1>1, <1>2, SameFile
<1> QED  BY <1>3 DEF a, b

\* n entries of a store lie at the distances c from a base, within the memory
EntriesAt(n, k, entries, base, c) ==
  \A e \in 1 .. n : entries[e].a = base + c[e] /\ c[e] \in Nat /\ c[e] + k <= MemSize
\* entry q, or none, is the one that holds the byte at distance y from the base
OnlyHolder(n, k, entries, c, y, q) ==
  \A e \in 1 .. n : (entries[e].m /\ y \in c[e] .. c[e] + k - 1) <=> e = q

\* Where entries have their distances from a base, a byte is that of the entry that holds it.
LEMMA PlacedByte ==
  ASSUME NEW mm \in Memories, NEW k \in 0 .. VLENB, NEW n \in Nat, NEW entries, EntriesTo(n, entries),
         NEW base \in Int, NEW c, EntriesAt(n, k, entries, base, c),
         NEW u \in 0 .. MemSize-1, NEW q, OnlyHolder(n, k, entries, c, (u - base) % MemSize, q)
  PROVE  StoreMemory(mm, k, entries)[u]
           = IF q \in 1 .. n THEN Shr(entries[q].v, UW * (((u - base) % MemSize) - c[q])) % 2^UW ELSE mm[u]
<1> DEFINE M == MemSize  b == u - base  y == b % M
<1>0. M \in Nat \ {0} /\ b \in Int /\ k \in Nat /\ VLENB \in Nat
  BY VectorAssumption DEF MemSize
<1> HIDE DEF M
<1>1. ASSUME NEW e \in 1 .. n
      PROVE  /\ ((u - entries[e].a) % M) < k <=> y \in c[e] .. c[e] + k - 1
             /\ ((u - entries[e].a) % M) < k => ((u - entries[e].a) % M) = y - c[e]
  <2> DEFINE d == c[e]
  <2>1. entries[e].a = base + d /\ d \in Nat /\ d + k <= M
    BY <1>1 DEF EntriesAt, M
  <2> HIDE DEF d
  <2>2. u - entries[e].a = b - d
    <3>1. u \in Int
      BY <1>0 DEF M
    <3> QED  BY <2>1, <3>1
  <2> HIDE DEF b
  <2>3. ((b - d) % M) < k <=> (b % M) \in d .. d + k - 1
    BY <1>0, <2>1, Reach
  <2>4. ((b - d) % M) < k => ((b - d) % M) = (b % M) - d
    BY <1>0, <2>1, Reach
  <2> QED  BY <2>2, <2>3, <2>4 DEF d
<1>2. \A e \in 1 .. n : (entries[e].m /\ y \in c[e] .. c[e] + k - 1) <=> e = q
  BY DEF OnlyHolder, M
<1> HIDE DEF y
<1>3. OnlyWriter(k, entries, n, u, q)
  <2>1. \A e \in 1 .. n : (entries[e].m /\ ((u - entries[e].a) % M) < k) <=> e = q
    BY <1>1, <1>2
  <2> QED  BY <2>1 DEF OnlyWriter, M
<1>4. StoreMemory(mm, k, entries)[u] = IF q \in 1 .. n THEN EntryByte(entries[q], u) ELSE mm[u]
  BY <1>3, StoredByte
<1>5. ASSUME q \in 1 .. n PROVE EntryByte(entries[q], u) = Shr(entries[q].v, UW * (y - c[q])) % 2^UW
  <2>1. entries[q].m /\ y \in c[q] .. c[q] + k - 1
    BY <1>2, <1>5
  <2>2. ((u - entries[q].a) % M) = y - c[q]
    BY <1>1, <1>5, <2>1
  <2> QED  BY <2>2 DEF EntryByte, M
<1> QED  BY <1>4, <1>5 DEF y, b, M

\* the byte a strided store of elements of k bytes leaves at u: byte w of the element i where
\* u lies w bytes past the place base + o of element i
StridedByte(mm, s, k, base, o, stride, u) ==
  LET y == (u - base) % MemSize  i == y \div stride  w == y % stride IN
  IF i < vl /\ Active(i) /\ w \in o .. o + k - 1
  THEN Shr(Element(v, s, k, i), UW * (w - o)) % 2^UW ELSE mm[u]

\* A strided store of all elements writes those bytes of memory and no others, when the
\* elements do not overlap and fit in memory.
LEMMA StridedBytes ==
  ASSUME VectorState, vstart = 0, NEW mm \in Memories, NEW k \in Parts, NEW s, NEW base \in Int,
         NEW o \in Nat, NEW stride \in Nat, o + k <= stride, vl * stride <= MemSize,
         \A i \in 0 .. vl-1 : Element(v, s, k, i) \in Nat,
         NEW u \in 0 .. MemSize-1
  PROVE  LET entries == StoreVectorStrided(s, k, base + o, stride) IN
         /\ EntriesTo(vl, entries)
         /\ StoreMemory(mm, k, entries)[u] = StridedByte(mm, s, k, base, o, stride, u)
<1>0. /\ vl \in Nat /\ k \in Nat \ {0} /\ k \in 0 .. VLENB /\ MemSize \in Nat \ {0} /\ VLENB \in Nat
      /\ stride \in Nat \ {0}
  <2>1. vl \in Nat
    BY LengthIndex DEF VectorState
  <2>2. k \in 1 .. VLENB /\ VLENB \in Nat \ {0}
    BY VectorAssumption DEF Parts
  <2>3. MemSize \in Nat \ {0}
    BY <2>2 DEF MemSize
  <2> QED  BY <2>1, <2>2, <2>3
<1> DEFINE at(i) == (base + o) + i * stride
           entries == [n \in 1 .. vl |-> Entry(at(n - 1), Element(v, s, k, n - 1), Active(n - 1))]
           c == [n \in 1 .. vl |-> o + (n - 1) * stride]
           y == (u - base) % MemSize  p == y \div stride  w == y % stride
           q == IF p < vl /\ Active(p) /\ w \in o .. o + k - 1 THEN p + 1 ELSE 0
<1>1. StoreVectorStrided(s, k, base + o, stride) = entries
  <2>1. vl - vstart = vl /\ \A n \in 1 .. vl : vstart + n - 1 = n - 1
    BY <1>0
  <2> QED  BY <2>1 DEF StoreVectorStrided
<1>2. ASSUME NEW n \in 1 .. vl
      PROVE  /\ entries[n].a = at(n - 1) /\ entries[n].v = Element(v, s, k, n - 1)
             /\ (entries[n].m <=> Active(n - 1))
  BY DEF Entry
<1>3. ASSUME NEW i \in 0 .. vl-1
      PROVE  /\ i * stride \in Nat /\ (o + i * stride) + k <= MemSize
             /\ y \in o + i * stride .. (o + i * stride) + k - 1 <=> (i = p /\ w \in o .. o + k - 1)
             /\ y = i * stride + w => y - (o + i * stride) = w - o
  <2>0. y \in Nat /\ u - base \in Int
    <3>1. u - base \in Int
      BY <1>0
    <3>2. y \in 0 .. MemSize-1
      BY <3>1, <1>0, DivMod
    <3> QED  BY <3>1, <3>2, <1>0
  <2> HIDE DEF y
  <2>1. p \in Int /\ w \in 0 .. stride-1 /\ y = stride * p + w
    BY <2>0, <1>0, DivMod
  <2>2. i * stride \in Nat
    BY <1>0
  <2>3. (i + 1) * stride <= vl * stride /\ (i + 1) * stride = i * stride + stride
    BY <1>0
  <2> DEFINE x1 == i * stride  m == vl * stride
  <2>4. m \in Nat /\ x1 + stride <= m /\ m <= MemSize /\ x1 \in Nat
    BY <2>2, <2>3, <1>0
  <2>5. ASSUME y \in o + x1 .. (o + x1) + k - 1 PROVE i = p /\ w \in o .. o + k - 1
    <3> DEFINE r == y - x1
    <3>1. r \in o .. o + k - 1 /\ y = x1 + r
      <4> HIDE DEF x1, p, w
      <4> QED  BY <2>0, <2>4, <2>5, <1>0
    <3>2. r \in 0 .. stride-1
      <4> HIDE DEF r
      <4> QED  BY <3>1, <1>0
    <3> HIDE DEF r
    <3>3. y \in Int /\ i \in Int /\ y = i * stride + r
      BY <2>0, <3>1
    <3>4. p = i /\ w = r
      BY <1>0, <3>2, <3>3, Unique
    <3> QED  BY <3>1, <3>4
  <2>6. ASSUME i = p, w \in o .. o + k - 1 PROVE y \in o + x1 .. (o + x1) + k - 1
    <3>1. y = x1 + w
      <4>1. stride * p = x1
        BY <2>6, <1>0
      <4> QED  BY <2>1, <4>1
    <3> HIDE DEF x1, w, p
    <3> QED  BY <3>1, <2>0, <2>4, <2>6, <1>0
  <2> HIDE DEF x1, m
  <2>7. (o + x1) + k <= MemSize
    BY <2>4, <1>0
  <2>8. y = x1 + w => y - (o + x1) = w - o
    <3> HIDE DEF w
    <3> QED  BY <2>0, <2>1, <2>4
  <2> HIDE DEF p, w
  <2>9. y \in o + x1 .. (o + x1) + k - 1 <=> (i = p /\ w \in o .. o + k - 1)
    BY <2>5, <2>6
  <2> QED  BY <2>2, <2>7, <2>8, <2>9 DEF x1
<1>4. y = stride * p + w /\ p \in Nat
  <2>1. u - base \in Int
    BY <1>0
  <2>2. y \in 0 .. MemSize-1
    BY <2>1, <1>0, DivMod
  <2> HIDE DEF y
  <2>3. y \in Nat
    BY <2>2, <1>0
  <2>4. y \div stride \in Nat
    BY <2>3, <1>0, QuotientOrder
  <2>5. y = stride * p + w
    BY <2>3, <1>0, DivMod
  <2> QED  BY <2>4, <2>5
<1>5. EntriesTo(vl, entries)
  <2>1. ASSUME NEW n \in 1 .. vl PROVE entries[n].a \in Int /\ entries[n].v \in Int
    <3>1. n - 1 \in 0 .. vl-1
      BY <1>0
    <3>2. (n - 1) * stride \in Int
      BY <3>1, <1>3
    <3>3. at(n - 1) \in Int
      BY <3>2
    <3>4. Element(v, s, k, n - 1) \in Int
      BY <3>1
    <3> HIDE DEF entries, at
    <3> QED  BY <1>2, <3>3, <3>4
  <2>2. DOMAIN entries = 1 .. vl
    OBVIOUS
  <2> HIDE DEF entries
  <2> QED  BY <2>1, <2>2 DEF EntriesTo
<1>6. EntriesAt(vl, k, entries, base, c)
  <2>1. ASSUME NEW n \in 1 .. vl PROVE entries[n].a = base + c[n] /\ c[n] \in Nat /\ c[n] + k <= MemSize
    <3>1. n - 1 \in 0 .. vl-1
      BY <1>0
    <3> DEFINE z == (n - 1) * stride
    <3>2. z \in Nat /\ (o + z) + k <= MemSize
      BY <3>1, <1>3
    <3>3. entries[n].a = (base + o) + z /\ c[n] = o + z
      BY <1>2
    <3> HIDE DEF z, entries, c
    <3> QED  BY <3>2, <3>3
  <2> HIDE DEF entries, c
  <2> QED  BY <2>1 DEF EntriesAt
<1>7. OnlyHolder(vl, k, entries, c, y, q)
  <2>1. ASSUME NEW n \in 1 .. vl PROVE (entries[n].m /\ y \in c[n] .. c[n] + k - 1) <=> n = q
    <3>1. n - 1 \in 0 .. vl-1 /\ c[n] = o + (n - 1) * stride
      BY <1>0
    <3>2. y \in c[n] .. c[n] + k - 1 <=> (n - 1 = p /\ w \in o .. o + k - 1)
      <4> HIDE DEF c, y, p, w
      <4> QED  BY <3>1, <1>3
    <3>3. entries[n].m <=> Active(n - 1)
      BY <1>2
    <3> HIDE DEF c, entries, y, w
    <3>4. n - 1 = p <=> n = p + 1
      <4> HIDE DEF p
      <4> QED  BY <1>4
    <3>5. n - 1 = p => p < vl
      <4> HIDE DEF p
      <4> QED  BY <3>1, <1>0
    <3> HIDE DEF p
    <3>6. n # 0
      OBVIOUS
    <3>7. n - 1 = p => (Active(n - 1) <=> Active(p))
      OBVIOUS
    <3> QED  BY <3>2, <3>3, <3>4, <3>5, <3>6, <3>7
  <2> HIDE DEF c, entries, y, q
  <2> QED  BY <2>1 DEF OnlyHolder
<1>8. StoreMemory(mm, k, entries)[u]
        = IF q \in 1 .. vl THEN Shr(entries[q].v, UW * (y - c[q])) % 2^UW ELSE mm[u]
  <2> HIDE DEF entries, c, q
  <2> QED  BY <1>0, <1>5, <1>6, <1>7, PlacedByte
<1>9. q \in 1 .. vl <=> (p < vl /\ Active(p) /\ w \in o .. o + k - 1)
  <2> HIDE DEF p, w
  <2> QED  BY <1>0, <1>4
<1>10. ASSUME p < vl, Active(p), w \in o .. o + k - 1
       PROVE  entries[q].v = Element(v, s, k, p) /\ y - c[q] = w - o
  <2>1. q = p + 1 /\ q \in 1 .. vl /\ q - 1 = p /\ p \in 0 .. vl-1
    <3>1. q = p + 1
      BY <1>10
    <3> HIDE DEF p, w, q
    <3> QED  BY <3>1, <1>0, <1>4, <1>10
  <2>2. entries[q].v = Element(v, s, k, q - 1) /\ c[q] = o + (q - 1) * stride
    <3> HIDE DEF q
    <3> QED  BY <2>1, <1>2
  <2>3. y = p * stride + w
    <3> HIDE DEF p, w, y
    <3>1. stride * p = p * stride
      BY <1>0, <1>4
    <3> QED  BY <3>1, <1>4
  <2>4. y - (o + p * stride) = w - o
    <3> HIDE DEF p, w, y
    <3> QED  BY <2>1, <2>3, <1>3
  <2> HIDE DEF entries, c, q, p, w, y
  <2> QED  BY <2>1, <2>2, <2>4
<1>11. StridedByte(mm, s, k, base, o, stride, u)
         = IF p < vl /\ Active(p) /\ w \in o .. o + k - 1
           THEN Shr(Element(v, s, k, p), UW * (w - o)) % 2^UW ELSE mm[u]
  BY DEF StridedByte
<1>12. StoreMemory(mm, k, entries)[u] = StridedByte(mm, s, k, base, o, stride, u)
  <2> HIDE DEF entries, c, q, p, w, y
  <2> QED  BY <1>8, <1>9, <1>10, <1>11
<1> HIDE DEF entries
<1> QED  BY <1>1, <1>5, <1>12

\* Writing items of one register changes the bytes of those items and leaves a file.
LEMMA PutItemsBytes ==
  ASSUME NEW f, IsFile(f), NEW reg, NEW k, NEW is, NEW val
  PROVE  /\ IsFile(PutItems(f, reg, k, is, val))
         /\ \A r \in Regs, u \in 0 .. VLENB-1 :
              PutItems(f, reg, k, is, val)[r][u] =
                IF r = reg /\ u \div k \in is THEN Shr(val[u \div k], UW * (u % k)) % 2^UW ELSE f[r][u]
<1> DEFINE new == [u \in 0 .. VLENB-1 |->
                     IF u \div k \in is THEN Shr(val[u \div k], UW * (u % k)) % 2^UW ELSE f[reg][u]]
           g == PutItems(f, reg, k, is, val)
<1>1. g = [f EXCEPT ![reg] = new]
  BY Zenon DEF PutItems
<1> HIDE DEF g
<1>2. f = [r \in Regs |-> f[r]]
  BY DEF IsFile
<1>3. g = [r \in Regs |-> IF r = reg THEN new ELSE f[r]]
  <2> HIDE DEF new
  <2> QED  BY <1>1, <1>2
<1>4. ASSUME NEW r \in Regs, NEW u \in 0 .. VLENB-1
      PROVE  g[r][u] = IF r = reg /\ u \div k \in is THEN Shr(val[u \div k], UW * (u % k)) % 2^UW ELSE f[r][u]
  <2>1. g[r] = IF r = reg THEN new ELSE f[r]
    BY <1>3, <1>4, Zenon
  <2>2. new[u] = IF u \div k \in is THEN Shr(val[u \div k], UW * (u % k)) % 2^UW ELSE f[reg][u]
    BY <1>4, Zenon
  <2> HIDE DEF new
  <2> QED  BY <2>1, <2>2
<1>5. IsFile(g)
  <2>1. g = [r \in Regs |-> g[r]]
    <3> HIDE DEF new
    <3> QED  BY <1>3
  <2>2. ASSUME NEW r \in Regs PROVE g[r] = [u \in 0 .. VLENB-1 |-> g[r][u]]
    <3>1. CASE r = reg
      <4>1. g[r] = new
        BY <3>1, <2>2, <1>3, Zenon
      <4>2. new = [u \in 0 .. VLENB-1 |-> new[u]]
        BY Zenon
      <4> HIDE DEF new
      <4> QED  BY <4>1, <4>2
    <3>2. CASE r # reg
      <4>1. g[r] = f[r]
        BY <3>2, <2>2, <1>3, Zenon
      <4> QED  BY <4>1, <2>2, Zenon DEF IsFile
    <3> QED  BY <3>1, <3>2
  <2> QED  BY <2>1, <2>2 DEF IsFile
<1> QED  BY <1>4, <1>5 DEF g

\* What a load writes to its register j, from the entries that start at the first element of
\* that register, is the flat write of those elements.
LEMMA RegisterBack ==
  ASSUME NEW f, IsFile(f), NEW k \in Parts, NEW d \in Nat, NEW j \in Nat, NEW count \in Nat, count <= Epv(k),
         NEW masks, NEW values, NEW m, m = j * Epv(k)
  PROVE  LET is == {i \in 0 .. count-1 : masks[m + i]} IN
         PutItems(f, d + j, k, is, [i \in is |-> values[m + i]])
           = FlatWrite(f, d, k, m, m + count, values, masks)
<1> DEFINE is == {i \in 0 .. count-1 : masks[m + i]}
           val == [i \in is |-> values[m + i]]
           a == PutItems(f, d + j, k, is, val)
           b == FlatWrite(f, d, k, m, m + count, values, masks)
<1>1. /\ IsFile(a)
      /\ \A r \in Regs, u \in 0 .. VLENB-1 : a[r][u] =
           IF r = d + j /\ u \div k \in is THEN Shr(val[u \div k], UW * (u % k)) % 2^UW ELSE f[r][u]
  <2> HIDE DEF is, val
  <2> QED  BY PutItemsBytes
<1>2. IsFile(b) /\ \A r \in Regs, u \in 0 .. VLENB-1 : b[r][u] = FlatByte(f, d, k, m, m + count, values, masks, r, u)
  BY FlatFile
<1> HIDE DEF a, b
<1>3. Epv(k) \in Nat \ {0}
  BY PartFacts
<1>4. ASSUME NEW r \in Regs, NEW u \in 0 .. VLENB-1 PROVE a[r][u] = b[r][u]
  <2> DEFINE e == ((r - d) * VLENB + u) \div k  i == u \div k  n == Epv(k)
  <2>1. b[r][u] = IF r >= d /\ e \in m .. (m + count) - 1 /\ masks[e]
                  THEN Shr(values[e], UW * (u % k)) % 2^UW ELSE f[r][u]
    BY <1>2, <1>4 DEF FlatByte
  <2>2. a[r][u] = IF r = d + j /\ i \in is THEN Shr(val[i], UW * (u % k)) % 2^UW ELSE f[r][u]
    BY <1>1, <1>4
  <2>3. i \in is => val[i] = values[m + i]
    OBVIOUS
  <2>4. i \in is <=> (i \in 0 .. count-1 /\ masks[m + i])
    OBVIOUS
  <2> HIDE DEF is, val
  <2>5. CASE r >= d
    <3>1. r - d \in Nat
      BY <2>5 DEF Regs
    <3> DEFINE q == r - d
    <3>2. e = q * n + i /\ i \in 0 .. n-1
      BY <3>1, ByteElement
    <3>3. r = d + j <=> q = j
      BY DEF Regs
    <3>4. n \in Nat \ {0} /\ m = j * n /\ q \in Nat
      BY <1>3, <3>1
    <3> HIDE DEF q, e, i, n
    <3>5. ASSUME q = j PROVE e = m + i
      BY <3>2, <3>4, <3>5
    <3>6. ASSUME e \in m .. (m + count) - 1 PROVE q = j
      <4> DEFINE x1 == q * n  y1 == j * n
      <4>1. x1 \in Nat /\ y1 \in Nat
        BY <3>4
      <4>2. e = x1 + i /\ m = y1
        BY <3>2, <3>4
      <4> DEFINE t == e - y1
      <4>3. t \in 0 .. n-1 /\ e = y1 + t
        <5>1. count <= n
          BY DEF n
        <5> HIDE DEF x1, y1
        <5> QED  BY <3>2, <3>4, <3>6, <4>1, <4>2, <5>1
      <4>4. e \in Int
        BY <3>2, <3>4, <4>1, <4>2
      <4>5. q = e \div n
        BY <3>2, <3>4, <4>4, Unique
      <4> HIDE DEF t
      <4>6. j = e \div n
        BY <3>4, <4>3, <4>4, Unique
      <4> QED  BY <4>5, <4>6
    <3>7. ASSUME q = j PROVE e \in m .. (m + count) - 1 <=> i \in 0 .. count-1
      <4>1. m \in Nat /\ i \in Int
        BY <3>2, <3>4
      <4> QED  BY <4>1, <3>5, <3>7
    <3> QED  BY <2>1, <2>2, <2>3, <2>4, <2>5, <3>3, <3>5, <3>6, <3>7
  <2>6. CASE ~(r >= d)
    <3>1. r # d + j
      BY <2>6 DEF Regs
    <3> QED  BY <2>1, <2>2, <2>6, <3>1
  <2> QED  BY <2>5, <2>6
<1>5. a = b
  BY <1>1, <1>2, <1>4, SameFile
<1> QED  BY <1>5 DEF a, b, is, val

\* Registers enough for n elements hold all of them.
LEMMA RegsHold ==
  ASSUME NEW k \in Parts, NEW n \in Nat
  PROVE  /\ RegsFor(k, n) \in Nat /\ n <= RegsFor(k, n) * Epv(k)
         /\ \A i \in 0 .. n-1 : i \div Epv(k) \in Nat /\ i \div Epv(k) < RegsFor(k, n)
<1> DEFINE e == Epv(k)  a == n + e - 1  q == a \div e
<1>1. e \in Nat \ {0}
  BY PartFacts
<1>2. RegsFor(k, n) = q
  BY DEF RegsFor
<1> HIDE DEF e
<1>3. a \in Nat
  BY <1>1
<1>4. q \in Nat /\ q \in Int /\ a % e \in 0 .. e-1 /\ a = e * q + (a % e)
  <2> HIDE DEF a
  <2>1. a \div e \in Nat
    BY <1>1, <1>3, QuotientOrder
  <2>2. a % e \in 0 .. e-1 /\ a = e * q + (a % e)
    BY <1>1, <1>3, DivMod
  <2> QED  BY <2>1, <2>2
<1>5. n <= q * e
  <2> DEFINE r == a % e  x1 == e * q
  <2>1. x1 \in Nat /\ q * e = x1
    <3> HIDE DEF q
    <3> QED  BY <1>1, <1>4
  <2>2. a = x1 + r /\ r \in 0 .. e-1
    BY <1>4
  <2> HIDE DEF r, x1, q
  <2> QED  BY <1>1, <2>1, <2>2
<1>6. ASSUME NEW i \in 0 .. n-1 PROVE i \div e \in Nat /\ i \div e < q
  <2> DEFINE b == i + e
  <2>1. b \in Nat /\ i \in Nat /\ b <= a
    BY <1>1
  <2> HIDE DEF a, b
  <2>2. i \div e \in Nat /\ b \div e <= a \div e /\ i <= b
    <3>1. i \in Nat /\ i <= b
      BY <2>1, <1>1 DEF b
    <3> QED  BY <1>1, <1>3, <2>1, <3>1, QuotientOrder
  <2> DEFINE p == i \div e  s == i % e
  <2>3. p \in Nat /\ s \in 0 .. e-1 /\ i = e * p + s
    <3>1. i \in Int
      BY <2>1
    <3> QED  BY <1>1, <2>2, <3>1, DivMod
  <2> HIDE DEF p, s
  <2>4. b = (p + 1) * e + s /\ b \in Int /\ p + 1 \in Int
    <3>1. (p + 1) * e = e * p + e /\ e * p \in Int
      BY <1>1, <2>3
    <3> QED  BY <1>1, <2>3, <3>1 DEF b
  <2>5. b \div e = p + 1
    BY <1>1, <2>3, <2>4, Unique
  <2>6. p + 1 <= q
    BY <2>2, <2>5
  <2> HIDE DEF q
  <2>7. p < q
    BY <1>4, <2>3, <2>6
  <2> QED  BY <2>2, <2>7 DEF p
<1> QED  BY <1>2, <1>4, <1>5, <1>6 DEF e

\* The write back of a load of n elements from element 0 on, register by register, is the flat
\* write of the elements.
LEMMA BackIsFlat ==
  ASSUME NEW f, IsFile(f), NEW k \in Parts, NEW d \in Nat, NEW n \in Nat, NEW masks, NEW values
  PROVE  WriteBackLoadData(f, d, k, 0, n, n, masks, values) = FlatWrite(f, d, k, 0, n, values, masks)
<1> DEFINE epv == Epv(k)
           N == Greater(0, RegsFor(k, n) - (0 \div epv))
           base == [f |-> f, left |-> n, idx |-> 0, item |-> 0 % epv]
           Eq(h) == h = [j \in 0 .. N |-> IF j = 0 THEN base
                         ELSE BackStep(d, k, 0, masks, values, j, h[j - 1])]
           after == CHOOSE h : Eq(h)
           F(m) == FlatWrite(f, d, k, 0, m, values, masks)
           M(j) == Lesser(n, j * epv)
           Place(j) == [f |-> F(M(j)), left |-> n - M(j), idx |-> M(j), item |-> 0]
           sol == [j \in 0 .. N |-> Place(j)]
<1>1. WriteBackLoadData(f, d, k, 0, n, n, masks, values) = after[N].f
  BY Zenon DEF WriteBackLoadData, BackStep
<1>2. epv \in Nat \ {0}
  BY PartFacts
<1>3. 0 \div epv = 0 /\ 0 % epv = 0
  <2> HIDE DEF epv
  <2>1. 0 \in Int /\ 0 = 0 * epv + 0 /\ 0 \in 0 .. epv-1
    BY <1>2
  <2> QED  BY <1>2, <2>1, Unique
<1>4. N \in Nat /\ N = RegsFor(k, n)
  <2>1. RegsFor(k, n) \in Nat
    BY RegsHold
  <2> HIDE DEF epv
  <2> QED  BY <1>3, <2>1 DEF Greater
<1>5. base = Place(0)
  <2>1. 0 * epv = 0
    <3> HIDE DEF epv
    <3> QED  BY <1>2
  <2>2. M(0) = 0
    <3> HIDE DEF epv
    <3> QED  BY <2>1 DEF Lesser
  <2>3. F(0) = f
    BY FlatNothing
  <2>4. n - 0 = n
    OBVIOUS
  <2> HIDE DEF F, M, epv
  <2> QED  BY <1>3, <2>2, <2>3, <2>4
<1>6. ASSUME NEW j \in 1 .. N PROVE BackStep(d, k, 0, masks, values, j, Place(j - 1)) = Place(j)
  <2> DEFINE i == j - 1  m == M(i)  fm == F(m)
  <2>1. i \in Nat /\ j \in Nat /\ j = i + 1
    BY <1>4
  <2> DEFINE y == i * epv
  <2>2. y \in Nat /\ j * epv = y + epv
    <3> HIDE DEF epv, i, N
    <3> QED  BY <1>2, <2>1
  <2>3. m = Lesser(n, y) /\ M(j) = Lesser(n, y + epv) /\ m \in Nat /\ M(j) \in Nat
    <3> HIDE DEF epv, i, y
    <3>1. m = Lesser(n, y) /\ M(j) = Lesser(n, y + epv)
      BY <2>2 DEF y
    <3> HIDE DEF M, m
    <3> QED  BY <1>2, <2>2, <3>1 DEF Lesser
  <2> DEFINE p == Place(i)
             count == Lesser(epv - 0, n - m)
             is == {t \in 0 .. count-1 : masks[m + t]}
             g == PutItems(fm, d + i, k, is, [t \in is |-> values[m + t]])
  <2>4. p.f = fm /\ p.left = n - m /\ p.idx = m /\ p.item = 0
    <3> HIDE DEF F, M
    <3> QED  OBVIOUS
  <2>5. d + (0 \div epv) + j - 1 = d + i
    <3> HIDE DEF epv
    <3> QED  BY <1>3, <2>1
  <2>6. BackStep(d, k, 0, masks, values, j, p)
          = IF n - m = 0 THEN p
            ELSE [f |-> g, left |-> (n - m) - count, idx |-> m + count, item |-> 0]
    <3> HIDE DEF fm, m, p, i
    <3> QED  BY <2>4, <2>5 DEF BackStep
  <2>7. CASE n - m = 0
    <3>1. M(j) = m
      <4> HIDE DEF M, m, y, epv
      <4> QED  BY <1>2, <2>2, <2>3, <2>7 DEF Lesser
    <3>2. Place(j) = p
      <4> HIDE DEF F, M
      <4> QED  BY <3>1
    <3> HIDE DEF p, g, Place, M, m
    <3> QED  BY <2>6, <2>7, <3>2 DEF p
  <2>8. CASE n - m # 0
    <3>1. m = y /\ count \in Nat /\ count <= epv /\ M(j) = m + count /\ (n - m) - count = n - M(j)
      <4>1. count = Lesser(epv, n - m)
        <5> HIDE DEF M, m, epv
        <5> QED  BY <1>2
      <4> HIDE DEF M, m, y, epv, count
      <4> QED  BY <1>2, <2>2, <2>3, <2>8, <4>1 DEF Lesser
    <3>2. IsFile(fm)
      BY FlatFile
    <3>3. g = FlatWrite(fm, d, k, m, m + count, values, masks)
      <4> HIDE DEF fm, m, count
      <4>1. count <= Epv(k) /\ m = i * Epv(k) /\ count \in Nat
        BY <3>1
      <4> HIDE DEF i
      <4> QED  BY <2>1, <3>2, <4>1, RegisterBack
    <3>4. g = F(m + count)
      <4> HIDE DEF m, count, g
      <4>1. 0 \in Int /\ m \in Int /\ m + count \in Int /\ 0 <= m /\ m <= m + count
        BY <2>3, <3>1
      <4>2. FlatWrite(FlatWrite(f, d, k, 0, m, values, masks), d, k, m, m + count, values, masks)
              = FlatWrite(f, d, k, 0, m + count, values, masks)
        BY <4>1, FlatResumed
      <4> QED  BY <3>3, <4>2
    <3>5. Place(j) = [f |-> F(M(j)), left |-> n - M(j), idx |-> M(j), item |-> 0]
      BY Zenon
    <3> HIDE DEF Place, F, M, m, count, g, p
    <3>6. BackStep(d, k, 0, masks, values, j, p) = Place(j)
      BY <2>6, <2>8, <3>1, <3>4, <3>5
    <3> QED  BY <3>6 DEF p
  <2> QED  BY <2>7, <2>8
<1> HIDE DEF N, base, F, M, epv
<1>7. Eq(sol)
  <2>1. ASSUME NEW j \in 0 .. N
        PROVE  sol[j] = IF j = 0 THEN base ELSE BackStep(d, k, 0, masks, values, j, sol[j - 1])
    <3>1. CASE j = 0
      BY <1>5, <3>1
    <3>2. CASE j # 0
      <4>1. j \in 1 .. N /\ j - 1 \in 0 .. N
        BY <1>4, <3>2
      <4>2. sol[j - 1] = Place(j - 1) /\ sol[j] = Place(j)
        <5> HIDE DEF Place
        <5> QED  BY <4>1
      <4> HIDE DEF sol, Place
      <4> QED  BY <1>6, <3>2, <4>1, <4>2
    <3> QED  BY <3>1, <3>2
  <2>2. sol = [j \in 0 .. N |-> sol[j]]
    OBVIOUS
  <2> HIDE DEF sol
  <2> QED  BY <2>1, <2>2
<1>8. Eq(after)
  <2> HIDE DEF Eq, sol
  <2> QED  BY <1>7, Zenon
<1> HIDE DEF after, sol
<1>9. \A j \in 0 .. N : after[j] = IF j = 0 THEN base ELSE BackStep(d, k, 0, masks, values, j, after[j - 1])
  BY <1>8
<1> HIDE DEF Eq
<1> DEFINE P == {j \in 0 .. N : after[j] = Place(j)}
<1>10. 0 \in P
  BY <1>4, <1>5, <1>9
<1>11. ASSUME NEW j \in 0 .. N-1, j \in P PROVE j + 1 \in P
  <2> DEFINE i == j + 1
  <2>1. i \in 1 .. N /\ i - 1 = j /\ i # 0 /\ i \in 0 .. N
    BY <1>4, <1>11
  <2>2. after[j] = Place(j)
    BY <1>11
  <2> HIDE DEF Place, P
  <2>3. after[i] = BackStep(d, k, 0, masks, values, i, after[i - 1])
    <3> HIDE DEF i
    <3> QED  BY <1>9, <2>1
  <2>4. BackStep(d, k, 0, masks, values, i, Place(i - 1)) = Place(i)
    <3> HIDE DEF i
    <3> QED  BY <1>6, <2>1
  <2>5. after[i] = Place(i)
    BY <2>1, <2>2, <2>3, <2>4
  <2> QED  BY <2>1, <2>5 DEF P
<1>12. 0 .. N \subseteq P
  <2> HIDE DEF P
  <2> QED  BY <1>4, <1>10, <1>11, StepByStep
<1>13. after[N] = Place(N)
  BY <1>4, <1>12
<1>14. M(N) = n
  <2>1. n <= RegsFor(k, n) * Epv(k) /\ RegsFor(k, n) \in Nat
    BY RegsHold
  <2> DEFINE y == N * epv
  <2>2. y \in Nat /\ n <= y
    <3>1. n <= N * epv
      BY <1>4, <2>1 DEF epv
    <3> QED  BY <3>1, <1>2, <1>4
  <2>3. M(N) = Lesser(n, y)
    BY DEF M
  <2> HIDE DEF y
  <2> QED  BY <2>2, <2>3 DEF Lesser
<1>15. Place(N).f = F(M(N))
  OBVIOUS
<1> HIDE DEF Place
<1>16. after[N].f = F(n)
  BY <1>13, <1>14, <1>15
<1> QED  BY <1>1, <1>16 DEF F

\* The sources of the stores hold words, for groups of at most four registers.
LEMMA FieldWord ==
  ASSUME VectorState, NEW k \in Parts, RegsFor(k, vl) <= 4, NEW r \in 0 .. 16, NEW i \in 0 .. vl-1
  PROVE  Element(v, r, k, i) \in Word(Bits(k)) /\ Element(v, r, k, i) \in Nat
<1>1. v \in Files /\ vl \in Nat
  BY LengthIndex DEF VectorState
<1>2. i \div Epv(k) \in Nat /\ i \div Epv(k) < RegsFor(k, vl) /\ RegsFor(k, vl) \in Nat
  BY <1>1, RegsHold
<1> DEFINE q == i \div Epv(k)
<1>3. r + q \in Regs
  <2> HIDE DEF q
  <2>1. q \in Nat /\ q < 4
    BY <1>2 DEF q
  <2> QED  BY <2>1 DEF Regs
<1>4. i \in Nat
  BY <1>1
<1> QED  BY <1>1, <1>3, <1>4, ElementWord

\* A strided load of all elements is a flat write of what is at their addresses.
LEMMA LoadedFlat ==
  ASSUME vl \in Nat, NEW f, IsFile(f), NEW k \in Parts, NEW d \in Nat, NEW mm, NEW base, NEW stride
  PROVE  Loaded(f, mm, d, k, base, stride)
           = FlatWrite(f, d, k, 0, vl, [i \in Entries(vl) |-> LoadAt(mm, k, base + i * stride)], MaskFrom(0, vl))
<1> DEFINE values == [i \in Entries(vl) |-> LoadAt(mm, k, base + i * stride)]
<1>1. Loaded(f, mm, d, k, base, stride) = WriteBackLoadData(f, d, k, 0, vl, vl, MaskFrom(0, vl), values)
  BY Zenon DEF Loaded
<1> HIDE DEF values
<1>2. WriteBackLoadData(f, d, k, 0, vl, vl, MaskFrom(0, vl), values) = FlatWrite(f, d, k, 0, vl, values, MaskFrom(0, vl))
  BY BackIsFlat
<1> QED  BY <1>1, <1>2 DEF values

\* Where the address of a byte lies, seen from the base.
LEMMA FromBase ==
  ASSUME NEW M \in Nat \ {0}, NEW base \in Int, NEW z \in 0 .. M-1
  PROVE  LET u == (base + z) % M IN u \in 0 .. M-1 /\ (u - base) % M = z
<1> DEFINE a == base + z  q == a \div M  u == a % M
<1>1. a \in Int
  OBVIOUS
<1>2. q \in Int /\ u \in 0 .. M-1 /\ a = M * q + u
  BY <1>1, DivMod
<1> HIDE DEF q, u
<1>3. (-q) * M = -(M * q) /\ M * q \in Int
  BY <1>2
<1> DEFINE t == M * q  s == (-q) * M
<1>4. t \in Int /\ s = -t /\ base + z = t + u
  BY <1>2, <1>3
<1>5. u - base = s + z /\ u - base \in Int /\ -q \in Int
  <2>1. u \in Int
    BY <1>2
  <2> HIDE DEF t, s
  <2> QED  BY <1>2, <1>4, <2>1
<1>6. (u - base) % M = z
  BY <1>5, Unique
<1> QED  BY <1>2, <1>6 DEF u

\* An active element that was stored by a stride is loaded by it.
LEMMA StoredIsLoaded ==
  ASSUME VectorState, vstart = 0, NEW k \in Parts, NEW stride \in Nat, k <= stride, vl * stride <= MemSize,
         NEW base \in Int, RegsFor(k, vl) <= 4, NEW i \in 0 .. vl-1, Active(i)
  PROVE  LoadAt(StoreMemory(mem, k, StoreVectorStrided(Vd, k, base, stride)), k, base + i * stride)
           = Element(v, Vd, k, i)
<1> DEFINE mm == StoreMemory(mem, k, StoreVectorStrided(Vd, k, base, stride))
           w == Element(v, Vd, k, i)  x1 == i * stride  m == vl * stride
<1>0. /\ k \in 1 .. VLENB /\ k \in Nat \ {0} /\ MemSize \in Nat \ {0} /\ vl \in Nat /\ stride \in Nat \ {0}
      /\ mem \in Memories /\ Vd \in 0 .. 16 /\ i \in Nat
  <2>1. vl \in Nat /\ mem \in Memories
    BY LengthIndex DEF VectorState
  <2>2. k \in 1 .. VLENB /\ VLENB \in Nat \ {0}
    BY VectorAssumption DEF Parts
  <2>3. MemSize \in Nat \ {0}
    BY <2>2 DEF MemSize
  <2> QED  BY <2>1, <2>2, <2>3 DEF Vd
<1>1. \A n \in 0 .. vl-1 : Element(v, Vd, k, n) \in Word(Bits(k)) /\ Element(v, Vd, k, n) \in Nat
  BY <1>0, FieldWord
<1>2. w \in Word(UW * k)
  <2>1. Bits(k) = UW * k
    BY <1>0, VectorAssumption DEF Bits
  <2> QED  BY <1>1, <2>1
<1>3. x1 \in Nat /\ m \in Nat /\ x1 + stride <= m /\ m <= MemSize
  <2>1. (i + 1) * stride <= vl * stride /\ (i + 1) * stride = i * stride + stride
    BY <1>0
  <2> QED  BY <1>0, <2>1
<1> HIDE DEF x1, m
<1>4. ASSUME NEW j \in 0 .. k-1 PROVE mm[((base + x1) + j) % MemSize] = Shr(w, UW * j) % 2^UW
  <2> DEFINE z == x1 + j  u == (base + z) % MemSize
  <2>1. z \in 0 .. MemSize-1 /\ (base + x1) + j = base + z
    BY <1>0, <1>3
  <2> HIDE DEF z
  <2>2. u \in 0 .. MemSize-1 /\ (u - base) % MemSize = z
    BY <1>0, <2>1, FromBase
  <2> HIDE DEF u
  <2>3. z \div stride = i /\ z % stride = j
    <3>1. z = i * stride + j /\ z \in Int /\ i \in Int /\ j \in 0 .. stride-1
      <4>1. j \in 0 .. stride-1
        BY <1>0
      <4>2. z = i * stride + j
        BY DEF z, x1
      <4> QED  BY <1>0, <2>1, <4>1, <4>2
    <3> QED  BY <1>0, <3>1, Unique
  <2>4. mm[u] = StridedByte(mem, Vd, k, base, 0, stride, u)
    <3>1. base + 0 = base /\ 0 + k <= stride /\ 0 \in Nat
      BY <1>0
    <3>2. \A n \in 0 .. vl-1 : Element(v, Vd, k, n) \in Nat
      BY <1>1
    <3>3. StoreMemory(mem, k, StoreVectorStrided(Vd, k, base + 0, stride))[u]
            = StridedByte(mem, Vd, k, base, 0, stride, u)
      BY <1>0, <2>2, <3>1, <3>2, StridedBytes
    <3> QED  BY <3>1, <3>3
  <2>5. i < vl /\ j \in 0 .. 0 + k - 1 /\ j - 0 = j
    BY <1>0
  <2>6. StridedByte(mem, Vd, k, base, 0, stride, u) = Shr(w, UW * j) % 2^UW
    <3> HIDE DEF w
    <3> QED  BY <2>2, <2>3, <2>5 DEF StridedByte, w
  <2> QED  BY <2>1, <2>4, <2>6 DEF u
<1> HIDE DEF mm, w
<1>5. LoadAt(mm, k, base + x1) = w
  BY <1>0, <1>2, <1>4, LoadedWord
<1> QED  BY <1>5 DEF mm, w, x1

\* A strided load of what a strided store left restores the active elements and changes
\* nothing else.
LEMMA StridedInverts ==
  ASSUME VectorState, vstart = 0, NEW k \in Parts, NEW stride \in Nat, Fits(k, stride)
  PROVE  Loaded(v, StoreMemory(mem, k, StoreVectorStrided(Vd, k, 3, stride)), Free, k, 3, stride)
           = FlatWrite(v, Free, k, 0, vl, [i \in Index |-> IF i < vl THEN Element(v, Vd, k, i) ELSE 0], Masked)
<1> DEFINE mm == StoreMemory(mem, k, StoreVectorStrided(Vd, k, 3, stride))
           values == [i \in Entries(vl) |-> LoadAt(mm, k, 3 + i * stride)]
           els == [i \in Index |-> IF i < vl THEN Element(v, Vd, k, i) ELSE 0]
<1>1. IsFile(v) /\ LengthFits /\ vl \in Nat /\ max_vl \in Nat /\ vl <= max_vl
  BY TypedFile, LengthIndex DEF VectorState
<1>2. k <= stride /\ vl * stride <= MemSize /\ RegsFor(k, vl) <= 4
  BY DEF Fits
<1>3. Loaded(v, mm, Free, k, 3, stride) = FlatWrite(v, Free, k, 0, vl, values, MaskFrom(0, vl))
  <2> HIDE DEF mm
  <2>1. Free \in Nat
    BY DEF Free
  <2> QED  BY <1>1, <2>1, LoadedFlat
<1>4. ASSUME NEW e \in 0 .. vl-1
      PROVE  /\ MaskFrom(0, vl)[e] <=> Masked[e]
             /\ MaskFrom(0, vl)[e] => values[e] = els[e]
  <2>1. e \in Entries(vl) /\ e \in Nat /\ e < vl
    BY <1>1 DEF Entries
  <2>2. e \in Index
    <3>1. e < max_vl
      <4> HIDE DEF max_vl
      <4> QED  BY <1>1, <2>1
    <3> QED  BY <1>1, <2>1, <3>1, LengthIndex
  <2>3. (MaskFrom(0, vl)[e] <=> Active(e)) /\ (Masked[e] <=> Active(e))
    <3>1. 0 + e = e
      BY <2>1
    <3> QED  BY <2>1, <2>2, <3>1 DEF MaskFrom, Masked
  <2>4. els[e] = Element(v, Vd, k, e)
    BY <2>1, <2>2
  <2>5. values[e] = LoadAt(mm, k, 3 + e * stride)
    BY <2>1
  <2>6. Active(e) => LoadAt(mm, k, 3 + e * stride) = Element(v, Vd, k, e)
    BY <1>2, StoredIsLoaded
  <2> HIDE DEF values, els, mm
  <2> QED  BY <2>3, <2>4, <2>5, <2>6
<1> HIDE DEF values, els, mm
<1>5. FlatWrite(v, Free, k, 0, vl, values, MaskFrom(0, vl)) = FlatWrite(v, Free, k, 0, vl, els, Masked)
  BY <1>4, FlatSame
<1> QED  BY <1>3, <1>5 DEF els, mm

\* h folds op over subsets of 1 .. n, the largest member last, as long as its values are in A
FoldsUp(h, n, A, base, op) ==
  /\ h[{}] = base
  /\ \A s \in SUBSET (1 .. n) : (s # {} /\ h[s \ {Max(s)}] \in A) => h[s] = op[<<Max(s), h[s \ {Max(s)}]>>]

\* h is the fold for the subsets, all with values in A
FoldOfSubsets(h, n, A, base, op) ==
  /\ h \in [SUBSET (1 .. n) -> A] /\ h = [s \in SUBSET (1 .. n) |-> h[s]]
  /\ \A s \in SUBSET (1 .. n) : h[s] = IF s = {} THEN base ELSE op[<<Max(s), h[s \ {Max(s)}]>>]
  /\ \A s \in SUBSET (1 .. n) : s # {} => Max(s) \in 1 .. n /\ h[s \ {Max(s)}] \in A
\* g has the values of a fold after each of 1 .. n, the last of them r
FoldInSteps(g, n, A, base, op, r) ==
  /\ g \in [0 .. n -> A] /\ g[0] = base /\ g[n] = r
  /\ \A i \in 0 .. n-1 : g[i + 1] = op[<<i + 1, g[i]>>]

\* There is such a fold.
LEMMA FoldsUpExists ==
  ASSUME NEW n \in Nat, NEW A, NEW base \in A, NEW op \in [(1 .. n) \X A -> A]
  PROVE  \E h : FoldOfSubsets(h, n, A, base, op)
<1> DEFINE ch == [s \in SUBSET (1 .. n) |-> Max(s)]
<1>1. \A s \in SUBSET (1 .. n) : s # {} => Max(s) \in s
  BY LastOf
<1>2. \A s \in SUBSET (1 .. n) : ch[s] = Max(s)
  OBVIOUS
<1> HIDE DEF ch
<1>3. IsFiniteSet(1 .. n) /\ \A s \in SUBSET (1 .. n) : s # {} => ch[s] \in s
  <2>1. 1 \in Int /\ n \in Int
    OBVIOUS
  <2>2. IsFiniteSet(1 .. n)
    BY <2>1, FS_Interval, Zenon
  <2> QED  BY <1>1, <1>2, <2>2
<1>4. PICK h \in [SUBSET (1 .. n) -> A] : Folds(h, 1 .. n, ch, base, op)
  BY <1>3, FoldExists, Zenon
<1>5. ASSUME NEW s \in SUBSET (1 .. n)
      PROVE  h[s] = IF s = {} THEN base ELSE op[<<Max(s), h[s \ {Max(s)}]>>]
  <2>1. h[s] = FoldStep(h, ch, base, op, s)
    BY <1>4 DEF Folds
  <2> QED  BY <1>2, <2>1 DEF FoldStep
<1>6. ASSUME NEW s \in SUBSET (1 .. n), s # {} PROVE Max(s) \in 1 .. n /\ h[s \ {Max(s)}] \in A
  <2>1. Max(s) \in s
    BY <1>1, <1>6
  <2>2. s \ {Max(s)} \in SUBSET (1 .. n)
    OBVIOUS
  <2> QED  BY <1>4, <2>1, <2>2
<1>7. h = [s \in SUBSET (1 .. n) |-> h[s]]
  BY <1>4
<1> QED  BY <1>5, <1>6, <1>7, Zenon DEF FoldOfSubsets

\* It goes through 1 .. n in their order.
LEMMA FoldsUpSteps ==
  ASSUME NEW n \in Nat, NEW A, NEW base \in A, NEW op \in [(1 .. n) \X A -> A],
         NEW h, FoldsUp(h, n, A, base, op)
  PROVE  \E g : FoldInSteps(g, n, A, base, op, h[1 .. n])
<1> DEFINE g == [i \in 0 .. n |-> h[1 .. i]]
<1>1. g[0] = base /\ g[n] = h[1 .. n]
  <2>1. 1 .. 0 = {} /\ 0 \in 0 .. n /\ n \in 0 .. n
    OBVIOUS
  <2> QED  BY <2>1 DEF FoldsUp
<1>2. ASSUME NEW i \in 0 .. n-1, g[i] \in A PROVE g[i + 1] = op[<<i + 1, g[i]>>] /\ g[i + 1] \in A
  <2> DEFINE s == 1 .. i+1
  <2>1. s \in SUBSET (1 .. n) /\ i + 1 \in s /\ i + 1 \in 1 .. n /\ i + 1 \in 0 .. n /\ i \in 0 .. n
    OBVIOUS
  <2>2. s \ {i + 1} = 1 .. i
    <3>1. \A j \in s : j # i + 1 => j \in 1 .. i
      OBVIOUS
    <3>2. \A j \in 1 .. i : j \in s /\ j # i + 1
      OBVIOUS
    <3> QED  BY <3>1, <3>2, Zenon
  <2>3. s # {}
    BY <2>1
  <2>4. Max(s) = i + 1
    <3>1. s = 1 .. i+1
      OBVIOUS
    <3> HIDE DEF s
    <3> QED  BY <2>1, <2>3, <3>1, LastOf
  <2>5. g[i + 1] = h[s] /\ g[i] = h[1 .. i]
    BY <2>1
  <2>6. g[i] \in A
    BY <1>2
  <2> HIDE DEF s, g
  <2>7. h[s] = op[<<i + 1, h[1 .. i]>>]
    BY <2>1, <2>2, <2>3, <2>4, <2>5, <2>6 DEF FoldsUp
  <2>8. op[<<i + 1, h[1 .. i]>>] \in A
    BY <2>1, <2>5, <2>6
  <2> QED  BY <2>5, <2>7, <2>8
<1> DEFINE P == {i \in 0 .. n : g[i] \in A}
<1> HIDE DEF g
<1>3. 0 \in P
  BY <1>1
<1>4. ASSUME NEW i \in 0 .. n-1, i \in P PROVE i + 1 \in P
  <2>1. g[i] \in A /\ i + 1 \in 0 .. n
    BY <1>4
  <2> QED  BY <2>1, <1>2
<1>5. 0 .. n \subseteq P
  <2> HIDE DEF P
  <2> QED  BY <1>3, <1>4, StepByStep
<1>6. \A i \in 0 .. n : g[i] \in A
  BY <1>5
<1>7. g \in [0 .. n -> A]
  BY <1>6 DEF g
<1>8. \A i \in 0 .. n-1 : g[i + 1] = op[<<i + 1, g[i]>>]
  <2> SUFFICES ASSUME NEW i \in 0 .. n-1 PROVE g[i + 1] = op[<<i + 1, g[i]>>]
    OBVIOUS
  <2>1. i \in 0 .. n
    OBVIOUS
  <2> QED  BY <2>1, <1>2, <1>6
<1> QED  BY <1>1, <1>7, <1>8, Zenon DEF FoldInSteps

\* a byte at distance y is byte y % k of the field (y \div k) % nf of segment y \div (nf * k),
\* where segments have nf fields of k bytes
InField(k, nf, y) ==
  LET w == y % (nf * k)  p == y \div k  f == p % nf  g == y \div (nf * k)  j == y % k IN
  /\ nf * k \in Nat \ {0} /\ p \in Nat /\ g \in Nat /\ f \in 0 .. nf-1 /\ j \in 0 .. k-1
  /\ y = p * k + j /\ p = nf * g + f /\ g = p \div nf /\ w = f * k + j
  /\ \A m \in Nat : w \in m * k .. m * k + k - 1 <=> m = f

\* Every byte lies in one field of one segment.
LEMMA FieldOfByte ==
  ASSUME NEW k \in Nat \ {0}, NEW nf \in Nat \ {0}, NEW y \in Nat
  PROVE  InField(k, nf, y)
<1> DEFINE w == y % (nf * k)  p == y \div k  f == p % nf  g == y \div (nf * k)  j == y % k
<1>1. p \in Nat /\ j \in 0 .. k-1 /\ y = p * k + j
  <2>1. p \in Nat
    BY QuotientOrder
  <2>2. j \in 0 .. k-1 /\ y = k * p + j
    BY DivMod
  <2> HIDE DEF p, j
  <2>3. k * p = p * k
    BY <2>1
  <2> QED  BY <2>1, <2>2, <2>3
<1>2. nf * k \in Nat \ {0} /\ nf * k = k * nf /\ y \in Int
  OBVIOUS
<1>3. g = p \div nf
  <2>1. y \div (k * nf) = (y \div k) \div nf
    BY <1>2, DivDiv
  <2> QED  BY <1>2, <2>1
<1>4. w = f * k + j
  <2>1. y % (k * nf) = ((y \div k) % nf) * k + (y % k)
    BY <1>2, NextDigit
  <2> QED  BY <1>2, <2>1
<1> HIDE DEF w, j
<1>5. p \div nf \in Nat /\ f \in 0 .. nf-1 /\ p = nf * (p \div nf) + f
  <2> HIDE DEF p
  <2>1. p \div nf \in Nat
    BY <1>1, QuotientOrder
  <2>2. f \in 0 .. nf-1 /\ p = nf * (p \div nf) + f
    BY <1>1, DivMod
  <2> QED  BY <2>1, <2>2
<1>6. ASSUME NEW m \in Nat PROVE w \in m * k .. m * k + k - 1 <=> m = f
  <2> HIDE DEF f
  <2>1. w \in Nat /\ f \in Int
    <3>1. f * k \in Nat
      BY <1>5
    <3> QED  BY <1>1, <1>4, <1>5, <3>1
  <2>2. w \div k = f
    BY <1>1, <1>4, <2>1, Unique
  <2>3. ASSUME w \in m * k .. m * k + k - 1 PROVE m = f
    <3> DEFINE x1 == m * k  r == w - x1
    <3>1. x1 \in Nat
      OBVIOUS
    <3>2. r \in 0 .. k-1 /\ w = x1 + r
      <4> HIDE DEF x1
      <4> QED  BY <2>1, <2>3, <3>1 DEF x1
    <3> HIDE DEF r
    <3>3. w = m * k + r
      BY <3>2
    <3>4. w \div k = m
      BY <2>1, <3>2, <3>3, Unique
    <3> QED  BY <2>2, <3>4
  <2>4. ASSUME m = f PROVE w \in m * k .. m * k + k - 1
    <3> DEFINE x1 == m * k
    <3>1. x1 \in Nat /\ w = x1 + j
      BY <1>4, <2>4
    <3> HIDE DEF x1
    <3>2. w \in x1 .. x1 + k - 1
      BY <1>1, <2>1, <3>1
    <3> QED  BY <3>2 DEF x1
  <2> QED  BY <2>3, <2>4
<1> HIDE DEF p, f, g
<1> QED  BY <1>1, <1>2, <1>3, <1>4, <1>5, <1>6 DEF InField, w, p, f, g, j

\* what the first m of nf fields of segments stored from address 1 on leave at u: byte y % k of
\* the field (y \div k) % nf of segment y \div (nf * k)
SegmentByte(k, nf, m, u) ==
  LET y == (u - 1) % MemSize  g == y \div (nf * k)  f == (y \div k) % nf IN
  IF f < m /\ g < vl /\ Active(g)
  THEN Shr(Element(v, Vd + f * RegMul(Emul(k)), k, g), UW * (y % k)) % 2^UW ELSE mem[u]

\* The groups of the fields are in the register file and hold words.
LEMMA FieldGroup ==
  ASSUME VectorState, NEW k \in Parts, RegsFor(k, vl) <= 4, NEW nf \in Nat, RegMul(Emul(k)) * nf <= 4,
         NEW f \in 0 .. nf-1
  PROVE  /\ RegMul(Emul(k)) \in Nat \ {0} /\ f * RegMul(Emul(k)) \in 0 .. 4
         /\ (f + 1) * RegMul(Emul(k)) <= 4 /\ (f + 1) * RegMul(Emul(k)) = f * RegMul(Emul(k)) + RegMul(Emul(k))
         /\ \A i \in 0 .. vl-1 : /\ Element(v, Vd + f * RegMul(Emul(k)), k, i) \in Word(Bits(k))
                                 /\ Element(v, Vd + f * RegMul(Emul(k)), k, i) \in Nat
<1> DEFINE rm == RegMul(Emul(k))
<1>1. rm \in Nat \ {0}
  <2>1. LengthFits /\ 0 \in Nat
    BY DEF VectorState
  <2>2. Emul(k) \in Nat
    BY <2>1, FieldRegs
  <2> QED  BY <2>1, <2>2, FieldRegs
<1>2. rm * nf <= 4
  OBVIOUS
<1> HIDE DEF rm
<1>3. (f + 1) * rm <= nf * rm /\ (f + 1) * rm = f * rm + rm /\ f * rm \in Nat /\ nf * rm = rm * nf
  BY <1>1
<1> DEFINE z == f * rm  t == (f + 1) * rm  n == nf * rm
<1>4. z \in 0 .. 4 /\ t <= 4 /\ t = z + rm
  <2>1. z \in Nat /\ t = z + rm /\ t <= n /\ n <= 4 /\ n \in Int
    BY <1>1, <1>2, <1>3
  <2> HIDE DEF z, t, n
  <2> QED  BY <1>1, <2>1
<1> HIDE DEF z, t, n
<1>5. Vd + z \in 0 .. 16
  BY <1>4 DEF Vd
<1>6. \A i \in 0 .. vl-1 : Element(v, Vd + z, k, i) \in Word(Bits(k)) /\ Element(v, Vd + z, k, i) \in Nat
  BY <1>5, FieldWord
<1> QED  BY <1>1, <1>4, <1>6 DEF z, t, rm

\* A segment store of all segments writes the bytes of all fields and no others.
LEMMA SegmentBytes ==
  ASSUME VectorState, vstart = 0, NEW k \in Parts, NEW nf \in Nat \ {0}, RegMul(Emul(k)) * nf <= 4,
         Fits(k, nf * k), NEW u \in 0 .. MemSize-1
  PROVE  LET entries == SegmentEntries(Vd, k, nf, Emul(k), Addresses(nf, k, 1, nf * k)) IN
         /\ EntriesTo(nf * vl, entries)
         /\ StoreMemory(mem, k, entries)[u] = SegmentByte(k, nf, nf, u)
<1> DEFINE rm == RegMul(Emul(k))  n == nf * vl
           field(i) == i % nf  segment(i) == i \div nf
           at(i) == Addresses(nf, k, 1, nf * k)[<<field(i), segment(i)>>]
           value(i) == Element(v, Vd + field(i) * rm, k, segment(i))
           entries == [e \in 1 .. n |-> Entry(at(e - 1), value(e - 1), Active(segment(e - 1)))]
           c == [e \in 1 .. n |-> (e - 1) * k]
           y == (u - 1) % MemSize  p == y \div k  g == y \div (nf * k)  f == p % nf  j == y % k
           q == IF g < vl /\ Active(g) THEN p + 1 ELSE 0
<1>0. /\ vl \in Nat /\ k \in Nat \ {0} /\ k \in 0 .. VLENB /\ MemSize \in Nat \ {0} /\ VLENB \in Nat
      /\ mem \in Memories /\ nf * k \in Nat /\ n \in Nat
  <2>1. vl \in Nat /\ mem \in Memories
    BY LengthIndex DEF VectorState
  <2>2. k \in 1 .. VLENB /\ VLENB \in Nat \ {0}
    BY VectorAssumption DEF Parts
  <2>3. MemSize \in Nat \ {0}
    BY <2>2 DEF MemSize
  <2>4. nf * k \in Nat /\ n \in Nat
    BY <2>1, <2>2
  <2> QED  BY <2>1, <2>2, <2>3, <2>4
<1>1. vl * (nf * k) <= MemSize /\ RegsFor(k, vl) <= 4
  BY DEF Fits
<1>2. SegmentEntries(Vd, k, nf, Emul(k), Addresses(nf, k, 1, nf * k)) = entries
  <2>1. vl - vstart = vl
    BY <1>0
  <2>2. ASSUME NEW e \in 1 .. n PROVE vstart + ((e - 1) \div nf) = segment(e - 1)
    <3>1. e - 1 \in Nat
      BY <1>0
    <3> DEFINE i == e - 1
    <3> HIDE DEF i
    <3>2. i \div nf \in Nat
      BY <3>1, QuotientOrder DEF i
    <3> QED  BY <3>2 DEF i
  <2> HIDE DEF at, value, segment, rm, n
  <2>3. SegmentEntries(Vd, k, nf, Emul(k), Addresses(nf, k, 1, nf * k))
          = [e \in 1 .. n |-> Entry(Addresses(nf, k, 1, nf * k)[<<field(e - 1), vstart + ((e - 1) \div nf)>>],
                  Element(v, Vd + field(e - 1) * rm, k, vstart + ((e - 1) \div nf)), Active(vstart + ((e - 1) \div nf)))]
    BY <2>1 DEF SegmentEntries, rm, n
  <2>4. \A e \in 1 .. n :
          Entry(Addresses(nf, k, 1, nf * k)[<<field(e - 1), vstart + ((e - 1) \div nf)>>],
                  Element(v, Vd + field(e - 1) * rm, k, vstart + ((e - 1) \div nf)), Active(vstart + ((e - 1) \div nf)))
            = Entry(at(e - 1), value(e - 1), Active(segment(e - 1)))
    BY <2>2 DEF at, value
  <2> HIDE DEF field
  <2> QED  BY <2>3, <2>4
<1>3. ASSUME NEW i \in 0 .. n-1
      PROVE  /\ field(i) \in 0 .. nf-1 /\ segment(i) \in 0 .. vl-1
             /\ i * k \in Nat /\ at(i) = 1 + i * k /\ value(i) \in Nat /\ i * k + k <= MemSize
  <2> DEFINE a == i % nf  b == i \div nf
  <2>1. i \in Nat /\ b \in Nat /\ a \in 0 .. nf-1 /\ i = nf * b + a
    <3>1. i \in Nat
      BY <1>0
    <3>2. b \in Nat /\ i \in Int
      BY <3>1, QuotientOrder
    <3>3. a \in 0 .. nf-1 /\ i = nf * b + a
      BY <3>2, DivMod
    <3> QED  BY <3>1, <3>2, <3>3
  <2> HIDE DEF a, b
  <2>2. b < vl
    <3> SUFFICES ASSUME b >= vl PROVE FALSE
      BY <1>0, <2>1
    <3>1. nf * b >= nf * vl
      BY <1>0, <2>1
    <3> DEFINE x1 == nf * b
    <3>2. x1 \in Nat /\ x1 >= n
      BY <1>0, <2>1, <3>1
    <3>3. i = x1 + a /\ i < n /\ a >= 0
      BY <1>0, <2>1
    <3> HIDE DEF x1, n
    <3> QED  BY <1>0, <2>1, <3>2, <3>3
  <2>3. a \in 0 .. nf-1 /\ b \in 0 .. vl-1
    BY <1>0, <2>1, <2>2
  <2>4. at(i) = 1 + i * k
    <3>1. at(i) = 1 + b * (nf * k) + a * k
      BY <2>3 DEF Addresses, a, b
    <3>2. b * (nf * k) + a * k = i * k
      <4>1. i * k = (nf * b) * k + a * k
        BY <1>0, <2>1
      <4>2. (nf * b) * k = b * (nf * k)
        BY <1>0, <2>1
      <4> QED  BY <4>1, <4>2
    <3> HIDE DEF at
    <3>3. b * (nf * k) \in Int /\ a * k \in Int
      BY <1>0, <2>1
    <3> QED  BY <3>1, <3>2, <3>3
  <2>5. value(i) \in Nat
    <3>1. Element(v, Vd + a * RegMul(Emul(k)), k, b) \in Nat
      BY <1>0, <1>1, <2>3, FieldGroup
    <3> QED  BY <3>1 DEF a, b
  <2>6. i * k \in Nat /\ i * k + k <= MemSize
    <3>1. i + 1 <= n
      BY <1>0
    <3>2. (i + 1) * k <= n * k /\ (i + 1) * k = i * k + k /\ i * k \in Nat
      <4> HIDE DEF n
      <4> QED  BY <1>0, <2>1, <3>1
    <3>3. n * k = vl * (nf * k)
      BY <1>0
    <3> DEFINE x1 == i * k  z1 == n * k
    <3>4. x1 \in Nat /\ x1 + k <= z1 /\ z1 <= MemSize /\ z1 \in Nat
      BY <1>0, <1>1, <3>2, <3>3
    <3> HIDE DEF x1, z1
    <3>5. x1 + k <= MemSize
      BY <1>0, <3>4
    <3> QED  BY <3>4, <3>5 DEF x1
  <2> QED  BY <2>3, <2>4, <2>5, <2>6 DEF a, b
<1>4. ASSUME NEW e \in 1 .. n
      PROVE  /\ e - 1 \in 0 .. n-1 /\ entries[e].a = at(e - 1) /\ entries[e].v = value(e - 1)
             /\ (entries[e].m <=> Active(segment(e - 1))) /\ c[e] = (e - 1) * k
  <2>1. e - 1 \in 0 .. n-1
    <3> HIDE DEF n
    <3> QED  BY <1>0
  <2> HIDE DEF at, value, segment
  <2>2. entries[e] = Entry(at(e - 1), value(e - 1), Active(segment(e - 1)))
    <3> HIDE DEF n
    <3> QED  OBVIOUS
  <2> QED  BY <2>1, <2>2 DEF Entry
<1>5. y \in Nat /\ u - 1 \in Int
  <2>1. u - 1 \in Int
    BY <1>0
  <2>2. y \in 0 .. MemSize-1
    BY <2>1, <1>0, DivMod
  <2> QED  BY <2>1, <2>2, <1>0
<1> HIDE DEF y
<1>6. /\ p \in Nat /\ g \in Nat /\ f \in 0 .. nf-1 /\ j \in 0 .. k-1
      /\ y = p * k + j /\ p = nf * g + f /\ g = p \div nf
  <2>1. k \in Nat \ {0} /\ y \in Nat
    BY <1>0, <1>5
  <2>2. InField(k, nf, y)
    BY <2>1, FieldOfByte
  <2> QED  BY <2>2 DEF InField
<1> DEFINE D == DOMAIN entries
<1>7. D = 1 .. n
  OBVIOUS
<1> HIDE DEF entries, c, at, value, n, p, g, f, j, D
<1>8. EntriesTo(n, entries)
  <2>1. \A e \in 1 .. n : entries[e].a \in Int /\ entries[e].v \in Int
    <3> SUFFICES ASSUME NEW e \in 1 .. n PROVE entries[e].a \in Int /\ entries[e].v \in Int
      OBVIOUS
    <3> DEFINE i == e - 1
    <3>1. i \in 0 .. n-1 /\ entries[e].a = at(i) /\ entries[e].v = value(i)
      BY <1>4
    <3> HIDE DEF i
    <3>2. at(i) = 1 + i * k /\ value(i) \in Nat /\ i * k \in Nat
      BY <1>3, <3>1
    <3> QED  BY <3>1, <3>2
  <2> QED  BY <1>7, <2>1 DEF EntriesTo, D
<1>9. EntriesAt(n, k, entries, 1, c)
  <2>1. ASSUME NEW e \in 1 .. n PROVE entries[e].a = 1 + c[e] /\ c[e] \in Nat /\ c[e] + k <= MemSize
    <3> DEFINE i == e - 1
    <3>1. i \in 0 .. n-1 /\ entries[e].a = at(i) /\ c[e] = i * k
      BY <1>4
    <3> HIDE DEF i
    <3>2. at(i) = 1 + i * k /\ i * k \in Nat /\ i * k + k <= MemSize
      BY <1>3, <3>1
    <3> QED  BY <3>1, <3>2
  <2> QED  BY <2>1 DEF EntriesAt
<1>10. OnlyHolder(n, k, entries, c, y, q)
  <2>1. ASSUME NEW e \in 1 .. n PROVE (entries[e].m /\ y \in c[e] .. c[e] + k - 1) <=> e = q
    <3> DEFINE i == e - 1
    <3>1. i \in 0 .. n-1 /\ (entries[e].m <=> Active(segment(i))) /\ c[e] = i * k /\ e = i + 1 /\ i \in Nat
      BY <1>0, <1>4
    <3> HIDE DEF i
    <3>2. segment(i) \in 0 .. vl-1
      BY <1>3, <3>1
    <3>3. ASSUME y \in c[e] .. c[e] + k - 1 PROVE i = p
      <4> DEFINE x1 == i * k  r == y - x1
      <4>1. x1 \in Nat
        BY <1>0, <3>1
      <4>2. r \in 0 .. k-1 /\ y = x1 + r
        <5>1. c[e] = x1
          BY <3>1
        <5> HIDE DEF x1
        <5> QED  BY <1>0, <1>5, <3>3, <4>1, <5>1
      <4> HIDE DEF r
      <4>3. y \in Int /\ y = i * k + r /\ i \in Int
        BY <1>5, <3>1, <4>2
      <4> QED  BY <1>0, <4>2, <4>3, Unique DEF p
    <3>4. ASSUME i = p PROVE y \in c[e] .. c[e] + k - 1
      <4>1. y = c[e] + j /\ c[e] \in Nat
        <5>1. i * k \in Nat
          BY <1>0, <3>1
        <5> QED  BY <1>6, <3>1, <3>4, <5>1
      <4> QED  BY <1>0, <1>5, <1>6, <4>1
    <3>5. i = p => segment(i) = g
      BY <1>6
    <3>6. i = p => g < vl
      <4> HIDE DEF segment
      <4> QED  BY <1>0, <1>6, <3>2, <3>5
    <3>7. e = p + 1 <=> i = p
      BY <1>6, <3>1
    <3> HIDE DEF segment
    <3>8. e # 0
      BY <3>1
    <3> QED  BY <3>1, <3>3, <3>4, <3>5, <3>6, <3>7, <3>8
  <2> HIDE DEF q
  <2> QED  BY <2>1 DEF OnlyHolder
<1>11. StoreMemory(mem, k, entries)[u]
        = IF q \in 1 .. n THEN Shr(entries[q].v, UW * (y - c[q])) % 2^UW ELSE mem[u]
  <2> HIDE DEF q
  <2>1. OnlyHolder(n, k, entries, c, (u - 1) % MemSize, q) /\ 1 \in Int
    BY <1>10 DEF y
  <2> QED  BY <1>0, <1>8, <1>9, <2>1, PlacedByte DEF y
<1>12. q \in 1 .. n <=> (g < vl /\ Active(g))
  <2>1. g < vl => p + 1 <= n
    <3> SUFFICES ASSUME g < vl PROVE p + 1 <= n
      OBVIOUS
    <3>1. g + 1 <= vl
      BY <1>0, <1>6
    <3>2. nf * (g + 1) <= nf * vl /\ nf * (g + 1) = nf * g + nf /\ nf * g \in Nat
      BY <1>0, <1>6, <3>1
    <3> DEFINE x1 == nf * g
    <3>3. x1 \in Nat /\ x1 + nf <= n /\ p = x1 + f
      BY <1>6, <3>2 DEF n
    <3> HIDE DEF x1
    <3> QED  BY <1>0, <1>6, <3>3
  <2> QED  BY <1>0, <1>6, <2>1
<1>13. ASSUME g < vl, Active(g)
       PROVE  entries[q].v = Element(v, Vd + f * rm, k, g) /\ y - c[q] = j
  <2>1. q = p + 1 /\ q \in 1 .. n /\ q - 1 = p
    <3>1. q = p + 1
      BY <1>13
    <3> HIDE DEF q
    <3>2. q \in 1 .. n
      BY <1>12, <1>13
    <3>3. q - 1 = p
      BY <1>6, <3>1
    <3> QED  BY <3>1, <3>2, <3>3
  <2> HIDE DEF q
  <2>2. entries[q].v = value(p) /\ c[q] = p * k
    BY <1>4, <2>1
  <2>3. value(p) = Element(v, Vd + f * rm, k, g)
    BY <1>6 DEF value, f
  <2>4. y - p * k = j
    <3> DEFINE x1 == p * k
    <3>1. x1 \in Nat /\ y = x1 + j
      BY <1>0, <1>6
    <3> HIDE DEF x1
    <3>2. y - x1 = j
      BY <1>6, <3>1
    <3> QED  BY <3>2 DEF x1
  <2> QED  BY <2>2, <2>3, <2>4
<1>14. f < nf
  BY <1>6
<1>15. SegmentByte(k, nf, nf, u) = IF f < nf /\ g < vl /\ Active(g)
                                   THEN Shr(Element(v, Vd + f * rm, k, g), UW * j) % 2^UW ELSE mem[u]
  BY DEF SegmentByte, y, p, g, f, j
<1> HIDE DEF q, rm
<1>16. StoreMemory(mem, k, entries)[u] = SegmentByte(k, nf, nf, u)
  BY <1>11, <1>12, <1>13, <1>14, <1>15
<1> QED  BY <1>2, <1>8, <1>16 DEF n

\* one strided store for each of nf fields of segments at address 1, in the order of the fields
FieldStore(mm, k, nf, field) ==
  StoreMemory(mm, k, StoreVectorStrided(Vd + field * RegMul(Emul(k)), k, 1 + field * k, nf * k))
FieldStores(k, nf) ==
  FoldLeft(LAMBDA mm, field : FieldStore(mm, k, nf, field), mem, [n \in 1 .. nf |-> n - 1])

\* One more field of the segments is stored.
LEMMA NextField ==
  ASSUME VectorState, vstart = 0, NEW k \in Parts, NEW nf \in Nat \ {0}, RegMul(Emul(k)) * nf <= 4,
         Fits(k, nf * k), NEW f \in 0 .. nf-1, NEW mm \in Memories
  PROVE  /\ FieldStore(mm, k, nf, f) \in Memories
         /\ (\A u \in 0 .. MemSize-1 : mm[u] = SegmentByte(k, nf, f, u)) =>
              \A u \in 0 .. MemSize-1 : FieldStore(mm, k, nf, f)[u] = SegmentByte(k, nf, f + 1, u)
<1> DEFINE rm == RegMul(Emul(k))  s == Vd + f * rm  o == f * k  stride == nf * k
           entries == StoreVectorStrided(s, k, 1 + o, stride)
<1>0. /\ vl \in Nat /\ k \in Nat \ {0} /\ k \in 0 .. VLENB /\ MemSize \in Nat \ {0} /\ f \in Nat
  <2>1. vl \in Nat
    BY LengthIndex DEF VectorState
  <2>2. k \in 1 .. VLENB /\ VLENB \in Nat \ {0}
    BY VectorAssumption DEF Parts
  <2>3. MemSize \in Nat \ {0}
    BY <2>2 DEF MemSize
  <2> QED  BY <2>1, <2>2, <2>3
<1>1. vl * stride <= MemSize /\ RegsFor(k, vl) <= 4
  BY DEF Fits
<1>2. o \in Nat /\ stride \in Nat /\ o + k <= stride
  <2>1. (f + 1) * k <= nf * k /\ (f + 1) * k = f * k + k /\ f * k \in Nat /\ nf * k \in Nat
    BY <1>0
  <2> QED  BY <2>1
<1>3. \A i \in 0 .. vl-1 : Element(v, s, k, i) \in Nat
  BY <1>0, <1>1, FieldGroup
<1>4. ASSUME NEW u \in 0 .. MemSize-1
      PROVE  EntriesTo(vl, entries) /\ StoreMemory(mm, k, entries)[u] = StridedByte(mm, s, k, 1, o, stride, u)
  <2>1. 1 \in Int
    OBVIOUS
  <2> HIDE DEF o, s, stride
  <2>2. vl * stride <= MemSize
    BY <1>1
  <2> QED  BY <1>2, <1>3, <2>1, <2>2, StridedBytes
<1>5. FieldStore(mm, k, nf, f) = StoreMemory(mm, k, entries)
  BY DEF FieldStore
<1>6. EntriesTo(vl, entries)
  <2>1. 0 \in 0 .. MemSize-1
    BY <1>0
  <2> HIDE DEF entries
  <2> QED  BY <1>4, <2>1
<1>7. FieldStore(mm, k, nf, f) \in Memories
  <2> HIDE DEF entries
  <2> QED  BY <1>0, <1>5, <1>6, StoreTyped
<1>8. ASSUME NEW u \in 0 .. MemSize-1, mm[u] = SegmentByte(k, nf, f, u)
      PROVE  FieldStore(mm, k, nf, f)[u] = SegmentByte(k, nf, f + 1, u)
  <2> DEFINE y == (u - 1) % MemSize  w == y % stride  g == y \div stride  h == (y \div k) % nf  j == y % k
  <2>1. y \in Nat
    <3>1. u - 1 \in Int
      BY <1>0
    <3>2. y \in 0 .. MemSize-1
      BY <3>1, <1>0, DivMod
    <3> QED  BY <3>2, <1>0
  <2> HIDE DEF y
  <2>2. InField(k, nf, y)
    BY <1>0, <2>1, FieldOfByte
  <2>3. h \in 0 .. nf-1 /\ w = h * k + j /\ (w \in f * k .. f * k + k - 1 <=> f = h) /\ j \in 0 .. k-1
    BY <1>0, <2>2 DEF InField
  <2>4. StridedByte(mm, s, k, 1, o, stride, u)
          = IF g < vl /\ Active(g) /\ w \in o .. o + k - 1
            THEN Shr(Element(v, s, k, g), UW * (w - o)) % 2^UW ELSE mm[u]
    <3> HIDE DEF s, o, stride
    <3> QED  BY DEF StridedByte, y
  <2>5. \A m : SegmentByte(k, nf, m, u)
                 = IF h < m /\ g < vl /\ Active(g)
                   THEN Shr(Element(v, Vd + h * rm, k, g), UW * j) % 2^UW ELSE mem[u]
    BY DEF SegmentByte, y
  <2>6. FieldStore(mm, k, nf, f)[u] = StridedByte(mm, s, k, 1, o, stride, u)
    <3> HIDE DEF s, o, stride, entries
    <3> QED  BY <1>4, <1>5
  <2>7. w \in o .. o + k - 1 <=> f = h
    BY <2>3
  <2>8. f = h => w - o = j /\ s = Vd + h * rm
    <3> SUFFICES ASSUME f = h PROVE w - o = j /\ s = Vd + h * rm
      OBVIOUS
    <3>1. w = o + j /\ s = Vd + h * rm
      <4> HIDE DEF w, h, j, rm
      <4> QED  BY <2>3
    <3> HIDE DEF w, o, j, s, rm, h
    <3> QED  BY <1>2, <2>3, <3>1
  <2>9. (h < f + 1 <=> (h < f \/ f = h)) /\ ~(h < f /\ f = h)
    <3> HIDE DEF h
    <3> QED  BY <1>0, <2>3
  <2> HIDE DEF w, g, h, j, s, o, rm, stride
  <2>10. CASE f = h /\ g < vl /\ Active(g)
    BY <2>4, <2>5, <2>6, <2>7, <2>8, <2>9, <2>10
  <2>11. CASE f = h /\ ~(g < vl /\ Active(g))
    BY <1>8, <2>4, <2>5, <2>6, <2>7, <2>8, <2>9, <2>11
  <2>12. CASE f # h
    BY <1>8, <2>4, <2>5, <2>6, <2>7, <2>9, <2>12
  <2> QED  BY <2>10, <2>11, <2>12
<1> QED  BY <1>7, <1>8

\* A segment store leaves in memory what one strided store for each field leaves.
LEMMA SegmentsAreStores ==
  ASSUME VectorState, vstart = 0, NEW k \in Parts, NEW nf \in Nat \ {0}, RegMul(Emul(k)) * nf <= 4,
         Fits(k, nf * k)
  PROVE  StoreMemory(mem, k, SegmentEntries(Vd, k, nf, Emul(k), Addresses(nf, k, 1, nf * k)))
           = FieldStores(k, nf)
<1> DEFINE seq == [n \in 1 .. nf |-> n - 1]
           Eq(h) == h = [s \in SUBSET (DOMAIN seq) |-> IF s = {} THEN mem
                     ELSE LET e == Max(s) IN FieldStore(h[s \ {e}], k, nf, seq[e])]
           iter == CHOOSE h : Eq(h)
           op == [p \in (1 .. nf) \X Memories |-> FieldStore(p[2], k, nf, p[1] - 1)]
<1>0. mem \in Memories /\ MemSize \in Nat \ {0} /\ nf \in Nat
  <2>1. VLENB \in Nat \ {0}
    BY VectorAssumption
  <2> QED  BY <2>1 DEF VectorState, MemSize
<1>1. FieldStores(k, nf) = iter[1 .. nf]
  <2>1. FieldStores(k, nf) = iter[DOMAIN seq]
    BY Zenon DEF FieldStores, FoldLeft, MapThenFoldSet
  <2>2. DOMAIN seq = 1 .. nf
    OBVIOUS
  <2> HIDE DEF iter, seq
  <2> QED  BY <2>1, <2>2
<1>2. ASSUME NEW e \in 1 .. nf, NEW g \in Memories PROVE FieldStore(g, k, nf, e - 1) \in Memories
  <2>1. e - 1 \in 0 .. nf-1
    OBVIOUS
  <2> QED  BY <2>1, NextField
<1>3. op \in [(1 .. nf) \X Memories -> Memories]
  BY <1>2
<1>4. \A e \in 1 .. nf, g \in Memories : op[<<e, g>>] = FieldStore(g, k, nf, e - 1)
  OBVIOUS
<1>5. DOMAIN seq = 1 .. nf /\ \A e \in 1 .. nf : seq[e] = e - 1
  OBVIOUS
<1> HIDE DEF op, seq
<1>6. PICK h : FoldOfSubsets(h, nf, Memories, mem, op)
  BY <1>0, <1>3, FoldsUpExists, Zenon
<1>7. ASSUME NEW s \in SUBSET (1 .. nf)
      PROVE  h[s] = IF s = {} THEN mem ELSE LET e == Max(s) IN FieldStore(h[s \ {e}], k, nf, seq[e])
  <2>1. CASE s = {}
    BY <1>6, <2>1 DEF FoldOfSubsets
  <2>2. CASE s # {}
    <3> DEFINE e == Max(s)
    <3>1. e \in 1 .. nf /\ h[s \ {e}] \in Memories /\ h[s] = op[<<e, h[s \ {e}]>>]
      BY <1>6, <2>2 DEF FoldOfSubsets
    <3> HIDE DEF e
    <3>2. h[s] = FieldStore(h[s \ {e}], k, nf, seq[e])
      BY <1>4, <1>5, <3>1
    <3> QED  BY <2>2, <3>2 DEF e
  <2> QED  BY <2>1, <2>2
<1>8. Eq(h)
  BY <1>5, <1>6, <1>7 DEF FoldOfSubsets
<1>9. Eq(iter)
  <2> HIDE DEF Eq
  <2> QED  BY <1>8, Zenon
<1> HIDE DEF iter
<1>10. \A s \in SUBSET (1 .. nf) :
         iter[s] = IF s = {} THEN mem ELSE LET e == Max(s) IN FieldStore(iter[s \ {e}], k, nf, seq[e])
  BY <1>5, <1>9
<1> HIDE DEF Eq
<1>11. FoldsUp(iter, nf, Memories, mem, op)
  <2>1. iter[{}] = mem
    <3>1. {} \in SUBSET (1 .. nf)
      OBVIOUS
    <3> QED  BY <1>10, <3>1
  <2>2. ASSUME NEW s \in SUBSET (1 .. nf), s # {}, iter[s \ {Max(s)}] \in Memories
        PROVE  iter[s] = op[<<Max(s), iter[s \ {Max(s)}]>>]
    <3> DEFINE e == Max(s)
    <3>1. e \in 1 .. nf
      BY <1>6, <2>2 DEF FoldOfSubsets
    <3>2. iter[s] = FieldStore(iter[s \ {e}], k, nf, seq[e]) /\ iter[s \ {e}] \in Memories
      BY <1>10, <2>2
    <3> HIDE DEF e
    <3>3. iter[s] = op[<<e, iter[s \ {e}]>>]
      BY <1>4, <1>5, <3>1, <3>2
    <3> QED  BY <3>3 DEF e
  <2> QED  BY <2>1, <2>2 DEF FoldsUp
<1>12. PICK g : FoldInSteps(g, nf, Memories, mem, op, iter[1 .. nf])
  BY <1>0, <1>3, <1>11, FoldsUpSteps, Zenon
<1>22. /\ g \in [0 .. nf -> Memories] /\ g[0] = mem /\ g[nf] = iter[1 .. nf]
       /\ \A i \in 0 .. nf-1 : g[i + 1] = op[<<i + 1, g[i]>>]
  BY <1>12 DEF FoldInSteps
<1> DEFINE P == {i \in 0 .. nf : \A u \in 0 .. MemSize-1 : g[i][u] = SegmentByte(k, nf, i, u)}
<1>13. 0 \in P
  <2>1. ASSUME NEW u \in 0 .. MemSize-1 PROVE mem[u] = SegmentByte(k, nf, 0, u)
    <3> DEFINE y == (u - 1) % MemSize  f == (y \div k) % nf
    <3>1. y \in Nat
      <4>1. u - 1 \in Int
        BY <1>0
      <4>2. y \in 0 .. MemSize-1
        BY <4>1, <1>0, DivMod
      <4> QED  BY <4>2, <1>0
    <3>2. k \in Nat \ {0}
      BY PartFacts
    <3> HIDE DEF y
    <3>3. InField(k, nf, y)
      BY <3>1, <3>2, FieldOfByte
    <3>4. ~(f < 0)
      BY <3>3 DEF InField
    <3> QED  BY <3>4 DEF SegmentByte, y
  <2> QED  BY <1>0, <1>22, <2>1
<1>14. ASSUME NEW i \in 0 .. nf-1, i \in P PROVE i + 1 \in P
  <2>1. g[i] \in Memories /\ i + 1 \in 1 .. nf /\ (i + 1) - 1 = i /\ i + 1 \in 0 .. nf /\ i \in 0 .. nf
    BY <1>22
  <2>2. g[i + 1] = FieldStore(g[i], k, nf, i)
    <3> DEFINE e == i + 1
    <3>1. e \in 1 .. nf /\ e - 1 = i /\ g[e] = op[<<e, g[i]>>]
      BY <1>22, <2>1
    <3> HIDE DEF e
    <3>2. g[e] = FieldStore(g[i], k, nf, e - 1)
      BY <1>4, <2>1, <3>1
    <3> QED  BY <3>1, <3>2 DEF e
  <2>3. \A u \in 0 .. MemSize-1 : g[i][u] = SegmentByte(k, nf, i, u)
    BY <1>14
  <2> DEFINE a == g[i]
  <2>4. a \in Memories /\ \A u \in 0 .. MemSize-1 : a[u] = SegmentByte(k, nf, i, u)
    BY <2>1, <2>3
  <2> HIDE DEF a
  <2>5. \A u \in 0 .. MemSize-1 : FieldStore(a, k, nf, i)[u] = SegmentByte(k, nf, i + 1, u)
    BY <2>4, NextField
  <2> QED  BY <2>1, <2>2, <2>5 DEF a
<1>15. 0 .. nf \subseteq P
  <2> HIDE DEF P
  <2> QED  BY <1>0, <1>13, <1>14, StepByStep
<1>16. \A u \in 0 .. MemSize-1 : g[nf][u] = SegmentByte(k, nf, nf, u)
  <2>1. nf \in 0 .. nf
    BY <1>0
  <2> QED  BY <1>15, <2>1
<1> DEFINE entries == SegmentEntries(Vd, k, nf, Emul(k), Addresses(nf, k, 1, nf * k))
           b == StoreMemory(mem, k, entries)
<1>17. ASSUME NEW u \in 0 .. MemSize-1 PROVE EntriesTo(nf * vl, entries) /\ b[u] = SegmentByte(k, nf, nf, u)
  BY SegmentBytes
<1>18. b \in Memories
  <2>1. nf * vl \in Nat /\ k \in 0 .. VLENB
    <3>1. vl \in Nat
      BY LengthIndex DEF VectorState
    <3>2. k \in 1 .. VLENB /\ VLENB \in Nat
      BY VectorAssumption DEF Parts
    <3> QED  BY <3>1, <3>2
  <2>2. EntriesTo(nf * vl, entries)
    <3>1. 0 \in 0 .. MemSize-1
      BY <1>0
    <3> HIDE DEF entries, b
    <3> QED  BY <1>17, <3>1
  <2> HIDE DEF entries
  <2> QED  BY <1>0, <2>1, <2>2, StoreTyped
<1>19. g[nf] \in Memories
  BY <1>0, <1>22
<1> DEFINE a == g[nf]
<1>20. a \in Memories /\ b \in Memories /\ \A u \in 0 .. MemSize-1 : a[u] = b[u]
  <2> HIDE DEF b
  <2> QED  BY <1>16, <1>17, <1>18, <1>19
<1>21. a = b
  <2> HIDE DEF a, b
  <2>1. a = [u \in 0 .. MemSize-1 |-> a[u]] /\ b = [u \in 0 .. MemSize-1 |-> b[u]]
    BY <1>20 DEF Memories
  <2>2. [u \in 0 .. MemSize-1 |-> a[u]] = [u \in 0 .. MemSize-1 |-> b[u]]
    BY <1>20
  <2> QED  BY <2>1, <2>2
<1> QED  BY <1>1, <1>22, <1>21

\* what the loads of the first m of nf fields of segments leave in byte u of register reg: a
\* byte of the field of element e, where reg is in the group of the field
FieldByte(k, nf, m, reg, u) ==
  LET rm == RegMul(Emul(k))  field == (reg - Free) \div rm  r == (reg - Free) % rm
      e == r * Epv(k) + (u \div k) IN
  IF field \in 0 .. m-1 /\ e \in 0 .. vl-1 /\ Active(e)
  THEN Shr(LoadAt(mem, k, (1 + field * k) + e * (nf * k)), UW * (u % k)) % 2^UW ELSE v[reg][u]

\* The registers of a field hold all its elements.
LEMMA FieldHolds ==
  ASSUME VectorState, NEW k \in {1, 2}, NEW e \in 0 .. vl-1
  PROVE  e \div Epv(k) \in Nat /\ e \div Epv(k) < RegMul(Emul(k))
<1>0. LengthFits /\ vl \in Nat /\ max_vl \in Nat /\ vl <= max_vl /\ sew \in {1, 2, 4, 8}
      /\ lmul \in {0, 1, 2, 4, 8, 16, 32, 64} /\ k \in Parts
  BY LengthIndex, Widths DEF VectorState
<1> DEFINE c == RegMul(Emul(k))
<1>1. c \in Nat \ {0}
  <2>1. 1 \in Nat /\ Emul(k) \in Nat
    BY <1>0, FieldRegs
  <2> QED  BY <1>0, <2>1, FieldRegs
<1>2. lmul * k <= c * (8 * sew)
  <2> HIDE DEF sew, lmul
  <2>1. CASE k = 1 /\ lmul <= 8 * sew
    <3>1. 8 * sew <= c * (8 * sew)
      <4> HIDE DEF c
      <4> QED  BY <1>0, <1>1
    <3> HIDE DEF c
    <3>2. lmul * k = lmul /\ lmul \in Nat /\ 8 * sew \in Nat /\ c * (8 * sew) \in Nat
      BY <1>0, <1>1, <2>1
    <3> QED  BY <2>1, <3>1, <3>2
  <2>2. CASE k = 2 /\ 2 * lmul <= 8 * sew
    <3>1. 8 * sew <= c * (8 * sew)
      <4> HIDE DEF c
      <4> QED  BY <1>0, <1>1
    <3> HIDE DEF c
    <3>2. lmul * k = 2 * lmul /\ lmul \in Nat /\ 8 * sew \in Nat /\ c * (8 * sew) \in Nat
      BY <1>0, <1>1, <2>2
    <3> QED  BY <2>2, <3>1, <3>2
  <2>3. CASE k * lmul > 8 * sew
    <3> DEFINE a == k * lmul
    <3>1. (a \div sew) * sew = a /\ ((a \div sew) \div 8) * (8 * sew) = a /\ (a \div sew) \div 8 \in Nat
      <4>1. CASE k = 1
        BY <1>0, <2>3, <4>1
      <4>2. CASE k = 2
        BY <1>0, <2>3, <4>2
      <4> QED  BY <4>1, <4>2
    <3>2. (a \div sew) \div 8 <= c
      <4>1. c = Greater(1, (a \div sew) \div 8)
        BY DEF RegMul, Emul
      <4> HIDE DEF c, a
      <4> QED  BY <3>1, <4>1 DEF Greater
    <3> DEFINE p == (a \div sew) \div 8
    <3>3. p \in Nat /\ p <= c /\ p * (8 * sew) = lmul * k
      BY <1>0, <3>1, <3>2
    <3> HIDE DEF p, a, c
    <3>4. 8 * sew \in Nat
      BY <1>0
    <3>5. p * (8 * sew) <= c * (8 * sew)
      BY <1>1, <3>3, <3>4
    <3> QED  BY <3>3, <3>5
  <2>4. k \in {1, 2} /\ lmul \in Nat /\ sew \in Nat
    BY <1>0
  <2> QED  BY <2>1, <2>2, <2>3, <2>4
<1>3. e \in Nat /\ e < max_vl
  <2> HIDE DEF max_vl
  <2> QED  BY <1>0
<1> HIDE DEF c
<1> QED  BY <1>0, <1>1, <1>2, <1>3, GroupReach DEF c

\* The elements of a load to the group of a field are those FieldByte names.
LEMMA FieldSpot ==
  ASSUME VectorState, NEW k \in {1, 2}, NEW m \in Nat, NEW reg \in Regs, NEW u \in 0 .. VLENB-1
  PROVE  LET rm == RegMul(Emul(k))  d == Free + m * rm
             field == (reg - Free) \div rm  e == ((reg - Free) % rm) * Epv(k) + (u \div k)
             E == ((reg - d) * VLENB + u) \div k
         IN  /\ (reg >= d /\ E \in 0 .. vl-1) <=> (field = m /\ e \in 0 .. vl-1)
             /\ (reg >= d /\ E \in 0 .. vl-1) => E = e
             /\ field \in Int
<1> DEFINE rm == RegMul(Emul(k))  t == reg - Free  field == t \div rm  r == t % rm  z == m * rm  i == u \div k
           n == Epv(k)  e == r * n + i  d == Free + z  E == ((reg - d) * VLENB + u) \div k
<1>0. /\ LengthFits /\ k \in Parts /\ vl \in Nat /\ n \in Nat \ {0} /\ rm \in Nat \ {0} /\ z \in Nat
      /\ t \in Int /\ i \in 0 .. n-1 /\ reg \in Nat /\ d \in Nat /\ reg - d = t - z
  <2>1. LengthFits
    BY DEF VectorState
  <2>2. k \in Parts /\ vl \in Nat
    BY <2>1, Widths, LengthIndex
  <2>3. n \in Nat \ {0}
    BY <2>2, PartFacts
  <2>4. rm \in Nat \ {0}
    <3>1. 1 \in Nat /\ Emul(k) \in Nat
      BY <2>1, <2>2, FieldRegs
    <3> QED  BY <2>1, <2>2, <3>1, FieldRegs
  <2>5. z \in Nat
    <3> HIDE DEF rm
    <3> QED  BY <2>4
  <2>6. i \in 0 .. n-1
    <3>1. 0 \in Nat
      OBVIOUS
    <3> QED  BY <2>2, <3>1, ByteElement
  <2> HIDE DEF z, i, n, rm
  <2> QED  BY <2>1, <2>2, <2>3, <2>4, <2>5, <2>6 DEF Regs, Free
<1> HIDE DEF rm
<1>1. field \in Int /\ r \in 0 .. rm-1 /\ t = rm * field + r
  BY <1>0, DivMod
<1>2. reg >= d => E = (reg - d) * n + i
  <2> SUFFICES ASSUME reg >= d PROVE E = (reg - d) * n + i
    OBVIOUS
  <2> HIDE DEF n, d
  <2>1. reg - d \in Nat
    BY <1>0
  <2> QED  BY <1>0, <2>1, ByteElement DEF n
<1> HIDE DEF n, t, field, r, E, i
<1>3. ASSUME reg >= d, E \in 0 .. vl-1 PROVE field = m /\ E = e
  <2> DEFINE g == reg - d
  <2>1. g \in Nat /\ E = g * n + i /\ E \in Int
    <3> HIDE DEF d
    <3> QED  BY <1>0, <1>2, <1>3
  <2>2. E \div n = g
    <3> HIDE DEF g
    <3>1. g \in Int /\ n \in Nat \ {0} /\ i \in 0 .. n-1
      BY <1>0, <2>1
    <3> QED  BY <2>1, <3>1, Unique
  <2>3. g < rm
    BY <1>3, <2>2, FieldHolds DEF n, rm
  <2>4. t = m * rm + g /\ g \in 0 .. rm-1
    <3> HIDE DEF z, d
    <3>1. t = z + g /\ g \in 0 .. rm-1
      BY <1>0, <2>1, <2>3
    <3> QED  BY <3>1 DEF z
  <2> HIDE DEF g
  <2>5. t \div rm = m /\ t % rm = g
    <3>1. t \in Int /\ rm \in Nat \ {0} /\ m \in Int
      BY <1>0
    <3> QED  BY <2>4, <3>1, Unique
  <2>6. field = m /\ r = g
    BY <2>5 DEF field, r
  <2> QED  BY <2>1, <2>6
<1>4. ASSUME field = m PROVE reg >= d /\ E = e
  <2>1. t = z + r
    <3>1. rm * field = z
      BY <1>0, <1>4
    <3> HIDE DEF z
    <3> QED  BY <1>1, <3>1
  <2> HIDE DEF z
  <2>2. reg - d = r /\ r >= 0
    <3> HIDE DEF d
    <3> QED  BY <1>0, <1>1, <2>1
  <2>3. reg >= d
    <3> HIDE DEF d
    <3> QED  BY <1>0, <2>2
  <2> HIDE DEF d
  <2> QED  BY <1>2, <2>2, <2>3
<1> HIDE DEF d, e
<1>5. (reg >= d /\ E \in 0 .. vl-1) <=> (field = m /\ e \in 0 .. vl-1)
  BY <1>3, <1>4
<1> QED  BY <1>1, <1>3, <1>5 DEF d, e, E, field, r, rm, n, t, i, z

\* one strided load of each of nf fields of segments at address 1, in the order of the fields
FieldLoad(f, k, nf, field) == Loaded(f, mem, Free + field * RegMul(Emul(k)), k, 1 + field * k, nf * k)
FieldLoads(k, nf) ==
  FoldLeft(LAMBDA f, field : FieldLoad(f, k, nf, field), v, [n \in 1 .. nf |-> n - 1])

\* One more field of the segments is loaded.
LEMMA NextLoad ==
  ASSUME VectorState, NEW k \in {1, 2}, NEW nf \in Nat, NEW m \in Nat, NEW f \in Files
  PROVE  /\ FieldLoad(f, k, nf, m) \in Files
         /\ (\A reg \in Regs, u \in 0 .. VLENB-1 : f[reg][u] = FieldByte(k, nf, m, reg, u)) =>
              \A reg \in Regs, u \in 0 .. VLENB-1 :
                FieldLoad(f, k, nf, m)[reg][u] = FieldByte(k, nf, m + 1, reg, u)
<1> DEFINE rm == RegMul(Emul(k))  d == Free + m * rm
           values == [i \in Entries(vl) |-> LoadAt(mem, k, (1 + m * k) + i * (nf * k))]
           g == FieldLoad(f, k, nf, m)
<1>0. /\ LengthFits /\ vl \in Nat /\ k \in Parts /\ mem \in Memories /\ d \in Nat /\ IsFile(f)
      /\ k \in 0 .. 2 * VLENB
  <2>1. LengthFits /\ mem \in Memories
    BY DEF VectorState
  <2>2. vl \in Nat /\ k \in Parts
    BY <2>1, Widths, LengthIndex
  <2>3. rm \in Nat
    <3>1. 1 \in Nat /\ Emul(k) \in Nat
      BY <2>1, <2>2, FieldRegs
    <3> QED  BY <2>1, <2>2, <3>1, FieldRegs
  <2>4. d \in Nat
    <3> HIDE DEF rm
    <3> QED  BY <2>3 DEF Free
  <2>5. IsFile(f)
    BY TypedFile
  <2>6. k \in 0 .. 2 * VLENB
    BY <2>2, VectorAssumption DEF Parts
  <2> QED  BY <2>1, <2>2, <2>4, <2>5, <2>6
<1>1. g = FlatWrite(f, d, k, 0, vl, values, MaskFrom(0, vl))
  <2>1. g = Loaded(f, mem, d, k, 1 + m * k, nf * k)
    BY DEF FieldLoad
  <2> HIDE DEF g, d
  <2> QED  BY <1>0, <2>1, LoadedFlat
<1>2. g \in Files
  <2>1. g = WriteBackLoadData(f, d, k, 0, vl, vl, MaskFrom(0, vl), values)
    BY Zenon DEF FieldLoad, Loaded
  <2>2. \A i \in 0 .. vl-1 : values[i] \in Int
    <3> SUFFICES ASSUME NEW i \in 0 .. vl-1 PROVE values[i] \in Int
      OBVIOUS
    <3>1. (1 + m * k) + i * (nf * k) \in Int
      BY <1>0
    <3>2. LoadAt(mem, k, (1 + m * k) + i * (nf * k)) \in Int
      BY <1>0, <3>1, LoadNumber
    <3> QED  BY <3>2 DEF Entries
  <2> HIDE DEF g, values, d
  <2>3. 0 \in Nat
    OBVIOUS
  <2> QED  BY <1>0, <2>1, <2>2, <2>3, WriteBackTyped
<1>3. ASSUME \A reg \in Regs, u \in 0 .. VLENB-1 : f[reg][u] = FieldByte(k, nf, m, reg, u),
             NEW reg \in Regs, NEW u \in 0 .. VLENB-1
      PROVE  g[reg][u] = FieldByte(k, nf, m + 1, reg, u)
  <2> DEFINE field == (reg - Free) \div rm  e == ((reg - Free) % rm) * Epv(k) + (u \div k)
             E == ((reg - d) * VLENB + u) \div k
             B(h, i) == Shr(LoadAt(mem, k, (1 + h * k) + i * (nf * k)), UW * (u % k)) % 2^UW
  <2>1. /\ (reg >= d /\ E \in 0 .. vl-1) <=> (field = m /\ e \in 0 .. vl-1)
        /\ (reg >= d /\ E \in 0 .. vl-1) => E = e
        /\ field \in Int
    BY FieldSpot
  <2>2. g[reg][u] = IF reg >= d /\ E \in 0 .. vl-1 /\ MaskFrom(0, vl)[E]
                    THEN Shr(values[E], UW * (u % k)) % 2^UW ELSE f[reg][u]
    <3> HIDE DEF g, values, d
    <3> QED  BY <1>1, FlatFile DEF FlatByte
  <2>3. E \in 0 .. vl-1 => values[E] = LoadAt(mem, k, (1 + m * k) + E * (nf * k)) /\ (MaskFrom(0, vl)[E] <=> Active(E))
    <3> SUFFICES ASSUME E \in 0 .. vl-1
                 PROVE  values[E] = LoadAt(mem, k, (1 + m * k) + E * (nf * k)) /\ (MaskFrom(0, vl)[E] <=> Active(E))
      OBVIOUS
    <3> HIDE DEF E
    <3>1. 0 + E = E /\ E \in Entries(vl)
      BY <1>0 DEF Entries
    <3> QED  BY <3>1 DEF MaskFrom
  <2>4. \A h : FieldByte(k, nf, h, reg, u) =
                 IF field \in 0 .. h-1 /\ e \in 0 .. vl-1 /\ Active(e) THEN B(field, e) ELSE v[reg][u]
    BY DEF FieldByte
  <2>5. f[reg][u] = FieldByte(k, nf, m, reg, u)
    BY <1>3
  <2>6. (field \in 0 .. (m + 1)-1 <=> (field \in 0 .. m-1 \/ field = m)) /\ ~(field \in 0 .. m-1 /\ field = m)
    <3> HIDE DEF field
    <3> QED  BY <2>1
  <2>7. E \in 0 .. vl-1 => Shr(values[E], UW * (u % k)) % 2^UW = B(m, E)
    <3> HIDE DEF values
    <3> QED  BY <2>3
  <2> HIDE DEF field, e, E, B, values, g, d
  <2>8. CASE field = m /\ e \in 0 .. vl-1
    <3>1. E = e /\ reg >= d /\ E \in 0 .. vl-1
      BY <2>1, <2>8
    <3>2. ~(field \in 0 .. m-1) /\ field \in 0 .. (m + 1)-1
      BY <2>6, <2>8
    <3>3. CASE Active(e)
      BY <2>2, <2>3, <2>4, <2>7, <2>8, <3>1, <3>2, <3>3
    <3>4. CASE ~Active(e)
      BY <2>2, <2>3, <2>4, <2>5, <2>8, <3>1, <3>2, <3>4
    <3> QED  BY <3>3, <3>4
  <2>9. CASE ~(field = m /\ e \in 0 .. vl-1)
    <3>1. g[reg][u] = FieldByte(k, nf, m, reg, u)
      BY <2>1, <2>2, <2>5, <2>9
    <3>2. FieldByte(k, nf, m, reg, u) = FieldByte(k, nf, m + 1, reg, u)
      BY <2>4, <2>6, <2>9
    <3> QED  BY <3>1, <3>2
  <2> QED  BY <2>8, <2>9
<1> QED  BY <1>2, <1>3

\* The loads of all fields leave the bytes of all fields.
LEMMA FieldLoadsBytes ==
  ASSUME VectorState, NEW k \in {1, 2}, NEW nf \in Nat \ {0}
  PROVE  /\ FieldLoads(k, nf) \in Files
         /\ \A reg \in Regs, u \in 0 .. VLENB-1 : FieldLoads(k, nf)[reg][u] = FieldByte(k, nf, nf, reg, u)
<1> DEFINE seq == [n \in 1 .. nf |-> n - 1]
           Eq(h) == h = [s \in SUBSET (DOMAIN seq) |-> IF s = {} THEN v
                     ELSE LET e == Max(s) IN FieldLoad(h[s \ {e}], k, nf, seq[e])]
           iter == CHOOSE h : Eq(h)
           op == [p \in (1 .. nf) \X Files |-> FieldLoad(p[2], k, nf, p[1] - 1)]
<1>0. v \in Files /\ nf \in Nat
  BY DEF VectorState
<1>1. FieldLoads(k, nf) = iter[1 .. nf]
  <2>1. FieldLoads(k, nf) = iter[DOMAIN seq]
    BY Zenon DEF FieldLoads, FoldLeft, MapThenFoldSet
  <2>2. DOMAIN seq = 1 .. nf
    OBVIOUS
  <2> HIDE DEF iter, seq
  <2> QED  BY <2>1, <2>2
<1>2. ASSUME NEW e \in 1 .. nf, NEW g \in Files PROVE FieldLoad(g, k, nf, e - 1) \in Files
  <2>1. e - 1 \in Nat
    OBVIOUS
  <2> QED  BY <1>0, <2>1, NextLoad
<1>3. op \in [(1 .. nf) \X Files -> Files]
  BY <1>2
<1>4. \A e \in 1 .. nf, g \in Files : op[<<e, g>>] = FieldLoad(g, k, nf, e - 1)
  OBVIOUS
<1>5. DOMAIN seq = 1 .. nf /\ \A e \in 1 .. nf : seq[e] = e - 1
  OBVIOUS
<1> HIDE DEF op, seq
<1>6. PICK h : FoldOfSubsets(h, nf, Files, v, op)
  BY <1>0, <1>3, FoldsUpExists, Zenon
<1>7. ASSUME NEW s \in SUBSET (1 .. nf)
      PROVE  h[s] = IF s = {} THEN v ELSE LET e == Max(s) IN FieldLoad(h[s \ {e}], k, nf, seq[e])
  <2>1. CASE s = {}
    BY <1>6, <2>1 DEF FoldOfSubsets
  <2>2. CASE s # {}
    <3> DEFINE e == Max(s)
    <3>1. e \in 1 .. nf /\ h[s \ {e}] \in Files /\ h[s] = op[<<e, h[s \ {e}]>>]
      BY <1>6, <2>2 DEF FoldOfSubsets
    <3> HIDE DEF e
    <3>2. h[s] = FieldLoad(h[s \ {e}], k, nf, seq[e])
      BY <1>4, <1>5, <3>1
    <3> QED  BY <2>2, <3>2 DEF e
  <2> QED  BY <2>1, <2>2
<1>8. Eq(h)
  BY <1>5, <1>6, <1>7 DEF FoldOfSubsets
<1>9. Eq(iter)
  <2> HIDE DEF Eq
  <2> QED  BY <1>8, Zenon
<1> HIDE DEF iter
<1>10. \A s \in SUBSET (1 .. nf) :
         iter[s] = IF s = {} THEN v ELSE LET e == Max(s) IN FieldLoad(iter[s \ {e}], k, nf, seq[e])
  BY <1>5, <1>9
<1> HIDE DEF Eq
<1>11. FoldsUp(iter, nf, Files, v, op)
  <2>1. iter[{}] = v
    <3>1. {} \in SUBSET (1 .. nf)
      OBVIOUS
    <3> QED  BY <1>10, <3>1
  <2>2. ASSUME NEW s \in SUBSET (1 .. nf), s # {}, iter[s \ {Max(s)}] \in Files
        PROVE  iter[s] = op[<<Max(s), iter[s \ {Max(s)}]>>]
    <3> DEFINE e == Max(s)
    <3>1. e \in 1 .. nf
      BY <1>6, <2>2 DEF FoldOfSubsets
    <3>2. iter[s] = FieldLoad(iter[s \ {e}], k, nf, seq[e]) /\ iter[s \ {e}] \in Files
      BY <1>10, <2>2
    <3> HIDE DEF e
    <3>3. iter[s] = op[<<e, iter[s \ {e}]>>]
      BY <1>4, <1>5, <3>1, <3>2
    <3> QED  BY <3>3 DEF e
  <2> QED  BY <2>1, <2>2 DEF FoldsUp
<1>12. PICK g : FoldInSteps(g, nf, Files, v, op, iter[1 .. nf])
  BY <1>0, <1>3, <1>11, FoldsUpSteps, Zenon
<1>13. /\ g \in [0 .. nf -> Files] /\ g[0] = v /\ g[nf] = iter[1 .. nf]
       /\ \A i \in 0 .. nf-1 : g[i + 1] = op[<<i + 1, g[i]>>]
  BY <1>12 DEF FoldInSteps
<1> DEFINE P == {i \in 0 .. nf : \A reg \in Regs, u \in 0 .. VLENB-1 : g[i][reg][u] = FieldByte(k, nf, i, reg, u)}
<1>14. 0 \in P
  <2>1. ASSUME NEW reg \in Regs, NEW u \in 0 .. VLENB-1 PROVE v[reg][u] = FieldByte(k, nf, 0, reg, u)
    BY DEF FieldByte
  <2> QED  BY <1>0, <1>13, <2>1
<1>15. ASSUME NEW i \in 0 .. nf-1, i \in P PROVE i + 1 \in P
  <2>1. g[i] \in Files /\ i + 1 \in 1 .. nf /\ (i + 1) - 1 = i /\ i + 1 \in 0 .. nf /\ i \in 0 .. nf /\ i \in Nat
    BY <1>13
  <2>2. g[i + 1] = FieldLoad(g[i], k, nf, i)
    <3> DEFINE e == i + 1
    <3>1. e \in 1 .. nf /\ e - 1 = i /\ g[e] = op[<<e, g[i]>>]
      BY <1>13, <2>1
    <3> HIDE DEF e
    <3>2. g[e] = FieldLoad(g[i], k, nf, e - 1)
      BY <1>4, <2>1, <3>1
    <3> QED  BY <3>1, <3>2 DEF e
  <2> DEFINE a == g[i]
  <2>3. a \in Files /\ \A reg \in Regs, u \in 0 .. VLENB-1 : a[reg][u] = FieldByte(k, nf, i, reg, u)
    BY <1>15, <2>1
  <2> HIDE DEF a
  <2>4. \A reg \in Regs, u \in 0 .. VLENB-1 : FieldLoad(a, k, nf, i)[reg][u] = FieldByte(k, nf, i + 1, reg, u)
    BY <1>0, <2>1, <2>3, NextLoad
  <2> QED  BY <2>1, <2>2, <2>4 DEF a
<1>16. 0 .. nf \subseteq P
  <2> HIDE DEF P
  <2> QED  BY <1>0, <1>14, <1>15, StepByStep
<1>17. nf \in P
  BY <1>0, <1>16
<1> QED  BY <1>0, <1>1, <1>13, <1>17

\* The entries of a segment load, where no register of a field but the first is partly filled:
\* element e of a register is entry e of its field.
LEMMA SegmentShape ==
  ASSUME VectorState, NEW k \in Parts, vl > 0, vl <= Epv(k) \/ vl % Epv(k) = 0,
         NEW r \in Nat, NEW i \in 0 .. Epv(k)-1
  PROVE  LET max == Lesser(Epv(k), vl)  S == SegmentRegs(k)  e == r * Epv(k) + i IN
         /\ Lesser(vl, S * max) = vl
         /\ (r < S /\ i \in 0 .. max-1 /\ r * max + i < vl) <=> e < vl
         /\ e < vl => r * max = r * Epv(k)
<1> DEFINE n == Epv(k)  max == Lesser(n, vl)  S == SegmentRegs(k)  y == r * n  e == y + i
<1>0. vl \in Nat \ {0} /\ k \in Nat \ {0} /\ n \in Nat \ {0} /\ VLENB = k * n /\ VLENB \in Nat \ {0}
  <2>1. vl \in Nat
    BY LengthIndex DEF VectorState
  <2> QED  BY <2>1, PartFacts
<1>1. S = Greater(1, (vl * k) \div VLENB)
  BY DEF SegmentRegs
<1> HIDE DEF n, S
<1>2. y \in Nat
  BY <1>0
<1>3. r >= 1 => y >= n
  BY <1>0
<1>4. CASE vl < n
  <2>1. max = vl
    BY <1>0, <1>4 DEF Lesser
  <2>2. (vl * k) \div VLENB = 0
    <3>1. (vl + 1) * k <= n * k /\ (vl + 1) * k = vl * k + k /\ vl * k \in Nat /\ n * k = VLENB
      BY <1>0, <1>4
    <3> DEFINE a == vl * k
    <3>2. a \in Nat /\ a + k <= VLENB
      BY <3>1
    <3> HIDE DEF a
    <3>3. a \in 0 .. VLENB-1 /\ a = 0 * VLENB + a /\ a \in Int /\ 0 \in Int
      BY <1>0, <3>2
    <3>4. a \div VLENB = 0
      BY <1>0, <3>3, Unique
    <3> QED  BY <3>4 DEF a
  <2>3. S = 1
    BY <1>1, <2>2 DEF Greater
  <2>4. Lesser(vl, S * max) = vl
    <3> HIDE DEF max
    <3> QED  BY <1>0, <2>1, <2>3 DEF Lesser
  <2>5. r = 0 => y = 0 /\ r * max = 0
    <3>1. max \in Nat
      BY <1>0, <2>1
    <3> HIDE DEF max
    <3> QED  BY <1>0, <3>1
  <2> HIDE DEF max
  <2>6. CASE r = 0
    <3> HIDE DEF y
    <3> QED  BY <1>0, <2>1, <2>3, <2>4, <2>5, <2>6 DEF n, S, max, y
  <2>7. CASE r # 0
    <3>1. r >= 1 /\ ~(r < S)
      BY <2>3, <2>7
    <3>2. ~(e < vl)
      <4> HIDE DEF y
      <4> QED  BY <1>0, <1>2, <1>3, <1>4, <3>1
    <3> QED  BY <2>4, <3>1, <3>2 DEF n, S, max, y
  <2> QED  BY <2>6, <2>7
<1>5. CASE vl >= n
  <2>1. max = n
    BY <1>0, <1>5 DEF Lesser
  <2> DEFINE q == vl \div n
  <2>2. q \in Nat /\ vl = q * n
    <3>1. vl % n = 0
      <4>1. CASE vl = n
        <5>1. vl = 1 * n + 0 /\ 0 \in 0 .. n-1 /\ 1 \in Int /\ vl \in Int
          BY <1>0, <4>1
        <5> QED  BY <1>0, <5>1, Unique
      <4>2. CASE vl # n
        <5>1. ~(vl <= n)
          BY <1>0, <1>5, <4>2
        <5> QED  BY <5>1 DEF n
      <4> QED  BY <4>1, <4>2
    <3>2. q \in Int /\ vl = n * q + (vl % n)
      BY <1>0, DivMod
    <3>3. q \in Nat
      BY <1>0, QuotientOrder
    <3> HIDE DEF q
    <3> QED  BY <1>0, <3>1, <3>2, <3>3
  <2> HIDE DEF q
  <2>3. q \in Nat \ {0}
    <3>1. q # 0
      BY <1>0, <2>2
    <3> QED  BY <2>2, <3>1
  <2>4. (vl * k) \div VLENB = q
    <3>1. vl * k = q * VLENB
      BY <1>0, <2>2
    <3> DEFINE a == vl * k
    <3>2. a = q * VLENB + 0 /\ a \in Int /\ q \in Int /\ 0 \in 0 .. VLENB-1
      <4>1. q * VLENB \in Int
        BY <1>0, <2>2
      <4> QED  BY <1>0, <2>2, <3>1, <4>1
    <3> HIDE DEF a
    <3>3. a \div VLENB = q
      BY <1>0, <3>2, Unique
    <3> QED  BY <3>3 DEF a
  <2>5. S = q
    BY <1>1, <2>3, <2>4 DEF Greater
  <2>6. Lesser(vl, S * max) = vl
    <3>1. S * max = vl
      BY <2>1, <2>2, <2>5
    <3> QED  BY <1>0, <3>1 DEF Lesser
  <2>7. e < vl => r < S
    <3> SUFFICES ASSUME r >= q PROVE ~(e < vl)
      BY <2>3, <2>5
    <3>1. r * n >= q * n
      BY <1>0, <2>2
    <3>2. y >= vl
      BY <2>2, <3>1
    <3> HIDE DEF y
    <3> QED  BY <1>0, <1>2, <3>2 DEF n
  <2>8. i \in 0 .. max-1 /\ r * max = y
    BY <2>1 DEF n
  <2> HIDE DEF max, y
  <2> QED  BY <2>6, <2>7, <2>8 DEF n, S, max, y
<1>6. vl < n \/ vl >= n
  BY <1>0
<1> QED  BY <1>4, <1>5, <1>6

\* A segment load that fills the registers of its fields writes what one strided load for each
\* field writes.
LEMMA SegmentsAreLoads ==
  ASSUME VectorState, NEW k \in {1, 2}, NEW nf \in Nat \ {0},
         vl > 0, vl <= Epv(k) \/ vl % Epv(k) = 0
  PROVE  WriteBackSegmentLoadData(v, mem, Free, k, nf, Addresses(nf, k, 1, nf * k)) = FieldLoads(k, nf)
<1> DEFINE addr == Addresses(nf, k, 1, nf * k)
           max == Lesser(Epv(k), vl)  S == SegmentRegs(k)  rm == RegMul(Emul(k))
           value(j) == LoadAt(mem, k, addr[<<j \div vl, j % vl>>])
           field(reg) == (reg - Free) \div rm  row(reg) == (reg - Free) % rm
           index(reg, i) == field(reg) * vl + row(reg) * max + i
           is(reg) == {i \in 0 .. max-1 : row(reg) * max + i < vl /\ Active(index(reg, i) % vl)}
           put(reg) == PutItems(v, reg, k, is(reg), [i \in is(reg) |-> value(index(reg, i))])
           a == WriteBackSegmentLoadData(v, mem, Free, k, nf, addr)
           b == FieldLoads(k, nf)
<1>0. LengthFits /\ k \in Parts /\ vl \in Nat \ {0} /\ rm \in Nat \ {0} /\ Epv(k) \in Nat \ {0} /\ IsFile(v) /\ k \in Nat \ {0}
  <2>1. LengthFits /\ IsFile(v)
    BY TypedFile DEF VectorState
  <2>2. k \in Parts /\ vl \in Nat
    BY <2>1, Widths, LengthIndex
  <2>3. rm \in Nat \ {0}
    <3>1. 1 \in Nat /\ Emul(k) \in Nat
      BY <2>1, <2>2, FieldRegs
    <3> QED  BY <2>1, <2>2, <3>1, FieldRegs
  <2>4. Epv(k) \in Nat \ {0}
    BY <2>2, PartFacts
  <2> QED  BY <2>1, <2>2, <2>3, <2>4
<1>1. Lesser(vl, S * max) = vl
  <2>1. 0 \in Nat /\ 0 \in 0 .. Epv(k)-1
    BY <1>0
  <2> QED  BY <1>0, <2>1, SegmentShape
<1>2. a = [reg \in Regs |-> IF field(reg) \in 0 .. nf-1 /\ row(reg) < S THEN put(reg)[reg] ELSE v[reg]]
  <2> HIDE DEF addr
  <2>1. a = LET per_field == Lesser(vl, S * max) IN
            [reg \in Regs |->
              LET idx(i) == field(reg) * per_field + row(reg) * max + i
                  ii == {i \in 0 .. max-1 : row(reg) * max + i < per_field /\ Active(idx(i) % vl)}
              IN  IF field(reg) \in 0 .. nf-1 /\ row(reg) < S
                  THEN PutItems(v, reg, k, ii, [i \in ii |-> value(idx(i))])[reg] ELSE v[reg]]
    BY Zenon DEF WriteBackSegmentLoadData
  <2> HIDE DEF a, max, S, rm
  <2> QED  BY <1>1, <2>1, Zenon
<1> HIDE DEF a
<1>3. ASSUME NEW reg \in Regs
      PROVE  /\ IsFile(put(reg))
             /\ \A u \in 0 .. VLENB-1 : put(reg)[reg][u] =
                  IF u \div k \in is(reg) THEN Shr(value(index(reg, u \div k)), UW * (u % k)) % 2^UW ELSE v[reg][u]
  <2> DEFINE w == is(reg)  val == [i \in w |-> value(index(reg, i))]
  <2>1. \A i \in w : val[i] = value(index(reg, i))
    OBVIOUS
  <2>2. put(reg) = PutItems(v, reg, k, w, val)
    OBVIOUS
  <2> HIDE DEF w, val, put, value, index
  <2>3. /\ IsFile(PutItems(v, reg, k, w, val))
        /\ \A u \in 0 .. VLENB-1 : PutItems(v, reg, k, w, val)[reg][u] =
             IF reg = reg /\ u \div k \in w THEN Shr(val[u \div k], UW * (u % k)) % 2^UW ELSE v[reg][u]
    BY <1>0, PutItemsBytes
  <2> QED  BY <2>1, <2>2, <2>3 DEF w
<1>4. IsFile(a)
  <2>1. ASSUME NEW reg \in Regs PROVE a[reg] = [u \in 0 .. VLENB-1 |-> a[reg][u]]
    <3>1. put(reg)[reg] = [u \in 0 .. VLENB-1 |-> put(reg)[reg][u]] /\ v[reg] = [u \in 0 .. VLENB-1 |-> v[reg][u]]
      BY <1>0, <1>3, Zenon DEF IsFile
    <3>2. a[reg] = put(reg)[reg] \/ a[reg] = v[reg]
      <4> HIDE DEF put, field, row, S
      <4> QED  BY <1>2
    <3> HIDE DEF put
    <3> QED  BY <3>1, <3>2
  <2>2. a = [reg \in Regs |-> a[reg]]
    <3> HIDE DEF put, field, row, S
    <3> QED  BY <1>2
  <2> QED  BY <2>1, <2>2 DEF IsFile
<1>5. ASSUME NEW reg \in Regs, NEW u \in 0 .. VLENB-1 PROVE a[reg][u] = FieldByte(k, nf, nf, reg, u)
  <2> DEFINE h == field(reg)  r == row(reg)  i == u \div k  n == Epv(k)  e == r * n + i
             B(j) == Shr(j, UW * (u % k)) % 2^UW
  <2>1. FieldByte(k, nf, nf, reg, u) = IF h \in 0 .. nf-1 /\ e \in 0 .. vl-1 /\ Active(e)
                                       THEN B(LoadAt(mem, k, (1 + h * k) + e * (nf * k))) ELSE v[reg][u]
    BY DEF FieldByte
  <2>2. r \in Nat /\ h \in Int /\ i \in 0 .. n-1 /\ n \in Nat \ {0}
    <3>1. reg - Free \in Int
      BY DEF Regs, Free
    <3>2. 0 \in Nat
      OBVIOUS
    <3>3. i \in 0 .. n-1
      BY <1>0, <3>2, ByteElement
    <3> HIDE DEF rm
    <3>4. r \in 0 .. rm-1 /\ h \in Int
      BY <1>0, <3>1, DivMod
    <3>5. r \in Nat
      BY <1>0, <3>4
    <3> QED  BY <1>0, <3>3, <3>4, <3>5
  <2> HIDE DEF h, r, i
  <2>3. /\ (r < S /\ i \in 0 .. max-1 /\ r * max + i < vl) <=> e < vl
        /\ e < vl => r * max = r * n
    BY <1>0, <2>2, SegmentShape
  <2>4. e \in Nat /\ (e < vl <=> e \in 0 .. vl-1)
    <3>1. r * n \in Nat
      BY <2>2
    <3> HIDE DEF n
    <3> QED  BY <1>0, <2>2, <3>1
  <2> HIDE DEF max, S, e
  <2> DEFINE j == index(reg, i)
  <2>5. ASSUME h \in 0 .. nf-1, e < vl
        PROVE  j % vl = e /\ value(j) = LoadAt(mem, k, (1 + h * k) + e * (nf * k))
    <3> HIDE DEF n
    <3>1. j = h * vl + e /\ j \in Int
      <4> DEFINE x1 == h * vl  y1 == r * n
      <4>1. x1 \in Int /\ y1 \in Int
        BY <1>0, <2>2
      <4>2. j = x1 + y1 + i /\ e = y1 + i
        BY <2>3, <2>5 DEF e, h, r
      <4> HIDE DEF x1, y1, j
      <4>3. j = x1 + e /\ j \in Int
        BY <2>2, <4>1, <4>2
      <4> QED  BY <4>3 DEF x1
    <3> HIDE DEF j
    <3>2. j \div vl = h /\ j % vl = e
      BY <1>0, <2>2, <2>4, <2>5, <3>1, Unique
    <3>3. addr[<<h, e>>] = 1 + e * (nf * k) + h * k
      <4>1. <<h, e>> \in (0 .. nf-1) \X (0 .. vl-1)
        BY <2>4, <2>5
      <4> QED  BY <4>1 DEF Addresses
    <3>4. 1 + e * (nf * k) + h * k = (1 + h * k) + e * (nf * k)
      <4>1. e * (nf * k) \in Int /\ h * k \in Int
        BY <1>0, <2>2, <2>4
      <4> QED  BY <4>1
    <3> HIDE DEF addr
    <3> QED  BY <3>2, <3>3, <3>4
  <2>6. i \in is(reg) <=> (i \in 0 .. max-1 /\ r * max + i < vl /\ Active(j % vl))
    <3> HIDE DEF index
    <3> QED  BY DEF r
  <2>7. a[reg][u] = IF h \in 0 .. nf-1 /\ r < S
                    THEN IF i \in is(reg) THEN B(value(j)) ELSE v[reg][u]
                    ELSE v[reg][u]
    <3>1. a[reg] = IF h \in 0 .. nf-1 /\ r < S THEN put(reg)[reg] ELSE v[reg]
      <4> HIDE DEF put, field, row
      <4> QED  BY <1>2 DEF h, r
    <3>2. put(reg)[reg][u] = IF i \in is(reg) THEN B(value(j)) ELSE v[reg][u]
      <4> HIDE DEF put, is, value, index
      <4> QED  BY <1>3 DEF i, j
    <3> HIDE DEF put, is, j, B
    <3> QED  BY <3>1, <3>2
  <2> HIDE DEF j, is, value, B
  <2>8. CASE h \in 0 .. nf-1 /\ e < vl
    BY <2>1, <2>3, <2>4, <2>5, <2>6, <2>7, <2>8
  <2>9. CASE ~(h \in 0 .. nf-1 /\ e < vl)
    BY <2>1, <2>3, <2>4, <2>6, <2>7, <2>9
  <2> QED  BY <2>8, <2>9
<1> HIDE DEF b
<1>6. IsFile(b) /\ \A reg \in Regs, u \in 0 .. VLENB-1 : b[reg][u] = FieldByte(k, nf, nf, reg, u)
  <2>1. b \in Files
    BY FieldLoadsBytes DEF b
  <2> QED  BY <2>1, FieldLoadsBytes, TypedFile DEF b
<1>7. a = b
  BY <1>4, <1>5, <1>6, SameFile
<1> QED  BY <1>7 DEF a, b, addr

\* In a typed state loads invert stores, and segments are their fields.
LEMMA LoadsInvert == VectorState => LoadsInvertStores
<1> SUFFICES ASSUME VectorState, vstart = 0 PROVE LoadsInvertStores
  BY Zenon DEF LoadsInvertStores
<1>1. \A k \in {1, 2} : k \in Parts
  <2>1. LengthFits
    BY DEF VectorState
  <2> QED  BY <2>1, Widths
<1>2. ASSUME NEW k \in {1, 2}, NEW stride \in {1, 2, 3}, Fits(k, stride)
      PROVE  Loaded(v, StoreMemory(mem, k, StoreVectorStrided(Vd, k, 3, stride)), Free, k, 3, stride)
               = FlatWrite(v, Free, k, 0, vl, [i \in Index |-> IF i < vl THEN Element(v, Vd, k, i) ELSE 0], Masked)
  <2>1. k \in Parts /\ stride \in Nat
    BY <1>1
  <2> QED  BY <1>2, <2>1, StridedInverts
<1>3. ASSUME NEW k \in {1, 2}, NEW nf \in {2, 3}, RegMul(Emul(k)) * nf <= 4, Fits(k, nf * k)
      PROVE  StoreMemory(mem, k, SegmentEntries(Vd, k, nf, Emul(k), Addresses(nf, k, 1, nf * k))) = FieldStores(k, nf)
  <2>1. k \in Parts /\ nf \in Nat \ {0}
    BY <1>1
  <2> QED  BY <1>3, <2>1, SegmentsAreStores
<1>4. ASSUME NEW k \in {1, 2}, NEW nf \in {2, 3}, vl > 0, vl <= Epv(k) \/ vl % Epv(k) = 0
      PROVE  WriteBackSegmentLoadData(v, mem, Free, k, nf, Addresses(nf, k, 1, nf * k)) = FieldLoads(k, nf)
  <2>1. nf \in Nat \ {0}
    OBVIOUS
  <2> QED  BY <1>4, <2>1, SegmentsAreLoads
<1> QED  BY <1>2, <1>3, <1>4, Zenon DEF LoadsInvertStores, FieldStores, FieldStore, FieldLoads, FieldLoad

\* A strided load restores what a strided store of the same stride wrote (StoreVectorStrided
\* and WriteBackLoadData); a segment store writes what one strided store per field does, and a
\* segment load that fills its registers what one strided load per field does.
THEOREM LoadsUndoStores == Spec => []LoadsInvertStores
<1>1. VectorState => LoadsInvertStores
  BY LoadsInvert
<1> QED  BY <1>1, StateStaysTyped, PTL
=============================================================================
