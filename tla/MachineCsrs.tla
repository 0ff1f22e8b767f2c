----------------------------- MODULE MachineCsrs -----------------------------
(***************************************************************************)
(* The values kept by control and status registers: the masks of           *)
(* riscv_csr.h and its shadow registers, the buffers an instruction writes *)
(* them through and the set that finds them, the counters of               *)
(* riscv_counter_csr.h with their halves on RV32, misa and jvt.  w is the  *)
(* width that uint32_t stands for, uint64_t is 2w.                         *)
(***************************************************************************)
EXTENDS Words, Functions

(* RiscVSimpleCsr<T>: T bits of storage, written and read n bits at a time *)
SimpleGet(n, csr) == Trunc(n, csr.v)
SimpleAs(n, csr) == SimpleGet(n, csr) & csr.rm
SimpleSet(T, csr, v) == [csr EXCEPT !.v = Trunc(T, v)]
SimpleWrite(T, n, csr, v) ==
    SimpleSet(T, csr, (Trunc(T, v) & csr.wm) | (SimpleGet(n, csr) & Inv(T, csr.wm)))
\* a write does not look at the mask when it merges what is set or cleared
SimpleSetBits(T, n, csr, v)   == SimpleWrite(T, n, csr, SimpleGet(n, csr) | Trunc(n, v))
SimpleClearBits(T, n, csr, v) == SimpleWrite(T, n, csr, SimpleGet(n, csr) & Inv(n, Trunc(n, v)))

(* RiscVShadowCsr<T>: a narrower view (rm, wm) of a simple CSR of its width *)
ShadowAs(n, shadow, csr) == SimpleAs(n, csr) & shadow.rm
ShadowWrite(T, n, shadow, csr, v) ==
    IF shadow.wm = 0 THEN csr
    ELSE SimpleWrite(T, T, csr, (SimpleGet(n, csr) & Inv(T, shadow.wm)) | (Trunc(T, v) & shadow.wm))
ShadowSetBits(T, n, shadow, csr, v) ==
    ShadowWrite(T, n, shadow, csr, SimpleGet(n, csr) | Trunc(n, v))
ShadowClearBits(T, n, shadow, csr, v) ==
    ShadowWrite(T, n, shadow, csr, SimpleGet(n, csr) & Inv(n, Trunc(n, v)))

(* The destination of a CSR operand: a buffer of 4 or 8 bytes, as the CSR   *)
(* has, is written, set or cleared by overloads of its width               *)
AllocateDataBuffer(T, v) == [size |-> T, v |-> Trunc(T, v)]
WriteDb(T, csr, db)     == SimpleWrite(T, db.size, csr, db.v)
SetBitsDb(T, csr, db)   == SimpleSetBits(T, db.size, csr, db.v)
ClearBitsDb(T, csr, db) == SimpleClearBits(T, db.size, csr, db.v)

(* The csr instructions on the CSR an index names.  ok: the mode may access *)
(* the index and there is such a CSR, else nothing happens here (a trap, or *)
(* a message).  h: [rs1, rd, csr]; rs1 and rd may be the same register.     *)
RVZiCsrrw(ok, T, h) ==
    IF ok THEN [h EXCEPT !.rd = SimpleAs(T, h.csr), !.csr = SimpleWrite(T, T, h.csr, h.rs1)] ELSE h
RVZiCsrrwNr(ok, T, h) == IF ok THEN [h EXCEPT !.csr = SimpleWrite(T, T, h.csr, h.rs1)] ELSE h
RVZiCsrrNw(ok, T, h)  == IF ok THEN [h EXCEPT !.rd = SimpleAs(T, h.csr)] ELSE h

(* RiscVCsrSet: two maps to the same CSRs, by index and by name *)
Insert(map, key, csr) == [k \in DOMAIN map \cup {key} |-> IF k = key THEN csr ELSE map[k]]
EmptyCsrSet == [byIndex |-> <<>>, byName |-> <<>>]
AddCsr(set, csr) ==
    IF csr.index \in DOMAIN set.byIndex \/ csr.name \in DOMAIN set.byName THEN set
    ELSE [byIndex |-> Insert(set.byIndex, csr.index, csr), byName |-> Insert(set.byName, csr.name, csr)]
GetCsrByName(set, name) == IF name \in DOMAIN set.byName THEN {set.byName[name]} ELSE {}
GetCsr(set, index) == IF index \in DOMAIN set.byIndex THEN {set.byIndex[index]} ELSE {}
RemoveCsr(set, index) ==
    IF index \notin DOMAIN set.byIndex THEN set
    ELSE [byIndex |-> Restrict(set.byIndex, DOMAIN set.byIndex \ {index}),
          byName |-> Restrict(set.byName, DOMAIN set.byName \ {set.byIndex[index].name})]

-----------------------------------------------------------------------------
(* Counters.  The simulator's counter is never written: a CSR keeps an     *)
(* offset from it.  c: [count, low, high], count and high of 2w bits; a    *)
(* T-bit CSR of type RiscVCounterCsr keeps its offset in low.              *)

CounterGet(T, c) == Trunc(T, Trunc(T, c.count) + c.low)
CounterSet(T, c, v) == [c EXCEPT !.low = Trunc(T, Trunc(T, v) - Trunc(T, c.count))]
PerformanceCounterSet(T, c, v) ==
    LET s == CounterSet(T, c, v) IN [s EXCEPT !.low = Trunc(T, @ - 1)]

\* the high half adds the two offsets to the whole counter
HighGet(w, c) ==
    LET offset == Trunc(2*w, c.high * 2^w) | c.low
    IN  Shr(Trunc(2*w, c.count + offset), w)
Carry(w, c) == Trunc(w, c.count) + c.low >= 2^w
HighSet(w, c, v) ==
    [c EXCEPT !.high = Trunc(2*w, Trunc(w, v) - Shr(c.count, w) - Flag(Carry(w, c)))]
\* the write retires too: one is taken off the pair of offsets
PerformanceHighSet(w, c, v) ==
    LET s == HighSet(w, c, v)
    IN  [s EXCEPT !.high = IF c.low = 0 THEN Trunc(2*w, @ - 1) ELSE @,
                  !.low = Trunc(w, @ - 1)]
SimpleCounterTick(w, c) == [c EXCEPT !.count = Trunc(2*w, @ + 1)]

-----------------------------------------------------------------------------
(* misa, kept as RV64 lays it out: mxl in the top two bits, w - 6          *)
(* extension bits at the bottom                                            *)

StretchMisa32(w, v) == Shr(v, w - 2) * 2^(2*w - 2) + (v % 2^(w - 6))
CompressMisa64(w, v) == Shr(v, 2*w - 2) * 2^(w - 2) + (v % 2^(w - 2))
MisaReadMask(w) == 3 * 2^(2*w - 2) + MaxU(w - 6)
MisaInit32(w, v) == [v |-> StretchMisa32(w, v), rm |-> MisaReadMask(w), wm |-> 0]
MisaAsUint32(w, csr) == CompressMisa64(w, csr.v) & CompressMisa64(w, MisaReadMask(w))
MisaWrite(csr, v) == csr
\* the mask is the hexadecimal 0xb11
MisaXlen(w, csr) ==
    LET mxl == Shr(csr.v, 2*w - 2) & 2833
    IN  CASE mxl = 1 -> "RV32" [] mxl = 2 -> "RV64" [] OTHER -> "RVUnknown"

\* jvt holds the table's base, and its mode bits are always clear
JvtWrite(T, v) == Trunc(T, v) - (v % 64)
=============================================================================
