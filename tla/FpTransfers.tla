---------------------------- MODULE FpTransfers ----------------------------
(***************************************************************************)
(* The scalar floating point instructions that read or write an integer    *)
(* register or memory, by namespace: RV32 and RV64 of                      *)
(* riscv_f_instructions.cc, riscv_d_instructions.cc and                    *)
(* riscv_zfh_instructions.cc.  w is the width of int32_t, 2 * w that of    *)
(* int64_t; rd is what the destination held.  A floating point source is a *)
(* register of RegBits bits, in double precision the value itself.         *)
(***************************************************************************)
EXTENDS FpScalar

\* a value converted to an integer type is sign extended, also an unsigned one
WriteBack(to, xlen, r) == [r EXCEPT !.v = Sext(to.w, xlen, @)]
LOCAL IntType(w, signed) == [w |-> w, signed |-> signed]
LOCAL ToInt(f, to, xlen, rm, x) == WriteBack(to, xlen, ConvertFloat(f, to, rm, x))
RVFCvtWs(f, w, xlen, rm, x)  == ToInt(f, IntType(w, TRUE), xlen, rm, x)
RVFCvtWus(f, w, xlen, rm, x) == ToInt(f, IntType(w, FALSE), xlen, rm, x)
RVFCvtLs(f, w, xlen, rm, x)  == ToInt(f, IntType(2*w, TRUE), xlen, rm, x)
RVFCvtLus(f, w, xlen, rm, x) == ToInt(f, IntType(2*w, FALSE), xlen, rm, x)
RiscVFCvtSl(f, rm, w, x)  == HostFromInt(f, Host(rm), Signed(2*w, x))
RiscVFCvtSlu(f, rm, w, x) == HostFromInt(f, Host(rm), x)

-----------------------------------------------------------------------------
(* Single precision.  Conversions, moves and classes read the low bits; a  *)
(* compare unboxes its sources if an integer register is wider than f.     *)

Rv32F(op, f, w, rm, rd, rs1, rs2) ==
    LET x == Low(f, rs1)  y == Low(f, rs2) IN
    CASE op = "fcvt.w.s"  -> RVFCvtWs(f, w, w, rm, x)
      [] op = "fcvt.wu.s" -> RVFCvtWus(f, w, w, rm, x)
      [] op = "fmv.x.w"   -> Quietly(RiscVUnaryOp(w, rd, x))
      [] op = "feq.s"     -> RVFCmpeq(f, x, y)
      [] op = "flt.s"     -> RVFCmplt(f, x, y)
      [] op = "fle.s"     -> RVFCmple(f, x, y)
      [] op = "fclass.s"  -> Quietly(RiscVUnaryOp(w, rd, ClassifyFP(f, x)))
Rv64F(op, f, w, rm, rd, rs1, rs2) ==
    LET x == Low(f, rs1)
        p == GetNaNBoxedSource(f, rs1)  q == GetNaNBoxedSource(f, rs2)
    IN  CASE op = "fcvt.w.s"  -> RVFCvtWs(f, w, 2*w, rm, x)
          [] op = "fcvt.wu.s" -> RVFCvtWus(f, w, 2*w, rm, x)
          [] op = "fcvt.l.s"  -> RVFCvtLs(f, w, 2*w, rm, x)
          [] op = "fcvt.lu.s" -> RVFCvtLus(f, w, 2*w, rm, x)
          [] op = "fmv.x.w"   -> Quietly(Sext(w, 2*w, x))
          [] op = "feq.s"     -> RVFCmpeq(f, p, q)
          [] op = "flt.s"     -> RVFCmplt(f, p, q)
          [] op = "fle.s"     -> RVFCmple(f, p, q)
          [] op = "fclass.s"  -> Quietly(RiscVUnaryOp(w, rd, ClassifyFP(f, x)))

\* Stores, as the sequence of (address, value) pairs they send to memory: none
\* while mstatus.fs is off.
LOCAL Store(fs, xlen, base, offset, v) ==
    IF fs = 0 THEN <<>> ELSE <<<<Trunc(xlen, base + offset), v>>>>
Rv32FSw(fs, f, w, base, offset, rs2) == Store(fs, w, base, offset, Low(f, rs2))
Rv64FSw(fs, f, w, base, offset, rs2) == Store(fs, 2*w, base, offset, Low(f, rs2))
Rv32DSd(fs, w, base, offset, x) == Store(fs, w, base, offset, x)
Rv64DSd(fs, w, base, offset, x) == Store(fs, 2*w, base, offset, x)

-----------------------------------------------------------------------------
(* Double precision: the register holds the value. *)

Rv32D(op, f, w, rm, rd, x, y) ==
    CASE op = "fcvt.w.d"  -> ToInt(f, IntType(w, TRUE), w, rm, x)
      [] op = "fcvt.wu.d" -> ToInt(f, IntType(w, FALSE), w, rm, x)
      [] op = "feq.d"     -> RiscVDCmpeq(f, x, y)
      [] op = "flt.d"     -> RiscVDCmplt(f, x, y)
      [] op = "fle.d"     -> RiscVDCmple(f, x, y)
      [] op = "fclass.d"  -> Quietly(RiscVUnaryOp(w, rd, ClassifyFP(f, x)))
Rv64D(op, f, w, rm, rd, x, y) ==
    CASE op = "fcvt.w.d"  -> ToInt(f, IntType(w, TRUE), 2*w, rm, x)
      [] op = "fcvt.wu.d" -> ToInt(f, IntType(w, FALSE), 2*w, rm, x)
      [] op = "fcvt.l.d"  -> ToInt(f, IntType(2*w, TRUE), 2*w, rm, x)
      [] op = "fcvt.lu.d" -> ToInt(f, IntType(2*w, FALSE), 2*w, rm, x)
      [] op = "fcvt.d.l"  -> HostFromInt(f, Host(rm), Signed(2*w, x))
      [] op = "fcvt.d.lu" -> HostFromInt(f, Host(rm), x)
      [] op = "feq.d"     -> RiscVDCmpeq(f, x, y)
      [] op = "flt.d"     -> RiscVDCmplt(f, x, y)
      [] op = "fle.d"     -> RiscVDCmple(f, x, y)
      [] op = "fclass.d"  -> Quietly(RiscVUnaryOp(2*w, rd, ClassifyFP(f, x)))
      [] op \in {"fmv.x.d", "fmv.d.x"} -> Quietly(RiscVUnaryOp(2*w, rd, x))

-----------------------------------------------------------------------------
(* Half precision h, computed in f.  Compares unbox in both namespaces.     *)

Rv32Zfh(op, h, f, w, rm, rd, rs1, rs2) ==
    LET x == Low(h, rs1)
        p == GetNaNBoxedSource(h, rs1)  q == GetNaNBoxedSource(h, rs2)
    IN  CASE op = "fcvt.w.h"  -> ToInt(h, IntType(w, TRUE), w, rm, x)
          [] op = "fcvt.wu.h" -> ToInt(h, IntType(w, FALSE), w, rm, x)
          [] op = "fmv.x.h"   -> Quietly(Trunc(w, RiscVZfhFMvxh(h, x)))
          [] op = "fmv.h.x"   -> Quietly(RiscVZfhFMvhx(h, rs1))
          [] op = "feq.h"     -> RiscVZfhFcmpeq(h, f, p, q)
          [] op = "flt.h"     -> RiscVZfhFcmplt(h, f, p, q)
          [] op = "fle.h"     -> RiscVZfhFcmple(h, f, p, q)
          [] op = "fclass.h"  -> Quietly(RiscVUnaryOp(w, rd, ClassifyFP(h, x)))
Rv64Zfh(op, h, f, w, rm, rd, rs1, rs2) ==
    LET x == Low(h, rs1) IN
    CASE op = "fcvt.w.h"  -> ToInt(h, IntType(w, TRUE), 2*w, rm, x)
      [] op = "fcvt.wu.h" -> ToInt(h, IntType(w, FALSE), 2*w, rm, x)
      [] op = "fcvt.l.h"  -> ToInt(h, IntType(2*w, TRUE), 2*w, rm, x)
      [] op = "fcvt.lu.h" -> ToInt(h, IntType(2*w, FALSE), 2*w, rm, x)
      [] op = "fcvt.h.l"  -> ConvertToHalfFP(f, h, rm, HostFromInt(f, Host(rm), Signed(2*w, rs1)).v)
      [] op = "fcvt.h.lu" -> ConvertToHalfFP(f, h, rm, HostFromInt(f, Host(rm), rs1).v)
      [] op = "fmv.x.h"   -> Quietly(Trunc(2*w, RiscVZfhFMvxh(h, x)))
      [] op = "fclass.h"  -> Quietly(RiscVUnaryOp(2*w, rd, ClassifyFP(h, x)))
      [] OTHER -> Rv32Zfh(op, h, f, w, rm, rd, rs1, rs2)
RiscVZfhCvtDh(h, f, x) == ConvertFromHalfFP(h, f, x)
RiscVZfhCvtHd(f, h, rm, x) == ConvertToHalfFP(f, h, rm, x)
=============================================================================
