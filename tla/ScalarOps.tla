------------------------------ MODULE ScalarOps ------------------------------
(***************************************************************************)
(* What the scalar integer instructions compute, as functions of operand   *)
(* words: riscv_i_instructions.cc, riscv_m_instructions.cc,                *)
(* riscv_b_instructions.cc, riscv_bitmanip_instructions.cc and             *)
(* riscv_zicond_instructions.cc.                                           *)
(*                                                                         *)
(* The sources define most instructions twice, in the namespaces RV32 and  *)
(* RV64; each family here is one table per namespace, indexed by the name  *)
(* of the instruction.  w is the register width XLEN, h = w / 2 the width  *)
(* of the ...w forms of RV64, by the width of a byte.                      *)
(***************************************************************************)
EXTENDS Words

LOCAL S(w, x) == Signed(w, x)
LOCAL Lo(h, x) == x % 2^h                       \* the low word, x & 0xffff'ffff
LOCAL Ones(w, x) == {i \in 0 .. w-1 : Bit(x, i) = 1}
LOCAL Leading(w, x)  == IF x = 0 THEN w ELSE w - 1 - Max(Ones(w, x))
LOCAL Trailing(w, x) == IF x = 0 THEN w ELSE Min(Ones(w, x))
LOCAL Parity(set) == Cardinality(set) % 2       \* the xor of a set of one bits
LOCAL Bytes(w, by) == 0 .. (w \div by) - 1
LOCAL ByteOf(by, x, i) == Shr(x, by * i) % 2^by

-----------------------------------------------------------------------------
(* riscv_i_instructions.cc: register and immediate operations. *)

IntegerOps == {"add", "sub", "slt", "sltu", "and", "or", "xor", "sll", "srl", "sra"}
IntegerWOps == {"addw", "subw", "sllw", "srlw", "sraw"}

Rv32Integer(op, w, a, b) ==
    CASE op = "add"  -> Trunc(w, a + b)
      [] op = "sub"  -> Trunc(w, a - b)
      [] op = "slt"  -> Flag(S(w, a) < S(w, b))
      [] op = "sltu" -> Flag(a < b)
      [] op = "and"  -> a & b
      [] op = "or"   -> a | b
      [] op = "xor"  -> a ^^ b
      [] op = "sll"  -> Shl(w, a, b % w)
      [] op = "srl"  -> Shr(a, b % w)
      [] op = "sra"  -> Trunc(w, Shr(S(w, a), b % w))

\* the ...w forms compute in the low word and sign extend the result
Rv64IntegerW(op, h, a, b) ==
    LET x == Lo(h, a) y == Lo(h, b) IN
    CASE op = "addw" -> Sext(h, 2*h, Trunc(h, x + y))
      [] op = "subw" -> Sext(h, 2*h, Trunc(h, x - y))
      [] op = "sllw" -> Sext(h, 2*h, Shl(h, x, y % h))
      [] op = "srlw" -> Sext(h, 2*h, Shr(x, y % h))
      [] op = "sraw" -> Trunc(2*h, Shr(S(h, x), y % h))

Rv64Integer(op, h, a, b) ==
    IF op \in IntegerWOps THEN Rv64IntegerW(op, h, a, b) ELSE Rv32Integer(op, 2*h, a, b)

\* the upper immediate arrives shifted; its low k bits (12) are cleared
Rv32Lui(w, k, imm) == imm - (imm % 2^k)
Rv32Auipc(w, k, imm, pc) == Trunc(w, imm - (imm % 2^k) + pc)
Rv64Lui(h, k, imm) == Sext(h, 2*h, imm - (imm % 2^k))
Rv64Auipc(h, k, imm, pc) == Trunc(2*h, Sext(h, 2*h, imm - (imm % 2^k)) + pc)

\* BranchConditional's conditions
BranchOps == {"beq", "bne", "blt", "bltu", "bge", "bgeu"}
Rv32Branch(op, w, a, b) ==
    CASE op = "beq"  -> a = b
      [] op = "bne"  -> a # b
      [] op = "blt"  -> S(w, a) < S(w, b)
      [] op = "bltu" -> a < b
      [] op = "bge"  -> S(w, a) >= S(w, b)
      [] op = "bgeu" -> a >= b
Rv64Branch(op, h, a, b) == Rv32Branch(op, 2*h, a, b)

-----------------------------------------------------------------------------
(* riscv_m_instructions.cc. *)

MOps == {"mul", "mulh", "mulhu", "mulhsu", "div", "divu", "rem", "remu"}
MWOps == {"mulw", "divw", "divuw", "remw", "remuw"}

Rv32M(op, w, a, b) ==
    LET x == S(w, a) y == S(w, b) overflow == y = -1 /\ x = MinS(w) IN
    CASE op = "mul"    -> Trunc(w, x * y)
      [] op = "mulh"   -> Trunc(w, Shr(x * y, w))
      [] op = "mulhu"  -> Trunc(w, Shr(a * b, w))
      [] op = "mulhsu" -> Trunc(w, Shr(x * b, w))
      [] op = "div"    -> IF b = 0 THEN MaxU(w)
                          ELSE IF overflow THEN a ELSE Trunc(w, TQuot(x, y))
      [] op = "divu"   -> IF b = 0 THEN MaxU(w) ELSE a \div b
      [] op = "rem"    -> IF b = 0 THEN a
                          ELSE IF overflow THEN 0 ELSE Trunc(w, TRem(x, y))
      [] op = "remu"   -> IF b = 0 THEN a ELSE a % b

\* the high half negated instead of the whole product
M_Rv64Mulhsu(w, a, b) ==
    LET x == S(w, a)  high == Shr(Abs(x) * b, w) IN Trunc(w, IF x < 0 THEN -high ELSE high)
\* there is no wider signed by unsigned product: the magnitude is multiplied
\* and the double width product negated
Rv64Mulhsu(w, a, b) ==
    LET x == S(w, a)
        product == Trunc(2*w, Abs(x) * b)
    IN  Shr(IF x < 0 THEN Trunc(2*w, -product) ELSE product, w)

Rv64MW(op, h, a, b) ==
    LET x == Lo(h, a) y == Lo(h, b) IN
    CASE op = "mulw"  -> Sext(h, 2*h, Trunc(h, S(h, x) * S(h, y)))
      [] op = "divw"  -> IF y = 0 THEN MaxU(2*h) ELSE Sext(h, 2*h, Rv32M("div", h, x, y))
      [] op = "divuw" -> IF y = 0 THEN MaxU(2*h) ELSE Sext(h, 2*h, x \div y)
      [] op = "remw"  -> Sext(h, 2*h, Rv32M("rem", h, x, y))
      [] op = "remuw" -> Sext(h, 2*h, IF y = 0 THEN x ELSE x % y)

Rv64M(op, h, a, b) ==
    IF op \in MWOps THEN Rv64MW(op, h, a, b)
    ELSE IF op = "mulhsu" THEN Rv64Mulhsu(2*h, a, b)
    ELSE Rv32M(op, 2*h, a, b)

-----------------------------------------------------------------------------
(* riscv_zicond_instructions.cc. *)

Rv32Zicond(op, rs1, rs2) == IF (op = "czero.eqz") = (rs2 = 0) THEN 0 ELSE rs1
Rv64Zicond(op, rs1, rs2) == Rv32Zicond(op, rs1, rs2)

-----------------------------------------------------------------------------
(* riscv_bitmanip_instructions.cc. *)

\* rotations by shifts, with the shift by zero kept apart
LOCAL RotateL(w, a, k) == IF k = 0 THEN a ELSE Shl(w, a, k) | Shr(a, w - k)
LOCAL RotateR(w, a, k) == IF k = 0 THEN a ELSE Shr(a, k) | Shl(w, a, w - k)
LOCAL OrBytes(w, by, a) ==
    MapThenSumSet(LAMBDA i : IF ByteOf(by, a, i) # 0 THEN MaxU(by) * 2^(by*i) ELSE 0, Bytes(w, by))
LOCAL SwapBytes(w, by, a) ==
    MapThenSumSet(LAMBDA i : ByteOf(by, a, i) * 2^(w - by - by*i), Bytes(w, by))

\* carry-less product: bit n of the result is the parity of the pairs of one
\* bits of a and b that meet there; Is are the bits of b the loop visits and
\* at is where bit 0 of the result lies in the full product
LOCAL CarryLess(w, a, b, Is, at) ==
    OfBits(w, [n \in 0 .. w-1 |->
        Parity({i \in Is : Bit(b, i) = 1 /\ n + at - i \in 0 .. w-1 /\ Bit(a, n + at - i) = 1})])

Rv32Logic(op, w, a, b) ==
    CASE op = "andn" -> a & Inv(w, b)
      [] op = "orn"  -> a | Inv(w, b)
      [] op = "xnor" -> Inv(w, a ^^ b)
Rv32Count(op, w, a) ==
    CASE op = "not"    -> Inv(w, a)
      [] op = "clz"    -> Leading(w, a)
      [] op = "ctz"    -> Trailing(w, a)
      [] op = "cpop"   -> Cardinality(Ones(w, a))
Rv32MinMax(op, w, a, b) ==
    CASE op = "max"  -> IF S(w, a) > S(w, b) THEN a ELSE b
      [] op = "maxu" -> Greater(a, b)
      [] op = "min"  -> IF S(w, a) < S(w, b) THEN a ELSE b
      [] op = "minu" -> Lesser(a, b)
Rv32Extend(op, w, by, a) ==
    CASE op = "sext.b" -> Sext(by, w, a % 2^by)
      [] op = "sext.h" -> Sext(2*by, w, a % 2^(2*by))
      [] op = "zext.h" -> a % 2^(2*by)
      [] op = "zext.b" -> a % 2^by
Rv32Rotate(op, w, a, b) == IF op = "rol" THEN RotateL(w, a, b % w) ELSE RotateR(w, a, b % w)
Rv32ByteOp(op, w, by, a) == IF op = "orc.b" THEN OrBytes(w, by, a) ELSE SwapBytes(w, by, a)

Rv32ShAdd(w, shift, a, b) == Trunc(w, b + a * 2^shift)
Rv32Clmul(w, a, b)  == CarryLess(w, a, b, 0 .. w-1, 0)
Rv32Clmulh(w, a, b) == CarryLess(w, a, b, 1 .. w-1, w)
\* the loop stops before the top bit of b
Rv32Clmulr(w, a, b) == CarryLess(w, a, b, 0 .. w-2, w - 1)
Rv32SingleBit(op, w, a, b) ==
    LET k == b % w IN
    CASE op = "bclr" -> a - Bit(a, k) * 2^k
      [] op = "bext" -> Bit(a, k)
      [] op = "binv" -> IF Bit(a, k) = 1 THEN a - 2^k ELSE a + 2^k
      [] op = "bset" -> a + (1 - Bit(a, k)) * 2^k

Rv64AddUw(h, a, b) == Trunc(2*h, b + Lo(h, a))
Rv64ShAdd(h, shift, a, b) == Rv32ShAdd(2*h, shift, a, b)
Rv64ShAddUw(h, shift, a, b) == Trunc(2*h, b + Lo(h, a) * 2^shift)
Rv64SlliUw(h, a, shift) == Trunc(2*h, Lo(h, a) * 2^shift)
Rv64Logic(op, h, a, b) == Rv32Logic(op, 2*h, a, b)
Rv64Count(op, h, a) ==
    CASE op = "clzw"  -> Leading(h, Lo(h, a))
      [] op = "ctzw"  -> Trailing(h, Lo(h, a))
      [] op = "cpopw" -> Cardinality(Ones(h, Lo(h, a)))
      [] OTHER        -> Rv32Count(op, 2*h, a)
\* cpopw's result type is the word: the upper half of rd stays
Rv64CpopwInto(h, rd, a) == RiscVUnaryOp(h, rd, Rv64Count("cpopw", h, a))
Rv64MinMax(op, h, a, b) == Rv32MinMax(op, 2*h, a, b)
Rv64Extend(op, h, by, a) == Rv32Extend(op, 2*h, by, a)
Rv64Rotate(op, h, a, b) ==
    CASE op = "rolw" -> Sext(h, 2*h, RotateL(h, Lo(h, a), b % h))
      [] op = "rorw" -> Sext(h, 2*h, RotateR(h, Lo(h, a), b % h))
      [] OTHER -> Rv32Rotate(op, 2*h, a, b)
Rv64ByteOp(op, h, by, a) == Rv32ByteOp(op, 2*h, by, a)
Rv64Clmul(w, a, b)  == Rv32Clmul(w, a, b)
Rv64Clmulh(w, a, b) == Rv32Clmulh(w, a, b)
Rv64Clmulr(w, a, b) == CarryLess(w, a, b, 0 .. w-1, w - 1)
Rv64SingleBit(op, h, a, b) == Rv32SingleBit(op, 2*h, a, b)

-----------------------------------------------------------------------------
(* riscv_b_instructions.cc: a second set of RV64 bit operations. *)

BShNadd(h, shift, a, b)   == Trunc(2*h, a * 2^shift + b)
BShNadduw(h, shift, a, b) == Trunc(2*h, Lo(h, a) * 2^shift + b)
BAddUw(h, a, b)           == Trunc(2*h, Lo(h, a) + b)
BSlliuw(h, a, shift)      == Trunc(2*h, Lo(h, a) * 2^shift)
\* xnor is written a ^ ~b
BLogic(op, h, a, b) ==
    CASE op = "andn" -> a & Inv(2*h, b)
      [] op = "orn"  -> a | Inv(2*h, b)
      [] op = "xnor" -> a ^^ Inv(2*h, b)
\* absl::countl_zero, countr_zero, popcount
BCount(op, h, a) ==
    CASE op = "clz"   -> Leading(2*h, a)
      [] op = "clzw"  -> Leading(h, Lo(h, a))
      [] op = "ctz"   -> Trailing(2*h, a)
      [] op = "ctzw"  -> Trailing(h, Lo(h, a))
      [] op = "cpop"  -> Cardinality(Ones(2*h, a))
      [] op = "cpopw" -> Cardinality(Ones(h, Lo(h, a)))
BMinMax(op, h, a, b) ==
    CASE op = "max"  -> IF S(2*h, a) < S(2*h, b) THEN b ELSE a
      [] op = "maxu" -> Greater(a, b)
      [] op = "min"  -> IF S(2*h, b) < S(2*h, a) THEN b ELSE a
      [] op = "minu" -> Lesser(a, b)
\* the sign bit is tested and the upper bits or'ed in
BExtend(op, h, by, a) ==
    LET sign(k) == IF Bit(a, k - 1) = 1 THEN a | (MaxU(2*h) - MaxU(k)) ELSE a & MaxU(k) IN
    CASE op = "sext.h" -> sign(2*by)
      [] op = "sext.b" -> sign(by)
      [] op = "zext.w" -> a & MaxU(h)
      [] op = "zext.h" -> a & MaxU(2*by)
\* absl::rotl, absl::rotr
BRotate(op, h, a, b) ==
    LET w == 2*h k == b % w kw == b % h x == Lo(h, a) IN
    CASE op = "rol"  -> Shl(w, a, k) + Shr(a, w - k)
      [] op = "ror"  -> Shr(a, k) + Shl(w, a, w - k)
      [] op = "rolw" -> Sext(h, w, Trunc(h, Shl(h, x, kw) + Shr(x, h - kw)))
      [] op = "rorw" -> Sext(h, w, Trunc(h, Shr(x, kw) + Shl(h, x, h - kw)))
BOrcb(h, by, a) == OrBytes(2*h, by, a)
\* byte i of the input goes to byte sizeof - 1 - i
BRev8(h, by, a) == SwapBytes(2*h, by, a)
=============================================================================
