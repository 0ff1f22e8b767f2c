-------------------------- MODULE InstructionFields --------------------------
(* Instruction words and their fields (riscv_format32.bin_fmt,                *)
(* riscv_format16.bin_fmt).  A word is the set of its one bits, a value the   *)
(* set of the one bits of its 32-bit two's complement.  A field lists the     *)
(* positions of its bits, the highest first, overlays with their constants.   *)
EXTENDS Integers, Sequences

WordBit == 0 .. 31
One == 32       \* positions that stand for a constant bit
Zero == 33

Bits(hi, lo) == [i \in 1 .. hi - lo + 1 |-> hi - i + 1]
Zeros(n) == [i \in 1 .. n |-> Zero]
Unsigned(bits) == [bits |-> bits, signed |-> FALSE]
Signed32(bits) == [bits |-> bits, signed |-> TRUE]

\* what the generated Extract and Insert functions do
Extract(f, word) ==
    LET n == Len(f.bits)
        v == {k \in 0 .. n - 1 : f.bits[n - k] \in word \cup {One}}
    IN  IF f.signed /\ n - 1 \in v THEN v \cup (n .. 31) ELSE v
Insert(f, v) ==
    LET n == Len(f.bits) IN {p \in WordBit : \E k \in v : k < n /\ f.bits[n - k] = p}

\* the bits of a number, and the number of bits that are not negative
NumberBits(n) == {k \in 0 .. 30 : (n \div 2^k) % 2 = 1} \cup (IF n < 0 THEN {31} ELSE {})
BitsNumber(v) == LET at[k \in -1 .. 30] == IF k = -1 THEN 0
                                           ELSE at[k - 1] + (IF k \in v THEN 2^k ELSE 0)
                 IN  at[30]

RType == [rs2 |-> Unsigned(Bits(24, 20)), rs1 |-> Unsigned(Bits(19, 15)), func3 |-> Unsigned(Bits(14, 12)),
          rd |-> Unsigned(Bits(11, 7)), r_uimm5 |-> Unsigned(Bits(24, 20))]
RSType == [r_uimm6 |-> Unsigned(Bits(25, 20))]
R4Type == [rs3 |-> Unsigned(Bits(31, 27)), rs2 |-> Unsigned(Bits(24, 20)), rs1 |-> Unsigned(Bits(19, 15)),
           rd |-> Unsigned(Bits(11, 7))]
IType == [imm12 |-> Signed32(Bits(31, 20)), u_imm12 |-> Unsigned(Bits(31, 20)), i_uimm5 |-> Unsigned(Bits(19, 15))]
SType == [s_imm |-> Signed32(Bits(31, 25) \o Bits(11, 7))]
BType == [b_imm |-> Signed32(<<31, 7>> \o Bits(30, 25) \o Bits(11, 8) \o <<Zero>>)]
UType == [u_imm |-> Unsigned(Bits(31, 12) \o Zeros(12))]
JType == [j_imm |-> Signed32(<<31>> \o Bits(19, 12) \o <<20>> \o Bits(30, 21) \o <<Zero>>)]
Fence == [pred |-> Unsigned(Bits(27, 24)), succ |-> Unsigned(Bits(23, 20))]
AType == [aq |-> Unsigned(<<26>>), rl |-> Unsigned(<<25>>), rs2 |-> Unsigned(Bits(24, 20)),
          rs1 |-> Unsigned(Bits(19, 15)), rd |-> Unsigned(Bits(11, 7))]
VMem == [nf |-> Unsigned(Bits(31, 29)), vs3 |-> Unsigned(Bits(11, 7)), vd |-> Unsigned(Bits(11, 7))]
VArith == [vm |-> Unsigned(<<25>>), vs2 |-> Unsigned(Bits(24, 20)), vs1 |-> Unsigned(Bits(19, 15)),
           rs1 |-> Unsigned(Bits(19, 15)), simm5 |-> Signed32(Bits(19, 15)), uimm5 |-> Unsigned(Bits(19, 15)),
           uimm6 |-> Unsigned(<<26>> \o Bits(19, 15)), vd |-> Unsigned(Bits(11, 7)), rd |-> Unsigned(Bits(11, 7))]
VConfig == [zimm11 |-> Signed32(Bits(30, 20)), zimm10 |-> Signed32(Bits(29, 20))]

\* a compressed register: 8 plus three bits
CReg(hi, lo) == Unsigned(<<Zero, One>> \o Bits(hi, lo))
CSS == [css_imm_w |-> Unsigned(Bits(8, 7) \o Bits(12, 9) \o Zeros(2)),
        css_imm_d |-> Unsigned(Bits(9, 7) \o Bits(12, 10) \o Zeros(3))]
CL == [cl_rs1 |-> CReg(9, 7), cl_rd |-> CReg(4, 2),
       cl_imm_w |-> Unsigned(<<5>> \o Bits(12, 10) \o <<6>> \o Zeros(2)),
       cl_imm_d |-> Unsigned(Bits(6, 5) \o Bits(12, 10) \o Zeros(3))]
CS == [cs_rs1 |-> CReg(9, 7), cs_rs2 |-> CReg(4, 2),
       cs_imm_w |-> Unsigned(<<5>> \o Bits(12, 10) \o <<6>> \o Zeros(2)),
       cs_imm_d |-> Unsigned(Bits(6, 5) \o Bits(12, 10) \o Zeros(3))]
CJ == [jimm |-> Signed32(<<12, 8, 10, 9, 6, 7, 2, 11, 5, 4, 3, Zero>>)]
CR == [rs1 |-> Unsigned(Bits(11, 7)), rs2 |-> Unsigned(Bits(6, 2))]
CB == [bimm |-> Signed32(<<12, 6, 5, 2, 11, 10, 4, 3, Zero>>)]
CI == [imm6 |-> Signed32(<<12>> \o Bits(6, 2)), uimm6 |-> Unsigned(<<12>> \o Bits(6, 2)),
       imm18 |-> Signed32(<<12>> \o Bits(6, 2) \o Zeros(12)),
       ci_imm10 |-> Signed32(<<12, 4, 3, 5, 2, 6>> \o Zeros(4)),
       ci_imm_w |-> Unsigned(<<3, 2, 12, 6, 5, 4>> \o Zeros(2)),
       ci_imm_d |-> Unsigned(<<4, 3, 2, 12, 6, 5>> \o Zeros(3))]
CIW == [ciw_imm10 |-> Unsigned(<<10, 9, 8, 7, 12, 11, 5, 6>> \o Zeros(2))]
=============================================================================
