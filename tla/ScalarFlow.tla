----------------------------- MODULE ScalarFlow -----------------------------
(***************************************************************************)
(* The scalar instructions that move control and data: jumps, branches,    *)
(* loads and stores (riscv_i_instructions.cc, riscv_instruction_helpers.h) *)
(* and the stack frame, register pair and table jump instructions of Zcmp  *)
(* and Zcmt (riscv_zc_instructions.cc, operands in riscv_zc_getters.h and  *)
(* riscv_zc.isa).                                                          *)
(*                                                                         *)
(* An instruction maps a hart to a hart.  The hart s is a record:          *)
(*   x     the registers, numbers to words                                 *)
(*   mem   the bytes stored so far; fill picks what the others hold        *)
(*   pc    the address of the instruction       size  its bytes            *)
(*   next  the target a branch submitted, or NoBranch                      *)
(*   trap  <<>> or <<cause, trap value>>                                   *)
(* p gives the widths: p.by bits in a byte, p.xb bytes in a register (4 in *)
(* the namespace RV32, 8 in RV64).  Memory is addressed by 8 bytes         *)
(* (uint64_t) in both.                                                     *)
(***************************************************************************)
EXTENDS Words, Sequences

NoBranch == -1
XLen(p) == p.by * p.xb
ALen(p) == p.by * 8

\* Memory and the data buffers passed to it: bytes indexed from 0.
ByteIn(p, s, a) == IF a \in DOMAIN s.mem THEN s.mem[a] ELSE (a + s.fill) % 2^p.by
LoadMemory(p, s, a, n) == [k \in 0 .. n-1 |-> ByteIn(p, s, Trunc(ALen(p), a + k))]
StoreMemory(p, s, a, n, db) ==
    LET at(k) == Trunc(ALen(p), a + k) IN
    [s EXCEPT !.mem = [b \in DOMAIN s.mem \cup {at(k) : k \in 0 .. n-1} |->
        LET k == Trunc(ALen(p), b - a) IN IF k < n THEN db[k] ELSE s.mem[b]]]
ByteAt(p, v, k) == Shr(v, p.by * k) % 2^p.by
Get(p, db, from, n) == MapThenSumSet(LAMBDA k : db[from + k] * 2^(p.by * k), 0 .. n-1)

Trap(s, cause, tval) == [s EXCEPT !.trap = <<cause, tval>>]

-----------------------------------------------------------------------------
(* Jumps and branches.  c: misa has the compressed extension. *)

IsTargetMisaligned(c, target) == ~c /\ target % 4 # 0
Even(t) == t - (t % 2)
LOCAL JumpAndLink(p, s, c, target, rd) ==
    IF IsTargetMisaligned(c, target) THEN Trap(s, "InstructionAddressMisaligned", target)
    ELSE [s EXCEPT !.next = target, !.x[rd] = Trunc(XLen(p), s.pc + s.size)]

Rv32Jal(p, s, c, offset, rd) == JumpAndLink(p, s, c, Even(Trunc(XLen(p), offset + s.pc)), rd)
Rv32Jalr(p, s, c, base, offset, rd) == JumpAndLink(p, s, c, Even(Trunc(XLen(p), offset + base)), rd)
Rv64Jal(p, s, c, offset, rd) == JumpAndLink(p, s, c, Even(Trunc(XLen(p), offset + s.pc)), rd)
Rv64Jalr(p, s, c, base, offset, rd) == JumpAndLink(p, s, c, Even(Trunc(XLen(p), offset + base)), rd)

\* a taken branch keeps bit 0 of its target and traps with its own address
BranchConditional(p, s, c, taken, offset) ==
    LET target == Trunc(XLen(p), offset + s.pc) IN
    CASE ~taken -> s
      [] taken /\ ~c /\ target % 4 # 0 -> Trap(s, "InstructionAddressMisaligned", s.pc)
      [] OTHER -> [s EXCEPT !.next = target]

-----------------------------------------------------------------------------
(* Loads, in two parts (the child instruction writes the register when the *)
(* data is there), and stores.                                             *)

RVLoad(p, s, base, offset, n) == LoadMemory(p, s, Trunc(XLen(p), base + offset), n)
RVLoadChild(p, s, db, n, signed, rd) ==
    LET v == Get(p, db, 0, n) IN
    [s EXCEPT !.x[rd] = IF signed THEN Sext(p.by * n, XLen(p), v) ELSE v]
RVStore(p, s, base, offset, n, value) ==
    StoreMemory(p, s, Trunc(XLen(p), base + offset), n, [k \in 0 .. n-1 |-> ByteAt(p, value, k)])

Access(n, signed) == [n |-> n, signed |-> signed]
Rv32Load == [lb |-> Access(1, TRUE), lbu |-> Access(1, FALSE), lh |-> Access(2, TRUE),
             lhu |-> Access(2, FALSE), lw |-> Access(4, TRUE)]
Rv64Load == [lb |-> Access(1, TRUE), lbu |-> Access(1, FALSE), lh |-> Access(2, TRUE),
             lhu |-> Access(2, FALSE), lw |-> Access(4, TRUE), lwu |-> Access(4, FALSE),
             ld |-> Access(8, TRUE)]
Rv32Store == [sb |-> 1, sh |-> 2, sw |-> 4, sd |-> 8]
Rv64Store == [sb |-> 1, sh |-> 2, sw |-> 4, sd |-> 8]

-----------------------------------------------------------------------------
(* Zcmp.  The list operands of rlist, and the destinations of the pops as   *)
(* the two namespaces' instruction sets declare them.                       *)

LOCAL Saved == <<1, 8, 9>> \o [i \in 1 .. 10 |-> 17 + i]        \* ra, s0 - s11
ZcmpListSources(rlist) ==
    SubSeq(Saved, 1, CASE rlist < 4 -> 0 [] rlist = 15 -> 13 [] OTHER -> rlist - 3)
ZcmpListDests(rlist) ==
    SubSeq(Saved, 1, CASE rlist < 4 -> 0 [] rlist = 15 -> 13 [] OTHER -> rlist - 3)

sp == 2
ra == 1
a0 == 10
PopDests(rlist) == ZcmpListDests(rlist) \o <<sp>>               \* zcmp64 only
PopDestsZcmp32(rlist) == <<sp>> \o ZcmpListDests(rlist)         \* zcmp32

Rv32StackAdjBase == <<0, 0, 0, 0, 16, 16, 16, 16, 32, 32, 32, 32, 48, 48, 48, 64>>
Rv64StackAdjBase == <<0, 0, 0, 0, 16, 16, 32, 32, 48, 48, 64, 64, 80, 80, 96, 112>>
StackAdj(p, spimm, rlist) ==
    spimm + (IF p.xb = 4 THEN Rv32StackAdjBase ELSE Rv64StackAdjBase)[rlist + 1]

\* the address is computed in 64 bits, the new sp in the register's width
ZCmpPush(p, s, spimm, rlist) ==
    LET regs == ZcmpListSources(rlist)
        n == p.xb * Len(regs)
        stored == StoreMemory(p, s, s.x[sp] - n, n,
                              [k \in 0 .. n-1 |-> ByteAt(p, s.x[regs[1 + k \div p.xb]], k % p.xb)])
    IN  [stored EXCEPT !.x[sp] = Trunc(XLen(p), @ - StackAdj(p, spimm, rlist))]

\* destination i takes word i of the frame, the one after the last takes sp
M_ZCmpPopHelper(p, s, spimm, rlist, dests) ==
    LET size == Len(dests) - 1
        db == LoadMemory(p, s, s.x[sp], p.xb * size)
        top == Trunc(XLen(p), s.x[sp] + StackAdj(p, spimm, rlist))
        value == [i \in 1 .. size + 1 |-> IF i > size THEN top ELSE Get(p, db, p.xb * (i - 1), p.xb)]
    IN  [s EXCEPT !.x = [r \in DOMAIN s.x |->
            LET at == {i \in DOMAIN dests : dests[i] = r} IN
            IF at = {} THEN s.x[r] ELSE value[Max(at)]]]
ZCmpPopHelper(p, s, spimm, rlist, dests) ==
    LET size == Len(dests) - 1
        top == Trunc(XLen(p), s.x[sp] + StackAdj(p, spimm, rlist))
        db == LoadMemory(p, s, top - p.xb * size, p.xb * size)
        value == [i \in 1 .. size + 1 |-> IF i > size THEN top ELSE Get(p, db, p.xb * (i - 1), p.xb)]
    IN  [s EXCEPT !.x = [r \in DOMAIN s.x |->
            LET at == {i \in DOMAIN dests : dests[i] = r} IN
            IF at = {} THEN s.x[r] ELSE value[Max(at)]]]

ZCmpPop(p, s, spimm, rlist, dests) == ZCmpPopHelper(p, s, spimm, rlist, dests)
\* the return address is read after the pop
ZCmpPopRet(p, s, spimm, rlist, dests) ==
    LET popped == ZCmpPopHelper(p, s, spimm, rlist, dests)
    IN  [popped EXCEPT !.next = popped.x[ra]]
ZCmpPopRetz(p, s, spimm, rlist, dests) ==
    LET popped == ZCmpPopHelper(p, s, spimm, rlist, dests)
    IN  [popped EXCEPT !.x[a0] = 0, !.next = popped.x[ra]]

ZCmpMvTwoRegs(s, src1, src2, dst1, dst2) ==
    LET first == [s EXCEPT !.x[dst1] = s.x[src1]]
    IN  [first EXCEPT !.x[dst2] = first.x[src2]]

\* the four frame instructions of each namespace; dests: the registers that
\* take the frame's words, then the one that takes sp
LOCAL Frame(p, op, s, spimm, rlist, dests) ==
    CASE op = "cm.push"    -> ZCmpPush(p, s, spimm, rlist)
      [] op = "cm.pop"     -> ZCmpPop(p, s, spimm, rlist, dests)
      [] op = "cm.popret"  -> ZCmpPopRet(p, s, spimm, rlist, dests)
      [] op = "cm.popretz" -> ZCmpPopRetz(p, s, spimm, rlist, dests)
Rv32(by) == [by |-> by, xb |-> 4]
Rv64(by) == [by |-> by, xb |-> 8]
Rv32Zcmp(by, op, s, spimm, rlist, dests) == Frame(Rv32(by), op, s, spimm, rlist, dests)
Rv64Zcmp(by, op, s, spimm, rlist, dests) == Frame(Rv64(by), op, s, spimm, rlist, dests)

-----------------------------------------------------------------------------
(* Zcmt: jumps through the table of the jvt CSR. *)

ZCmtJtHelper(p, s, jvt, index) ==
    LET entry == Trunc(XLen(p), jvt - (jvt % 64) + index * p.xb)
    IN  IF jvt % 64 # 0 THEN Trap(s, "IllegalInstruction", 0)
        ELSE [s EXCEPT !.next = Get(p, LoadMemory(p, s, entry, p.xb), 0, p.xb)]
ZCmtJt(p, s, jvt, index) == ZCmtJtHelper(p, s, jvt, index)
\* links even when the helper trapped
ZCmtJalt(p, s, jvt, index) ==
    [ZCmtJtHelper(p, s, jvt, index) EXCEPT !.x[ra] = Trunc(XLen(p), s.pc + s.size)]

Rv32Zcmt(by, link, s, jvt, index) ==
    IF link THEN ZCmtJalt(Rv32(by), s, jvt, index) ELSE ZCmtJt(Rv32(by), s, jvt, index)
Rv64Zcmt(by, link, s, jvt, index) ==
    IF link THEN ZCmtJalt(Rv64(by), s, jvt, index) ELSE ZCmtJt(Rv64(by), s, jvt, index)
=============================================================================
