------------------------------ MODULE Assembler ------------------------------
(* The RV64G assembler (riscv64g_as_main.cc, riscv64g_bin_encoder_interface.cc, *)
(* riscv_bin_setters.h and .cc): a line is matched to an opcode and the texts   *)
(* of its operands become bits of the instruction word and relocations, one     *)
(* operand at a time.  The words, and any other word, are then given to the     *)
(* operand getters of the decoders (module Operands).  The generated matcher    *)
(* and encoder are external: they start from the bits of the opcode and OR in   *)
(* what the setters return.                                                     *)
EXTENDS Operands

CONSTANTS Registers,    \* the register numbers that are written
          Numbers,      \* the numbers that are written
          LongSymbols,  \* symbols, and their values
          ShortSymbols, \* the same for symbols of a single character
          Csrs,         \* the CSR numbers whose names are written
          address       \* of the instruction

VARIABLES opcode,       \* of the line being encoded
          texts,        \* of the operands encoded so far
          word,         \* what they were encoded to
          relocations,
          status        \* "line", "encoding", "done" or "decoding"

vars == <<opcode, texts, word, relocations, status>>

Symbols == LongSymbols @@ ShortSymbols
Relos == {"", "%lo", "%hi", "%pcrel_lo", "%pcrel_hi"}

\* Texts: registers by file and number, whatever their alias; numbers, symbols
\* and relocation functions of them as [relo, arg]; CSR names; suffixes.
Text == ({"x", "f", "d"} \X Registers) \cup ({"csr"} \X Csrs) \cup {<<"", 0>>, <<".aq", 0>>, <<".rl", 0>>}
          \cup ({"num"} \X [relo : {"", "%lo"}, arg : Numbers])
          \cup ({"sym"} \X [relo : Relos, arg : DOMAIN Symbols \cup {"undefined"}])

-----------------------------------------------------------------------------
(* riscv_bin_setters.h: texts to bits.  A StatusOr is the set of its value, or *)
(* empty; a setter returns the bits it sets.                                   *)
Invalid == {}

kRegisterList == {"x"} \X Registers
kCRegisterList == {t \in kRegisterList : t[2] \in 8 .. 15}
kFRegisterList == {"f"} \X Registers
kDRegisterList == {"d"} \X Registers
kDCRegisterList == {t \in kDRegisterList : t[2] \in 8 .. 15}
kCsrRegisterList == {"csr"} \X Csrs

InsertNamed(list, f, text) == IF text \in list THEN {Insert(f, NumberBits(text[2]))} ELSE Invalid
InsertFlag(name, f, text) ==
    CASE text[1] = "" -> {Insert(f, {})}
      [] text[1] = name -> {Insert(f, {0})}
      [] OTHER -> Invalid

\* a number, or the value of the symbol; an unsigned type takes no minus sign
SimpleTextToInt(signed, text) ==
    CASE text[1] = "num" /\ (signed \/ text[2].arg >= 0) -> {text[2].arg}
      [] text[1] = "sym" /\ text[2].arg \in DOMAIN Symbols -> {Symbols[text[2].arg]}
      [] OTHER -> Invalid
\* mutant: the address of the instruction is forgotten
M_InsertInt(signed, base, f, text) == {Insert(f, NumberBits(value)) : value \in SimpleTextToInt(signed, text)}
InsertInt(signed, base, f, text) ==
    {Insert(f, NumberBits(value - base)) : value \in SimpleTextToInt(signed, text)}

\* the setters, by how they read the text and where they put it
Named_(list, f) == [kind |-> "list", list |-> list, f |-> f]
Flag(name, f) == [kind |-> "flag", name |-> name, f |-> f]
Int32(f) == [kind |-> "int", signed |-> TRUE, base |-> 0, f |-> f]
Uint32(f) == [kind |-> "int", signed |-> FALSE, base |-> 0, f |-> f]
PcRelative(setter) == [setter EXCEPT !.base = address]

Set(s, text) ==
    CASE s.kind = "list" -> InsertNamed(s.list, s.f, text)
      [] s.kind = "flag" -> InsertFlag(s.name, s.f, text)
      [] s.kind = "int" -> InsertInt(s.signed, s.base, s.f, text)

SourceOpBinSetters1 ==
    [kAAq |-> Flag(".aq", AType.aq), kARl |-> Flag(".rl", AType.rl), kBImm12 |-> PcRelative(Uint32(BType.b_imm)),
     kC3drs2 |-> Named_(kDCRegisterList, CS.cs_rs2), kC3rs1 |-> Named_(kCRegisterList, CL.cl_rs1),
     kC3rs2 |-> Named_(kCRegisterList, CS.cs_rs2), kCSRUimm5 |-> Uint32(IType.i_uimm5),
     kCdrs2 |-> Named_(kDRegisterList, CR.rs2), kCrs1 |-> Named_(kRegisterList, CR.rs1),
     kCrs2 |-> Named_(kRegisterList, CR.rs2), kCsr |-> Named_(kCsrRegisterList, IType.u_imm12),
     kDrs1 |-> Named_(kDRegisterList, RType.rs1), kDrs2 |-> Named_(kDRegisterList, RType.rs2),
     kDrs3 |-> Named_(kDRegisterList, R4Type.rs3)]
SourceOpBinSetters2 ==
    [kFrs1 |-> Named_(kFRegisterList, RType.rs1), kFrs2 |-> Named_(kFRegisterList, RType.rs1),
     kFrs3 |-> Named_(kFRegisterList, R4Type.rs3), kICbImm8 |-> PcRelative(Int32(CB.bimm)),
     kICiImm6 |-> Int32(CI.imm6), kICiImm612 |-> Int32(CI.imm18), kICiImm6x16 |-> Int32(CI.ci_imm10),
     kICiUimm6 |-> Int32(CI.uimm6), kICiUimm6x4 |-> Int32(CI.ci_imm_w), kICiUimm6x8 |-> Int32(CI.ci_imm_d),
     kICiwUimm8x4 |-> Int32(CIW.ciw_imm10), kICjImm11 |-> PcRelative(Int32(CJ.jimm)),
     kIClUimm5x4 |-> Uint32(CL.cl_imm_w), kIClUimm5x8 |-> Int32(CL.cl_imm_d)]
SourceOpBinSetters3 ==
    [kICssUimm6x4 |-> Uint32(CS.cs_imm_w), kICssUimm6x8 |-> Uint32(CS.cs_imm_d), kIImm12 |-> Int32(IType.imm12),
     kIUimm5 |-> Uint32(RType.r_uimm5), kIUimm6 |-> Uint32(RSType.r_uimm6), kJImm12 |-> Int32(IType.imm12),
     kJImm20 |-> PcRelative(Int32(JType.j_imm)), kPred |-> Uint32(Fence.pred),
     kRd |-> Named_(kRegisterList, RType.rd), kRm |-> Named_(kRegisterList, R4Type.rs3),
     kRs1 |-> Named_(kRegisterList, RType.rs1), kRs2 |-> Named_(kRegisterList, RType.rs2),
     kSImm12 |-> Uint32(SType.s_imm), kSucc |-> Uint32(Fence.succ), kUImm20 |-> Uint32(UType.u_imm)]
source_op_map == SourceOpBinSetters1 @@ SourceOpBinSetters2 @@ SourceOpBinSetters3

dest_op_map ==
    [kC3drd |-> Named_(kDCRegisterList, CL.cl_rd), kC3rd |-> Named_(kCRegisterList, CL.cl_rd),
     kC3rs1 |-> Named_(kCRegisterList, CS.cs_rs1), kCsr |-> Named_(kCsrRegisterList, IType.u_imm12),
     kDrd |-> Named_(kDRegisterList, RType.rd), kFrd |-> Named_(kFRegisterList, RType.rd),
     kRd |-> Named_(kRegisterList, RType.rd)]

\* riscv64g_bin_encoder_interface.cc: an operand without a setter is not found
GetSrcOpEncoding(name, text) ==
    IF name \in DOMAIN source_op_map THEN Set(source_op_map[name], text) ELSE Invalid
GetDestOpEncoding(name, text) ==
    IF name \in DOMAIN dest_op_map THEN Set(dest_op_map[name], text) ELSE Invalid

-----------------------------------------------------------------------------
(* riscv_bin_setters.cc: relocations.  kSymRe wants two characters or more: of *)
(* a function of a shorter symbol, or of a number, it makes a function whose   *)
(* name has lost its last letter and a symbol that has gained it.              *)
Relocation(sym, type) == {<<[sym |-> sym, type |-> type]>>}
NoRelocation == {<<>>}

kSymRe(text) ==
    CASE text[1] = "sym" /\ text[2].arg \notin DOMAIN ShortSymbols -> <<text[2].relo, text[2].arg>>
      [] text[1] \in {"sym", "num"} /\ (text[1] = "sym" => text[2].arg \in DOMAIN ShortSymbols)
           /\ text[2].relo # "" -> <<"%cut", "garbled">>
      [] OTHER -> <<>>

\* a relocation for each of two functions, none for a plain symbol
RelocateImm12(lo, pcrel_lo, text) ==
    LET m == kSymRe(text)
    IN  CASE m = <<>> \/ m[1] = "" -> NoRelocation
          [] m[1] = "%lo" -> Relocation(m[2], lo)
          [] m[1] = "%pcrel_lo" -> Relocation(m[2], pcrel_lo)
          [] OTHER -> Invalid
RelocateAddiIImm12(text) == RelocateImm12("kLo12I", "kPcrelLo12I", text)
RelocateSdSImm12(text) == RelocateImm12("kLo12S", "kPcrelLo12S", text)
RelocateJJImm20(text) == LET m == kSymRe(text) IN IF m = <<>> THEN NoRelocation ELSE Relocation(m[2], "kJal")
RelocateLuiUImm20(text) == LET m == kSymRe(text) IN IF m = <<>> THEN NoRelocation ELSE Relocation(m[2], "kHi20")
RelocateJrJImm12(text) ==
    LET m == kSymRe(text)
    IN  IF m # <<>> /\ m[1] = "%pcrel_lo" THEN Relocation(m[2], "kPcrelLo12I") ELSE NoRelocation
RelocateAuipcUImm20(text) ==
    LET m == kSymRe(text)
    IN  IF m # <<>> /\ m[1] = "%pcrel_hi" THEN Relocation(m[2], "kPcrelHi20") ELSE NoRelocation

AppendSrcOpRelocation(op, name, text) ==
    CASE op = "addi" /\ name = "kIImm12" -> RelocateAddiIImm12(text)
      [] op \in {"jal", "j"} /\ name = "kJImm20" -> RelocateJJImm20(text)
      [] op \in {"jr", "jalr"} /\ name = "kJImm12" -> RelocateJrJImm12(text)
      [] op = "lui" /\ name = "kUImm20" -> RelocateLuiUImm20(text)
      [] op = "sd" /\ name = "kSImm12" -> RelocateSdSImm12(text)
      [] op = "auipc" /\ name = "kUImm20" -> RelocateAuipcUImm20(text)
      [] OTHER -> NoRelocation
-----------------------------------------------------------------------------
(* Lines: the bits that riscv64g.bin_fmt fixes for an opcode, and its operands *)
(* in the order riscv64g.isa writes them, an operand that is written twice     *)
(* (c.srli a0, a0, 3) once.  One opcode for every combination of operands.     *)
From(name) == <<"source", name>>
To(name) == <<"dest", name>>
Line(bits, operands) == [bits |-> NumberBits(bits), operands |-> operands]

BaseLines ==
    [addi |-> Line(\h13, <<To("kRd"), From("kRs1"), From("kIImm12")>>),
     add |-> Line(\h33, <<To("kRd"), From("kRs1"), From("kRs2")>>),
     slli |-> Line(\h1013, <<To("kRd"), From("kRs1"), From("kIUimm6")>>),
     slliw |-> Line(\h101b, <<To("kRd"), From("kRs1"), From("kIUimm5")>>),
     lui |-> Line(\h37, <<To("kRd"), From("kUImm20")>>),
     auipc |-> Line(\h17, <<To("kRd"), From("kUImm20")>>),
     jal |-> Line(\h6f, <<To("kRd"), From("kJImm20")>>),
     j |-> Line(\h6f, <<From("kJImm20")>>),
     jalr |-> Line(\h67, <<To("kRd"), From("kRs1"), From("kJImm12")>>),
     jr |-> Line(\h67, <<From("kRs1"), From("kJImm12")>>),
     beq |-> Line(\h63, <<From("kRs1"), From("kRs2"), From("kBImm12")>>),
     sd |-> Line(\h3023, <<From("kRs2"), From("kSImm12"), From("kRs1")>>),
     amoandw |-> Line(\h6000202f, <<From("kAAq"), From("kARl"), To("kRd"), From("kRs2"), From("kRs1")>>),
     csrrw |-> Line(\h1073, <<To("kRd"), From("kCsr"), From("kRs1")>>),
     csrrwi |-> Line(\h5073, <<To("kRd"), From("kCsr"), From("kCSRUimm5")>>),
     csrrw_nr |-> Line(\h1073, <<To("kCsr"), From("kRs1")>>),
     fmadd_s |-> Line(\h43, <<To("kFrd"), From("kFrs1"), From("kFrs2"), From("kFrs3")>>),
     fsw |-> Line(\h2027, <<From("kFrs2"), From("kSImm12"), From("kRs1")>>),
     fmadd_d |-> Line(\h2000043, <<To("kDrd"), From("kDrs1"), From("kDrs2"), From("kDrs3")>>)]
CompressedLines ==
    [clw |-> Line(\h4000, <<To("kC3rd"), From("kIClUimm5x4"), From("kC3rs1")>>),
     cfld |-> Line(\h2000, <<To("kC3drd"), From("kIClUimm5x8"), From("kC3rs1")>>),
     csw |-> Line(\hc000, <<From("kC3rs2"), From("kIClUimm5x4"), From("kC3rs1")>>),
     cfsd |-> Line(\ha000, <<From("kC3drs2"), From("kIClUimm5x8"), From("kC3rs1")>>),
     cj |-> Line(\ha001, <<From("kICjImm11")>>),
     cjr |-> Line(\h8002, <<From("kCrs1")>>),
     cbeqz |-> Line(\hc001, <<From("kC3rs1"), From("kICbImm8")>>),
     cli |-> Line(\h4001, <<To("kRd"), From("kICiImm6")>>),
     clui |-> Line(\h6001, <<To("kRd"), From("kICiImm612")>>),
     cslli |-> Line(\h2, <<To("kRd"), From("kICiUimm6")>>),
     csrli |-> Line(\h8001, <<To("kC3rs1"), From("kICiUimm6")>>),
     cmv |-> Line(\h8002, <<To("kRd"), From("kCrs2")>>),
     cfsdsp |-> Line(\ha002, <<From("kCdrs2"), From("kICssUimm6x8"), From("kX2")>>),
     cldsp |-> Line(\h6002, <<To("kRd"), From("kICiUimm6x8"), From("kX2")>>),
     caddi4spn |-> Line(0, <<To("kC3rd"), From("kX2"), From("kICiwUimm8x4")>>)]
Lines == BaseLines @@ CompressedLines

-----------------------------------------------------------------------------
Init == opcode = "none" /\ texts = <<>> /\ word = {} /\ relocations = <<>> /\ status = "line"
NextLine == opcode' = "none" /\ texts' = <<>> /\ word' = {} /\ relocations' = <<>> /\ status' = "line"

\* the matcher has found the opcode of a line
StartLine ==
    /\ status = "line"
    /\ \E op \in DOMAIN Lines : opcode' = op /\ word' = Lines[op].bits
    /\ status' = "encoding"
    /\ UNCHANGED <<texts, relocations>>

\* the next operand of the line; a setter or a relocation that fails ends it
Operand == Lines[opcode].operands[Len(texts) + 1]
EncodeOperand(text) ==
    LET name == Operand[2]
        bits == IF Operand[1] = "source" THEN GetSrcOpEncoding(name, text) ELSE GetDestOpEncoding(name, text)
        relo == IF Operand[1] = "source" THEN AppendSrcOpRelocation(opcode, name, text) ELSE NoRelocation
    IN  /\ status = "encoding"
        /\ \/ \E b \in bits, r \in relo :
                /\ word' = word \cup b
                /\ relocations' = relocations \o r
                /\ texts' = Append(texts, text)
                /\ status' = IF Len(texts') = Len(Lines[opcode].operands) THEN "done" ELSE "encoding"
                /\ UNCHANGED opcode
           \/ /\ bits = {} \/ relo = {}
              /\ NextLine

\* the word is written to the section, the next line is read
FinishLine == status = "done" /\ NextLine

\* A decoder is given a word.  A bit of an operand is a bit of the word, so the
\* words of at most two one bits tell the getters apart.
Decode ==
    /\ status = "line"
    /\ \E i, k \in WordBit \cup {Zero} : word' = {i, k} \cap WordBit
    /\ status' = "decoding"
    /\ UNCHANGED <<opcode, texts, relocations>>
Decoded == status = "decoding" /\ NextLine

Next == StartLine \/ (\E text \in Text : EncodeOperand(text)) \/ FinishLine \/ Decode \/ Decoded
Spec == Init /\ [][Next]_vars

-----------------------------------------------------------------------------
(* What a line means.                                                          *)

\* immediates: the multiples of a unit in lo .. hi
Unit(lo, hi, unit) == [lo |-> lo * unit, hi |-> hi * unit, unit |-> unit]
Immediates ==
    [kIImm12 |-> Unit(-2048, 2047, 1), kSImm12 |-> Unit(-2048, 2047, 1), kJImm12 |-> Unit(-2048, 2047, 1),
     kBImm12 |-> Unit(-2048, 2047, 2), kJImm20 |-> Unit(-524288, 524287, 2), kUImm20 |-> Unit(0, 524287, 4096),
     kIUimm5 |-> Unit(0, 31, 1), kIUimm6 |-> Unit(0, 63, 1), kCSRUimm5 |-> Unit(0, 31, 1),
     kIClUimm5x4 |-> Unit(0, 31, 4), kIClUimm5x8 |-> Unit(0, 31, 8), kICjImm11 |-> Unit(-1024, 1023, 2),
     kICbImm8 |-> Unit(-128, 127, 2), kICiImm6 |-> Unit(-32, 31, 1), kICiImm612 |-> Unit(-32, 31, 4096),
     kICiUimm6 |-> Unit(0, 63, 1)]
Representable(name, v) == LET u == Immediates[name] IN v \in u.lo .. u.hi /\ v % u.unit = 0
Branches == {"kBImm12", "kJImm20", "kICjImm11", "kICbImm8"}

\* the operand that a getter should return for what was written
Means(name, text, operand) ==
    CASE text[1] \in {"x", "f", "d"} ->
           \/ operand = Reg(IF text[1] = "x" THEN "x" ELSE "f", NumberBits(text[2]))
           \/ text = <<"x", 0>> /\ operand \in {Immediate({}), Named("X0Dest")}
      [] text[1] = "csr" -> operand \in {Immediate(NumberBits(text[2])), Named("csr"), Nullptr}
      [] text[1] \in {"", ".aq", ".rl"} -> operand = Immediate(IF text[1] = "" THEN {} ELSE {0})
      [] OTHER ->
           LET v == (IF text[1] = "num" THEN text[2].arg ELSE Symbols[text[2].arg])
                      - (IF name \in Branches THEN address ELSE 0)
           IN  Representable(name, v) => operand = Immediate(NumberBits(v))

\* A relocation is for the symbol that was written, of the type that the
\* function asks for, and the field its type patches is the field of the operand
\* the symbol was written for.  Excepted are kSymRe's garbled symbols, and jal,
\* j and lui, which take a function of any name.
Patches == [kLo12I |-> IType.imm12, kPcrelLo12I |-> IType.imm12, kLo12S |-> SType.s_imm, kPcrelLo12S |-> SType.s_imm,
            kHi20 |-> UType.u_imm, kPcrelHi20 |-> UType.u_imm, kJal |-> JType.j_imm]
AsksFor == [kLo12I |-> "%lo", kPcrelLo12I |-> "%pcrel_lo", kLo12S |-> "%lo", kPcrelLo12S |-> "%pcrel_lo",
            kHi20 |-> "%hi", kPcrelHi20 |-> "%pcrel_hi", kJal |-> ""]
RelocationPatchesItsOperand ==
    \A r \in {relocations[k] : k \in 1 .. Len(relocations)} :
        r.sym # "garbled" =>
            \E i \in 1 .. Len(texts) :
                /\ texts[i][1] = "sym" /\ texts[i][2].arg = r.sym
                /\ opcode \in {"jal", "j", "lui"} \/ texts[i][2].relo = AsksFor[r.type]
                /\ \A e \in Encodings : Lines[opcode].operands[i][2] \in DOMAIN e.source =>
                      e.source[Lines[opcode].operands[i][2]] = Imm(Patches[r.type])

\* DecodesAsWritten
\* An instruction that the assembler accepts decodes, in every encoding that has
\* its operands, to the registers and immediates that were written: no setter
\* writes outside its field or over another operand's, and each reads its number
\* the way the getter will.  Its relocations patch the operands they were written
\* for.  Immediates that do not fit their field are excepted (they are truncated
\* in silence), as are the lines of kFrs2, whose setter writes rs1
\* (riscv_bin_setters.h:689), and kC3drd, which three encodings read as an x
\* register (riscv64g_encoding.cc:438).
DecodesAsWritten ==
    /\ RelocationPatchesItsOperand
    /\ (status = "done" /\ From("kFrs2") \notin {Lines[opcode].operands[i] : i \in 1 .. Len(texts)}) =>
        \A i \in 1 .. Len(texts), e \in Encodings :
            LET role == Lines[opcode].operands[i][1]
                name == Lines[opcode].operands[i][2]
            IN  (name \in DOMAIN e[role] /\ name # "kC3drd") => Means(name, texts[i], Get(e[role][name], word))

\* EncodingsAgree
\* Every encoding that has an operand gives the same one for the same word, and
\* the resource an instruction waits for is the register its operand names.
\* Excepted are kC3drd and kC3frd (above), csr as a destination (none on RV64),
\* and the vector sources of Zvbb (one register, not a group).
Excepted == {<<"dest", "kC3drd">>, <<"dest", "kC3frd">>, <<"dest", "kCsr">>, <<"source", "kVs1">>, <<"source", "kVs2">>}
ResourceOf(operand) ==
    CASE operand[1] = "f" -> {Reg("d", operand[2])}
      [] operand[1] = "x" -> {operand} \cup (IF operand[2] = {} THEN {Nullptr} ELSE {})
      [] operand \in {Immediate({}), Named("X0Dest")} -> {Nullptr}
      [] operand[1] = "pc" -> {Named("next_pc")}
      [] OTHER -> {}
EncodingsAgree ==
    status = "decoding" => \A e \in Encodings, role \in {"source", "dest"} : \A name \in DOMAIN e[role] :
        LET operand == Get(e[role][name], word)
        IN  <<role, name>> \notin Excepted =>
              /\ \A o \in Encodings : name \in DOMAIN o[role] => Get(o[role][name], word) = operand
              /\ (name \in DOMAIN e.resource /\ name # "kCsr") =>
                    Get(e.resource[name], word) \in ResourceOf(operand)
=============================================================================
