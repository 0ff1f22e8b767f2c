------------------------------ MODULE Operands ------------------------------
(* The operand getters of the encodings: for every operand enumerator, which   *)
(* bits of the instruction word name it, and which register, immediate or     *)
(* constant the semantic function will be given.  Four encodings have their   *)
(* own tables (riscv32g, riscv64g and their vector forms); the bit            *)
(* manipulation ones are put together from the shared getters of              *)
(* riscv_getters*.h.  Register types, latencies and printed names are left    *)
(* out.                                                                        *)
EXTENDS InstructionFields, TLC

\* An operand: a register with the bits of its number, an immediate with the
\* bits of its value, a vector register group with its length, or one by name.
Reg(file, bits) == <<file, bits>>
Immediate(bits) == <<"imm", bits>>
Named(name) == <<name, {}>>
Nullptr == Named("nullptr")

\* Getters, by what they do with their field.
Imm(f) == [kind |-> "imm", f |-> f]
Const(n) == [kind |-> "is", operand |-> Immediate(NumberBits(n))]
Is(name) == [kind |-> "is", operand |-> Named(name)]
None == [kind |-> "is", operand |-> Nullptr]
XReg(n) == [kind |-> "is", operand |-> Reg("x", NumberBits(n))]
X(f) == [kind |-> "reg", file |-> "x", f |-> f]
F(f) == [kind |-> "reg", file |-> "f", f |-> f]
D(f) == [kind |-> "reg", file |-> "d", f |-> f]         \* a resource
VReg(f) == [kind |-> "reg", file |-> "v", f |-> f]      \* one vector register
\* register zero has an operand of its own
OrElse(f, operand) == [kind |-> "else", f |-> f, operand |-> operand]
XOrZero(f) == OrElse(f, Immediate({}))
XOrDummy(f) == OrElse(f, Named("X0Dest"))
XOrNone(f) == OrElse(f, Nullptr)
Mask(f) == [kind |-> "mask", f |-> f]
Groups(nf, f) == [kind |-> "group", f |-> f, nf |-> nf]
Group(f) == Groups(Unsigned(<<>>), f)

kNumRegTable == <<8, 1, 2, 1, 4, 1, 2, 1>>
GetVRegGroup(bits, num_fields) ==
    <<"v", bits, kNumRegTable[(BitsNumber(bits) % 8) + 1] * num_fields>>

\* what a getter returns for a word
Get(g, word) ==
    CASE g.kind = "is" -> g.operand
      [] g.kind = "imm" -> Immediate(Extract(g.f, word))
      [] g.kind = "reg" -> Reg(g.file, Extract(g.f, word))
      [] g.kind = "else" -> IF Extract(g.f, word) = {} THEN g.operand ELSE Reg("x", Extract(g.f, word))
      [] g.kind = "mask" -> IF Extract(g.f, word) # {} THEN Named("true") ELSE Reg("v", {})
      [] g.kind = "group" -> GetVRegGroup(Extract(g.f, word), BitsNumber(Extract(g.nf, word)) + 1)


-----------------------------------------------------------------------------
(* riscv32g_encoding.cc                                                    *)

RV32GSources1 ==
    [kAAq |-> Imm(AType.aq), kARl |-> Imm(AType.rl), kBImm12 |-> Imm(BType.b_imm), kC3drs2 |-> F(CS.cs_rs2),
     kC3frs2 |-> F(CS.cs_rs2), kC3rs1 |-> X(CS.cs_rs1), kC3rs2 |-> X(CS.cs_rs2),
     kCSRUimm5 |-> Imm(IType.i_uimm5), kCdrs2 |-> F(CR.rs2), kCfrs2 |-> F(CR.rs2), kCrs1 |-> X(CR.rs1),
     kCrs2 |-> X(CR.rs2), kCsr |-> Imm(IType.u_imm12), kDrs1 |-> F(RType.rs1), kDrs2 |-> F(RType.rs2),
     kDrs3 |-> F(R4Type.rs3), kFrs1 |-> F(RType.rs1), kFrs2 |-> F(RType.rs2), kFrs3 |-> F(R4Type.rs3),
     kICbImm8 |-> Imm(CB.bimm), kICiImm6 |-> Imm(CI.imm6)]
RV32GSources2 ==
    [kICiImm612 |-> Imm(CI.imm18), kICiImm6x16 |-> Imm(CI.ci_imm10), kICiUimm6 |-> Imm(CI.uimm6),
     kICiUimm6x4 |-> Imm(CI.ci_imm_w), kICiUimm6x8 |-> Imm(CI.ci_imm_d), kICiwUimm8x4 |-> Imm(CIW.ciw_imm10),
     kICjImm11 |-> Imm(CJ.jimm), kIClUimm5x4 |-> Imm(CL.cl_imm_w), kIClUimm5x8 |-> Imm(CL.cl_imm_d),
     kICssUimm6x4 |-> Imm(CSS.css_imm_w), kICssUimm6x8 |-> Imm(CSS.css_imm_d), kIImm12 |-> Imm(IType.imm12),
     kIUimm5 |-> Imm(RType.r_uimm5), kJImm12 |-> Imm(IType.imm12), kJImm20 |-> Imm(JType.j_imm),
     kPred |-> Imm(Fence.pred), kRd |-> XOrZero(RType.rd), kRm |-> Imm(RType.func3),
     kRs1 |-> XOrZero(RType.rs1), kRs2 |-> XOrZero(RType.rs2), kSImm12 |-> Imm(SType.s_imm)]
RV32GSources3 ==
    [kSucc |-> Imm(Fence.succ), kUImm20 |-> Imm(UType.u_imm), kX0 |-> Const(0), kX2 |-> XReg(2)]
RV32GSources == RV32GSources1 @@ RV32GSources2 @@ RV32GSources3

RV32GDestinations ==
    [kC3drd |-> F(CL.cl_rd), kC3frd |-> F(CL.cl_rd), kC3rd |-> X(CL.cl_rd), kC3rs1 |-> X(CL.cl_rs1),
     kCsr |-> Is("csr"), kDrd |-> F(RType.rd), kFrd |-> F(RType.rd), kNextPc |-> Is("pc"),
     kRd |-> XOrDummy(RType.rd), kX0 |-> Is("X0Dest"), kX1 |-> XReg(1), kX2 |-> XReg(2),
     kFflags |-> Is("fflags")]

RV32GResources1 ==
    [kC3drd |-> D(CL.cl_rd), kC3drs2 |-> D(CS.cs_rs2), kC3frd |-> D(CL.cl_rd), kC3frs2 |-> D(CS.cs_rs2),
     kC3rd |-> XOrNone(CL.cl_rd), kC3rs1 |-> XOrNone(CL.cl_rs1), kC3rs2 |-> XOrNone(CS.cs_rs2),
     kCdrs2 |-> D(CR.rs2), kCfrs2 |-> D(CR.rs2), kCrs1 |-> XOrNone(CR.rs1), kCrs2 |-> XOrNone(CR.rs2),
     kCsr |-> Is("csr"), kDrd |-> D(R4Type.rd), kDrs1 |-> D(AType.rs1), kDrs2 |-> D(AType.rs2),
     kDrs3 |-> D(R4Type.rs3), kFrd |-> D(R4Type.rd), kFrs1 |-> D(R4Type.rs1), kFrs2 |-> D(R4Type.rs2),
     kFrs3 |-> D(R4Type.rs3), kNextPc |-> Is("next_pc")]
RV32GResources2 ==
    [kRd |-> XOrNone(AType.rd), kRs1 |-> XOrNone(AType.rs1), kRs2 |-> XOrNone(AType.rs2), kX0 |-> None,
     kX1 |-> XReg(1), kX2 |-> XReg(2)]
RV32GResources == RV32GResources1 @@ RV32GResources2

-----------------------------------------------------------------------------
(* riscv64g_encoding.cc                                                    *)

RV64GSources1 ==
    [kAAq |-> Imm(AType.aq), kARl |-> Imm(AType.rl), kIUimm6 |-> Imm(RSType.r_uimm6),
     kBImm12 |-> Imm(BType.b_imm), kC3drs2 |-> F(CS.cs_rs2), kC3rs1 |-> X(CS.cs_rs1), kC3rs2 |-> X(CS.cs_rs2),
     kCSRUimm5 |-> Imm(IType.i_uimm5), kCdrs2 |-> F(CR.rs2), kCrs1 |-> X(CR.rs1), kCrs2 |-> X(CR.rs2),
     kCsr |-> Imm(IType.u_imm12), kDrs1 |-> F(RType.rs1), kDrs2 |-> F(RType.rs2), kDrs3 |-> F(R4Type.rs3),
     kFrs1 |-> F(RType.rs1), kFrs2 |-> F(RType.rs2), kFrs3 |-> F(R4Type.rs3)]
RV64GSources2 ==
    [kICbImm8 |-> Imm(CB.bimm), kICiImm6 |-> Imm(CI.imm6), kICiImm612 |-> Imm(CI.imm18),
     kICiUimm6 |-> Imm(CI.uimm6), kICiUimm6x4 |-> Imm(CI.ci_imm_w), kICiUimm6x8 |-> Imm(CI.ci_imm_d),
     kICiImm6x16 |-> Imm(CI.ci_imm10), kICiwUimm8x4 |-> Imm(CIW.ciw_imm10), kICjImm11 |-> Imm(CJ.jimm),
     kIClUimm5x4 |-> Imm(CL.cl_imm_w), kIClUimm5x8 |-> Imm(CL.cl_imm_d), kICssUimm6x4 |-> Imm(CSS.css_imm_w),
     kICssUimm6x8 |-> Imm(CSS.css_imm_d), kIImm12 |-> Imm(IType.imm12), kIUimm5 |-> Imm(RType.r_uimm5),
     kJImm12 |-> Imm(IType.imm12), kJImm20 |-> Imm(JType.j_imm), kPred |-> Imm(Fence.pred),
     kRm |-> Imm(RType.func3), kRd |-> XOrZero(RType.rd)]
RV64GSources3 ==
    [kRs1 |-> XOrZero(RType.rs1), kRs2 |-> XOrZero(RType.rs2), kSImm12 |-> Imm(SType.s_imm),
     kSucc |-> Imm(Fence.succ), kUImm20 |-> Imm(UType.u_imm), kX0 |-> Const(0), kX2 |-> XReg(2)]
RV64GSources == RV64GSources1 @@ RV64GSources2 @@ RV64GSources3

RV64GDestinations ==
    [kC3drd |-> X(CL.cl_rd), kC3rd |-> X(CL.cl_rd), kC3rs1 |-> X(CL.cl_rs1), kCsr |-> None,
     kDrd |-> F(RType.rd), kFrd |-> F(RType.rd), kNextPc |-> Is("pc"), kRd |-> XOrDummy(RType.rd),
     kX0 |-> Is("X0Dest"), kX1 |-> XReg(1), kX2 |-> XReg(2), kFflags |-> Is("fflags")]

RV64GResources1 ==
    [kC3drd |-> D(CL.cl_rd), kC3drs2 |-> D(CS.cs_rs2), kC3rd |-> XOrNone(CL.cl_rd),
     kC3rs1 |-> XOrNone(CL.cl_rs1), kC3rs2 |-> XOrNone(CS.cs_rs2), kCdrs2 |-> D(CR.rs2),
     kCrs1 |-> XOrNone(CR.rs1), kCrs2 |-> XOrNone(CR.rs2), kCsr |-> Is("csr"), kDrd |-> D(R4Type.rd),
     kDrs1 |-> D(AType.rs1), kDrs2 |-> D(AType.rs2), kDrs3 |-> D(R4Type.rs3), kFrd |-> D(R4Type.rd),
     kFrs1 |-> D(R4Type.rs1), kFrs2 |-> D(R4Type.rs2), kFrs3 |-> D(R4Type.rs3), kNextPc |-> Is("next_pc"),
     kRd |-> XOrNone(AType.rd), kRs1 |-> XOrNone(AType.rs1)]
\* mutant: the second source waits for the first source's register
M_RV64GResources2 ==
    [kRs2 |-> XOrNone(AType.rs1), kX0 |-> None, kX1 |-> XReg(1), kX2 |-> XReg(2)]
RV64GResources2 ==
    [kRs2 |-> XOrNone(AType.rs2), kX0 |-> None, kX1 |-> XReg(1), kX2 |-> XReg(2)]
RV64GResources == RV64GResources1 @@ RV64GResources2

-----------------------------------------------------------------------------
(* riscv32g_vec_encoding.cc                                                *)

RV32GVVectorSources ==
    [kVd |-> Group(VArith.vd), kVmask |-> Mask(VArith.vm), kVmaskTrue |-> Is("true"),
     kVs1 |-> Group(VArith.vs1), kVs2 |-> Group(VArith.vs2), kVs3 |-> Group(VMem.vs3),
     kVs3Nf |-> Groups(VMem.nf, VMem.vs3), kSimm5 |-> Imm(VArith.simm5), kUimm5 |-> Imm(VArith.uimm5),
     kZimm10 |-> Imm(VConfig.zimm10), kZimm11 |-> Imm(VConfig.zimm11), kConst1 |-> Const(1),
     kConst2 |-> Const(2), kConst4 |-> Const(4), kConst8 |-> Const(8), kNf |-> Imm(VMem.nf)]

RV32GVVectorDestinations ==
    [kVd |-> Group(VArith.vd), kVdNf |-> Groups(VMem.nf, VMem.vd)]

RV32GVSources1 ==
    [kAAq |-> Imm(AType.aq), kARl |-> Imm(AType.rl), kBImm12 |-> Imm(BType.b_imm), kC3drs2 |-> F(CS.cs_rs2),
     kC3frs2 |-> F(CS.cs_rs2), kC3rs1 |-> X(CS.cs_rs1), kC3rs2 |-> X(CS.cs_rs2),
     kCSRUimm5 |-> Imm(IType.i_uimm5), kCdrs2 |-> F(CR.rs2), kCfrs2 |-> F(CR.rs2), kCrs1 |-> X(CR.rs1),
     kCrs2 |-> X(CR.rs2), kCsr |-> Imm(IType.u_imm12), kDrs1 |-> F(RType.rs1), kDrs2 |-> F(RType.rs2),
     kDrs3 |-> F(R4Type.rs3), kFrs1 |-> F(RType.rs1), kFrs2 |-> F(RType.rs2), kFrs3 |-> F(R4Type.rs3),
     kFs1 |-> F(VArith.rs1), kICbImm8 |-> Imm(CB.bimm)]
RV32GVSources2 ==
    [kICiImm6 |-> Imm(CI.imm6), kICiImm612 |-> Imm(CI.imm18), kICiUimm6 |-> Imm(CI.uimm6),
     kICiUimm6x4 |-> Imm(CI.ci_imm_w), kICiUimm6x8 |-> Imm(CI.ci_imm_d), kICiImm6x16 |-> Imm(CI.ci_imm10),
     kICiwUimm8x4 |-> Imm(CIW.ciw_imm10), kICjImm11 |-> Imm(CJ.jimm), kIClUimm5x4 |-> Imm(CL.cl_imm_w),
     kIClUimm5x8 |-> Imm(CL.cl_imm_d), kICssUimm6x4 |-> Imm(CSS.css_imm_w),
     kICssUimm6x8 |-> Imm(CSS.css_imm_d), kIImm12 |-> Imm(IType.imm12), kIUimm5 |-> Imm(RType.r_uimm5),
     kJImm12 |-> Imm(IType.imm12), kJImm20 |-> Imm(JType.j_imm), kPred |-> Imm(Fence.pred),
     kRm |-> Imm(RType.func3), kRd |-> XOrZero(RType.rd), kRs1 |-> XOrZero(RType.rs1),
     kRs2 |-> XOrZero(RType.rs2)]
RV32GVSources3 ==
    [kSImm12 |-> Imm(SType.s_imm), kSucc |-> Imm(Fence.succ), kUImm20 |-> Imm(UType.u_imm),
     kVm |-> Imm(VArith.vm), kX0 |-> Const(0), kX2 |-> XReg(2)]
RV32GVSources == RV32GVSources1 @@ RV32GVSources2 @@ RV32GVSources3

RV32GVDestinations ==
    [kC3drd |-> X(CL.cl_rd), kC3frd |-> X(CL.cl_rd), kC3rd |-> X(CL.cl_rd), kC3rs1 |-> X(CL.cl_rs1),
     kCsr |-> Is("csr"), kDrd |-> F(RType.rd), kFd |-> F(VArith.rd), kFrd |-> F(RType.rd),
     kNextPc |-> Is("pc"), kRd |-> XOrDummy(RType.rd), kX0 |-> Is("X0Dest"), kX1 |-> XReg(1), kX2 |-> XReg(2),
     kFflags |-> Is("fflags")]

RV32GVResources1 ==
    [kC3drd |-> D(CL.cl_rd), kC3drs2 |-> D(CS.cs_rs2), kC3frd |-> D(CL.cl_rd), kC3frs2 |-> D(CS.cs_rs2),
     kC3rd |-> XOrNone(CL.cl_rd), kC3rs1 |-> XOrNone(CL.cl_rs1), kC3rs2 |-> XOrNone(CS.cs_rs2),
     kCdrs2 |-> D(CR.rs2), kCfrs2 |-> D(CR.rs2), kCrs1 |-> XOrNone(CR.rs1), kCrs2 |-> XOrNone(CR.rs2),
     kCsr |-> Is("csr"), kDrd |-> D(R4Type.rd), kDrs1 |-> D(AType.rs1), kDrs2 |-> D(AType.rs2),
     kDrs3 |-> D(R4Type.rs3), kFrd |-> D(R4Type.rd), kFrs1 |-> D(R4Type.rs1), kFrs2 |-> D(R4Type.rs2),
     kFrs3 |-> D(R4Type.rs3), kNextPc |-> Is("next_pc")]
RV32GVResources2 ==
    [kRd |-> XOrNone(AType.rd), kRs1 |-> XOrNone(AType.rs1), kRs2 |-> XOrNone(AType.rs2), kX0 |-> None,
     kX1 |-> XReg(1), kX2 |-> XReg(2)]
RV32GVResources == RV32GVResources1 @@ RV32GVResources2

-----------------------------------------------------------------------------
(* riscv64g_vec_encoding.cc                                                *)

RV64GVSources1 ==
    [kAAq |-> Imm(AType.aq), kARl |-> Imm(AType.rl), kIUimm6 |-> Imm(RSType.r_uimm6),
     kBImm12 |-> Imm(BType.b_imm), kC3drs2 |-> F(CS.cs_rs2), kC3rs1 |-> X(CS.cs_rs1), kC3rs2 |-> X(CS.cs_rs2),
     kCSRUimm5 |-> Imm(IType.i_uimm5), kCdrs2 |-> F(CR.rs2), kCrs1 |-> X(CR.rs1), kCrs2 |-> X(CR.rs2),
     kCsr |-> Imm(IType.u_imm12), kDrs1 |-> F(RType.rs1), kDrs2 |-> F(RType.rs2), kDrs3 |-> F(R4Type.rs3),
     kFrs1 |-> F(RType.rs1), kFrs2 |-> F(RType.rs2), kFrs3 |-> F(R4Type.rs3)]
RV64GVSources2 ==
    [kICbImm8 |-> Imm(CB.bimm), kICiImm6 |-> Imm(CI.imm6), kICiImm612 |-> Imm(CI.imm18),
     kICiUimm6 |-> Imm(CI.uimm6), kICiUimm6x4 |-> Imm(CI.ci_imm_w), kICiUimm6x8 |-> Imm(CI.ci_imm_d),
     kICiImm6x16 |-> Imm(CI.ci_imm10), kICiwUimm8x4 |-> Imm(CIW.ciw_imm10), kICjImm11 |-> Imm(CJ.jimm),
     kIClUimm5x4 |-> Imm(CL.cl_imm_w), kIClUimm5x8 |-> Imm(CL.cl_imm_d), kICssUimm6x4 |-> Imm(CSS.css_imm_w),
     kICssUimm6x8 |-> Imm(CSS.css_imm_d), kIImm12 |-> Imm(IType.imm12), kIUimm5 |-> Imm(RType.r_uimm5),
     kJImm12 |-> Imm(IType.imm12), kJImm20 |-> Imm(JType.j_imm), kPred |-> Imm(Fence.pred),
     kRm |-> Imm(RType.func3), kRd |-> XOrZero(RType.rd)]
RV64GVSources3 ==
    [kRs1 |-> XOrZero(RType.rs1), kRs2 |-> XOrZero(RType.rs2), kSImm12 |-> Imm(SType.s_imm),
     kSucc |-> Imm(Fence.succ), kUImm20 |-> Imm(UType.u_imm), kX0 |-> Const(0), kX2 |-> XReg(2),
     kFs1 |-> F(VArith.rs1)]
RV64GVSources == RV64GVSources1 @@ RV64GVSources2 @@ RV64GVSources3

RV64GVDestinations ==
    [kC3drd |-> X(CL.cl_rd), kC3rd |-> X(CL.cl_rd), kC3rs1 |-> X(CL.cl_rs1), kCsr |-> None,
     kDrd |-> F(RType.rd), kFrd |-> F(RType.rd), kNextPc |-> Is("pc"), kRd |-> XOrDummy(RType.rd),
     kX0 |-> Is("X0Dest"), kX1 |-> XReg(1), kX2 |-> XReg(2), kFflags |-> Is("fflags"), kFd |-> F(VArith.rd)]

RV64GVVectorSources ==
    [kVd |-> Group(VArith.vd), kVmask |-> Mask(VArith.vm), kVmaskTrue |-> Is("true"), kVm |-> Imm(VArith.vm),
     kVs1 |-> Group(VArith.vs1), kVs2 |-> Group(VArith.vs2), kVs3 |-> Group(VMem.vs3),
     kVs3Nf |-> Groups(VMem.nf, VMem.vs3), kSimm5 |-> Imm(VArith.simm5), kUimm5 |-> Imm(VArith.uimm5),
     kZimm10 |-> Imm(VConfig.zimm10), kZimm11 |-> Imm(VConfig.zimm11), kConst1 |-> Const(1),
     kConst2 |-> Const(2), kConst4 |-> Const(4), kConst8 |-> Const(8), kNf |-> Imm(VMem.nf)]

RV64GVVectorDestinations ==
    [kVd |-> Group(VArith.vd), kVdNf |-> Groups(VMem.nf, VMem.vd)]

RV64GVResources1 ==
    [kC3drd |-> D(CL.cl_rd), kC3drs2 |-> D(CS.cs_rs2), kC3rd |-> XOrNone(CL.cl_rd),
     kC3rs1 |-> XOrNone(CL.cl_rs1), kC3rs2 |-> XOrNone(CS.cs_rs2), kCdrs2 |-> D(CR.rs2),
     kCrs1 |-> XOrNone(CR.rs1), kCrs2 |-> XOrNone(CR.rs2), kCsr |-> Is("csr"), kDrd |-> D(R4Type.rd),
     kDrs1 |-> D(AType.rs1), kDrs2 |-> D(AType.rs2), kDrs3 |-> D(R4Type.rs3), kFrd |-> D(R4Type.rd),
     kFrs1 |-> D(R4Type.rs1), kFrs2 |-> D(R4Type.rs2), kFrs3 |-> D(R4Type.rs3), kNextPc |-> Is("next_pc"),
     kRd |-> XOrNone(AType.rd), kRs1 |-> XOrNone(AType.rs1)]
RV64GVResources2 ==
    [kRs2 |-> XOrNone(AType.rs2), kX0 |-> None, kX1 |-> XReg(1), kX2 |-> XReg(2)]
RV64GVResources == RV64GVResources1 @@ RV64GVResources2

-----------------------------------------------------------------------------
(* The shared getters, riscv_getters*.h                                    *)

SourceGetters1 ==
    [kAAq |-> Imm(AType.aq), kARl |-> Imm(AType.rl), kBImm12 |-> Imm(BType.b_imm), kC3drs2 |-> F(CS.cs_rs2),
     kC3rs1 |-> X(CS.cs_rs1), kC3rs2 |-> X(CS.cs_rs2), kCSRUimm5 |-> Imm(IType.i_uimm5), kCdrs2 |-> F(CR.rs2),
     kCrs1 |-> X(CR.rs1), kCrs2 |-> X(CR.rs2), kCsr |-> Imm(IType.u_imm12), kDrs1 |-> F(RType.rs1),
     kDrs2 |-> F(RType.rs2), kDrs3 |-> F(R4Type.rs3), kFrs1 |-> F(RType.rs1), kFrs2 |-> F(RType.rs2),
     kFrs3 |-> F(R4Type.rs3), kICbImm8 |-> Imm(CB.bimm), kICiImm6 |-> Imm(CI.imm6),
     kICiImm612 |-> Imm(CI.imm18), kICiImm6x16 |-> Imm(CI.ci_imm10), kICiUimm6 |-> Imm(CI.uimm6),
     kICiUimm6x4 |-> Imm(CI.ci_imm_w), kICiUimm6x8 |-> Imm(CI.ci_imm_d), kICiwUimm8x4 |-> Imm(CIW.ciw_imm10)]
SourceGetters2 ==
    [kICjImm11 |-> Imm(CJ.jimm), kIClUimm5x4 |-> Imm(CL.cl_imm_w), kIClUimm5x8 |-> Imm(CL.cl_imm_d),
     kICssUimm6x4 |-> Imm(CSS.css_imm_w), kICssUimm6x8 |-> Imm(CSS.css_imm_d), kIImm12 |-> Imm(IType.imm12),
     kIUimm5 |-> Imm(RType.r_uimm5), kJImm12 |-> Imm(IType.imm12), kJImm20 |-> Imm(JType.j_imm),
     kPred |-> Imm(Fence.pred), kRd |-> XOrZero(RType.rd), kRm |-> Imm(RType.func3),
     kRs1 |-> XOrZero(RType.rs1), kRs2 |-> XOrZero(RType.rs2), kSImm12 |-> Imm(SType.s_imm),
     kSucc |-> Imm(Fence.succ), kUImm20 |-> Imm(UType.u_imm), kX0 |-> Const(0), kX2 |-> XReg(2)]
SourceGetters == SourceGetters1 @@ SourceGetters2

DestGetters ==
    [kC3drd |-> F(CL.cl_rd), kC3rd |-> X(CL.cl_rd), kC3rs1 |-> X(CL.cl_rs1), kCsr |-> Is("csr"),
     kDrd |-> F(RType.rd), kFrd |-> F(RType.rd), kNextPc |-> Is("pc"), kRd |-> XOrDummy(RType.rd),
     kX0 |-> Is("X0Dest"), kX1 |-> XReg(1), kX2 |-> XReg(2), kFflags |-> Is("fflags")]

SimpleResourceGetters ==
    [kC3drd |-> D(CL.cl_rd), kC3drs2 |-> D(CS.cs_rs2), kC3rd |-> X(CL.cl_rd), kC3rs1 |-> X(CS.cs_rs1),
     kC3rs2 |-> X(CS.cs_rs2), kCdrs2 |-> D(CR.rs2), kCrs1 |-> X(CR.rs1), kCrs2 |-> X(CR.rs2),
     kCsr |-> Is("csr"), kDrd |-> D(RType.rd), kDrs1 |-> D(RType.rs1), kDrs2 |-> D(RType.rs2),
     kDrs3 |-> D(R4Type.rs3), kFrd |-> D(RType.rd), kFrs1 |-> D(RType.rs1), kFrs2 |-> D(RType.rs2),
     kFrs3 |-> D(R4Type.rs3), kNextPc |-> Is("next_pc"), kRd |-> XOrNone(RType.rd),
     kRs1 |-> XOrNone(RType.rs1), kRs2 |-> XOrNone(RType.rs2), kX0 |-> None, kX1 |-> XReg(1), kX2 |-> XReg(2)]

Rv32SourceGetters ==
    [kC3frs2 |-> F(CS.cs_rs2), kCfrs2 |-> F(CR.rs2)]

Rv32DestGetters ==
    [kC3frd |-> F(CL.cl_rd)]

Rv32SimpleResourceGetters ==
    [kC3frd |-> D(CL.cl_rd), kC3frs2 |-> D(CS.cs_rs2), kCfrs2 |-> D(CR.rs2)]

Rv64SourceGetters ==
    [kIUimm6 |-> Imm(RSType.r_uimm6)]

ZbaSourceGetters ==
    [kConst1 |-> Const(1), kConst2 |-> Const(2), kConst3 |-> Const(3)]

Zbb32SourceGetters ==
    [kRUimm5 |-> Imm(RType.r_uimm5)]

Zbb64SourceGetters ==
    [kRUimm6 |-> Imm(RSType.r_uimm6)]

VectorSourceGetters ==
    [kVd |-> Group(VArith.vd), kVmask |-> Mask(VArith.vm), kVmaskTrue |-> Is("true"), kVm |-> Imm(VArith.vm),
     kVs1 |-> Group(VArith.vs1), kVs2 |-> Group(VArith.vs2), kVs3 |-> Group(VMem.vs3),
     kVs3Nf |-> Groups(VMem.nf, VMem.vs3), kSimm5 |-> Imm(VArith.simm5), kUimm5 |-> Imm(VArith.uimm5),
     kZimm10 |-> Imm(VConfig.zimm10), kZimm11 |-> Imm(VConfig.zimm11), kConst1 |-> Const(1),
     kConst2 |-> Const(2), kConst4 |-> Const(4), kConst8 |-> Const(8), kNf |-> Imm(VMem.nf),
     kFs1 |-> F(VArith.rs1)]

VectorDestGetters ==
    [kVd |-> Group(VArith.vd), kVdNf |-> Groups(VMem.nf, VMem.vd), kFd |-> F(VArith.rd)]

ZvbbSourceGetters ==
    [kVmask |-> Mask(VArith.vm), kVs1 |-> VReg(VArith.vs1), kVs2 |-> VReg(VArith.vs2),
     kRs1 |-> XOrZero(VArith.rs1), kUimm5 |-> Imm(VArith.uimm5), kUimm6 |-> Imm(VArith.uimm6)]

ZvbbDestGetters ==
    [kVd |-> Group(VArith.vd)]

-----------------------------------------------------------------------------
(* The encodings; a getter inserted later replaces an earlier one.          *)
Encoding(s, d, r) == [source |-> s, dest |-> d, resource |-> r]
RV32G == Encoding(RV32GSources, RV32GDestinations, RV32GResources)
RV64G == Encoding(RV64GSources, RV64GDestinations, RV64GResources)
RV32GV == Encoding(RV32GVSources @@ RV32GVVectorSources, RV32GVDestinations @@ RV32GVVectorDestinations,
                   RV32GVResources)
RV64GV == Encoding(RV64GVSources @@ RV64GVVectorSources, RV64GVDestinations @@ RV64GVVectorDestinations,
                   RV64GVResources)
RV32GZB == Encoding(Zbb32SourceGetters @@ ZbaSourceGetters @@ Rv32SourceGetters @@ SourceGetters,
                    Rv32DestGetters @@ DestGetters, Rv32SimpleResourceGetters @@ SimpleResourceGetters)
RV64GZB == Encoding(Zbb64SourceGetters @@ ZbaSourceGetters @@ Rv64SourceGetters @@ SourceGetters,
                    DestGetters, SimpleResourceGetters)
RV32GZBV == Encoding(VectorSourceGetters @@ Zbb32SourceGetters @@ ZbaSourceGetters @@ Rv32SourceGetters
                       @@ SourceGetters,
                     VectorDestGetters @@ Rv32DestGetters @@ DestGetters,
                     Rv32SimpleResourceGetters @@ SimpleResourceGetters)
RV64GZBV == Encoding(VectorSourceGetters @@ Zbb64SourceGetters @@ ZbaSourceGetters @@ Rv64SourceGetters
                       @@ SourceGetters,
                     VectorDestGetters @@ DestGetters, SimpleResourceGetters)
Zvbb == Encoding(ZvbbSourceGetters, ZvbbDestGetters, <<>>)
Encodings == {RV32G, RV64G, RV32GV, RV64GV, RV32GZB, RV64GZB, RV32GZBV, RV64GZBV, Zvbb}
=============================================================================
