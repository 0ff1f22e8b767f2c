------------------------------ MODULE FpState ------------------------------
(***************************************************************************)
(* The floating point state: fcsr and its two views frm and fflags         *)
(* (riscv_fp_state.cc), the copy of the status that the host FPU uses      *)
(* (riscv_fp_host_x86.cc, riscv_fp_host_arm.cc), the rounding mode cached  *)
(* for scalar instructions, and what each kind of floating point           *)
(* instruction does to them (riscv_instruction_helpers.h, riscv_zfh_,      *)
(* riscv_vector_fp_ and riscv_zicsr_instructions.cc).                      *)
(*                                                                         *)
(* A status value is [rm |-> bits of the rounding mode, flags |-> bits of  *)
(* fflags], each a set of bit names, so that setting and clearing bits are *)
(* union and difference.  What an operation computes is left to FpOps:     *)
(* here an instruction raises any set of flags.                            *)
(***************************************************************************)
EXTENDS Integers

CONSTANTS
    Host,       \* "x86" or "arm": which of the two host files is built
    Flags,      \* the exception flags
    NV          \* the invalid operation flag

ASSUME FpAssumption == Host \in {"x86", "arm"} /\ NV \in Flags

Modes == SUBSET {0, 1, 2}
Nearest == {}
TiesToMax == {2}
Dynamic == {0, 1, 2}
LegalModes == {Nearest, {0}, {1}, {0, 1}, TiesToMax}
HostModes == {Nearest, {0}, {1}, {0, 1}}
Status == [rm : Modes, flags : SUBSET Flags]
HostStatus == [rm : HostModes, flags : SUBSET Flags]
Csrs == {"fcsr", "frm", "fflags"}

VARIABLES
    fp,                 \* [csr, host, mode, valid]: the RiscVFPState
    vector_exception,   \* RiscVVectorState::vector_exception
    done,               \* the last instruction: its kind, the host mode for its
                        \* rm field and frm, the mode the host rounded in, and
                        \* the flags it raised
    override            \* the host mode of the last scalar instruction, or of a
                        \* later write of frm or fcsr

vars == <<fp, vector_exception, done, override>>

Init ==
    /\ fp = [csr |-> [rm |-> {}, flags |-> {}], host |-> [rm |-> {}, flags |-> {}],
             mode |-> Nearest, valid |-> TRUE]
    /\ vector_exception = FALSE
    /\ done = [kind |-> "none", wanted |-> Nearest, used |-> Nearest, raised |-> {}]
    /\ override = Nearest

-----------------------------------------------------------------------------
\* kRiscVToX86RoundingModeMap: the host has no ties-to-max mode, and the
\* reserved encodings round to nearest.
HostMode(rm) == IF 2 \in rm THEN Nearest ELSE rm

\* SetRiscVFcsr.  The arm map already has its bits in place and the shift that
\* follows moves them out of 32 bits: that host rounds to nearest.
SetRiscVFcsr(v) ==
    [rm |-> IF Host = "x86" THEN HostMode(v.rm) ELSE Nearest, flags |-> v.flags]

\* RiscVFcsr::AsUint32: the mode of the CSR, the flags of the host.
AsUint32(s) == [rm |-> s.csr.rm, flags |-> s.host.flags]

M_SetRoundingMode(s, rm) ==
    IF s.mode = rm THEN [s EXCEPT !.valid = TRUE]
    ELSE IF rm \notin LegalModes THEN s
    ELSE [s EXCEPT !.mode = rm, !.valid = TRUE]

\* SetRoundingMode; the frm_->Write it makes writes back the value just written.
SetRoundingMode(s, rm) ==
    IF s.mode = rm THEN s
    ELSE IF rm \notin LegalModes THEN [s EXCEPT !.valid = FALSE]
    ELSE [s EXCEPT !.mode = rm, !.valid = TRUE]

\* does not reach the host
M_FcsrWrite(s, v) == SetRoundingMode([s EXCEPT !.csr = v], v.rm)
FcsrWrite(s, v) ==
    SetRoundingMode([s EXCEPT !.csr = v, !.host = SetRiscVFcsr(v)], v.rm)

FflagsWrite(s, flags) ==
    IF flags = s.host.flags THEN s
    ELSE FcsrWrite(s, [rm |-> s.csr.rm, flags |-> flags])

FrmWrite(s, rm) == FcsrWrite(s, [rm |-> rm, flags |-> s.host.flags])

Write(c, s, v) ==
    CASE c = "fcsr" -> FcsrWrite(s, v)
      [] c = "frm" -> FrmWrite(s, v.rm)
      [] c = "fflags" -> FflagsWrite(s, v.flags)

\* GetUint32, which SetBits and ClearBits start from: frm and fflags override it
\* with AsUint32, fcsr does not and returns the value last written.
GetUint32(c, s) == IF c = "fcsr" THEN s.csr ELSE AsUint32(s)

SetBits(c, s, v) ==
    LET old == GetUint32(c, s)
    IN  Write(c, s, [rm |-> old.rm \cup v.rm, flags |-> old.flags \cup v.flags])

ClearBits(c, s, v) ==
    LET old == GetUint32(c, s)
    IN  Write(c, s, [rm |-> old.rm \ v.rm, flags |-> old.flags \ v.flags])

\* The fflags destination of an instruction is a set-bits operand of latency 0.
SetFflags(s, flags) == SetBits("fflags", s, [rm |-> {}, flags |-> flags])

-----------------------------------------------------------------------------
\* starts with no flags, as if the destructor merged them
M_Enter(s, rm) == [rm |-> IF rm = Dynamic THEN s.host.rm ELSE HostMode(rm), flags |-> {}]

\* The constructors of ScopedFPStatus: the status the host FPU runs with.
Enter(s, rm) ==
    [rm |-> IF rm = Dynamic THEN s.host.rm ELSE HostMode(rm), flags |-> s.host.flags]

\* Its destructor saves the status of the FPU.  On arm the saved mode comes back;
\* on x86 the variable that has it is not the one that is stored.
Leave(s, host_rm, cpu) ==
    [s EXCEPT !.host = [rm |-> IF Host = "x86" THEN cpu.rm ELSE host_rm,
                        flags |-> cpu.flags]]

\* An operation of the host FPU between the two.
Scoped(s, rm, raised) ==
    LET cpu == Enter(s, rm)
    IN  Leave(s, s.host.rm, [cpu EXCEPT !.flags = @ \cup raised])

\* The mode a scalar helper passes on: a dynamic one is read from the state.
Resolve(s, rm) == IF rm = Dynamic THEN s.mode ELSE rm

MayRun(rm) == rm # Dynamic \/ fp.valid

Ran(kind, rm, used, raised) ==
    done' = [kind |-> kind, used |-> used, raised |-> raised,
             wanted |-> HostMode(IF rm = Dynamic THEN AsUint32(fp).rm ELSE rm)]

\* A scalar helper that finds the dynamic mode invalid logs it and returns.
InvalidMode ==
    /\ ~fp.valid
    /\ Ran("skipped", Dynamic, {}, {})
    /\ UNCHANGED <<fp, vector_exception, override>>

\* RiscVUnaryFloatOp, UnaryFloatNaNBoxOp, UnaryFloatWithFflagsOp,
\* BinaryFloatNaNBoxOp and FSqrt: the host raises flags, then the flags the
\* operation returns (mostly none) go to the fflags destination.
ScalarArithmetic(rm, raised, returned) ==
    /\ MayRun(rm)
    /\ LET mode == Resolve(fp, rm)
       IN  /\ fp' = SetFflags(Scoped(fp, mode, raised), returned)
           /\ Ran("scalar", rm, Enter(fp, mode).rm, raised \cup returned)
           /\ override' = HostMode(mode)
    /\ UNCHANGED vector_exception

\* RiscVTernaryFloatNaNBoxOp with the multiply-adds of F and D: an infinity times
\* zero submits NV inside the scope, whose end stores the FPU's status over it.
FusedMultiplyAdd(rm, raised, inf_times_zero) ==
    /\ MayRun(rm)
    /\ LET mode == Resolve(fp, rm)
           cpu == Enter(fp, mode)
           returned == IF inf_times_zero THEN {NV} ELSE {}
       IN  /\ fp' = Leave(SetFflags(fp, returned), fp.host.rm,
                          [cpu EXCEPT !.flags = @ \cup raised])
           /\ Ran("fused", rm, cpu.rm, raised \cup returned)
           /\ override' = HostMode(mode)
    /\ UNCHANGED vector_exception

\* The Zfh helpers: the operation in a scope of its own inside the helper's, its
\* flags read back, the conversion's flags added, and the sum set at the end.
ZfhArithmetic(rm, raised, converted) ==
    /\ MayRun(rm)
    /\ LET mode == Resolve(fp, rm)
           inner == Scoped(fp, mode, raised)
           outer == Leave(inner, fp.host.rm, Enter(fp, mode))
       IN  /\ fp' = SetFflags(outer, AsUint32(inner).flags \cup converted)
           /\ Ran("scalar", rm, Enter(fp, mode).rm, raised \cup converted)
           /\ override' = HostMode(mode)
    /\ UNCHANGED vector_exception

\* RiscVConvertFloatWithFflagsOp and RiscVZfhCvtHelper (whose rounding scope does
\* not save the status): only the flags they compute.
ScalarConvert(rm, returned) ==
    /\ MayRun(rm)
    /\ fp' = SetFflags(fp, returned)
    /\ Ran("scalar", rm, HostMode(Resolve(fp, rm)), returned)
    /\ UNCHANGED <<vector_exception, override>>

\* Minimum, maximum and comparison, scalar and vector; the conversions of the
\* vector unit that truncate: no rounding mode, no scope.
Unrounded(returned) ==
    /\ fp' = SetFflags(fp, returned)
    /\ Ran("unrounded", Dynamic, {}, returned)
    /\ UNCHANGED <<vector_exception, override>>

-----------------------------------------------------------------------------
\* A vector instruction that rounds, or its square root: the dynamic mode of the
\* host status; an invalid mode is a vector exception.
VectorArithmetic(raised, returned) ==
    /\ fp.valid
    /\ fp' = SetFflags(Scoped(fp, Dynamic, raised), returned)
    /\ Ran("vector", Dynamic, Enter(fp, Dynamic).rm, raised \cup returned)
    /\ UNCHANGED <<vector_exception, override>>

VectorInvalidMode ==
    /\ ~fp.valid
    /\ vector_exception' = TRUE
    /\ Ran("skipped", Dynamic, {}, {})
    /\ UNCHANGED <<fp, override>>

\* The estimates vfrsqrt7 and vfrec7 do not look at rounding_mode_valid.
VectorEstimate(returned) ==
    /\ fp' = SetFflags(Scoped(fp, Dynamic, {}), returned)
    /\ Ran("unrounded", Dynamic, {}, returned)
    /\ UNCHANGED <<vector_exception, override>>

-----------------------------------------------------------------------------
\* csrrw, csrrs and csrrc.
Csr(kind, c, new) ==
    /\ fp' = new
    /\ Ran(kind, {}, {}, {})
    /\ override' = IF c = "fflags" THEN override ELSE HostMode(new.csr.rm)
    /\ UNCHANGED vector_exception

RiscVZiCsrrw(c, v) == Csr("csrrw", c, Write(c, fp, v))
RiscVZiCsrrs(c, v) == Csr("csrrs", c, SetBits(c, fp, v))
RiscVZiCsrrc(c, v) == Csr("csrrc", c, ClearBits(c, fp, v))

Next ==
    \/ InvalidMode
    \/ VectorInvalidMode
    \/ \E rm \in Modes, raised, returned \in SUBSET Flags :
          \/ ScalarArithmetic(rm, raised, returned)
          \/ ZfhArithmetic(rm, raised, returned)
    \/ \E rm \in Modes, raised \in SUBSET Flags :
          \/ \E inf_times_zero \in BOOLEAN : FusedMultiplyAdd(rm, raised, inf_times_zero)
          \/ ScalarConvert(rm, raised)
    \/ \E raised, returned \in SUBSET Flags : VectorArithmetic(raised, returned)
    \/ \E returned \in SUBSET Flags : Unrounded(returned) \/ VectorEstimate(returned)
    \/ \E c \in Csrs, v \in Status :
          RiscVZiCsrrw(c, v) \/ RiscVZiCsrrs(c, v) \/ RiscVZiCsrrc(c, v)

Spec == Init /\ [][Next]_vars

-----------------------------------------------------------------------------
\* The type of every variable.
TypeOK ==
    /\ fp \in [csr : Status, host : HostStatus, mode : LegalModes, valid : BOOLEAN]
    /\ vector_exception \in BOOLEAN
    /\ done \in [kind : {"none", "skipped", "scalar", "fused", "unrounded", "vector",
                         "csrrw", "csrrs", "csrrc"},
                 wanted : HostModes, used : HostModes, raised : SUBSET Flags]
    /\ override \in HostModes

\* A scalar instruction rounds in the mode of its rm field, or in that of frm when
\* the field says dynamic: the mode cached by SetRoundingMode is never one that
\* frm no longer holds, whatever CSR writes, legal or not, came between.
ScalarRoundsAsFrm ==
    done.kind \in {"scalar", "fused"} => done.used = done.wanted

\* On x86 the mode that vector instructions round in is the one in frm, or that
\* of the last scalar instruction, until frm is written.
HostModeTracksFrm ==
    Host = "x86" => fp.host.rm \in {HostMode(fp.csr.rm), override}

\* Flags accrue: an instruction other than a CSR instruction never clears one
\* that fflags shows, through the two copies of the flags and the scopes.
FlagsAccrue ==
    [][done'.kind \notin {"csrrw", "csrrs", "csrrc"} =>
          AsUint32(fp).flags \subseteq AsUint32(fp').flags]_vars

\* SetBits "leaves other bits unchanged" (riscv_csr.h): csrrs clears no bit of
\* the status that a read would have shown.
SetBitsKeepsOthers ==
    [][done'.kind = "csrrs" =>
          /\ AsUint32(fp).rm \subseteq AsUint32(fp').rm
          /\ AsUint32(fp).flags \subseteq AsUint32(fp').flags]_vars

\* Every flag that an instruction raises is in fflags when it is done; for the
\* multiply-adds, "illegal operation flag set if either a or b are infinite, and
\* the other is zero" (riscv_d_instructions.cc).
RaisedFlagsShow ==
    done.kind \in {"scalar", "fused", "unrounded", "vector"} =>
        done.raised \subseteq AsUint32(fp).flags

\* A vector instruction rounds in the mode of frm.
VectorRoundsAsFrm ==
    done.kind = "vector" => done.used = done.wanted

\* A legal mode in frm makes the rounding mode valid again.
LegalModeIsValid == fp.csr.rm \in LegalModes => fp.valid
=============================================================================
