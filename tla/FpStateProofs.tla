--------------------------- MODULE FpStateProofs ---------------------------
(***************************************************************************)
(* Theorems about FpState for every set of flags and either host.          *)
(*                                                                         *)
(* ScalarRoundsAsFrm is about the mode cached by SetRoundingMode.  What    *)
(* makes it inductive is ModeCached: the cache equals frm whenever the     *)
(* mode is valid.  The lemmas say what the status operators that several   *)
(* instructions share return.                                              *)
(***************************************************************************)
EXTENDS FpState, TLAPS

State == [csr : Status, host : HostStatus, mode : LegalModes, valid : BOOLEAN]

\* The cached rounding mode is that of frm, or is not used.
ModeCached(s) == s.valid => s.mode = s.csr.rm

\* The host rounds as frm says, or as the given scalar instruction said.
HostRoundsAs(s, m) == Host = "x86" => s.host.rm \in {HostMode(s.csr.rm), m}

IInv == TypeOK /\ ModeCached(fp) /\ HostRoundsAs(fp, override) /\ ScalarRoundsAsFrm

-----------------------------------------------------------------------------
\* The host's mode for any encoding is one the host has.
LEMMA HostModeType == \A rm \in Modes : HostMode(rm) \in HostModes
<1> SUFFICES ASSUME NEW rm \in Modes PROVE HostMode(rm) \in HostModes
  OBVIOUS
<1>1. CASE 2 \in rm
  BY <1>1 DEF HostMode, HostModes
<1>2. CASE 2 \notin rm
  <2>1. rm \in SUBSET {0, 1}
    BY <1>2 DEF Modes
  <2>2. rm \in {{}, {0}, {1}, {0, 1}}
    <3>1. CASE 0 \in rm /\ 1 \in rm
      BY <2>1, <3>1
    <3>2. CASE 0 \in rm /\ 1 \notin rm
      BY <2>1, <3>2
    <3>3. CASE 0 \notin rm /\ 1 \in rm
      BY <2>1, <3>3
    <3>4. CASE 0 \notin rm /\ 1 \notin rm
      BY <2>1, <3>4
    <3> QED BY <3>1, <3>2, <3>3, <3>4
  <2> QED BY <1>2, <2>2 DEF HostMode, HostModes, Nearest
<1> QED BY <1>1, <1>2

\* Legal modes and host modes are encodings.
LEMMA ModeTypes == LegalModes \subseteq Modes /\ HostModes \subseteq Modes
                     /\ Dynamic \in Modes /\ Nearest \in HostModes
BY DEF LegalModes, HostModes, Modes, Nearest, TiesToMax, Dynamic

\* The host's status for a status is well formed.
LEMMA SetRiscVFcsrType == \A v \in Status : SetRiscVFcsr(v) \in HostStatus
BY HostModeType, ModeTypes DEF SetRiscVFcsr, Status, HostStatus

\* A write of fcsr: both copies hold the value, and the cache is right or invalid.
LEMMA FcsrWriteIs ==
    ASSUME NEW s \in State, NEW v \in Status
    PROVE  LET t == FcsrWrite(s, v)
           IN  /\ t \in State /\ t.csr = v /\ t.host = SetRiscVFcsr(v)
               /\ ModeCached(t)
<1> DEFINE u == [s EXCEPT !.csr = v, !.host = SetRiscVFcsr(v)]
<1>1. u \in State /\ u.csr = v /\ u.host = SetRiscVFcsr(v) /\ u.mode = s.mode
  BY SetRiscVFcsrType DEF State
<1>2. CASE u.mode = v.rm
  BY <1>1, <1>2 DEF FcsrWrite, SetRoundingMode, ModeCached
<1>3. CASE u.mode # v.rm /\ v.rm \notin LegalModes
  BY <1>1, <1>3 DEF FcsrWrite, SetRoundingMode, ModeCached, State
<1>4. CASE u.mode # v.rm /\ v.rm \in LegalModes
  BY <1>1, <1>4 DEF FcsrWrite, SetRoundingMode, ModeCached, State
<1> QED BY <1>2, <1>3, <1>4

\* A write of fflags keeps frm and gives the flags asked for.
LEMMA FflagsWriteIs ==
    ASSUME NEW s \in State, NEW f \in SUBSET Flags
    PROVE  LET t == FflagsWrite(s, f)
           IN  /\ t \in State /\ t.csr.rm = s.csr.rm /\ t.host.flags = f
               /\ ModeCached(s) => ModeCached(t)
               /\ \A m : HostRoundsAs(s, m) => HostRoundsAs(t, m)
<1>1. CASE f = s.host.flags
  BY <1>1 DEF FflagsWrite
<1>2. CASE f # s.host.flags
  <2> DEFINE v == [rm |-> s.csr.rm, flags |-> f]
  <2>1. v \in Status
    BY DEF State, Status
  <2>2. FflagsWrite(s, f) = FcsrWrite(s, v)
    BY <1>2 DEF FflagsWrite
  <2>3. /\ FcsrWrite(s, v) \in State /\ FcsrWrite(s, v).csr = v
        /\ FcsrWrite(s, v).host = SetRiscVFcsr(v) /\ ModeCached(FcsrWrite(s, v))
    BY <2>1, FcsrWriteIs
  <2>4. v.rm = s.csr.rm /\ v.flags = f
    OBVIOUS
  <2>5. /\ SetRiscVFcsr(v).flags = f
        /\ Host = "x86" => SetRiscVFcsr(v).rm = HostMode(s.csr.rm)
    BY DEF SetRiscVFcsr
  <2> HIDE DEF v
  <2> QED BY <2>2, <2>3, <2>4, <2>5 DEF HostRoundsAs
<1> QED BY <1>1, <1>2

\* The fflags destination adds flags and disturbs nothing else.
LEMMA SetFflagsIs ==
    ASSUME NEW s \in State, NEW f \in SUBSET Flags
    PROVE  LET t == SetFflags(s, f)
           IN  /\ t \in State /\ t.csr.rm = s.csr.rm
               /\ t.host.flags = s.host.flags \cup f
               /\ ModeCached(s) => ModeCached(t)
               /\ \A m : HostRoundsAs(s, m) => HostRoundsAs(t, m)
<1>1. s.host.flags \cup f \in SUBSET Flags
  BY DEF State, HostStatus
<1>2. SetFflags(s, f) = FflagsWrite(s, s.host.flags \cup f)
  BY DEF SetFflags, SetBits, Write, GetUint32, AsUint32
<1> QED BY <1>1, <1>2, FflagsWriteIs

\* Entering and leaving a scope: only the host's status changes.
LEMMA LeaveIs ==
    ASSUME NEW s \in State, NEW m \in HostModes, NEW cpu \in HostStatus
    PROVE  LET t == Leave(s, m, cpu)
           IN  /\ t \in State /\ t.csr = s.csr /\ t.mode = s.mode /\ t.valid = s.valid
               /\ t.host.flags = cpu.flags
               /\ Host = "x86" => t.host.rm = cpu.rm
BY DEF Leave, State, HostStatus

LEMMA EnterIs ==
    ASSUME NEW s \in State, NEW rm \in Modes
    PROVE  /\ Enter(s, rm) \in HostStatus /\ Enter(s, rm).flags = s.host.flags
           /\ rm # Dynamic => Enter(s, rm).rm = HostMode(rm)
           /\ rm = Dynamic => Enter(s, rm).rm = s.host.rm
           /\ \A f \in SUBSET Flags :
                 [Enter(s, rm) EXCEPT !.flags = @ \cup f] \in HostStatus
BY HostModeType DEF Enter, State, HostStatus

LEMMA ScopedIs ==
    ASSUME NEW s \in State, NEW rm \in Modes, NEW f \in SUBSET Flags
    PROVE  LET t == Scoped(s, rm, f)
           IN  /\ t \in State /\ t.csr = s.csr /\ t.mode = s.mode /\ t.valid = s.valid
               /\ t.host.flags = s.host.flags \cup f
               /\ Host = "x86" /\ rm # Dynamic => t.host.rm = HostMode(rm)
               /\ Host = "x86" /\ rm = Dynamic => t.host.rm = s.host.rm
<1> DEFINE cpu == [Enter(s, rm) EXCEPT !.flags = @ \cup f]
<1>1. cpu \in HostStatus /\ cpu.flags = s.host.flags \cup f /\ cpu.rm = Enter(s, rm).rm
  BY EnterIs DEF HostStatus
<1>2. s.host.rm \in HostModes
  BY DEF State, HostStatus
<1>3. Scoped(s, rm, f) = Leave(s, s.host.rm, cpu)
  BY DEF Scoped
<1>4. Enter(s, rm).rm = IF rm = Dynamic THEN s.host.rm ELSE HostMode(rm)
  BY EnterIs
<1> HIDE DEF cpu
<1>5. LET t == Leave(s, s.host.rm, cpu)
      IN  /\ t \in State /\ t.csr = s.csr /\ t.mode = s.mode /\ t.valid = s.valid
          /\ t.host.flags = cpu.flags
          /\ Host = "x86" => t.host.rm = cpu.rm
  BY <1>1, <1>2, LeaveIs
<1> QED BY <1>1, <1>3, <1>4, <1>5

\* A scalar instruction that may run passes on a mode that is not dynamic, and
\* its host mode is the one its rm field and frm ask for.
LEMMA ResolveIs ==
    ASSUME NEW rm \in Modes, fp \in State, ModeCached(fp), MayRun(rm)
    PROVE  /\ Resolve(fp, rm) \in Modes /\ Resolve(fp, rm) # Dynamic
           /\ Resolve(fp, rm) = IF rm = Dynamic THEN AsUint32(fp).rm ELSE rm
<1>1. Dynamic \notin LegalModes
  BY DEF Dynamic, LegalModes, Nearest, TiesToMax
<1>2. fp.mode \in LegalModes
  BY DEF State
<1> QED BY <1>1, <1>2, ModeTypes DEF Resolve, MayRun, ModeCached, AsUint32

-----------------------------------------------------------------------------
\* The initial state.
LEMMA InitIInv == Init => IInv
<1> SUFFICES ASSUME Init PROVE IInv
  OBVIOUS
<1>1. Nearest \in HostModes /\ Nearest \in LegalModes /\ {} \in Modes /\ Nearest = {}
  BY DEF HostModes, LegalModes, Modes, Nearest
<1>2. TypeOK
  BY <1>1 DEF Init, TypeOK, Status, HostStatus
<1>3. ModeCached(fp) /\ ScalarRoundsAsFrm
  BY DEF Init, ModeCached, ScalarRoundsAsFrm, Nearest
<1>4. HostRoundsAs(fp, override)
  BY DEF Init, HostRoundsAs, HostMode, Nearest
<1> QED BY <1>2, <1>3, <1>4 DEF IInv

\* Every instruction keeps the invariant and clears no flag unless it names a CSR.
LEMMA StepIInv ==
    IInv /\ [Next]_vars =>
        /\ IInv'
        /\ done'.kind \in {"csrrw", "csrrs", "csrrc"} \/ UNCHANGED vars
              \/ AsUint32(fp).flags \subseteq AsUint32(fp').flags
<1> SUFFICES ASSUME IInv, [Next]_vars
             PROVE  /\ IInv'
                    /\ done'.kind \in {"csrrw", "csrrs", "csrrc"} \/ UNCHANGED vars
                          \/ AsUint32(fp).flags \subseteq AsUint32(fp').flags
  OBVIOUS
<1>a. fp \in State /\ ModeCached(fp) /\ HostRoundsAs(fp, override)
        /\ fp.host.rm \in HostModes /\ fp.host.flags \in SUBSET Flags
  BY DEF IInv, TypeOK, State, HostStatus
<1> DEFINE Kept == AsUint32(fp).flags \subseteq AsUint32(fp').flags
           Goal == /\ IInv'
                   /\ done'.kind \in {"csrrw", "csrrs", "csrrc"} \/ UNCHANGED vars \/ Kept
           Want(rm) == HostMode(IF rm = Dynamic THEN AsUint32(fp).rm ELSE rm)
\* What is left to show of an instruction that is not a CSR instruction.
<1>b. ASSUME NEW kind \in {"skipped", "scalar", "fused", "unrounded", "vector"},
             NEW rm \in Modes, NEW used \in HostModes, NEW raised \in SUBSET Flags,
             Ran(kind, rm, used, raised), kind \in {"scalar", "fused"} => used = Want(rm),
             fp' \in State, ModeCached(fp'), HostRoundsAs(fp', override'),
             override' \in HostModes, vector_exception' \in BOOLEAN,
             fp.host.flags \subseteq fp'.host.flags
      PROVE  Goal
  <2>1. AsUint32(fp).rm \in Modes
    BY <1>a DEF AsUint32, State, Status
  <2>2. Want(rm) \in HostModes
    BY <2>1, HostModeType
  <2>3. done' = [kind |-> kind, used |-> used, raised |-> raised, wanted |-> Want(rm)]
    BY <1>b DEF Ran
  <2> HIDE DEF Want
  <2>4. TypeOK'
    BY <1>b, <2>2, <2>3 DEF TypeOK, State
  <2>5. ScalarRoundsAsFrm'
    BY <1>b, <2>3 DEF ScalarRoundsAsFrm
  <2>6. ModeCached(fp)' /\ HostRoundsAs(fp, override)'
    BY <1>b DEF ModeCached, HostRoundsAs
  <2>7. Kept
    BY <1>b DEF AsUint32
  <2> QED BY <2>4, <2>5, <2>6, <2>7 DEF IInv
<1>1. ASSUME InvalidMode \/ VectorInvalidMode
      PROVE  Goal
  <2>1. /\ Ran("skipped", Dynamic, Nearest, {}) /\ fp' = fp /\ override' = override
        /\ vector_exception' \in BOOLEAN
    BY <1>1 DEF InvalidMode, VectorInvalidMode, IInv, TypeOK, Nearest
  <2>2. override' \in HostModes /\ {} \in SUBSET Flags
    BY <2>1 DEF IInv, TypeOK
  <2>3. fp' \in State /\ ModeCached(fp') /\ HostRoundsAs(fp', override')
    BY <1>a, <2>1
  <2>4. fp.host.flags \subseteq fp'.host.flags
    BY <2>1
  <2> HIDE DEF Goal, Want
  <2> QED BY <1>b, <2>1, <2>2, <2>3, <2>4, ModeTypes
<1>2. ASSUME NEW rm \in Modes, NEW raised \in SUBSET Flags, NEW returned \in SUBSET Flags,
             ScalarArithmetic(rm, raised, returned)
      PROVE  Goal
  <2> DEFINE mode == Resolve(fp, rm)
             s == Scoped(fp, mode, raised)
             t == SetFflags(s, returned)
  <2>1. mode \in Modes /\ mode # Dynamic /\ HostMode(mode) = Want(rm)
    BY <1>2, <1>a, ResolveIs DEF ScalarArithmetic
  <2>2. /\ fp' = t /\ Ran("scalar", rm, Enter(fp, mode).rm, raised \cup returned)
        /\ override' = HostMode(mode) /\ vector_exception' = vector_exception
    BY <1>2 DEF ScalarArithmetic
  <2>3. HostMode(mode) \in HostModes /\ Enter(fp, mode).rm = HostMode(mode)
    BY <1>a, <2>1, HostModeType, EnterIs
  <2>4. /\ s \in State /\ s.csr = fp.csr /\ s.mode = fp.mode /\ s.valid = fp.valid
        /\ s.host.flags = fp.host.flags \cup raised
        /\ Host = "x86" => s.host.rm = HostMode(mode)
    BY <1>a, <2>1, ScopedIs
  <2> HIDE DEF mode, s
  <2>5. ModeCached(s) /\ HostRoundsAs(s, HostMode(mode))
    BY <1>a, <2>4 DEF ModeCached, HostRoundsAs
  <2>6. /\ t \in State /\ t.host.flags = s.host.flags \cup returned
        /\ ModeCached(t) /\ HostRoundsAs(t, HostMode(mode))
    BY <2>4, <2>5, SetFflagsIs
  <2>7. raised \cup returned \in SUBSET Flags /\ vector_exception' \in BOOLEAN
    BY <2>2 DEF IInv, TypeOK
  <2>8. fp.host.flags \subseteq t.host.flags
    BY <2>4, <2>6
  <2> HIDE DEF t, Goal, Want
  <2> QED BY <1>b, <2>1, <2>2, <2>3, <2>6, <2>7, <2>8
<1>3. ASSUME NEW rm \in Modes, NEW raised \in SUBSET Flags, NEW returned \in SUBSET Flags,
             ZfhArithmetic(rm, raised, returned)
      PROVE  Goal
  <2> DEFINE mode == Resolve(fp, rm)
             inner == Scoped(fp, mode, raised)
             outer == Leave(inner, fp.host.rm, Enter(fp, mode))
             sum == AsUint32(inner).flags \cup returned
             t == SetFflags(outer, sum)
  <2>1. mode \in Modes /\ mode # Dynamic /\ HostMode(mode) = Want(rm)
    BY <1>3, <1>a, ResolveIs DEF ZfhArithmetic
  <2>2. /\ fp' = t /\ Ran("scalar", rm, Enter(fp, mode).rm, raised \cup returned)
        /\ override' = HostMode(mode) /\ vector_exception' = vector_exception
    BY <1>3 DEF ZfhArithmetic
  <2>3. /\ HostMode(mode) \in HostModes /\ Enter(fp, mode).rm = HostMode(mode)
        /\ Enter(fp, mode) \in HostStatus /\ Enter(fp, mode).flags = fp.host.flags
    BY <1>a, <2>1, HostModeType, EnterIs
  <2>4. /\ inner \in State /\ inner.csr = fp.csr /\ inner.mode = fp.mode
        /\ inner.valid = fp.valid /\ inner.host.flags = fp.host.flags \cup raised
    BY <1>a, <2>1, ScopedIs
  <2> HIDE DEF mode, inner
  <2>5. /\ outer \in State /\ outer.csr = inner.csr /\ outer.mode = inner.mode
        /\ outer.valid = inner.valid /\ outer.host.flags = Enter(fp, mode).flags
        /\ Host = "x86" => outer.host.rm = Enter(fp, mode).rm
    BY <1>a, <2>3, <2>4, LeaveIs
  <2>6. sum \in SUBSET Flags
    BY <1>a, <2>4 DEF AsUint32
  <2> HIDE DEF outer, sum
  <2>7. ModeCached(outer) /\ HostRoundsAs(outer, HostMode(mode))
    BY <1>a, <2>3, <2>4, <2>5 DEF ModeCached, HostRoundsAs
  <2>8. /\ t \in State /\ t.host.flags = outer.host.flags \cup sum
        /\ ModeCached(t) /\ HostRoundsAs(t, HostMode(mode))
    BY <2>5, <2>6, <2>7, SetFflagsIs
  <2>9. raised \cup returned \in SUBSET Flags /\ vector_exception' \in BOOLEAN
    BY <2>2 DEF IInv, TypeOK
  <2>10. fp.host.flags \subseteq t.host.flags
    BY <2>3, <2>5, <2>8
  <2> HIDE DEF t, Goal, Want
  <2> QED BY <1>b, <2>1, <2>2, <2>3, <2>8, <2>9, <2>10
<1>4. ASSUME NEW rm \in Modes, NEW raised \in SUBSET Flags, NEW inf_times_zero \in BOOLEAN,
             FusedMultiplyAdd(rm, raised, inf_times_zero)
      PROVE  Goal
  <2> DEFINE mode == Resolve(fp, rm)
             returned == IF inf_times_zero THEN {NV} ELSE {}
             s == SetFflags(fp, returned)
             cpu == [Enter(fp, mode) EXCEPT !.flags = @ \cup raised]
             t == Leave(s, fp.host.rm, cpu)
  <2>1. mode \in Modes /\ mode # Dynamic /\ HostMode(mode) = Want(rm)
    BY <1>4, <1>a, ResolveIs DEF FusedMultiplyAdd
  <2>2. /\ fp' = t /\ Ran("fused", rm, Enter(fp, mode).rm, raised \cup returned)
        /\ override' = HostMode(mode) /\ vector_exception' = vector_exception
    BY <1>4 DEF FusedMultiplyAdd
  <2>3. /\ HostMode(mode) \in HostModes /\ Enter(fp, mode).rm = HostMode(mode)
        /\ cpu \in HostStatus /\ cpu.rm = HostMode(mode)
        /\ cpu.flags = fp.host.flags \cup raised
    <3>1. /\ Enter(fp, mode) \in HostStatus /\ Enter(fp, mode).flags = fp.host.flags
          /\ Enter(fp, mode).rm = HostMode(mode) /\ HostMode(mode) \in HostModes
      BY <1>a, <2>1, HostModeType, EnterIs
    <3> HIDE DEF mode
    <3> QED BY <1>a, <3>1 DEF HostStatus
  <2>4. returned \in SUBSET Flags
    BY FpAssumption
  <2> HIDE DEF mode, returned, cpu
  <2>5. s \in State /\ s.csr.rm = fp.csr.rm /\ ModeCached(s)
    BY <1>a, <2>4, SetFflagsIs
  <2> HIDE DEF s
  <2>6. /\ t \in State /\ t.csr = s.csr /\ t.mode = s.mode /\ t.valid = s.valid
        /\ t.host.flags = cpu.flags /\ (Host = "x86" => t.host.rm = cpu.rm)
    BY <1>a, <2>3, <2>5, LeaveIs
  <2> HIDE DEF t
  <2>7. ModeCached(t) /\ HostRoundsAs(t, HostMode(mode))
    BY <2>3, <2>5, <2>6 DEF ModeCached, HostRoundsAs
  <2>8. raised \cup returned \in SUBSET Flags /\ vector_exception' \in BOOLEAN
    BY <2>2, <2>4 DEF IInv, TypeOK
  <2>9. fp.host.flags \subseteq t.host.flags
    BY <2>3, <2>6
  <2> HIDE DEF Goal, Want
  <2> QED BY <1>b, <2>1, <2>2, <2>3, <2>6, <2>7, <2>8, <2>9
\* The instructions that only set flags, after a scope in the host's own mode or
\* without one.
<1>c. ASSUME NEW kind \in {"scalar", "unrounded", "vector"}, NEW rm \in Modes,
             NEW used \in HostModes, NEW raised \in SUBSET Flags,
             NEW returned \in SUBSET Flags, NEW s \in State,
             kind = "scalar" => used = Want(rm),
             Ran(kind, rm, used, raised), fp' = SetFflags(s, returned),
             s.csr = fp.csr, s.mode = fp.mode, s.valid = fp.valid,
             Host = "x86" => s.host.rm = fp.host.rm,
             fp.host.flags \subseteq s.host.flags,
             UNCHANGED <<vector_exception, override>>
      PROVE  Goal
  <2>1. ModeCached(s) /\ HostRoundsAs(s, override)
    BY <1>a, <1>c DEF ModeCached, HostRoundsAs
  <2>2. /\ fp' \in State /\ fp'.host.flags = s.host.flags \cup returned
        /\ ModeCached(fp') /\ HostRoundsAs(fp', override)
    BY <1>c, <2>1, SetFflagsIs
  <2>3. override' \in HostModes /\ vector_exception' \in BOOLEAN
    BY <1>c DEF IInv, TypeOK
  <2>4. fp.host.flags \subseteq fp'.host.flags
    BY <1>c, <2>2
  <2>5. HostRoundsAs(fp', override')
    BY <1>c, <2>2
  <2> HIDE DEF Goal, Want
  <2> QED BY <1>b, <1>c, <2>2, <2>3, <2>4, <2>5
<1>5. ASSUME NEW rm \in Modes, NEW returned \in SUBSET Flags, ScalarConvert(rm, returned)
      PROVE  Goal
  <2>1. Resolve(fp, rm) \in Modes /\ HostMode(Resolve(fp, rm)) = Want(rm)
    BY <1>5, <1>a, ResolveIs DEF ScalarConvert
  <2>2. Want(rm) \in HostModes
    BY <2>1, HostModeType
  <2>3. /\ fp' = SetFflags(fp, returned) /\ Ran("scalar", rm, Want(rm), returned)
        /\ UNCHANGED <<vector_exception, override>>
    BY <1>5, <2>1 DEF ScalarConvert
  <2> HIDE DEF Goal, Want
  <2> QED BY <1>a, <1>c, <2>2, <2>3
<1>6. ASSUME NEW returned \in SUBSET Flags, Unrounded(returned)
      PROVE  Goal
  <2>1. /\ fp' = SetFflags(fp, returned) /\ Ran("unrounded", Dynamic, Nearest, returned)
        /\ UNCHANGED <<vector_exception, override>>
    BY <1>6 DEF Unrounded, Nearest
  <2> HIDE DEF Goal, Want
  <2> QED BY <1>a, <1>c, <2>1, ModeTypes
<1>7. ASSUME NEW raised \in SUBSET Flags, NEW returned \in SUBSET Flags,
             VectorArithmetic(raised, returned)
      PROVE  Goal
  <2> DEFINE s == Scoped(fp, Dynamic, raised)
  <2>1. /\ fp' = SetFflags(s, returned) /\ UNCHANGED <<vector_exception, override>>
        /\ Ran("vector", Dynamic, Enter(fp, Dynamic).rm, raised \cup returned)
    BY <1>7 DEF VectorArithmetic
  <2>2. /\ s \in State /\ s.csr = fp.csr /\ s.mode = fp.mode /\ s.valid = fp.valid
        /\ s.host.flags = fp.host.flags \cup raised
        /\ Host = "x86" => s.host.rm = fp.host.rm
    BY <1>a, ModeTypes, ScopedIs
  <2>3. Enter(fp, Dynamic).rm \in HostModes /\ raised \cup returned \in SUBSET Flags
    BY <1>a, ModeTypes, EnterIs
  <2>4. fp.host.flags \subseteq s.host.flags
    BY <2>2
  <2> HIDE DEF s, Goal, Want
  <2> QED BY <1>c, <2>1, <2>2, <2>3, <2>4, ModeTypes
<1>8. ASSUME NEW returned \in SUBSET Flags, VectorEstimate(returned)
      PROVE  Goal
  <2> DEFINE s == Scoped(fp, Dynamic, {})
  <2>1. /\ fp' = SetFflags(s, returned) /\ UNCHANGED <<vector_exception, override>>
        /\ Ran("unrounded", Dynamic, Nearest, returned)
    BY <1>8 DEF VectorEstimate, Nearest
  <2>2. /\ s \in State /\ s.csr = fp.csr /\ s.mode = fp.mode /\ s.valid = fp.valid
        /\ s.host.flags = fp.host.flags \cup {}
        /\ Host = "x86" => s.host.rm = fp.host.rm
    <3> DEFINE none == {}
    <3>1. none \in SUBSET Flags /\ s = Scoped(fp, Dynamic, none)
      OBVIOUS
    <3> HIDE DEF none, s
    <3>2. /\ s \in State /\ s.csr = fp.csr /\ s.mode = fp.mode /\ s.valid = fp.valid
          /\ s.host.flags = fp.host.flags \cup none
          /\ Host = "x86" => s.host.rm = fp.host.rm
      BY <1>a, <3>1, ModeTypes, ScopedIs
    <3> QED BY <3>2 DEF none
  <2>3. fp.host.flags \subseteq s.host.flags
    BY <2>2
  <2> HIDE DEF s, Goal, Want
  <2> QED BY <1>c, <2>1, <2>2, <2>3, ModeTypes
\* A CSR instruction makes one write.
<1>d. ASSUME NEW kind \in {"csrrw", "csrrs", "csrrc"}, NEW c \in Csrs, NEW v \in Status,
             Csr(kind, c, Write(c, fp, v))
      PROVE  Goal
  <2> DEFINE t == Write(c, fp, v)
  <2>1. /\ t \in State /\ ModeCached(t)
        /\ c = "fflags" => HostRoundsAs(t, override)
        /\ c # "fflags" => HostRoundsAs(t, HostMode(t.csr.rm))
    <3>1. CASE c = "fcsr"
      <4>1. t = FcsrWrite(fp, v)
        BY <3>1 DEF Write
      <4> HIDE DEF t
      <4>2. t \in State /\ ModeCached(t) /\ t.csr = v /\ t.host = SetRiscVFcsr(v)
        BY <1>a, <4>1, FcsrWriteIs
      <4> QED BY <3>1, <4>2 DEF HostRoundsAs, SetRiscVFcsr
    <3>2. CASE c = "frm"
      <4> DEFINE w == [rm |-> v.rm, flags |-> fp.host.flags]
      <4>1. w \in Status /\ t = FcsrWrite(fp, w)
        BY <1>a, <3>2 DEF Write, FrmWrite, Status
      <4> HIDE DEF w, t
      <4>2. t \in State /\ ModeCached(t) /\ t.csr = w /\ t.host = SetRiscVFcsr(w)
        BY <1>a, <4>1, FcsrWriteIs
      <4> QED BY <3>2, <4>2 DEF HostRoundsAs, SetRiscVFcsr
    <3>3. CASE c = "fflags"
      <4>1. t = FflagsWrite(fp, v.flags) /\ v.flags \in SUBSET Flags
        BY <3>3 DEF Write, Status
      <4> QED BY <1>a, <3>3, <4>1, FflagsWriteIs
    <3> QED BY <3>1, <3>2, <3>3 DEF Csrs
  <2>2. /\ fp' = t /\ Ran(kind, {}, {}, {}) /\ vector_exception' = vector_exception
        /\ override' = IF c = "fflags" THEN override ELSE HostMode(t.csr.rm)
    BY <1>d DEF Csr
  <2> HIDE DEF t
  <2>3. /\ override' \in HostModes
        /\ HostRoundsAs(fp', override')
    BY <2>1, <2>2, HostModeType DEF IInv, TypeOK, State, Status
  <2>4. Dynamic # {} /\ {} \in Modes /\ {} \in HostModes
    BY DEF Dynamic, Modes, HostModes, Nearest
  <2>5. done' = [kind |-> kind, used |-> {}, raised |-> {}, wanted |-> HostMode({})]
    BY <2>2, <2>4 DEF Ran
  <2>6. HostMode({}) \in HostModes
    BY <2>4, HostModeType
  <2>7. TypeOK'
    BY <2>1, <2>2, <2>3, <2>4, <2>5, <2>6 DEF IInv, TypeOK, State
  <2>8. ScalarRoundsAsFrm' /\ done'.kind \in {"csrrw", "csrrs", "csrrc"}
    BY <2>5 DEF ScalarRoundsAsFrm
  <2>9. ModeCached(fp)' /\ HostRoundsAs(fp, override)'
    BY <2>1, <2>2, <2>3 DEF ModeCached, HostRoundsAs
  <2> QED BY <2>7, <2>8, <2>9 DEF IInv
<1>9. ASSUME NEW c \in Csrs, NEW v \in Status,
             RiscVZiCsrrw(c, v) \/ RiscVZiCsrrs(c, v) \/ RiscVZiCsrrc(c, v)
      PROVE  Goal
  <2> DEFINE old == GetUint32(c, fp)
             set == [rm |-> old.rm \cup v.rm, flags |-> old.flags \cup v.flags]
             clear == [rm |-> old.rm \ v.rm, flags |-> old.flags \ v.flags]
  <2>1. old.rm \in Modes /\ old.flags \in SUBSET Flags
    BY <1>a DEF GetUint32, AsUint32, State, Status
  <2>2. set \in Status /\ clear \in Status
    BY <2>1 DEF Status, Modes
  <2> HIDE DEF Goal
  <2>3. CASE RiscVZiCsrrw(c, v)
    BY <1>d, <2>3 DEF RiscVZiCsrrw
  <2>4. CASE RiscVZiCsrrs(c, v)
    <3>1. Csr("csrrs", c, Write(c, fp, set))
      BY <2>4 DEF RiscVZiCsrrs, SetBits
    <3> HIDE DEF set
    <3> QED BY <1>d, <2>2, <3>1
  <2>5. CASE RiscVZiCsrrc(c, v)
    <3>1. Csr("csrrc", c, Write(c, fp, clear))
      BY <2>5 DEF RiscVZiCsrrc, ClearBits
    <3> HIDE DEF clear
    <3> QED BY <1>d, <2>2, <3>1
  <2> QED BY <1>9, <2>3, <2>4, <2>5
<1>10. ASSUME UNCHANGED vars
       PROVE  Goal
  BY <1>10 DEF vars, IInv, TypeOK, ModeCached, HostRoundsAs, ScalarRoundsAsFrm
<1> HIDE DEF Goal
<1>11. Goal
  <2>1. Next \/ UNCHANGED vars
    OBVIOUS
  <2>2. ASSUME Next
        PROVE  Goal
    BY <1>1, <1>2, <1>3, <1>4, <1>5, <1>6, <1>7, <1>8, <1>9, <2>2 DEF Next
  <2> QED BY <1>10, <2>1, <2>2
<1> QED BY <1>11 DEF Goal

-----------------------------------------------------------------------------
\* The inductive invariant holds in every reachable state.
THEOREM Inductive == Spec => []IInv
<1>1. IInv /\ [Next]_vars => IInv'
  BY StepIInv
<1> QED BY InitIInv, <1>1, PTL DEF Spec

\* TypeOK: every write, scope and instruction leaves a well formed state.
THEOREM TypeCorrect == Spec => []TypeOK
<1>1. IInv => TypeOK
  BY DEF IInv
<1> QED BY Inductive, <1>1, PTL

\* Whatever is written to fcsr and frm, legal or not, the mode that a scalar
\* instruction reads from the cache is the one in frm.
THEOREM ScalarRounding == Spec => []ScalarRoundsAsFrm
<1>1. IInv => ScalarRoundsAsFrm
  BY DEF IInv
<1> QED BY Inductive, <1>1, PTL

\* On an x86 host the mode of the vector unit is that of frm or of the last scalar
\* instruction.
THEOREM HostMode_Tracks == Spec => []HostModeTracksFrm
<1>1. IInv => HostModeTracksFrm
  BY DEF IInv, HostRoundsAs, HostModeTracksFrm
<1> QED BY Inductive, <1>1, PTL

\* On either host flags accrue.
THEOREM FlagsNeverLost == Spec => FlagsAccrue
<1>1. IInv /\ [Next]_vars =>
        [done'.kind \notin {"csrrw", "csrrs", "csrrc"} =>
            AsUint32(fp).flags \subseteq AsUint32(fp').flags]_vars
  BY StepIInv
<1> QED BY Inductive, <1>1, PTL DEF Spec, FlagsAccrue
=============================================================================
