-------------------------------- MODULE Traps ---------------------------------
(***************************************************************************)
(* Interrupts, exceptions and privilege modes of one hart: RiscVState's    *)
(* Trap, CheckForInterrupt and TakeAvailableInterrupt (riscv_state.cc),    *)
(* mret and sret (riscv_priv_instructions.cc), and the CSRs whose writes   *)
(* have effects of their own (riscv_xstatus.cc, riscv_xip_xie.cc).         *)
(*                                                                         *)
(* CheckForInterrupt does not take an interrupt: it leaves its code in a   *)
(* latch (is_interrupt_available_, available_interrupt_code_), and the     *)
(* execution loop takes it once the instruction is complete. A loop        *)
(* iteration is therefore two phases, "fetch" (an instruction is about to  *)
(* execute) and "boundary" (it has executed, the cycle counter is          *)
(* incremented, then the latch is looked at).                              *)
(*                                                                         *)
(* mip, mie and mideleg are sets of interrupt codes, medeleg a set of      *)
(* exception codes. User-level interrupts (sideleg, uie), which the code   *)
(* logs as unsupported, are left out.                                      *)
(***************************************************************************)
EXTENDS Naturals

CONSTANTS
  Codes,          \* interrupt codes in use, a subset of AllCodes
  StatusWrites,   \* values written to mstatus by csr instructions
  DelegWrites,    \* values written to mideleg
  EDelegWrites,   \* values written to medeleg
  Lines,          \* interrupt lines a guest store (CLINT msip, mtimecmp) drives
  TimerLines,     \* lines the cycle counter's listener may raise
  AsyncLines,     \* lines driven from outside the execution loop (SetIrqValue)
  Xlen            \* 32 or 64: sret differs

\* PrivilegeMode, InterruptCode and ExceptionCode.
User == 0
Supervisor == 1
Machine == 3
Modes == {User, Supervisor, Machine}
Reserved == 2                       \* no mode, but a value of mpp and of the enum
Levels == Modes \union {Reserved}
AllCodes == {1, 3, 5, 7, 9, 11}
NoInterrupt == 16
IllegalInstruction == 2
EnvCall == [md \in Modes |-> 8 + md]
ExceptionCodes == {IllegalInstruction, 8, 9, 11}

\* The fields of mstatus the code acts on. set_mpp refuses modes that the hart does
\* not have, a csr write does not come that way: it may store the reserved value.
MStatus == [mie : BOOLEAN, mpie : BOOLEAN, mpp : Levels,
            sie : BOOLEAN, spie : BOOLEAN, spp : {User, Supervisor},
            tsr : BOOLEAN]

ASSUME CodesAssumption ==
  /\ Codes \subseteq AllCodes
  /\ Lines \subseteq Codes /\ TimerLines \subseteq Codes /\ AsyncLines \subseteq Codes
ASSUME WritesAssumption ==
  /\ StatusWrites \subseteq MStatus
  /\ DelegWrites \subseteq SUBSET Codes
  /\ EDelegWrites \subseteq SUBSET {IllegalInstruction, 8, 9}

VARIABLES
  mode,        \* privilege_mode_
  mstatus,
  mip,
  mie,
  mideleg,
  medeleg,
  available,   \* the latched code, NoInterrupt if none
  phase,       \* "fetch" or "boundary"
  disturbed,   \* history: a line changed before the current instruction
  m_context,   \* history: what the last trap to machine mode interrupted
  s_context    \* history: what the last trap to supervisor mode interrupted

context == <<m_context, s_context>>
vars == <<mode, mstatus, mip, mie, mideleg, medeleg, available, phase, disturbed,
          context>>

\* A context is known until software rewrites the status register or returns.
Unknown == [known |-> FALSE, mode |-> Machine, ie |-> FALSE]
Context(md, ie) == [known |-> TRUE, mode |-> md, ie |-> ie]

Init ==
  /\ mode = Machine
  /\ mstatus = [mie |-> FALSE, mpie |-> FALSE, mpp |-> User, sie |-> FALSE,
                spie |-> FALSE, spp |-> User, tsr |-> FALSE]
  /\ mip = {} /\ mie = {} /\ mideleg = {} /\ medeleg = {}
  /\ available = NoInterrupt
  /\ phase = "fetch" /\ disturbed = FALSE
  /\ m_context = Unknown /\ s_context = Unknown

-------------------------------------------------------------------------------
(* Which interrupt.                                                        *)

\* PickInterrupt: mei, msi, mti, sei, ssi, sti.
Priority == <<11, 3, 7, 9, 1, 5>>

Precedes(c, d) == \E i, j \in 1..6 : i <= j /\ Priority[i] = c /\ Priority[j] = d
PickInterrupt(S) == CHOOSE c \in S : \A d \in S : Precedes(c, d)

\* Mutant: the supervisor's enable bit counts in machine mode too.
SupervisorEnabledInMachineMode(md, st) == md = User \/ st.sie

\* Enabled at machine, at supervisor level: the current level is lower, or the
\* level's enable bit is set; never if the current level is higher.
MachineEnabled(md, st) == md # Machine \/ st.mie
SupervisorEnabled(md, st) == (md = User \/ st.sie) /\ md # Machine

\* The interrupt CheckForInterrupt selects.
Selection(md, st, ip, ie, deleg) ==
  LET m_interrupts == (ip \intersect ie) \ deleg
      s_interrupts == (ip \intersect ie) \intersect deleg
  IN IF MachineEnabled(md, st) /\ m_interrupts # {}
     THEN PickInterrupt(m_interrupts)
     ELSE IF SupervisorEnabled(md, st) /\ s_interrupts # {}
     THEN PickInterrupt(s_interrupts)
     ELSE NoInterrupt

Current == Selection(mode, mstatus, mip, mie, mideleg)

\* Mutant: an interrupt already latched is kept.
CheckUnlessAvailable ==
  available' = IF available # NoInterrupt THEN available
               ELSE Selection(mode', mstatus', mip', mie', mideleg')

\* CheckForInterrupt, called when the rest of the new state is in place: it sets
\* the latch and never clears it.
CheckForInterrupt ==
  available' = LET c == Selection(mode', mstatus', mip', mie', mideleg')
               IN IF c = NoInterrupt THEN available ELSE c

\* RiscVMStatus::Set, RiscVMIp::Set and RiscVMIe::Set.
SetMStatus(st) ==
  /\ mstatus' = st
  /\ IF st.mie \/ st.sie THEN CheckForInterrupt ELSE UNCHANGED available
SetMIp(v) ==
  /\ mip' = v
  /\ IF v # {} THEN CheckForInterrupt ELSE UNCHANGED available
SetMIe(v) ==
  /\ mie' = v
  /\ IF v # {} THEN CheckForInterrupt ELSE UNCHANGED available

-------------------------------------------------------------------------------
(* Traps.                                                                  *)

\* Where a trap goes. An exception is never delegated out of machine mode; for an
\* interrupt CheckForInterrupt is relied upon.
Destination(is_interrupt, c) ==
  IF is_interrupt
  THEN IF c \in mideleg THEN Supervisor ELSE Machine
  ELSE IF mode # Machine /\ c \in medeleg THEN Supervisor ELSE Machine

\* Mutant: the mode saved is the one the trap goes to.
EnteredWithoutSavingMode(dest) ==
  IF dest = Machine
  THEN [mstatus EXCEPT !.mpp = dest, !.mpie = mstatus.mie, !.mie = FALSE]
  ELSE [mstatus EXCEPT !.spp = dest, !.spie = mstatus.sie, !.sie = FALSE]

\* Mutant: the mode saved in spp is not masked.
EnteredUnmasked(dest) ==
  IF dest = Machine
  THEN [mstatus EXCEPT !.mpp = mode, !.mpie = mstatus.mie, !.mie = FALSE]
  ELSE [mstatus EXCEPT !.spp = mode, !.spie = mstatus.sie, !.sie = FALSE]

\* mstatus after a trap to dest: the stack of enables and modes, spp = mode & 1.
Entered(dest) ==
  IF dest = Machine
  THEN [mstatus EXCEPT !.mpp = mode, !.mpie = mstatus.mie, !.mie = FALSE]
  ELSE [mstatus EXCEPT !.spp = mode % 2, !.spie = mstatus.sie, !.sie = FALSE]

SaveContext(dest) ==
  IF dest = Machine
  THEN m_context' = Context(mode, mstatus.mie) /\ UNCHANGED s_context
  ELSE s_context' = Context(mode, mstatus.sie) /\ UNCHANGED m_context

\* Trap(is_interrupt = false, c).
Exception(c) ==
  LET dest == Destination(FALSE, c)
  IN /\ mode' = dest
     /\ SaveContext(dest)
     /\ UNCHANGED <<mip, mie, mideleg, medeleg>>
     /\ SetMStatus(Entered(dest))

\* TakeAvailableInterrupt: Trap may latch anew, and what it latches is dropped.
TakeAvailableInterrupt ==
  /\ phase = "boundary" /\ phase' = "fetch" /\ disturbed' = FALSE
  /\ available # NoInterrupt
  /\ LET dest == Destination(TRUE, available)
     IN /\ mode' = dest
        /\ mstatus' = Entered(dest)
        /\ SaveContext(dest)
  /\ available' = NoInterrupt
  /\ UNCHANGED <<mip, mie, mideleg, medeleg>>

NextInstruction ==
  /\ phase = "boundary" /\ phase' = "fetch" /\ disturbed' = FALSE
  /\ available = NoInterrupt
  /\ UNCHANGED <<mode, mstatus, mip, mie, mideleg, medeleg, available, context>>

-------------------------------------------------------------------------------
(* Instructions.                                                           *)

\* An instruction executes, in mode m or above (CheckCsrPermission).
Executes(m) ==
  /\ phase = "fetch" /\ phase' = "boundary" /\ UNCHANGED disturbed
  /\ mode >= m

\* In the reserved mode an ecall is only logged.
ECall ==
  /\ Executes(User)
  /\ \/ mode \in Modes /\ Exception(EnvCall[mode])
     \/ /\ mode = Reserved
        /\ UNCHANGED <<mode, mstatus, mip, mie, mideleg, medeleg, available, context>>

\* A csr of a higher mode, mret outside machine mode, sret where it is not
\* allowed, or any other instruction that is illegal in every mode.
Illegal ==
  /\ Executes(User)
  /\ Exception(IllegalInstruction)

MRet ==
  /\ Executes(Machine)
  /\ mode' = mstatus.mpp
  /\ m_context' = Unknown
  /\ UNCHANGED <<mip, mie, mideleg, medeleg, s_context>>
  /\ SetMStatus([mstatus EXCEPT !.mie = mstatus.mpie, !.mpie = TRUE, !.mpp = User])

SRet ==
  /\ Executes(Supervisor)
  /\ Xlen = 32 => mode = Supervisor
  /\ ~mstatus.tsr
  /\ mode' = mstatus.spp
  /\ s_context' = Unknown
  /\ UNCHANGED <<mip, mie, mideleg, medeleg, m_context>>
  /\ SetMStatus([mstatus EXCEPT !.sie = mstatus.spie, !.spie = TRUE, !.spp = User])

\* Any other instruction.
Plain ==
  /\ Executes(User)
  /\ UNCHANGED <<mode, mstatus, mip, mie, mideleg, medeleg, available, context>>

WriteMStatus(v) ==
  /\ Executes(Machine)
  /\ m_context' = Unknown /\ s_context' = Unknown
  /\ UNCHANGED <<mode, mip, mie, mideleg, medeleg>>
  /\ SetMStatus(v)

\* Mutant: sstatus writes through to all of mstatus.
WriteSStatusUnmasked(v) ==
  /\ Executes(Supervisor)
  /\ s_context' = Unknown
  /\ UNCHANGED <<mode, mip, mie, mideleg, medeleg, m_context>>
  /\ SetMStatus(v)

\* sstatus is mstatus seen through a write mask.
WriteSStatus(v) ==
  /\ Executes(Supervisor)
  /\ s_context' = Unknown
  /\ UNCHANGED <<mode, mip, mie, mideleg, medeleg, m_context>>
  /\ SetMStatus([mstatus EXCEPT !.sie = v.sie, !.spie = v.spie, !.spp = v.spp])

\* The write masks of mip and sip (kWriteMask); mie and sie have all the codes.
MIpMask == {1, 3, 5, 9}
SIpMask == {1, 5, 9}

WriteMIp(v) ==
  /\ Executes(Machine)
  /\ UNCHANGED <<mode, mstatus, mie, mideleg, medeleg, context>>
  /\ SetMIp((v \intersect MIpMask) \union (mip \ MIpMask))

WriteMIe(v) ==
  /\ Executes(Machine)
  /\ UNCHANGED <<mode, mstatus, mip, mideleg, medeleg, context>>
  /\ SetMIe(v)

\* RiscVSimpleCsr::Write merges v with the bits sip may not write and calls
\* RiscVSIp::Set, which computes (mip & wmask) | (value & wmask).
WriteSIp(v) ==
  /\ Executes(Supervisor)
  /\ UNCHANGED <<mode, mstatus, mie, mideleg, medeleg, context>>
  /\ LET wmask == SIpMask \union mideleg
         value == (v \intersect SIpMask) \union (mip \ SIpMask)
     IN SetMIp((mip \union value) \intersect wmask)

WriteSIe(v) ==
  /\ Executes(Supervisor)
  /\ UNCHANGED <<mode, mstatus, mip, mideleg, medeleg, context>>
  /\ SetMIe(mie \union v)

\* Writes to the delegation registers check nothing.
WriteMIDeleg(v) ==
  /\ Executes(Machine)
  /\ mideleg' = v
  /\ UNCHANGED <<mode, mstatus, mip, mie, medeleg, available, context>>

WriteMEDeleg(v) ==
  /\ Executes(Machine)
  /\ medeleg' = v
  /\ UNCHANGED <<mode, mstatus, mip, mie, mideleg, available, context>>

\* set_meip, set_mtip, set_msip.
SetLine(c, v) == SetMIp(IF v THEN mip \union {c} ELSE mip \ {c})

\* A store to the CLINT.
StoreToDevice(c, v) ==
  /\ Executes(User)
  /\ UNCHANGED <<mode, mstatus, mie, mideleg, medeleg, context>>
  /\ SetLine(c, v)

Instruction ==
  \/ ECall \/ Illegal \/ MRet \/ SRet \/ Plain
  \/ \E v \in StatusWrites : WriteMStatus(v) \/ WriteSStatus(v)
  \/ \E v \in SUBSET Codes :
       WriteMIp(v) \/ WriteMIe(v) \/ WriteSIp(v) \/ WriteSIe(v)
  \/ \E v \in DelegWrites : WriteMIDeleg(v)
  \/ \E v \in EDelegWrites : WriteMEDeleg(v)
  \/ \E c \in Lines, v \in BOOLEAN : StoreToDevice(c, v)

\* Mutant: the cycle counter's listener sets the bit and checks nothing.
TimerRisesUnseen(c) ==
  /\ phase = "boundary"
  /\ mip' = mip \union {c}
  /\ UNCHANGED <<mode, mstatus, mie, mideleg, medeleg, available, phase, disturbed,
                 context>>

\* counter_num_cycles_.Increment calls the CLINT, which may raise mtip.
TimerRises(c) ==
  /\ phase = "boundary"
  /\ UNCHANGED <<mode, mstatus, mie, mideleg, medeleg, phase, disturbed, context>>
  /\ SetLine(c, TRUE)

\* SetIrqValue: an interrupt line changes while no instruction is executing.
ExternalLine(c, v) ==
  /\ phase = "fetch" /\ disturbed' = TRUE
  /\ UNCHANGED <<mode, mstatus, mie, mideleg, medeleg, phase, context>>
  /\ SetLine(c, v)

Next ==
  \/ Instruction \/ TakeAvailableInterrupt \/ NextInstruction
  \/ \E c \in TimerLines : TimerRises(c)
  \/ \E c \in AsyncLines, v \in BOOLEAN : ExternalLine(c, v)

Spec == Init /\ [][Next]_vars

-------------------------------------------------------------------------------
(* Properties.                                                             *)

ContextType == [known : BOOLEAN, mode : Levels, ie : BOOLEAN]
TypeOK ==
  /\ mode \in Levels /\ mstatus \in MStatus
  /\ mip \subseteq Codes /\ mie \subseteq Codes /\ mideleg \subseteq Codes
  /\ medeleg \subseteq {IllegalInstruction, 8, 9}
  /\ available \in Codes \union {NoInterrupt}
  /\ phase \in {"fetch", "boundary"} /\ disturbed \in BOOLEAN
  /\ m_context \in ContextType /\ s_context \in ContextType

\* riscv_xstatus.cc:116: "Don't allow values for unsupported privilege modes." They
\* are allowed: a csr write stores the reserved value, and mret enters it.
OnlySupportedModes == mode \in Modes

Taken(c) == phase = "boundary" /\ phase' = "fetch" /\ available = c

\* Unless a line changed from outside the loop since the last boundary, the
\* interrupt taken is the one that is due when it is taken: pending, enabled at its
\* level in the current mode, first in priority. The latch was filled earlier, by
\* a csr write, a device or a trap, and was never cleared.
TakenInterruptIsDue ==
  [][\A c \in Codes : Taken(c) /\ ~disturbed => c = Current]_vars

\* riscv_state.cc:690-692: "Traps cannot be delegated lower than the current level
\* of execution": only mret and sret lower the privilege mode.
OnlyReturnsLowerPrivilege == [][mode' < mode => MRet \/ SRet]_vars

\* The same, unless a line changed from outside the loop since the last boundary,
\* and of the three privilege modes: a trap out of the reserved one, which is above
\* supervisor mode by its number, may be delegated.
UndisturbedTrapsKeepPrivilege ==
  [][mode' < mode /\ mode # Reserved /\ ~disturbed => MRet \/ SRet]_vars

\* riscv_state.h:311-313: CheckForInterrupt is called after any event that may have
\* caused an interrupt to be pending or enabled: no instruction executes while
\* an interrupt is due.
NoInterruptMissed ==
  phase = "fetch" => Current = NoInterrupt \/ available # NoInterrupt

\* The part of it that interrupt handlers rely on: machine code that has enabled
\* its interrupts never executes an instruction with one pending but unnoticed.
MachineInterruptNotMissed ==
  phase = "fetch" /\ mode = Machine /\ mstatus.mie
    => Current = NoInterrupt \/ available # NoInterrupt

\* Code below machine mode cannot change what machine mode keeps in mstatus: the
\* saved mode and enable, the enable itself, tsr.
MachineStatusIsolated ==
  [][mode # Machine /\ mode' # Machine
       => /\ mstatus'.mie = mstatus.mie /\ mstatus'.mpie = mstatus.mpie
          /\ mstatus'.mpp = mstatus.mpp /\ mstatus'.tsr = mstatus.tsr]_vars

\* mret and sret go back to the interrupt enable that the trap interrupted and to its
\* mode, whatever was taken and returned from in between. spp is one bit, so an sret
\* can only go back to user or supervisor mode: a trap to supervisor mode out of the
\* reserved mode, or out of machine mode (by the latch, OnlyReturnsLowerPrivilege),
\* loses the mode it interrupted (riscv_state.cc:773), and returns to user or to
\* supervisor mode.
ReturnRestoresContext ==
  [][/\ MRet /\ m_context.known
          => mode' = m_context.mode /\ mstatus'.mie = m_context.ie
     /\ SRet /\ s_context.known
          => /\ mstatus'.sie = s_context.ie
             /\ s_context.mode \in {User, Supervisor} => mode' = s_context.mode]_vars

\* The same without the exception, false of the code.
ReturnRestoresEveryMode ==
  [][SRet /\ s_context.known => mode' = s_context.mode]_vars

\* riscv_xip_xie.h:105-107: "Delegated interrupts bits are readable and writable
\* in sip as they would be in mip."
SIpWritesDelegatedBits ==
  [][\A v \in SUBSET Codes :
       WriteSIp(v) => \A c \in mideleg \intersect MIpMask : c \in mip' <=> c \in v]_vars
===============================================================================
