------------------------------ MODULE TrapsProofs ------------------------------
(***************************************************************************)
(* Theorems about Traps, for every set of interrupts, lines and values     *)
(* written to the registers.                                               *)
(***************************************************************************)
EXTENDS Traps, TLAPS

\* PickInterrupt returns one of the interrupts it is given.
LEMMA PickInterruptPicks ==
  ASSUME NEW S \in SUBSET AllCodes, S # {}
  PROVE  PickInterrupt(S) \in S
<1> DEFINE Place(c) == CHOOSE i \in 1..6 : Priority[i] = c
<1>1. /\ Priority[1] = 11 /\ Priority[2] = 3 /\ Priority[3] = 7
      /\ Priority[4] = 9 /\ Priority[5] = 1 /\ Priority[6] = 5
  BY DEF Priority
<1>2. \A d \in AllCodes : \E j \in 1..6 : Priority[j] = d
  BY <1>1 DEF AllCodes
<1>3. \E i \in 1..6 : Priority[i] \in S /\ \A j \in 1..6 : j < i => Priority[j] \notin S
  <2>1. CASE Priority[1] \in S BY <2>1
  <2>2. CASE Priority[1] \notin S /\ Priority[2] \in S BY <2>2
  <2>3. CASE Priority[1] \notin S /\ Priority[2] \notin S /\ Priority[3] \in S
    BY <2>3
  <2>4. CASE /\ Priority[1] \notin S /\ Priority[2] \notin S /\ Priority[3] \notin S
             /\ Priority[4] \in S
    BY <2>4
  <2>5. CASE /\ Priority[1] \notin S /\ Priority[2] \notin S /\ Priority[3] \notin S
             /\ Priority[4] \notin S /\ Priority[5] \in S
    BY <2>5
  <2>6. CASE /\ Priority[1] \notin S /\ Priority[2] \notin S /\ Priority[3] \notin S
             /\ Priority[4] \notin S /\ Priority[5] \notin S
    <3>1. Priority[6] \in S BY <2>6, <1>1 DEF AllCodes
    <3>2. QED BY <3>1, <2>6
  <2>7. QED BY <2>1, <2>2, <2>3, <2>4, <2>5, <2>6
<1>4. PICK i \in 1..6 : Priority[i] \in S /\ \A j \in 1..6 : j < i => Priority[j] \notin S
  BY <1>3
<1>5. \A d \in S : Precedes(Priority[i], d)
  <2> SUFFICES ASSUME NEW d \in S PROVE Precedes(Priority[i], d)
    OBVIOUS
  <2>1. PICK j \in 1..6 : Priority[j] = d BY <1>2
  <2>2. ~(j < i) BY <2>1, <1>4
  <2>3. i <= j BY <2>2
  <2>4. QED BY <2>1, <2>3 DEF Precedes
<1>6. QED BY <1>4, <1>5 DEF PickInterrupt

\* What CheckForInterrupt selects: nothing, or a pending and enabled interrupt,
\* which is a delegated one only below machine mode.
LEMMA SelectionSound ==
  ASSUME NEW md, NEW st, NEW ip \in SUBSET Codes, NEW ie \in SUBSET Codes, NEW deleg
  PROVE  \/ Selection(md, st, ip, ie, deleg) = NoInterrupt
         \/ /\ Selection(md, st, ip, ie, deleg) \in Codes
            /\ Selection(md, st, ip, ie, deleg) \in deleg => md # Machine
<1> DEFINE m_interrupts == (ip \intersect ie) \ deleg
           s_interrupts == (ip \intersect ie) \intersect deleg
<1>1. m_interrupts \in SUBSET AllCodes /\ s_interrupts \in SUBSET AllCodes
  BY CodesAssumption
<1>2. m_interrupts # {} => PickInterrupt(m_interrupts) \in m_interrupts
  BY <1>1, PickInterruptPicks
<1>3. s_interrupts # {} => PickInterrupt(s_interrupts) \in s_interrupts
  BY <1>1, PickInterruptPicks
<1>4. CASE MachineEnabled(md, st) /\ m_interrupts # {}
  BY <1>2, <1>4 DEF Selection
<1>5. CASE /\ ~(MachineEnabled(md, st) /\ m_interrupts # {})
           /\ SupervisorEnabled(md, st) /\ s_interrupts # {}
  BY <1>3, <1>5 DEF Selection, SupervisorEnabled
<1>6. CASE /\ ~(MachineEnabled(md, st) /\ m_interrupts # {})
           /\ ~(SupervisorEnabled(md, st) /\ s_interrupts # {})
  BY <1>6 DEF Selection
<1>7. QED BY <1>4, <1>5, <1>6

\* An interrupt that becomes pending leaves something to select.
LEMMA SelectionMonotone ==
  ASSUME NEW md, NEW st, NEW ip \in SUBSET Codes, NEW ie \in SUBSET Codes, NEW deleg,
         NEW more \in SUBSET Codes,
         Selection(md, st, ip, ie, deleg) # NoInterrupt
  PROVE  Selection(md, st, ip \union more, ie, deleg) # NoInterrupt
<1> DEFINE m == (ip \intersect ie) \ deleg
           s == (ip \intersect ie) \intersect deleg
           mm == ((ip \union more) \intersect ie) \ deleg
           ss == ((ip \union more) \intersect ie) \intersect deleg
<1>1. \/ MachineEnabled(md, st) /\ m # {}
      \/ SupervisorEnabled(md, st) /\ s # {}
  BY DEF Selection
<1>2. \/ MachineEnabled(md, st) /\ mm # {}
      \/ SupervisorEnabled(md, st) /\ ss # {}
  BY <1>1
<1>3. mm \in SUBSET AllCodes /\ ss \in SUBSET AllCodes /\ NoInterrupt \notin AllCodes
  <2>1. mm \in SUBSET AllCodes /\ ss \in SUBSET AllCodes BY CodesAssumption
  <2>2. NoInterrupt \notin AllCodes BY DEF AllCodes, NoInterrupt
  <2>3. QED BY <2>1, <2>2
<1>4. mm # {} => PickInterrupt(mm) # NoInterrupt
  <2>1. mm # {} => PickInterrupt(mm) \in mm BY <1>3, PickInterruptPicks
  <2>2. QED BY <2>1, <1>3
<1>5. ss # {} => PickInterrupt(ss) # NoInterrupt
  <2>1. ss # {} => PickInterrupt(ss) \in ss BY <1>3, PickInterruptPicks
  <2>2. QED BY <2>1, <1>3
<1>6. CASE MachineEnabled(md, st) /\ mm # {}
  BY <1>4, <1>6 DEF Selection
<1>7. CASE ~(MachineEnabled(md, st) /\ mm # {})
  BY <1>2, <1>5, <1>7 DEF Selection
<1>8. QED BY <1>6, <1>7

-------------------------------------------------------------------------------
(* Type correctness.                                                       *)

\* What a call of CheckForInterrupt leaves in the latch.
LEMMA LatchTyped ==
  ASSUME available \in Codes \union {NoInterrupt},
         mip' \subseteq Codes, mie' \subseteq Codes,
         CheckForInterrupt \/ UNCHANGED available
  PROVE  available' \in Codes \union {NoInterrupt}
<1> DEFINE c == Selection(mode', mstatus', mip', mie', mideleg')
<1>1. c \in Codes \union {NoInterrupt}
  BY SelectionSound, Zenon
<1> HIDE DEF c
<1>2. CASE available' = (IF c = NoInterrupt THEN available ELSE c)
  BY <1>1, <1>2
<1>3. CASE UNCHANGED available
  BY <1>3
<1>4. QED BY <1>2, <1>3 DEF CheckForInterrupt, c

\* The status register a trap leaves.
LEMMA EnteredTyped ==
  ASSUME TypeOK, NEW dest \in {Supervisor, Machine}
  PROVE  Entered(dest) \in MStatus
<1>1. mode % 2 \in {User, Supervisor}
  BY DEF TypeOK, Levels, Reserved, Modes, User, Supervisor, Machine
<1>2. mstatus \in MStatus /\ mode \in Levels
  BY DEF TypeOK
<1>3. CASE dest = Machine
  BY <1>2, <1>3 DEF Entered, MStatus
<1>4. CASE dest # Machine
  BY <1>1, <1>2, <1>4 DEF Entered, MStatus
<1>5. QED BY <1>3, <1>4

\* The history of the contexts a trap leaves.
LEMMA SavedTyped ==
  ASSUME TypeOK, NEW dest, SaveContext(dest)
  PROVE  m_context' \in ContextType /\ s_context' \in ContextType
<1>1. mode \in Levels /\ mstatus.mie \in BOOLEAN /\ mstatus.sie \in BOOLEAN
  BY DEF TypeOK, MStatus
<1>2. \A ie \in BOOLEAN : Context(mode, ie) \in ContextType
  BY <1>1 DEF Context, ContextType
<1>3. QED BY <1>1, <1>2 DEF SaveContext, TypeOK

\* An exception: everything but the phase.
LEMMA ExceptionTyped ==
  ASSUME TypeOK, NEW c, Exception(c), phase' \in {"fetch", "boundary"},
         disturbed' \in BOOLEAN
  PROVE  TypeOK'
<1> DEFINE dest == Destination(FALSE, c)
<1>1. dest \in {Supervisor, Machine}
  BY DEF Destination
<1>2. /\ mode' = dest /\ mstatus' = Entered(dest) /\ SaveContext(dest)
      /\ UNCHANGED <<mip, mie, mideleg, medeleg>>
      /\ CheckForInterrupt \/ UNCHANGED available
  BY DEF Exception, SetMStatus
<1> HIDE DEF dest
<1>3. mode' \in Levels
  BY <1>1, <1>2 DEF Levels, Modes
<1>4. mstatus' \in MStatus
  BY <1>1, <1>2, EnteredTyped
<1>5. m_context' \in ContextType /\ s_context' \in ContextType
  BY <1>2, SavedTyped
<1>6. available' \in Codes \union {NoInterrupt}
  BY <1>2, LatchTyped DEF TypeOK
<1>7. QED BY <1>2, <1>3, <1>4, <1>5, <1>6 DEF TypeOK

\* An ecall or an illegal instruction is an exception, or nothing.
LEMMA OnlyExceptions ==
  ASSUME ECall \/ Illegal
  PROVE  \/ \E c : Exception(c)
         \/ UNCHANGED <<mode, mstatus, mip, mie, mideleg, medeleg, available, context>>
BY DEF ECall, Illegal

\* An instruction that only writes registers: its parts are typed if what it writes is.
LEMMA WriteTyped ==
  ASSUME TypeOK, mode' \in Levels, mstatus' \in MStatus,
         mip' \subseteq Codes, mie' \subseteq Codes, mideleg' \subseteq Codes,
         medeleg' \subseteq {IllegalInstruction, 8, 9},
         m_context' \in {m_context, Unknown}, s_context' \in {s_context, Unknown},
         CheckForInterrupt \/ UNCHANGED available,
         phase' \in {"fetch", "boundary"}, disturbed' \in BOOLEAN
  PROVE  TypeOK'
<1>1. Unknown \in ContextType
  BY DEF Unknown, ContextType, Levels, Modes
<1>2. available' \in Codes \union {NoInterrupt}
  BY LatchTyped DEF TypeOK
<1>3. QED BY <1>1, <1>2 DEF TypeOK

\* Every reachable state is well typed, whatever software writes to the registers, the
\* reserved privilege mode included: in particular spp stays one bit, also for traps out
\* of that mode (riscv_state.cc:773), and the latch never holds an unknown code.
THEOREM TypeCorrect == Spec => []TypeOK
<1>1. Init => TypeOK
  <2>1. Unknown \in ContextType /\ Machine \in Levels
    BY DEF Unknown, ContextType, Levels, Modes
  <2>2. Init => mstatus \in MStatus
    BY DEF Init, MStatus, Levels, Modes
  <2>3. QED BY <2>1, <2>2 DEF Init, TypeOK
<1>2. TypeOK /\ [Next]_vars => TypeOK'
  <2> SUFFICES ASSUME TypeOK, [Next]_vars PROVE TypeOK'
    OBVIOUS
  <2>1. /\ mode \in Levels /\ mstatus \in MStatus
        /\ mip \subseteq Codes /\ mie \subseteq Codes /\ mideleg \subseteq Codes
        /\ medeleg \subseteq {IllegalInstruction, 8, 9} /\ disturbed \in BOOLEAN
    BY DEF TypeOK
  <2>2. CASE ECall \/ Illegal
    <3>1. phase' = "boundary" /\ UNCHANGED disturbed
      BY <2>2 DEF ECall, Illegal, Executes
    <3>2. ASSUME NEW c, Exception(c) PROVE TypeOK'
      BY <2>1, <3>1, <3>2, ExceptionTyped
    <3>3. ASSUME UNCHANGED <<mode, mstatus, mip, mie, mideleg, medeleg, available, context>>
          PROVE  TypeOK'
      BY <2>1, <3>1, <3>3, WriteTyped DEF context
    <3>4. QED BY <2>2, <3>2, <3>3, OnlyExceptions
  <2>3. CASE MRet
    <3>1. mode' \in Levels /\ mstatus' \in MStatus
      BY <2>1, <2>3 DEF MRet, SetMStatus, MStatus, Levels, Modes
    <3>2. QED BY <2>1, <2>3, <3>1, WriteTyped DEF MRet, Executes, SetMStatus
  <2>4. CASE SRet
    <3>1. mode' \in Levels /\ mstatus' \in MStatus
      BY <2>1, <2>4 DEF SRet, SetMStatus, MStatus, Levels, Modes
    <3>2. QED BY <2>1, <2>4, <3>1, WriteTyped DEF SRet, Executes, SetMStatus
  <2>5. CASE Plain
    BY <2>1, <2>5, WriteTyped DEF Plain, Executes, context
  <2>6. ASSUME NEW v \in StatusWrites, WriteMStatus(v) PROVE TypeOK'
    <3>1. mstatus' \in MStatus
      BY <2>6, WritesAssumption DEF WriteMStatus, SetMStatus
    <3>2. QED BY <2>1, <2>6, <3>1, WriteTyped DEF WriteMStatus, Executes, SetMStatus
  <2>7. ASSUME NEW v \in StatusWrites, WriteSStatus(v) PROVE TypeOK'
    <3>1. v \in MStatus BY WritesAssumption
    <3>2. mstatus' = [mstatus EXCEPT !.sie = v.sie, !.spie = v.spie, !.spp = v.spp]
      BY <2>7 DEF WriteSStatus, SetMStatus
    <3>3. mstatus' \in MStatus BY <2>1, <3>1, <3>2 DEF MStatus
    <3>4. QED BY <2>1, <2>7, <3>3, WriteTyped DEF WriteSStatus, Executes, SetMStatus
  <2>8. ASSUME NEW v \in SUBSET Codes, WriteMIp(v) \/ WriteMIe(v) \/ WriteSIp(v) \/ WriteSIe(v)
        PROVE  TypeOK'
    <3>1. CASE WriteMIp(v)
      BY <2>1, <3>1, WriteTyped DEF WriteMIp, Executes, SetMIp, context
    <3>2. CASE WriteMIe(v)
      BY <2>1, <3>2, WriteTyped DEF WriteMIe, Executes, SetMIe, context
    <3>3. CASE WriteSIp(v)
      <4>1. mip' \subseteq Codes BY <2>1, <3>3 DEF WriteSIp, SetMIp
      <4>2. QED BY <2>1, <3>3, <4>1, WriteTyped DEF WriteSIp, Executes, SetMIp, context
    <3>4. CASE WriteSIe(v)
      BY <2>1, <3>4, WriteTyped DEF WriteSIe, Executes, SetMIe, context
    <3>5. QED BY <2>8, <3>1, <3>2, <3>3, <3>4
  <2>9. ASSUME NEW v \in DelegWrites, WriteMIDeleg(v) PROVE TypeOK'
    BY <2>1, <2>9, WritesAssumption, WriteTyped DEF WriteMIDeleg, Executes, context
  <2>10. ASSUME NEW v \in EDelegWrites, WriteMEDeleg(v) PROVE TypeOK'
    BY <2>1, <2>10, WritesAssumption, WriteTyped DEF WriteMEDeleg, Executes, context
  <2>11. ASSUME NEW c \in Codes, NEW v \in BOOLEAN,
                StoreToDevice(c, v) \/ TimerRises(c) \/ ExternalLine(c, v)
         PROVE  TypeOK'
    <3>1. mip' \subseteq Codes /\ (CheckForInterrupt \/ UNCHANGED available)
      BY <2>1, <2>11 DEF StoreToDevice, TimerRises, ExternalLine, SetLine, SetMIp
    <3>2. /\ UNCHANGED <<mode, mstatus, mie, mideleg, medeleg, m_context, s_context>>
          /\ phase' \in {"fetch", "boundary"} /\ disturbed' \in BOOLEAN
      BY <2>1, <2>11 DEF StoreToDevice, TimerRises, ExternalLine, Executes, context,
                         TypeOK
    <3>3. QED BY <2>1, <3>1, <3>2, WriteTyped
  <2>12. CASE TakeAvailableInterrupt
    <3> DEFINE dest == Destination(TRUE, available)
    <3>1. dest \in {Supervisor, Machine} BY DEF Destination
    <3>2. mode' = dest /\ mstatus' = Entered(dest) /\ SaveContext(dest)
      BY <2>12 DEF TakeAvailableInterrupt
    <3> HIDE DEF dest
    <3>3. mode' \in Levels BY <3>1, <3>2 DEF Levels, Modes
    <3>4. mstatus' \in MStatus BY <3>1, <3>2, EnteredTyped
    <3>5. m_context' \in ContextType /\ s_context' \in ContextType
      BY <3>2, SavedTyped
    <3>6. QED BY <2>1, <2>12, <3>3, <3>4, <3>5 DEF TakeAvailableInterrupt, TypeOK
  <2>13. CASE NextInstruction
    BY <2>13 DEF NextInstruction, TypeOK, context
  <2>14. CASE UNCHANGED vars
    BY <2>14 DEF vars, context, TypeOK
  <2>15. Lines \subseteq Codes /\ TimerLines \subseteq Codes /\ AsyncLines \subseteq Codes
    BY CodesAssumption
  <2>16. QED
    BY <2>2, <2>3, <2>4, <2>5, <2>6, <2>7, <2>8, <2>9, <2>10, <2>11, <2>12, <2>13,
       <2>14, <2>15 DEF Next, Instruction
<1>3. QED
  BY <1>1, <1>2, PTL DEF Spec

-------------------------------------------------------------------------------
(* The latch.                                                              *)

\* What holds of the latch while no line changes from outside: empty when an
\* instruction starts, and when it is complete either empty or what is due.
LatchFresh ==
  ~disturbed => /\ phase = "fetch" => available = NoInterrupt
                /\ phase = "boundary" => available \in {NoInterrupt, Current}

\* Every instruction fills the latch with what is due after it, or leaves it.
LEMMA InstructionShape ==
  ASSUME Instruction
  PROVE  /\ phase = "fetch" /\ phase' = "boundary" /\ disturbed' = disturbed
         /\ CheckForInterrupt \/ UNCHANGED available
<1> USE DEF Executes
<1>1. CASE ECall \/ Illegal
  BY <1>1 DEF ECall, Illegal, Exception, SetMStatus
<1>2. CASE MRet \/ SRet \/ Plain
  BY <1>2 DEF MRet, SRet, Plain, SetMStatus
<1>3. ASSUME NEW v, WriteMStatus(v) \/ WriteSStatus(v)
      PROVE  /\ phase = "fetch" /\ phase' = "boundary" /\ disturbed' = disturbed
             /\ CheckForInterrupt \/ UNCHANGED available
  BY <1>3 DEF WriteMStatus, WriteSStatus, SetMStatus
<1>4. ASSUME NEW v, WriteMIp(v) \/ WriteMIe(v) \/ WriteSIp(v) \/ WriteSIe(v)
      PROVE  /\ phase = "fetch" /\ phase' = "boundary" /\ disturbed' = disturbed
             /\ CheckForInterrupt \/ UNCHANGED available
  BY <1>4 DEF WriteMIp, WriteMIe, WriteSIp, WriteSIe, SetMIp, SetMIe
<1>5. ASSUME NEW v, WriteMIDeleg(v) \/ WriteMEDeleg(v)
      PROVE  /\ phase = "fetch" /\ phase' = "boundary" /\ disturbed' = disturbed
             /\ CheckForInterrupt \/ UNCHANGED available
  BY <1>5 DEF WriteMIDeleg, WriteMEDeleg
<1>6. ASSUME NEW c, NEW v, StoreToDevice(c, v)
      PROVE  /\ phase = "fetch" /\ phase' = "boundary" /\ disturbed' = disturbed
             /\ CheckForInterrupt \/ UNCHANGED available
  BY <1>6 DEF StoreToDevice, SetLine, SetMIp
<1>7. QED
  BY <1>1, <1>2, <1>3, <1>4, <1>5, <1>6 DEF Instruction

\* A check leaves in the latch what it found there, or what is now due.
LEMMA CheckLatches ==
  ASSUME CheckForInterrupt
  PROVE  available' = IF Current' = NoInterrupt THEN available ELSE Current'
BY DEF CheckForInterrupt, Current

\* The cycle counter's listener may raise the timer line at a boundary. Something due
\* stays due, so the check replaces whatever the instruction had latched.
LEMMA TimerKeepsLatchFresh ==
  ASSUME TypeOK, LatchFresh, NEW c \in Codes, TimerRises(c)
  PROVE  LatchFresh'
<1>1. /\ phase = "boundary" /\ phase' = "boundary" /\ disturbed' = disturbed
      /\ UNCHANGED <<mode, mstatus, mie, mideleg>>
      /\ mip' = mip \union {c} /\ CheckForInterrupt
  BY DEF TimerRises, SetLine, SetMIp
<1>2. Current # NoInterrupt => Current' # NoInterrupt
  <2>1. mip \in SUBSET Codes /\ mie \in SUBSET Codes /\ {c} \in SUBSET Codes
    BY DEF TypeOK
  <2>2. Selection(mode, mstatus, mip, mie, mideleg) # NoInterrupt
          => Selection(mode, mstatus, mip \union {c}, mie, mideleg) # NoInterrupt
    BY <2>1, SelectionMonotone
  <2>3. Current' = Selection(mode, mstatus, mip \union {c}, mie, mideleg)
    BY <1>1 DEF Current
  <2>4. QED BY <2>2, <2>3 DEF Current
<1>3. QED
  BY <1>1, <1>2, CheckLatches DEF LatchFresh

LEMMA LatchStaysFresh == Spec => []LatchFresh
<1>1. Init => LatchFresh
  BY DEF Init, LatchFresh
<1>2. TypeOK /\ LatchFresh /\ [Next]_vars => LatchFresh'
  <2> SUFFICES ASSUME TypeOK, LatchFresh, [Next]_vars PROVE LatchFresh'
    OBVIOUS
  <2>1. CASE Instruction
    <3>1. /\ phase = "fetch" /\ phase' = "boundary" /\ disturbed' = disturbed
          /\ CheckForInterrupt \/ UNCHANGED available
      BY <2>1, InstructionShape
    <3>2. QED BY <3>1, CheckLatches DEF LatchFresh
  <2>2. CASE TakeAvailableInterrupt \/ NextInstruction
    BY <2>2 DEF TakeAvailableInterrupt, NextInstruction, LatchFresh
  <2>3. ASSUME NEW c \in TimerLines, TimerRises(c) PROVE LatchFresh'
    BY <2>3, CodesAssumption, TimerKeepsLatchFresh
  <2>4. ASSUME NEW c, NEW v, ExternalLine(c, v) PROVE LatchFresh'
    BY <2>4 DEF ExternalLine, LatchFresh
  <2>5. CASE UNCHANGED vars
    BY <2>5 DEF vars, LatchFresh, Current
  <2>6. QED BY <2>1, <2>2, <2>3, <2>4, <2>5 DEF Next
<1>3. QED
  BY <1>1, <1>2, TypeCorrect, PTL DEF Spec

\* TakeAvailableInterrupt (riscv_state.cc:848) does not look at what it takes; without
\* changes from outside the loop it need not.
THEOREM TakenIsDue == Spec => TakenInterruptIsDue
<1>1. TypeOK /\ LatchFresh /\ [Next]_vars
        => [\A c \in Codes : Taken(c) /\ ~disturbed => c = Current]_vars
  <2> SUFFICES ASSUME TypeOK, LatchFresh, NEW c \in Codes, Taken(c), ~disturbed
               PROVE  c = Current
    OBVIOUS
  <2>1. c # NoInterrupt
    BY CodesAssumption DEF AllCodes, NoInterrupt
  <2>2. QED BY <2>1 DEF Taken, LatchFresh
<1>2. QED
  BY <1>1, TypeCorrect, LatchStaysFresh, PTL DEF Spec, TakenInterruptIsDue

-------------------------------------------------------------------------------
(* Privilege.                                                              *)

\* riscv_state.cc:690-692, for the part of it that holds: a step that lowers the
\* privilege mode is mret or sret. An exception is delegated only below machine mode;
\* an interrupt that is due is delegated only below machine mode, and a fresh latch
\* holds one that is due. Out of the reserved mode traps may go to supervisor mode.
THEOREM TrapsKeepPrivilege == Spec => UndisturbedTrapsKeepPrivilege
<1>1. TypeOK /\ LatchFresh /\ [Next]_vars
        => [mode' < mode /\ mode # Reserved /\ ~disturbed => MRet \/ SRet]_vars
  <2> SUFFICES ASSUME TypeOK, LatchFresh, Next, mode # Reserved, ~disturbed, ~MRet, ~SRet
               PROVE  ~(mode' < mode)
    BY DEF vars
  <2>1. mode \in {User, Supervisor, Machine}
    BY DEF TypeOK, Levels, Modes
  <2>2. ASSUME NEW c, Exception(c) PROVE ~(mode' < mode)
    <3>1. mode' = Machine \/ (mode' = Supervisor /\ mode # Machine)
      BY <2>2 DEF Exception, Destination
    <3>2. QED BY <2>1, <3>1 DEF User, Supervisor, Machine
  <2>3. CASE TakeAvailableInterrupt
    <3>1. available = Current /\ available # NoInterrupt
      BY <2>3 DEF TakeAvailableInterrupt, LatchFresh
    <3>2. available \in mideleg => mode # Machine
      <4>1. mip \in SUBSET Codes /\ mie \in SUBSET Codes BY DEF TypeOK
      <4>2. QED BY <3>1, <4>1, SelectionSound DEF Current
    <3>3. mode' = Machine \/ (mode' = Supervisor /\ mode # Machine)
      BY <2>3, <3>2 DEF TakeAvailableInterrupt, Destination
    <3>4. QED BY <2>1, <3>3 DEF User, Supervisor, Machine
  <2>4. CASE UNCHANGED mode
    BY <2>1, <2>4 DEF User, Supervisor, Machine
  <2>5. CASE Instruction
    <3>1. CASE ECall \/ Illegal BY <2>2, <2>4, <3>1, OnlyExceptions
    <3>2. CASE ~ECall /\ ~Illegal
      <4>1. UNCHANGED mode
        BY <2>5, <3>2 DEF Instruction, Plain, WriteMStatus, WriteSStatus, WriteMIp,
           WriteMIe, WriteSIp, WriteSIe, WriteMIDeleg, WriteMEDeleg, StoreToDevice
      <4>2. QED BY <2>4, <4>1
    <3>3. QED BY <3>1, <3>2
  <2>6. CASE NextInstruction
    BY <2>4, <2>6 DEF NextInstruction
  <2>7. ASSUME NEW c, NEW v, TimerRises(c) \/ ExternalLine(c, v)
        PROVE  ~(mode' < mode)
    BY <2>4, <2>7 DEF TimerRises, ExternalLine
  <2>8. QED BY <2>3, <2>5, <2>6, <2>7 DEF Next
<1>2. QED
  BY <1>1, TypeCorrect, LatchStaysFresh, PTL DEF Spec, UndisturbedTrapsKeepPrivilege

\* What a trap to supervisor mode leaves of machine mode's fields.
LEMMA EnteredKeepsMachine ==
  ASSUME TypeOK, NEW dest, dest # Machine
  PROVE  /\ Entered(dest).mie = mstatus.mie /\ Entered(dest).mpie = mstatus.mpie
         /\ Entered(dest).mpp = mstatus.mpp /\ Entered(dest).tsr = mstatus.tsr
BY DEF Entered, TypeOK, MStatus

\* sstatus is a view of mstatus (RiscVSStatus): below machine mode nothing changes the
\* fields of machine mode, whatever is written.
THEOREM MachineFieldsIsolated == Spec => MachineStatusIsolated
<1> DEFINE Kept == /\ mstatus'.mie = mstatus.mie /\ mstatus'.mpie = mstatus.mpie
                   /\ mstatus'.mpp = mstatus.mpp /\ mstatus'.tsr = mstatus.tsr
<1>1. TypeOK /\ [Next]_vars => [mode # Machine /\ mode' # Machine => Kept]_vars
  <2> SUFFICES ASSUME TypeOK, Next, mode # Machine, mode' # Machine PROVE Kept
    BY DEF vars
  <2>1. ~(mode >= Machine)
    BY DEF TypeOK, Levels, Modes, Reserved, User, Supervisor, Machine
  <2>2. mstatus \in MStatus BY DEF TypeOK
  <2>3. ASSUME NEW c, Exception(c) PROVE Kept
    <3>1. mstatus' = Entered(Destination(FALSE, c)) /\ Destination(FALSE, c) # Machine
      BY <2>3 DEF Exception, SetMStatus
    <3>2. QED BY <3>1, EnteredKeepsMachine
  <2>4. CASE TakeAvailableInterrupt
    <3>1. mstatus' = Entered(Destination(TRUE, available))
          /\ Destination(TRUE, available) # Machine
      BY <2>4 DEF TakeAvailableInterrupt
    <3>2. QED BY <3>1, EnteredKeepsMachine
  <2>5. CASE SRet
    BY <2>2, <2>5 DEF SRet, SetMStatus, MStatus
  <2>6. ASSUME NEW v, WriteSStatus(v) PROVE Kept
    BY <2>2, <2>6 DEF WriteSStatus, SetMStatus, MStatus
  <2>7. CASE MRet
    BY <2>1, <2>7 DEF MRet, Executes
  <2>8. ASSUME NEW v, WriteMStatus(v) PROVE Kept
    BY <2>1, <2>8 DEF WriteMStatus, Executes
  <2>9. CASE UNCHANGED mstatus BY <2>9
  <2>10. CASE Instruction
    <3>1. CASE ECall \/ Illegal BY <2>3, <2>9, <3>1, OnlyExceptions
    <3>2. ASSUME NEW v, \/ WriteMIp(v) \/ WriteMIe(v) \/ WriteSIp(v) \/ WriteSIe(v)
                        \/ WriteMIDeleg(v) \/ WriteMEDeleg(v)
          PROVE  Kept
      BY <2>9, <3>2 DEF WriteMIp, WriteMIe, WriteSIp, WriteSIe, WriteMIDeleg,
         WriteMEDeleg
    <3>3. ASSUME NEW c, NEW v, StoreToDevice(c, v) PROVE Kept
      BY <2>9, <3>3 DEF StoreToDevice
    <3>4. CASE Plain BY <2>9, <3>4 DEF Plain
    <3>5. QED
      BY <2>5, <2>6, <2>7, <2>8, <2>10, <3>1, <3>2, <3>3, <3>4 DEF Instruction
  <2>11. CASE NextInstruction
    BY <2>9, <2>11 DEF NextInstruction
  <2>12. ASSUME NEW c, NEW v, TimerRises(c) \/ ExternalLine(c, v) PROVE Kept
    BY <2>9, <2>12 DEF TimerRises, ExternalLine
  <2>13. QED BY <2>4, <2>10, <2>11, <2>12 DEF Next
<1>2. QED
  BY <1>1, TypeCorrect, PTL DEF Spec, MachineStatusIsolated

-------------------------------------------------------------------------------
(* Contexts.                                                               *)

\* mstatus still holds what the last trap to each level saved, until software
\* rewrites it or returns.
ContextKept ==
  /\ m_context.known
       => mstatus.mpp = m_context.mode /\ mstatus.mpie = m_context.ie
  /\ s_context.known
       => /\ s_context.mode \in {User, Supervisor} => mstatus.spp = s_context.mode
          /\ mstatus.spie = s_context.ie

\* A trap saves the context it interrupts, and leaves the other level's alone.
LEMMA EnteredKeepsContext ==
  ASSUME TypeOK, ContextKept, NEW dest, mstatus' = Entered(dest), SaveContext(dest)
  PROVE  ContextKept'
<1>1. mstatus \in MStatus BY DEF TypeOK
<1>2. CASE dest = Machine
  <2>1. mstatus' = [mstatus EXCEPT !.mpp = mode, !.mpie = mstatus.mie, !.mie = FALSE]
    BY <1>2 DEF Entered
  <2>2. m_context' = [known |-> TRUE, mode |-> mode, ie |-> mstatus.mie]
        /\ s_context' = s_context
    BY <1>2 DEF SaveContext, Context
  <2>3. QED BY <1>1, <2>1, <2>2 DEF ContextKept, MStatus
<1>3. CASE dest # Machine
  <2>1. mstatus' = [mstatus EXCEPT !.spp = mode % 2, !.spie = mstatus.sie, !.sie = FALSE]
    BY <1>3 DEF Entered
  <2>2. s_context' = [known |-> TRUE, mode |-> mode, ie |-> mstatus.sie]
        /\ m_context' = m_context
    BY <1>3 DEF SaveContext, Context
  <2>3. mode \in {User, Supervisor} => mode % 2 = mode
    BY DEF User, Supervisor
  <2>4. QED BY <1>1, <2>1, <2>2, <2>3 DEF ContextKept, MStatus
<1>4. QED BY <1>2, <1>3

LEMMA ContextStaysKept == Spec => []ContextKept
<1>1. Init => ContextKept
  BY DEF Init, ContextKept, Unknown
<1>2. TypeOK /\ ContextKept /\ [Next]_vars => ContextKept'
  <2> SUFFICES ASSUME TypeOK, ContextKept, [Next]_vars PROVE ContextKept'
    OBVIOUS
  <2>1. mstatus \in MStatus BY DEF TypeOK
  <2>2. CASE UNCHANGED <<mstatus, m_context, s_context>>
    BY <2>2 DEF ContextKept
  <2>3. ASSUME NEW c, Exception(c) PROVE ContextKept'
    BY <2>3, EnteredKeepsContext DEF Exception, SetMStatus
  <2>4. CASE TakeAvailableInterrupt
    BY <2>4, EnteredKeepsContext DEF TakeAvailableInterrupt
  <2>5. CASE MRet
    <3>1. /\ mstatus' = [mstatus EXCEPT !.mie = mstatus.mpie, !.mpie = TRUE, !.mpp = User]
          /\ m_context' = Unknown /\ s_context' = s_context
      BY <2>5 DEF MRet, SetMStatus
    <3>2. QED BY <2>1, <3>1 DEF ContextKept, Unknown, MStatus
  <2>6. CASE SRet
    <3>1. /\ mstatus' = [mstatus EXCEPT !.sie = mstatus.spie, !.spie = TRUE, !.spp = User]
          /\ s_context' = Unknown /\ m_context' = m_context
      BY <2>6 DEF SRet, SetMStatus
    <3>2. QED BY <2>1, <3>1 DEF ContextKept, Unknown, MStatus
  <2>7. ASSUME NEW v, WriteMStatus(v) PROVE ContextKept'
    BY <2>7 DEF WriteMStatus, ContextKept, Unknown
  <2>8. ASSUME NEW v, WriteSStatus(v) PROVE ContextKept'
    <3>1. /\ mstatus' = [mstatus EXCEPT !.sie = v.sie, !.spie = v.spie, !.spp = v.spp]
          /\ s_context' = Unknown /\ m_context' = m_context
      BY <2>8 DEF WriteSStatus, SetMStatus
    <3>2. QED BY <2>1, <3>1 DEF ContextKept, Unknown, MStatus
  <2>9. CASE Instruction
    <3>1. CASE ECall \/ Illegal BY <2>2, <2>3, <3>1, OnlyExceptions DEF context
    <3>2. ASSUME NEW v, \/ WriteMIp(v) \/ WriteMIe(v) \/ WriteSIp(v) \/ WriteSIe(v)
                        \/ WriteMIDeleg(v) \/ WriteMEDeleg(v)
          PROVE  ContextKept'
      BY <2>2, <3>2 DEF WriteMIp, WriteMIe, WriteSIp, WriteSIe, WriteMIDeleg,
         WriteMEDeleg, context
    <3>3. ASSUME NEW c, NEW v, StoreToDevice(c, v) PROVE ContextKept'
      BY <2>2, <3>3 DEF StoreToDevice, context
    <3>4. CASE Plain BY <2>2, <3>4 DEF Plain, context
    <3>5. QED
      BY <2>5, <2>6, <2>7, <2>8, <2>9, <3>1, <3>2, <3>3, <3>4 DEF Instruction
  <2>10. CASE NextInstruction \/ UNCHANGED vars
    BY <2>2, <2>10 DEF NextInstruction, vars, context
  <2>11. ASSUME NEW c, NEW v, TimerRises(c) \/ ExternalLine(c, v) PROVE ContextKept'
    BY <2>2, <2>11 DEF TimerRises, ExternalLine, context
  <2>12. QED BY <2>4, <2>9, <2>10, <2>11 DEF Next
<1>3. QED
  BY <1>1, <1>2, TypeCorrect, PTL DEF Spec

\* mret and sret (riscv_priv_instructions.cc) undo the trap: whatever was nested in
\* between, they restore the interrupt enable and the mode it interrupted, sret the mode
\* only of a trap out of user or supervisor mode. A trap to supervisor mode out of
\* another mode keeps one bit of it (riscv_state.cc:773).
THEOREM ReturnsRestore == Spec => ReturnRestoresContext
<1> DEFINE Machines == MRet /\ m_context.known
                         => mode' = m_context.mode /\ mstatus'.mie = m_context.ie
           Supervisors ==
             SRet /\ s_context.known
               => /\ mstatus'.sie = s_context.ie
                  /\ s_context.mode \in {User, Supervisor} => mode' = s_context.mode
<1>1. TypeOK /\ ContextKept => Machines /\ Supervisors
  <2> SUFFICES ASSUME TypeOK, ContextKept PROVE Machines /\ Supervisors
    OBVIOUS
  <2>1. mstatus \in MStatus BY DEF TypeOK
  <2>2. Machines
    BY <2>1 DEF MRet, SetMStatus, ContextKept, MStatus
  <2>3. Supervisors
    BY <2>1 DEF SRet, SetMStatus, ContextKept, MStatus
  <2>4. QED BY <2>2, <2>3
<1>2. TypeOK /\ ContextKept /\ [Next]_vars => [Machines /\ Supervisors]_vars
  BY <1>1
<1>3. QED
  BY <1>2, TypeCorrect, ContextStaysKept, PTL DEF Spec, ReturnRestoresContext

-------------------------------------------------------------------------------
(* Machine code with its interrupts enabled.                               *)

\* In machine mode with its interrupts enabled, something is selected exactly if a
\* pending and enabled interrupt is not delegated.
LEMMA MachineSelection ==
  ASSUME NEW st, st.mie, NEW ip \in SUBSET Codes, NEW ie \in SUBSET Codes, NEW deleg
  PROVE  Selection(Machine, st, ip, ie, deleg) # NoInterrupt
           <=> (ip \intersect ie) \ deleg # {}
<1> DEFINE m == (ip \intersect ie) \ deleg
<1>1. MachineEnabled(Machine, st) /\ ~SupervisorEnabled(Machine, st)
  BY DEF MachineEnabled, SupervisorEnabled
<1>2. m # {} => PickInterrupt(m) \in AllCodes
  <2>1. m \in SUBSET AllCodes BY CodesAssumption
  <2>2. m # {} => PickInterrupt(m) \in m BY <2>1, PickInterruptPicks
  <2>3. QED BY <2>1, <2>2
<1>3. NoInterrupt \notin AllCodes
  BY DEF AllCodes, NoInterrupt
<1>4. Selection(Machine, st, ip, ie, deleg)
        = IF m # {} THEN PickInterrupt(m) ELSE NoInterrupt
  BY <1>1 DEF Selection
<1> HIDE DEF m
<1>5. QED BY <1>2, <1>3, <1>4 DEF m

\* A delegation is not taken back: mideleg is as reset left it or holds the one value
\* that is ever written.
DelegationKept == mideleg \in {{}} \union DelegWrites

\* What is due in machine mode is noticed between instructions and while one
\* executes, not only where MachineInterruptNotMissed looks.
MachineNoticed ==
  mode = Machine /\ mstatus.mie => Current = NoInterrupt \/ available # NoInterrupt

\* A step that calls CheckForInterrupt notices what is due after it, in any mode.
LEMMA CheckNotices ==
  ASSUME CheckForInterrupt
  PROVE  MachineNoticed'
BY CheckLatches DEF MachineNoticed

\* A write of mip or mie that leaves it empty checks nothing and need not.
LEMMA PendingNoticed ==
  ASSUME TypeOK, NEW v, SetMIp(v) \/ SetMIe(v), mip' \subseteq Codes, mie' \subseteq Codes
  PROVE  MachineNoticed'
<1>1. CASE CheckForInterrupt
  BY <1>1, CheckNotices
<1>2. CASE ~CheckForInterrupt
  <2>1. mip' \intersect mie' = {}
    BY <1>2 DEF SetMIp, SetMIe
  <2>2. mode' = Machine /\ mstatus'.mie => Current' = NoInterrupt
    BY <2>1, MachineSelection DEF Current
  <2>3. QED BY <2>2 DEF MachineNoticed
<1>3. QED BY <1>1, <1>2

\* CheckForInterrupt is called where riscv_state.h:311-313 asks for it as far as machine
\* mode is concerned: every write that can make an interrupt due there checks, and a
\* trap leaves machine mode or clears its enable. The write of mideleg, a plain csr that
\* checks nothing (riscv_state.cc:217-220), is harmless as long as no delegation is
\* taken back, which the hypothesis says.
THEOREM MachineNotMissed ==
  ASSUME \A v, w \in DelegWrites : v = w
  PROVE  Spec => []MachineInterruptNotMissed
<1> DEFINE IInv == DelegationKept /\ MachineNoticed
<1>1. Init => IInv
  BY DEF Init, DelegationKept, MachineNoticed
<1>2. DelegationKept /\ [Next]_vars => DelegationKept'
  <2>1. [Next]_vars => (\E v \in DelegWrites : WriteMIDeleg(v)) \/ UNCHANGED mideleg
    <3>1. CASE Instruction
      BY <3>1 DEF Instruction, ECall, Illegal, Exception, MRet, SRet, Plain, WriteMStatus,
         WriteSStatus, WriteMIp, WriteMIe, WriteSIp, WriteSIe, WriteMEDeleg,
         StoreToDevice
    <3>2. CASE TakeAvailableInterrupt \/ NextInstruction \/ UNCHANGED vars
      BY <3>2 DEF TakeAvailableInterrupt, NextInstruction, vars
    <3>3. ASSUME NEW c, NEW v, TimerRises(c) \/ ExternalLine(c, v)
          PROVE  UNCHANGED mideleg
      BY <3>3 DEF TimerRises, ExternalLine
    <3>4. QED BY <3>1, <3>2, <3>3 DEF Next
  <2>2. QED BY <2>1 DEF DelegationKept, WriteMIDeleg
<1>3. TypeOK /\ IInv /\ [Next]_vars => MachineNoticed'
  <2> SUFFICES ASSUME TypeOK, IInv, [Next]_vars PROVE MachineNoticed'
    OBVIOUS
  <2>1. /\ mstatus \in MStatus /\ mip \subseteq Codes /\ mie \subseteq Codes
        /\ mideleg \subseteq Codes
    BY DEF TypeOK
  <2>2. ASSUME NEW dest \in {Supervisor, Machine}, mode' = dest, mstatus' = Entered(dest)
        PROVE  MachineNoticed'
    <3>1. ~(mode' = Machine /\ mstatus'.mie)
      BY <2>1, <2>2 DEF Entered, MStatus
    <3>2. QED BY <3>1 DEF MachineNoticed
  <2>3. ASSUME NEW c, Exception(c) PROVE MachineNoticed'
    <3>1. Destination(FALSE, c) \in {Supervisor, Machine}
      BY DEF Destination
    <3>2. QED BY <2>2, <2>3, <3>1 DEF Exception, SetMStatus
  <2>4. CASE TakeAvailableInterrupt
    <3>1. Destination(TRUE, available) \in {Supervisor, Machine}
      BY DEF Destination
    <3>2. QED BY <2>2, <2>4, <3>1 DEF TakeAvailableInterrupt
  <2>5. ASSUME NEW st, SetMStatus(st) PROVE MachineNoticed'
    <3>1. CASE CheckForInterrupt BY <3>1, CheckNotices
    <3>2. CASE ~mstatus'.mie BY <3>2 DEF MachineNoticed
    <3>3. QED BY <2>5, <3>1, <3>2 DEF SetMStatus
  <2>6. ASSUME NEW v \in SUBSET Codes, WriteMIp(v) \/ WriteMIe(v) \/ WriteSIp(v) \/ WriteSIe(v)
        PROVE  MachineNoticed'
    <3>1. mip' \subseteq Codes /\ mie' \subseteq Codes
      BY <2>1, <2>6 DEF WriteMIp, WriteMIe, WriteSIp, WriteSIe, SetMIp, SetMIe
    <3>2. \E u : SetMIp(u) \/ SetMIe(u)
      BY <2>6 DEF WriteMIp, WriteMIe, WriteSIp, WriteSIe
    <3>3. QED BY <3>1, <3>2, PendingNoticed
  <2>7. ASSUME NEW c \in Codes, NEW v \in BOOLEAN,
               StoreToDevice(c, v) \/ TimerRises(c) \/ ExternalLine(c, v)
        PROVE  MachineNoticed'
    <3>1. mip' \subseteq Codes /\ mie' \subseteq Codes /\ \E u : SetMIp(u)
      BY <2>1, <2>7 DEF StoreToDevice, TimerRises, ExternalLine, SetLine, SetMIp
    <3>2. QED BY <3>1, PendingNoticed
  <2>8. ASSUME NEW v \in DelegWrites, WriteMIDeleg(v) PROVE MachineNoticed'
    <3>1. mideleg \subseteq v /\ mideleg' = v
      BY <2>8 DEF DelegationKept, WriteMIDeleg
    <3>2. UNCHANGED <<mode, mstatus, mip, mie, available>>
      BY <2>8 DEF WriteMIDeleg
    <3>3. ASSUME mode = Machine, mstatus.mie, Current' # NoInterrupt
          PROVE  Current # NoInterrupt
      <4>1. Selection(Machine, mstatus, mip, mie, v) # NoInterrupt
        BY <3>1, <3>2, <3>3 DEF Current
      <4>2. (mip \intersect mie) \ v # {}
        BY <2>1, <3>3, <4>1, MachineSelection
      <4>3. (mip \intersect mie) \ mideleg # {}
        BY <3>1, <4>2
      <4>4. QED BY <2>1, <3>3, <4>3, MachineSelection DEF Current
    <3>4. QED BY <3>2, <3>3 DEF MachineNoticed
  <2>9. CASE UNCHANGED <<mode, mstatus, mip, mie, mideleg, available>>
    BY <2>9 DEF MachineNoticed, Current
  <2>10. CASE Instruction
    <3>1. CASE ECall \/ Illegal BY <2>3, <2>9, <3>1, OnlyExceptions
    <3>2. CASE MRet \/ SRet BY <2>5, <3>2 DEF MRet, SRet
    <3>3. ASSUME NEW v, WriteMStatus(v) \/ WriteSStatus(v) PROVE MachineNoticed'
      BY <2>5, <3>3 DEF WriteMStatus, WriteSStatus
    <3>4. ASSUME NEW v, Plain \/ WriteMEDeleg(v) PROVE MachineNoticed'
      BY <2>9, <3>4 DEF Plain, WriteMEDeleg
    <3>5. Lines \subseteq Codes BY CodesAssumption
    <3>6. QED
      BY <2>6, <2>7, <2>8, <2>10, <3>1, <3>2, <3>3, <3>4, <3>5 DEF Instruction
  <2>11. CASE NextInstruction \/ UNCHANGED vars
    BY <2>9, <2>11 DEF NextInstruction, vars
  <2>12. TimerLines \subseteq Codes /\ AsyncLines \subseteq Codes
    BY CodesAssumption
  <2>13. QED BY <2>4, <2>7, <2>10, <2>11, <2>12 DEF Next
<1>4. IInv => MachineInterruptNotMissed
  BY DEF MachineNoticed, MachineInterruptNotMissed
<1>5. QED
  BY <1>1, <1>2, <1>3, <1>4, TypeCorrect, PTL DEF Spec
===============================================================================
