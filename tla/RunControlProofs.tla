--------------------------- MODULE RunControlProofs ---------------------------
(***************************************************************************)
(* Theorems about RunControl, for every program, every set of breakpoints  *)
(* and action points and every combination of threads.                     *)
(***************************************************************************)
EXTENDS RunControl, TLAPS

\* What the guest's part of a step leaves well typed: the original instruction
\* and a taken interrupt move the pc registers inside the program.
LEMMA GuestTyped ==
  ASSUME TypeOK, NEW a \in Addr, ExecuteOriginal(a)
  PROVE  /\ pc_reg' \in Addr /\ mepc' \in Addr /\ in_handler' \in BOOLEAN
         /\ due' \in Addr /\ due_saved' \in Addr
<1>1. Targets(a) \subseteq Addr
  BY ProgramAssumption DEF Targets, TypeOK, ProgramTyped
<1>2. PICK n \in Targets(a) :
        LET d == IF a \in MRets THEN due_saved ELSE n
            masked == in_handler /\ a \notin MRets
        IN \/ /\ pc_reg' = n
              /\ due' = d
              /\ in_handler' = masked
              /\ UNCHANGED <<mepc, due_saved>>
           \/ /\ Interrupts /\ ~masked
              /\ TakeInterrupt(n, d)
  BY DEF ExecuteOriginal
<1>3. n \in Addr /\ (IF a \in MRets THEN due_saved ELSE n) \in Addr
  BY <1>1 DEF TypeOK, ProgramTyped
<1>4. QED
  BY <1>2, <1>3, ProgramAssumption DEF TakeInterrupt, EnterHandler, TypeOK, ProgramTyped

\* The counters of the executor and of the threads yet to notify.
LEMMA CountersStay == CountersTyped /\ [Next]_vars => CountersTyped'
<1> SUFFICES ASSUME CountersTyped, [Next]_vars PROVE CountersTyped'
  OBVIOUS
<1> USE DEF CountersTyped, locals, sync
<1>1. CASE Executor
  BY <1>1 DEF Executor, BeginRun, ClearFlags, ClearReason, LeaveLoop,
     ExecuteInstruction, ExecuteEbreak, ExecuteStrayEbreak,
     PerformBreakpointAction, PerformOtherActions, BreakpointRequested,
     EndIteration, StepOverActionPoint, ResumeFlags, ResetReason, BreakOut,
     UpdatePc, BecomeHalted
<1>2. CASE NotifyHalted
  BY <1>2 DEF NotifyHalted
<1>3. CASE Client
  <2>1. ASSUME NEW n \in 1..MaxStep, Step(n) PROVE CountersTyped'
    BY <2>1, BoundAssumption DEF Step
  <2>2. CASE Run \/ Wait \/ WaitReturns \/ Destroy \/ DestroyReturns
    BY <2>2 DEF Run, Wait, WaitReturns, Destroy, DestroyReturns
  <2>3. ASSUME NEW a, \/ WritePc(a) \/ SetSwBreakpoint(a) \/ ClearSwBreakpoint(a)
                      \/ SetActionPoint(a) \/ ClearActionPoint(a)
        PROVE  CountersTyped'
    BY <2>3 DEF WritePc, SetSwBreakpoint, ClearSwBreakpoint, SetActionPoint,
                ClearActionPoint
  <2>4. QED BY <1>3, <2>1, <2>2, <2>3 DEF Client
<1>4. CASE HaltFirstWrite \/ HaltSecondWrite
  BY <1>4 DEF HaltFirstWrite, HaltSecondWrite
<1>5. CASE UNCHANGED vars
  BY <1>5 DEF vars
<1>6. QED BY <1>1, <1>2, <1>3, <1>4, <1>5 DEF Next

\* Type correctness of the run control: what Run, Step, Halt and the loop leave
\* in the flags and in the loop's locals is what the other threads expect.
THEOREM TypeCorrect == Spec => []TypeOK
<1> DEFINE Typed == FlagsTyped /\ ThreadsTyped /\ ProgramTyped
<1>1. Init => TypeOK
  <2>1. Init => FlagsTyped /\ ThreadsTyped
    BY DEF Init, FlagsTyped, ThreadsTyped, RunStatus, HaltReason, Locations
  <2>2. Init => CountersTyped
    BY DEF Init, CountersTyped
  <2>3. Init => ProgramTyped
    BY ProgramAssumption DEF Init, ProgramTyped
  <2>4. QED BY <2>1, <2>2, <2>3 DEF TypeOK
<1>2. TypeOK /\ [Next]_vars => Typed'
  <2> SUFFICES ASSUME TypeOK, [Next]_vars PROVE Typed'
    OBVIOUS
  <2> USE ProgramAssumption, ClientAssumption
      DEF TypeOK, FlagsTyped, ThreadsTyped, ProgramTyped, RunStatus, HaltReason,
          Locations, flags, locals, points, guest, sync, At, Goto
  <2>1. CASE BeginRun \/ ClearFlags \/ ClearReason
    <3>1. CASE BeginRun BY <3>1 DEF BeginRun
    <3>2. CASE ClearFlags
      <4>1. FlagsTyped' BY <3>2 DEF ClearFlags
      <4>2. ThreadsTyped' BY <3>2 DEF ClearFlags
      <4>3. ProgramTyped' BY <3>2 DEF ClearFlags
      <4>4. QED BY <4>1, <4>2, <4>3
    <3>3. CASE ClearReason BY <3>3 DEF ClearReason
    <3>4. QED BY <2>1, <3>1, <3>2, <3>3
  <2>2. CASE LeaveLoop \/ BreakOut \/ ResumeFlags \/ ResetReason
    <3>1. CASE LeaveLoop BY <3>1 DEF LeaveLoop
    <3>2. CASE BreakOut BY <3>2 DEF BreakOut
    <3>3. CASE ResumeFlags
      <4>1. FlagsTyped' BY <3>3 DEF ResumeFlags
      <4>2. ThreadsTyped' BY <3>3 DEF ResumeFlags
      <4>3. ProgramTyped' BY <3>3 DEF ResumeFlags
      <4>4. QED BY <4>1, <4>2, <4>3
    <3>4. CASE ResetReason
      <4>1. FlagsTyped' BY <3>4 DEF ResetReason
      <4>2. ThreadsTyped' BY <3>4 DEF ResetReason
      <4>3. ProgramTyped' BY <3>4 DEF ResetReason
      <4>4. QED BY <4>1, <4>2, <4>3
    <3>5. QED BY <2>2, <3>1, <3>2, <3>3, <3>4
  <2>3. CASE ExecuteInstruction
    <3>1. ExecuteOriginal(pc) BY <2>3 DEF ExecuteInstruction
    <3>2. FlagsTyped' BY <2>3 DEF ExecuteInstruction
    <3>3. ThreadsTyped' BY <2>3 DEF ExecuteInstruction
    <3>4. ProgramTyped' BY <2>3, <3>1, GuestTyped DEF ExecuteInstruction
    <3>5. QED BY <3>2, <3>3, <3>4
  <2>4. CASE ExecuteEbreak
    BY <2>4 DEF ExecuteEbreak
  <2>5. CASE ExecuteStrayEbreak
    BY <2>5 DEF ExecuteStrayEbreak, EnterHandler
  <2>6. CASE PerformBreakpointAction
    <3>1. FlagsTyped' BY <2>6 DEF PerformBreakpointAction, MarkStepOver
    <3>2. ThreadsTyped' BY <2>6 DEF PerformBreakpointAction, MarkStepOver
    <3>3. ProgramTyped' BY <2>6 DEF PerformBreakpointAction, MarkStepOver
    <3>4. QED BY <3>1, <3>2, <3>3
  <2>7. CASE PerformOtherActions \/ BreakpointRequested
    <3>1. InterruptAfterEbreak /\ MarkStepOver
      BY <2>7 DEF PerformOtherActions, BreakpointRequested
    <3>2. /\ pc_reg' \in Addr /\ mepc' \in Addr /\ in_handler' \in BOOLEAN
          /\ due' \in Addr /\ due_saved' \in Addr /\ next_pc' \in Addr
      BY <3>1 DEF InterruptAfterEbreak, TakeInterrupt, EnterHandler
    <3>3. need_to_step_over' \in BOOLEAN
      BY <3>1 DEF MarkStepOver
    <3>4. QED BY <2>7, <3>2, <3>3 DEF PerformOtherActions, BreakpointRequested
  <2>8. CASE EndIteration
    <3>1. FlagsTyped' BY <2>8 DEF EndIteration
    <3>2. ThreadsTyped' BY <2>8 DEF EndIteration
    <3>3. ProgramTyped' BY <2>8 DEF EndIteration
    <3>4. QED BY <3>1, <3>2, <3>3
  <2>9. CASE StepOverActionPoint
    <3>1. ExecuteOriginal(pc_reg) /\ armed' = armed \union {pc_reg}
      BY <2>9 DEF StepOverActionPoint, StepPastBreakpoint
    <3>2. FlagsTyped' BY <2>9 DEF StepOverActionPoint
    <3>3. ThreadsTyped' BY <2>9 DEF StepOverActionPoint
    <3>4. ProgramTyped' BY <2>9, <3>1, GuestTyped DEF StepOverActionPoint
    <3>5. QED BY <3>2, <3>3, <3>4
  <2>10. CASE UpdatePc \/ BecomeHalted
    <3>1. CASE UpdatePc BY <3>1 DEF UpdatePc
    <3>2. CASE BecomeHalted BY <3>2 DEF BecomeHalted
    <3>3. QED BY <2>10, <3>1, <3>2
  <2>11. CASE NotifyHalted
    <3>1. /\ UNCHANGED <<flags, locals, points, guest, armed, xc, dbg, hc>>
          /\ \/ fault' = TRUE /\ UNCHANGED run_halted
             \/ run_halted' = "notified" /\ UNCHANGED fault
      BY <2>11, Zenon DEF NotifyHalted
    <3>2. FlagsTyped' /\ ProgramTyped' BY <3>1
    <3>3. ThreadsTyped' BY <3>1
    <3>4. QED BY <3>2, <3>3
  <2>12. CASE Run
    <3>1. CASE need_to_step_over
      <4>1. ExecuteOriginal(pc_reg) /\ armed' = armed \union {pc_reg}
        BY <2>12, <3>1 DEF Run, StepPastBreakpoint
      <4>2. QED BY <2>12, <3>1, <4>1, GuestTyped DEF Run
    <3>2. CASE ~need_to_step_over
      BY <2>12, <3>2 DEF Run
    <3>3. QED BY <3>1, <3>2
  <2>13. ASSUME NEW n \in 1..MaxStep, Step(n) PROVE Typed'
    <3>1. CASE need_to_step_over
      <4>1. ExecuteOriginal(pc_reg) /\ armed' = armed \union {pc_reg}
        BY <2>13, <3>1 DEF Step, StepPastBreakpoint
      <4>2. FlagsTyped' BY <2>13, <3>1 DEF Step
      <4>3. ThreadsTyped' BY <2>13, <3>1 DEF Step
      <4>4. ProgramTyped' BY <2>13, <3>1, <4>1, GuestTyped DEF Step
      <4>5. QED BY <4>2, <4>3, <4>4
    <3>2. CASE ~need_to_step_over
      BY <2>13, <3>2 DEF Step
    <3>3. QED BY <3>1, <3>2
  <2>14. CASE Wait \/ WaitReturns \/ Destroy \/ DestroyReturns
    <3>1. CASE Wait BY <3>1 DEF Wait
    <3>2. CASE WaitReturns BY <3>2 DEF WaitReturns
    <3>3. CASE Destroy BY <3>3 DEF Destroy
    <3>4. CASE DestroyReturns BY <3>4 DEF DestroyReturns
    <3>5. QED BY <2>14, <3>1, <3>2, <3>3, <3>4
  <2>15. ASSUME NEW v \in PcWrites, WritePc(v) PROVE Typed'
    BY <2>15 DEF WritePc, CanEdit
  <2>16. ASSUME NEW a \in BpAddrs, SetSwBreakpoint(a) \/ ClearSwBreakpoint(a)
         PROVE Typed'
    BY <2>16 DEF SetSwBreakpoint, ClearSwBreakpoint, CanEdit
  <2>17. ASSUME NEW a \in ApAddrs, SetActionPoint(a) \/ ClearActionPoint(a)
         PROVE Typed'
    BY <2>17 DEF SetActionPoint, ClearActionPoint
  <2>18. CASE HaltFirstWrite \/ HaltSecondWrite
    <3>1. CASE HaltFirstWrite
      <4>1. FlagsTyped' BY <3>1 DEF HaltFirstWrite, HaltReasonWrite, HaltFlagWrite
      <4>2. ThreadsTyped' BY <3>1 DEF HaltFirstWrite
      <4>3. ProgramTyped' BY <3>1 DEF HaltFirstWrite
      <4>4. QED BY <4>1, <4>2, <4>3
    <3>2. CASE HaltSecondWrite
      <4>1. FlagsTyped' BY <3>2 DEF HaltSecondWrite, HaltReasonWrite, HaltFlagWrite
      <4>2. ThreadsTyped' BY <3>2 DEF HaltSecondWrite
      <4>3. ProgramTyped' BY <3>2 DEF HaltSecondWrite
      <4>4. QED BY <4>1, <4>2, <4>3
    <3>3. QED BY <2>18, <3>1, <3>2
  <2>19. CASE UNCHANGED vars
    BY <2>19 DEF vars
  <2>20. QED
    BY <2>1, <2>2, <2>3, <2>4, <2>5, <2>6, <2>7, <2>8, <2>9, <2>10, <2>11, <2>12,
       <2>13, <2>14, <2>15, <2>16, <2>17, <2>18, <2>19
       DEF Next, Executor, Client
<1>3. TypeOK /\ [Next]_vars => TypeOK'
  BY <1>2, CountersStay DEF TypeOK
<1>4. QED
  BY <1>1, <1>3, PTL DEF Spec

-------------------------------------------------------------------------------
\* Breakpoints stay written (SetSwBreakpoint, StepPastBreakpoint and the action point
\* manager): whatever is set, cleared and stepped past, and in any order, an address
\* with a breakpoint or an enabled action holds its ebreak.
THEOREM PointsStayArmed == Spec => []ActivePointsAreArmed
<1>1. Init => ActivePointsAreArmed
  BY DEF Init, ActivePointsAreArmed, Active
<1>2. ActivePointsAreArmed /\ [Next]_vars => ActivePointsAreArmed'
  <2> SUFFICES ASSUME ActivePointsAreArmed, [Next]_vars PROVE ActivePointsAreArmed'
    OBVIOUS
  <2> USE DEF ActivePointsAreArmed, Active, points
  <2>1. CASE UNCHANGED points /\ armed \subseteq armed'
    BY <2>1
  <2>2. CASE Executor
    BY <2>1, <2>2 DEF Executor, BeginRun, ClearFlags, ClearReason, LeaveLoop,
       ExecuteInstruction, ExecuteEbreak, ExecuteStrayEbreak,
       PerformBreakpointAction, PerformOtherActions, BreakpointRequested,
       EndIteration, StepOverActionPoint, StepPastBreakpoint, ResumeFlags,
       ResetReason, BreakOut, UpdatePc, BecomeHalted
  <2>3. CASE Run \/ \E n \in 1..MaxStep : Step(n)
    BY <2>1, <2>3 DEF Run, Step, StepPastBreakpoint
  <2>4. CASE Wait \/ WaitReturns \/ Destroy \/ DestroyReturns \/ NotifyHalted
    BY <2>1, <2>4 DEF Wait, WaitReturns, Destroy, DestroyReturns, NotifyHalted
  <2>5. CASE HaltFirstWrite \/ HaltSecondWrite \/ \E v \in PcWrites : WritePc(v)
    BY <2>1, <2>5 DEF HaltFirstWrite, HaltSecondWrite, WritePc
  <2>6. CASE UNCHANGED vars
    BY <2>1, <2>6 DEF vars
  <2>7. ASSUME NEW a \in BpAddrs, SetSwBreakpoint(a) \/ ClearSwBreakpoint(a)
        PROVE  ActivePointsAreArmed'
    BY <2>7 DEF SetSwBreakpoint, ClearSwBreakpoint
  <2>8. ASSUME NEW a \in ApAddrs, SetActionPoint(a) \/ ClearActionPoint(a)
        PROVE  ActivePointsAreArmed'
    BY <2>8 DEF SetActionPoint, ClearActionPoint
  <2>9. QED
    BY <2>2, <2>3, <2>4, <2>5, <2>6, <2>7, <2>8 DEF Next, Client
<1>3. QED
  BY <1>1, <1>2, PTL DEF Spec

-------------------------------------------------------------------------------
\* Who executes: the flag run_status_, the call the client is in and the place of the
\* executor agree, although none of them is read or written under a lock. A client that
\* is told "halted" has the core to itself.
ControlHandedOver ==
  /\ run_status = "kSingleStep" <=> dbg = "stepping"
  /\ run_status = "kHalted" <=> xc \in {"off", "begin"}
  /\ dbg = "starting" <=> xc \in {"begin", "clear", "clear_reason"}

LEMMA LoopHandsOver ==
  ASSUME TypeOK, ControlHandedOver, Executor
  PROVE  ControlHandedOver'
<1> USE DEF ControlHandedOver, At, Goto, flags
<1>1. CASE BeginRun \/ ClearFlags \/ ClearReason
  BY <1>1 DEF BeginRun, ClearFlags, ClearReason
<1>2. ASSUME UNCHANGED <<run_status, dbg>>,
             xc \notin {"off", "begin", "clear", "clear_reason"},
             xc' \notin {"off", "begin", "clear", "clear_reason"}
      PROVE  ControlHandedOver'
  BY <1>2
<1>3. CASE \/ LeaveLoop \/ ExecuteInstruction \/ ExecuteEbreak \/ ExecuteStrayEbreak
           \/ PerformBreakpointAction \/ PerformOtherActions \/ BreakpointRequested
  BY <1>2, <1>3 DEF LeaveLoop, ExecuteInstruction, ExecuteEbreak, ExecuteStrayEbreak,
     PerformBreakpointAction, PerformOtherActions, BreakpointRequested
<1>4. CASE \/ EndIteration \/ StepOverActionPoint \/ ResumeFlags \/ ResetReason
           \/ BreakOut \/ UpdatePc
  BY <1>2, <1>4 DEF EndIteration, StepOverActionPoint, ResumeFlags, ResetReason,
     BreakOut, UpdatePc
<1>5. CASE BecomeHalted
  BY <1>5 DEF BecomeHalted
<1>6. QED
  BY <1>1, <1>3, <1>4, <1>5 DEF Executor

LEMMA OthersHandOver ==
  ASSUME TypeOK, ControlHandedOver,
         NotifyHalted \/ Client \/ HaltFirstWrite \/ HaltSecondWrite
  PROVE  ControlHandedOver'
<1> USE DEF ControlHandedOver, flags
<1>1. CASE NotifyHalted
  BY <1>1 DEF NotifyHalted
<1>2. CASE HaltFirstWrite \/ HaltSecondWrite
  BY <1>2 DEF HaltFirstWrite, HaltSecondWrite
<1>3. CASE Run
  <2>1. run_status = "kHalted"
    BY <1>3 DEF Run, TypeOK, FlagsTyped, RunStatus
  <2>2. QED BY <1>3, <2>1 DEF Run
<1>4. ASSUME NEW n, Step(n) PROVE ControlHandedOver'
  <2>1. run_status' = "kSingleStep" /\ xc' = "loop" /\ dbg' = "stepping"
    BY <1>4 DEF Step
  <2>2. QED BY <2>1
<1>5. CASE Wait \/ WaitReturns \/ Destroy \/ DestroyReturns
  BY <1>5 DEF Wait, WaitReturns, Destroy, DestroyReturns
<1>6. ASSUME NEW a, \/ SetSwBreakpoint(a) \/ ClearSwBreakpoint(a) \/ WritePc(a)
                    \/ SetActionPoint(a) \/ ClearActionPoint(a)
      PROVE  ControlHandedOver'
  BY <1>6 DEF SetSwBreakpoint, ClearSwBreakpoint, WritePc, SetActionPoint,
              ClearActionPoint
<1>7. CASE Client
  BY <1>3, <1>4, <1>5, <1>6, <1>7 DEF Client
<1>8. QED
  BY <1>1, <1>2, <1>7

LEMMA ControlIsHandedOver == Spec => []ControlHandedOver
<1>1. Init => ControlHandedOver
  BY DEF Init, ControlHandedOver
<1>2. TypeOK /\ ControlHandedOver /\ [Next]_vars => ControlHandedOver'
  <2>1. CASE UNCHANGED vars
    BY <2>1 DEF vars, flags, ControlHandedOver
  <2>2. QED
    BY <2>1, LoopHandsOver, OthersHandOver DEF Next
<1>3. QED
  BY <1>1, <1>2, TypeCorrect, PTL DEF Spec

-------------------------------------------------------------------------------
\* How a reported breakpoint travels from the hit to the client: the pause that
\* RequestHalt asked for lasts until the loop is left, need_to_step_over_ is set
\* before the iteration ends, and nothing moves the pc after UpdatePc. Once another
\* thread's Halt() has overwritten the reason only a new hit brings it back; a new
\* run may still carry the old one until it clears it.
BreakpointReported ==
  /\ xc = "action" => paused
  /\ halt_reason = "kSoftwareBreakpoint" =>
       \/ xc \in {"begin", "clear", "clear_reason"}
       \/ xc = "breakpoint" /\ paused
       \/ xc \in {"executed", "check", "finish"} /\ paused /\ need_to_step_over
       \/ xc \in {"stopped", "off"} /\ need_to_step_over /\ pc_reg = pc

\* The execution thread keeps it, from the ebreak to the end of the loop.
LEMMA LoopReportsBreakpoint ==
  ASSUME BreakpointReported, Executor
  PROVE  BreakpointReported'
<1> USE DEF BreakpointReported, At, Goto, locals, guest
<1>1. CASE BeginRun \/ ClearFlags \/ ClearReason
  BY <1>1 DEF BeginRun, ClearFlags, ClearReason
<1>2. CASE LeaveLoop \/ ExecuteInstruction \/ ExecuteEbreak \/ ExecuteStrayEbreak
  BY <1>2 DEF LeaveLoop, ExecuteInstruction, ExecuteEbreak, ExecuteStrayEbreak, flags
<1>3. CASE PerformOtherActions
  BY <1>3 DEF PerformOtherActions
<1>4. CASE PerformBreakpointAction
  BY <1>4 DEF PerformBreakpointAction
<1>5. CASE BreakpointRequested
  BY <1>5 DEF BreakpointRequested, MarkStepOver
<1>6. CASE EndIteration
  BY <1>6 DEF EndIteration
<1>7. CASE StepOverActionPoint \/ ResumeFlags \/ ResetReason \/ BreakOut
  BY <1>7 DEF StepOverActionPoint, ResumeFlags, ResetReason, BreakOut, flags
<1>8. CASE UpdatePc
  BY <1>8 DEF UpdatePc
<1>9. CASE BecomeHalted
  BY <1>9 DEF BecomeHalted
<1>10. QED
  BY <1>1, <1>2, <1>3, <1>4, <1>5, <1>6, <1>7, <1>8, <1>9 DEF Executor


\* The client and another thread's Halt() keep it: a command leaves the old reason to
\* a thread that will clear it, or replaces it, and so does a write of the pc.
LEMMA OthersReportBreakpoint ==
  ASSUME BreakpointReported,
         NotifyHalted \/ Client \/ HaltFirstWrite \/ HaltSecondWrite
  PROVE  BreakpointReported'
<1> USE DEF BreakpointReported, flags, locals, guest
<1>1. CASE NotifyHalted
  BY <1>1 DEF NotifyHalted
<1>2. CASE HaltFirstWrite \/ HaltSecondWrite
  BY <1>2 DEF HaltFirstWrite, HaltSecondWrite, HaltReasonWrite, HaltFlagWrite
<1>3. CASE Run
  BY <1>3 DEF Run
<1>4. ASSUME NEW n, Step(n) PROVE BreakpointReported'
  <2>1. xc' = "loop" /\ halt_reason' # "kSoftwareBreakpoint"
    BY <1>4 DEF Step
  <2>2. QED BY <2>1
<1>5. CASE Wait \/ WaitReturns \/ Destroy \/ DestroyReturns
  BY <1>5 DEF Wait, WaitReturns, Destroy, DestroyReturns
<1>6. ASSUME NEW v, WritePc(v) PROVE BreakpointReported'
  BY <1>6 DEF WritePc
<1>7. ASSUME NEW a, \/ SetSwBreakpoint(a) \/ ClearSwBreakpoint(a)
                    \/ SetActionPoint(a) \/ ClearActionPoint(a)
      PROVE  BreakpointReported'
  BY <1>7 DEF SetSwBreakpoint, ClearSwBreakpoint, SetActionPoint, ClearActionPoint
<1>8. CASE Client
  BY <1>3, <1>4, <1>5, <1>6, <1>7, <1>8 DEF Client
<1>9. QED
  BY <1>1, <1>2, <1>8

LEMMA BreakpointsAreReported == Spec => []BreakpointReported
<1>1. Init => BreakpointReported
  BY DEF Init, BreakpointReported
<1>2. BreakpointReported /\ [Next]_vars => BreakpointReported'
  <2>1. CASE UNCHANGED vars
    BY <2>1 DEF vars, flags, locals, guest, BreakpointReported
  <2>2. QED
    BY <2>1, LoopReportsBreakpoint, OthersReportBreakpoint DEF Next
<1>3. QED
  BY <1>1, <1>2, PTL DEF Spec

\* What a client may rely on (GetLastHaltReason, ReadRegister): a core that says it
\* stopped at a software breakpoint stands on it and will step over it, in every
\* interleaving with a halter, with interrupts, action points and pc writes.
THEOREM BreakpointIsWhereItStopped == Spec => []StoppedAtBreakpoint
<1>1. BreakpointReported => StoppedAtBreakpoint
  BY DEF BreakpointReported, StoppedAtBreakpoint, Quiescent
<1>2. QED
  BY <1>1, BreakpointsAreReported, PTL

-------------------------------------------------------------------------------
\* Who still owes a notification: an executor that is not the client inside Step(),
\* or a thread past its loop. For a client that calls Wait() between two runs there
\* is at most one, and until the object is gone it owes the one that run_halted_
\* points to.
ThreadRuns == xc # "off" /\ dbg # "stepping"
NotificationOwed ==
  /\ fault => dbg = "destroyed"
  /\ dbg # "destroyed" =>
       /\ run_halted = "fresh" =>
            \/ tails = 0 /\ ThreadRuns
            \/ tails = 1 /\ ~ThreadRuns
       /\ run_halted # "fresh" => tails = 0 /\ ~ThreadRuns

LEMMA ExecutorOwes ==
  ASSUME ControlHandedOver, NotificationOwed, Executor
  PROVE  NotificationOwed'
<1> USE DEF ControlHandedOver, NotificationOwed, ThreadRuns, At, Goto, flags, sync
<1>1. CASE BeginRun
  BY <1>1 DEF BeginRun
<1>2. CASE ClearFlags
  BY <1>2 DEF ClearFlags
<1>3. CASE ClearReason
  BY <1>3 DEF ClearReason
<1>4. CASE BecomeHalted
  <2>1. CASE run_status = "kSingleStep"
    BY <1>4, <2>1 DEF BecomeHalted
  <2>2. CASE run_status # "kSingleStep" /\ dbg # "destroyed"
    <3>1. ThreadRuns /\ tails = 0 /\ run_halted = "fresh"
      BY <1>4, <2>2 DEF BecomeHalted
    <3>2. tails' = 1 /\ ~ThreadRuns' /\ xc' = "off" /\ UNCHANGED <<dbg, run_halted, fault>>
      BY <1>4, <2>2, <3>1 DEF BecomeHalted
    <3>3. QED BY <3>1, <3>2
  <2>3. CASE run_status # "kSingleStep" /\ dbg = "destroyed"
    BY <1>4, <2>3 DEF BecomeHalted
  <2>4. QED BY <2>1, <2>2, <2>3
<1>5. ASSUME UNCHANGED <<run_status, dbg, sync>>,
             xc \notin {"off", "begin", "clear", "clear_reason"},
             xc' \notin {"off", "begin", "clear", "clear_reason"}
      PROVE  NotificationOwed'
  BY <1>5
<1>6. CASE \/ LeaveLoop \/ ExecuteInstruction \/ ExecuteEbreak \/ ExecuteStrayEbreak
           \/ PerformBreakpointAction \/ PerformOtherActions \/ BreakpointRequested
  BY <1>5, <1>6 DEF LeaveLoop, ExecuteInstruction, ExecuteEbreak, ExecuteStrayEbreak,
     PerformBreakpointAction, PerformOtherActions, BreakpointRequested
<1>7. CASE \/ EndIteration \/ StepOverActionPoint \/ ResumeFlags \/ ResetReason
           \/ BreakOut \/ UpdatePc
  BY <1>5, <1>7 DEF EndIteration, StepOverActionPoint, ResumeFlags, ResetReason,
     BreakOut, UpdatePc
<1>8. QED
  BY <1>1, <1>2, <1>3, <1>4, <1>6, <1>7 DEF Executor

LEMMA OthersOwe ==
  ASSUME ~Polls, TypeOK, ControlHandedOver, NotificationOwed,
         NotifyHalted \/ Client \/ HaltFirstWrite \/ HaltSecondWrite
  PROVE  NotificationOwed'
<1> USE DEF ControlHandedOver, NotificationOwed, ThreadRuns, flags, sync
<1>1. CASE NotifyHalted
  <2>1. CASE dbg = "destroyed"
    BY <1>1, <2>1 DEF NotifyHalted
  <2>2. CASE dbg # "destroyed"
    <3>1. tails = 1 /\ ~ThreadRuns /\ run_halted = "fresh"
      BY <1>1, <2>2 DEF NotifyHalted
    <3>2. run_halted' = "notified" /\ tails' = 0 /\ UNCHANGED <<fault, xc, dbg>>
      BY <1>1, <2>2, <3>1 DEF NotifyHalted
    <3>3. QED BY <3>1, <3>2
  <2>3. QED BY <2>1, <2>2
<1>2. CASE HaltFirstWrite \/ HaltSecondWrite
  BY <1>2 DEF HaltFirstWrite, HaltSecondWrite
<1>3. CASE Run
  <2>1. dbg = "idle" /\ run_halted = "null" /\ tails = 0
    BY <1>3 DEF Run
  <2>2. /\ run_halted' = "fresh" /\ xc' = "begin" /\ dbg' = "starting"
        /\ UNCHANGED <<tails, fault>>
    BY <1>3 DEF Run
  <2>3. QED BY <2>1, <2>2
<1>4. ASSUME NEW n, Step(n) PROVE NotificationOwed'
  <2>1. dbg = "idle" /\ run_status = "kHalted" /\ UNCHANGED sync
    BY <1>4 DEF Step
  <2>2. xc = "off"
    BY <2>1
  <2>3. run_status' = "kSingleStep" /\ xc' = "loop" /\ dbg' = "stepping"
    BY <1>4 DEF Step
  <2>4. QED BY <2>1, <2>2, <2>3
<1>5. CASE Wait \/ WaitReturns \/ Destroy \/ DestroyReturns
  BY <1>5 DEF Wait, WaitReturns, Destroy, DestroyReturns
<1>6. ASSUME NEW a, \/ SetSwBreakpoint(a) \/ ClearSwBreakpoint(a) \/ WritePc(a)
                    \/ SetActionPoint(a) \/ ClearActionPoint(a)
      PROVE  NotificationOwed'
  BY <1>6 DEF SetSwBreakpoint, ClearSwBreakpoint, WritePc, SetActionPoint,
              ClearActionPoint
<1>7. CASE Client
  BY <1>3, <1>4, <1>5, <1>6, <1>7 DEF Client
<1>8. QED
  BY <1>1, <1>2, <1>7

LEMMA NotificationsAreOwed ==
  ASSUME ~Polls
  PROVE  Spec => []NotificationOwed
<1>1. Init => NotificationOwed
  BY DEF Init, NotificationOwed, ThreadRuns
<1>2. TypeOK /\ ControlHandedOver /\ NotificationOwed /\ [Next]_vars => NotificationOwed'
  <2>1. CASE UNCHANGED vars
    BY <2>1 DEF vars, flags, sync, NotificationOwed, ThreadRuns
  <2>2. QED
    BY <2>1, ExecutorOwes, OthersOwe DEF Next
<1>3. QED
  BY <1>1, <1>2, TypeCorrect, ControlIsHandedOver, PTL DEF Spec

\* The end of a call of the client: nothing but its own return ends a Wait() or the
\* destructor.
LEMMA CallsEnd ==
  ASSUME ControlHandedOver, Next, dbg \in {"waiting", "destroying", "destroyed"},
         dbg' # dbg
  PROVE  WaitReturns \/ DestroyReturns
<1> USE DEF ControlHandedOver
<1>1. CASE Executor
  <2>1. ~ClearReason
    BY DEF ClearReason, At
  <2>2. ~(BecomeHalted /\ run_status = "kSingleStep")
    BY DEF BecomeHalted, At
  <2>3. dbg' = dbg
    BY <1>1, <2>1, <2>2 DEF Executor, BeginRun, ClearFlags, LeaveLoop,
       ExecuteInstruction, ExecuteEbreak, ExecuteStrayEbreak,
       PerformBreakpointAction, PerformOtherActions, BreakpointRequested,
       EndIteration, StepOverActionPoint, ResumeFlags, ResetReason, BreakOut,
       UpdatePc, BecomeHalted
  <2>4. QED BY <2>3
<1>2. CASE Client
  BY <1>2 DEF Client, Run, Step, Wait, Destroy, WritePc, CanEdit, SetSwBreakpoint,
     ClearSwBreakpoint, SetActionPoint, ClearActionPoint
<1>3. CASE NotifyHalted \/ HaltFirstWrite \/ HaltSecondWrite
  BY <1>3 DEF NotifyHalted, HaltFirstWrite, HaltSecondWrite
<1>4. QED
  BY <1>1, <1>2, <1>3 DEF Next

\* When Wait() returns the simulator has finished (riscv_top.cc:507), for clients that
\* call it between two runs and whatever halts or breakpoints ended the run.
THEOREM WaitWaits ==
  ASSUME ~Polls
  PROVE  Spec => WaitMeansFinished
<1>1. ControlHandedOver /\ NotificationOwed /\ [Next]_vars
        => [dbg = "waiting" /\ dbg' = "idle" => xc = "off"]_vars
  <2> SUFFICES ASSUME ControlHandedOver, NotificationOwed, Next,
                      dbg = "waiting", dbg' = "idle"
               PROVE  xc = "off"
    BY DEF vars
  <2>1. WaitReturns
    BY CallsEnd DEF DestroyReturns
  <2>2. QED BY <2>1 DEF WaitReturns, NotificationOwed, ThreadRuns
<1>2. QED
  BY <1>1, ControlIsHandedOver, NotificationsAreOwed, PTL DEF Spec, WaitMeansFinished

\* ~RiscVTop (riscv_top.cc:104-109) of a core that is running returns only after the
\* execution loop, whatever ended it; for the same clients.
THEOREM DestructorOutlasts ==
  ASSUME ~Polls
  PROVE  Spec => DestructorOutlastsTheLoop
<1>1. ControlHandedOver /\ NotificationOwed /\ [Next]_vars
        => [dbg = "destroying" /\ dbg' = "destroyed" => xc = "off"]_vars
  <2> SUFFICES ASSUME ControlHandedOver, NotificationOwed, Next,
                      dbg = "destroying", dbg' = "destroyed"
               PROVE  xc = "off"
    BY DEF vars
  <2>1. DestroyReturns
    BY CallsEnd DEF WaitReturns
  <2>2. QED BY <2>1 DEF DestroyReturns, NotificationOwed, ThreadRuns
<1>2. QED
  BY <1>1, ControlIsHandedOver, NotificationsAreOwed, PTL
     DEF Spec, DestructorOutlastsTheLoop

\* A Run() thread never notifies through an object that is gone (riscv_top.cc:413,
\* 496, 510): for clients that wait between two runs and keep the object. (One that
\* deletes a core whose run has just ended can leave such a thread behind.)
THEOREM NoThreadUsesDeleted ==
  ASSUME ~Polls, ~MayDestroy
  PROVE  Spec => []NoUseAfterDelete
<1> DEFINE Alive == dbg \notin {"destroying", "destroyed"}
<1>1. Init => Alive
  BY DEF Init
<1>2. ControlHandedOver /\ Alive /\ [Next]_vars => Alive'
  <2> SUFFICES ASSUME ControlHandedOver, Alive, [Next]_vars PROVE Alive'
    OBVIOUS
  <2>1. CASE Executor
    BY <2>1 DEF Executor, BeginRun, ClearFlags, ClearReason, LeaveLoop,
       ExecuteInstruction, ExecuteEbreak, ExecuteStrayEbreak,
       PerformBreakpointAction, PerformOtherActions, BreakpointRequested,
       EndIteration, StepOverActionPoint, ResumeFlags, ResetReason, BreakOut,
       UpdatePc, BecomeHalted
  <2>2. CASE Client
    BY <2>2 DEF Client, Run, Step, Wait, WaitReturns, Destroy, DestroyReturns, WritePc,
       CanEdit, SetSwBreakpoint, ClearSwBreakpoint, SetActionPoint, ClearActionPoint
  <2>3. CASE NotifyHalted \/ HaltFirstWrite \/ HaltSecondWrite \/ UNCHANGED vars
    BY <2>3 DEF NotifyHalted, HaltFirstWrite, HaltSecondWrite, vars
  <2>4. QED BY <2>1, <2>2, <2>3 DEF Next
<1>3. Alive /\ NotificationOwed => NoUseAfterDelete
  BY DEF NotificationOwed, NoUseAfterDelete
<1>4. QED
  BY <1>1, <1>2, <1>3, ControlIsHandedOver, NotificationsAreOwed, PTL DEF Spec

===============================================================================
