---------------------------- MODULE RunOrderProofs ----------------------------
(***************************************************************************)
(* Theorems about what RunControl's loop leaves behind: where the program  *)
(* is (ProgramOrder), which ebreak the next command steps over             *)
(* (StepOverBelongsToPc) and why the core stopped (HaltHasReason). Each    *)
(* holds for the clients its hypotheses name; the README quotes the runs   *)
(* that show what happens without them.                                    *)
(***************************************************************************)
EXTENDS RunControlProofs

\* Without a halter no write of Halt() is under way.
HalterHalts == AsyncHalt \/ hc = "idle"

LEMMA OnlyHalterHalts == Spec => []HalterHalts
<1>1. Init => HalterHalts
  BY DEF Init, HalterHalts
<1>2. HalterHalts /\ [Next]_vars => HalterHalts'
  <2> SUFFICES ASSUME HalterHalts, [Next]_vars PROVE HalterHalts'
    OBVIOUS
  <2> USE DEF HalterHalts
  <2>1. CASE Executor
    BY <2>1 DEF Executor, BeginRun, ClearFlags, ClearReason, LeaveLoop,
       ExecuteInstruction, ExecuteEbreak, ExecuteStrayEbreak,
       PerformBreakpointAction, PerformOtherActions, BreakpointRequested,
       EndIteration, StepOverActionPoint, ResumeFlags, ResetReason, BreakOut,
       UpdatePc, BecomeHalted
  <2>2. CASE Client
    BY <2>2 DEF Client, Run, Step, Wait, WaitReturns, Destroy, DestroyReturns, WritePc,
       SetSwBreakpoint, ClearSwBreakpoint, SetActionPoint, ClearActionPoint
  <2>3. CASE NotifyHalted \/ HaltFirstWrite \/ HaltSecondWrite \/ UNCHANGED vars
    BY <2>3 DEF NotifyHalted, HaltFirstWrite, HaltSecondWrite, vars
  <2>4. QED BY <2>1, <2>2, <2>3 DEF Next
<1>3. QED
  BY <1>1, <1>2, PTL DEF Spec

\* A client that may start a run or edit the core has it to itself.
LEMMA ClientAtRest ==
  ASSUME TypeOK, ControlHandedOver, dbg = "idle", run_status # "kRunning"
  PROVE  xc = "off"
BY DEF ControlHandedOver, TypeOK, FlagsTyped, RunStatus

-------------------------------------------------------------------------------
(* Breakpoints and no other action points.                                 *)

\* Every ebreak that stops the loop is then a breakpoint's, and its action has replaced
\* the reason kActionPoint before the loop looks at it: the loop never resumes by
\* itself.
OnlyBreakpoints ==
  /\ aps = {} /\ xc \notin {"resume", "reset"}
  /\ xc = "action" => pc \in bps
  /\ halt_reason = "kActionPoint" => xc = "action"

LEMMA LoopOnlyBreakpoints ==
  ASSUME OnlyBreakpoints, Executor
  PROVE  OnlyBreakpoints'
<1> USE DEF OnlyBreakpoints, At, Goto, flags, locals, points
<1>1. CASE BeginRun \/ ClearFlags \/ ClearReason \/ LeaveLoop \/ BreakOut
  BY <1>1 DEF BeginRun, ClearFlags, ClearReason, LeaveLoop, BreakOut
<1>2. CASE ExecuteInstruction \/ ExecuteStrayEbreak
  BY <1>2 DEF ExecuteInstruction, ExecuteStrayEbreak
<1>3. CASE ExecuteEbreak
  BY <1>3 DEF ExecuteEbreak, Active
<1>4. CASE PerformBreakpointAction \/ BreakpointRequested
  BY <1>4 DEF PerformBreakpointAction, BreakpointRequested
<1>5. CASE PerformOtherActions \/ StepOverActionPoint \/ ResumeFlags \/ ResetReason
  BY <1>5 DEF PerformOtherActions, StepOverActionPoint, ResumeFlags, ResetReason
<1>6. CASE EndIteration
  BY <1>6 DEF EndIteration
<1>7. CASE UpdatePc \/ BecomeHalted
  BY <1>7 DEF UpdatePc, BecomeHalted
<1>8. QED
  BY <1>1, <1>2, <1>3, <1>4, <1>5, <1>6, <1>7 DEF Executor

LEMMA OthersOnlyBreakpoints ==
  ASSUME ApAddrs = {}, TypeOK, ControlHandedOver, OnlyBreakpoints,
         NotifyHalted \/ Client \/ HaltFirstWrite \/ HaltSecondWrite
  PROVE  OnlyBreakpoints'
<1> USE DEF OnlyBreakpoints, flags, locals, points
<1>1. CASE NotifyHalted \/ Wait \/ WaitReturns \/ Destroy \/ DestroyReturns
  BY <1>1 DEF NotifyHalted, Wait, WaitReturns, Destroy, DestroyReturns
<1>2. CASE HaltFirstWrite \/ HaltSecondWrite
  BY <1>2 DEF HaltFirstWrite, HaltSecondWrite, HaltReasonWrite, HaltFlagWrite
<1>3. CASE Run
  <2>1. xc = "off"
    BY <1>3, ClientAtRest DEF Run
  <2>2. xc' = "begin" /\ aps' = aps /\ halt_reason' # "kActionPoint"
    BY <1>3, <2>1 DEF Run
  <2>3. QED BY <2>2
<1>4. ASSUME NEW n, Step(n) PROVE OnlyBreakpoints'
  <2>1. xc' = "loop" /\ aps' = aps /\ halt_reason' # "kActionPoint"
    BY <1>4 DEF Step
  <2>2. QED BY <2>1
<1>5. ASSUME NEW a, WritePc(a) \/ SetSwBreakpoint(a) \/ ClearSwBreakpoint(a)
      PROVE  OnlyBreakpoints'
  <2>1. xc = "off"
    BY <1>5, ClientAtRest DEF WritePc, SetSwBreakpoint, ClearSwBreakpoint, CanEdit
  <2>2. QED BY <1>5, <2>1 DEF WritePc, SetSwBreakpoint, ClearSwBreakpoint
<1>6. QED
  BY <1>1, <1>2, <1>3, <1>4, <1>5 DEF Client

LEMMA BreakpointsOnly ==
  ASSUME ApAddrs = {}
  PROVE  Spec => []OnlyBreakpoints
<1>1. Init => OnlyBreakpoints
  BY DEF Init, OnlyBreakpoints
<1>2. TypeOK /\ ControlHandedOver /\ OnlyBreakpoints /\ [Next]_vars => OnlyBreakpoints'
  <2>1. CASE UNCHANGED vars
    BY <2>1 DEF vars, flags, locals, points, OnlyBreakpoints
  <2>2. QED
    BY <2>1, LoopOnlyBreakpoints, OthersOnlyBreakpoints DEF Next
<1>3. QED
  BY <1>1, <1>2, TypeCorrect, ControlIsHandedOver, PTL DEF Spec

-------------------------------------------------------------------------------
(* The order of the program.                                               *)

\* A core without breakpoints: nothing is armed, so nothing stops at an ebreak.
NoPoints ==
  /\ bps = {} /\ armed = {} /\ ~need_to_step_over
  /\ halt_reason \notin {"kSoftwareBreakpoint", "kActionPoint"}
  /\ xc \notin {"action", "breakpoint"}

\* Which of pc, next_pc and the pc register tells where the program has got to, at
\* each place of the loop. At an ebreak it is pc, and the reason says so; after any
\* other instruction it is next_pc.
InOrder ==
  /\ mepc = due_saved
  /\ xc \in {"off", "begin", "clear", "clear_reason", "stopped"} => pc_reg = due
  /\ xc = "loop" => pc = due /\ next_pc = due /\ pc_reg = due
  /\ xc \in {"action", "breakpoint"} => pc = due /\ pc_reg = due
  /\ xc = "action" => halt_reason = "kActionPoint"
  /\ xc = "breakpoint" => halt_reason = "kSoftwareBreakpoint"
  /\ xc \in {"executed", "check", "finish"} =>
       IF halt_reason = "kSoftwareBreakpoint" THEN pc = due ELSE next_pc = due
  /\ xc = "executed" => pc_reg = due

\* What the client and the machinery may do to the order: breakpoints only, and either
\* none of them or neither a halter nor interrupts. (That the latter client leaves no
\* ebreak behind is EbreaksBelong below.)
Orderly ==
  IF BpAddrs = {} THEN NoPoints ELSE ~Interrupts /\ ~AsyncHalt

LEMMA NoPointsStay ==
  ASSUME BpAddrs = {}, ApAddrs = {}, OnlyBreakpoints, NoPoints, [Next]_vars
  PROVE  NoPoints'
<1> USE DEF NoPoints, OnlyBreakpoints, At, Goto, flags, locals, points
<1>1. CASE BeginRun \/ ClearFlags \/ ClearReason \/ LeaveLoop \/ BreakOut
  BY <1>1 DEF BeginRun, ClearFlags, ClearReason, LeaveLoop, BreakOut
<1>2. CASE ExecuteInstruction \/ EndIteration \/ UpdatePc \/ BecomeHalted
  BY <1>2 DEF ExecuteInstruction, EndIteration, UpdatePc, BecomeHalted
<1>3. CASE \/ ExecuteEbreak \/ ExecuteStrayEbreak \/ PerformBreakpointAction
           \/ PerformOtherActions \/ BreakpointRequested
  BY <1>3 DEF ExecuteEbreak, ExecuteStrayEbreak, PerformBreakpointAction,
     PerformOtherActions, BreakpointRequested
<1>4. CASE StepOverActionPoint \/ ResumeFlags \/ ResetReason
  BY <1>4 DEF StepOverActionPoint, ResumeFlags, ResetReason
<1>5. CASE Executor
  BY <1>1, <1>2, <1>3, <1>4, <1>5 DEF Executor
<1>6. CASE NotifyHalted \/ HaltFirstWrite \/ HaltSecondWrite \/ UNCHANGED vars
  BY <1>6 DEF NotifyHalted, HaltFirstWrite, HaltSecondWrite, HaltReasonWrite,
     HaltFlagWrite, vars
<1>7. CASE Run
  BY <1>7 DEF Run
<1>8. ASSUME NEW n, Step(n) PROVE NoPoints'
  BY <1>8 DEF Step
<1>9. CASE Wait \/ WaitReturns \/ Destroy \/ DestroyReturns
  BY <1>9 DEF Wait, WaitReturns, Destroy, DestroyReturns
<1>10. ASSUME NEW a, WritePc(a) PROVE NoPoints'
  BY <1>10 DEF WritePc
<1>11. ASSUME NEW a, ClearActionPoint(a) PROVE NoPoints'
  BY <1>11 DEF ClearActionPoint
<1>12. QED
  BY <1>5, <1>6, <1>7, <1>8, <1>9, <1>10, <1>11 DEF Next, Client

\* The guest's own steps keep the trap handler's return address in order.
LEMMA GuestInOrder ==
  ASSUME mepc = due_saved, NEW a, ExecuteOriginal(a)
  PROVE  pc_reg' = due' /\ mepc' = due_saved'
BY DEF ExecuteOriginal, Targets, TakeInterrupt, EnterHandler

LEMMA LoopInOrder ==
  ASSUME OnlyBreakpoints, OnlyPointsAreArmed, BreakpointReported, InOrder, Orderly,
         Executor
  PROVE  InOrder'
<1> USE DEF InOrder, At, Goto, flags, locals, guest
<1>1. CASE BeginRun \/ ClearFlags \/ ClearReason
  BY <1>1 DEF BeginRun, ClearFlags, ClearReason
<1>2. CASE LeaveLoop
  BY <1>2 DEF LeaveLoop
<1>3. CASE ExecuteInstruction
  <2>1. pc_reg' = due' /\ mepc' = due_saved'
    BY <1>3, GuestInOrder DEF ExecuteInstruction
  <2>2. xc' = "executed" /\ halt_reason' # "kSoftwareBreakpoint" /\ next_pc' = pc_reg'
    BY <1>3 DEF ExecuteInstruction, BreakpointReported
  <2>3. QED BY <2>1, <2>2
<1>4. CASE ExecuteEbreak
  BY <1>4 DEF ExecuteEbreak
<1>5. ~ExecuteStrayEbreak
  BY DEF ExecuteStrayEbreak, OnlyPointsAreArmed
<1>6. CASE PerformBreakpointAction
  BY <1>6 DEF PerformBreakpointAction
<1>7. CASE BreakpointRequested
  <2>1. ~Interrupts
    BY <1>7 DEF BreakpointRequested, Orderly, NoPoints
  <2>2. QED BY <1>7, <2>1 DEF BreakpointRequested, InterruptAfterEbreak
<1>8. CASE EndIteration
  <2>1. CASE halt_reason = "kSoftwareBreakpoint"
    BY <1>8, <2>1 DEF EndIteration, BreakpointReported
  <2>2. CASE halt_reason # "kSoftwareBreakpoint"
    BY <1>8, <2>2 DEF EndIteration
  <2>3. QED BY <2>1, <2>2
<1>9. CASE BreakOut
  BY <1>9 DEF BreakOut
<1>10. CASE UpdatePc
  BY <1>10 DEF UpdatePc
<1>11. CASE BecomeHalted
  BY <1>11 DEF BecomeHalted
<1>12. ~PerformOtherActions /\ ~StepOverActionPoint /\ ~ResumeFlags /\ ~ResetReason
  BY DEF OnlyBreakpoints, PerformOtherActions, StepOverActionPoint, ResumeFlags,
     ResetReason
<1>13. QED
  BY <1>1, <1>2, <1>3, <1>4, <1>5, <1>6, <1>7, <1>8, <1>9, <1>10, <1>11, <1>12
     DEF Executor

LEMMA OthersInOrder ==
  ASSUME TypeOK, ControlHandedOver, HalterHalts, InOrder, Orderly,
         NotifyHalted \/ Client \/ HaltFirstWrite \/ HaltSecondWrite
  PROVE  InOrder'
<1> USE DEF InOrder, flags, locals, guest
<1>1. CASE NotifyHalted \/ Wait \/ WaitReturns \/ Destroy \/ DestroyReturns
  BY <1>1 DEF NotifyHalted, Wait, WaitReturns, Destroy, DestroyReturns
<1>2. CASE HaltFirstWrite \/ HaltSecondWrite
  <2>1. NoPoints
    BY <1>2 DEF HaltFirstWrite, HaltSecondWrite, Orderly, HalterHalts
  <2>2. UNCHANGED <<locals, guest, xc>> /\ halt_reason' # "kSoftwareBreakpoint"
    BY <1>2, <2>1 DEF HaltFirstWrite, HaltSecondWrite, HaltReasonWrite, HaltFlagWrite,
       NoPoints
  <2>3. QED BY <2>1, <2>2 DEF NoPoints
<1>3. CASE Run
  <2>1. xc = "off"
    BY <1>3, ClientAtRest DEF Run
  <2>2. pc_reg' = due' /\ mepc' = due_saved'
    BY <1>3, <2>1, GuestInOrder DEF Run, StepPastBreakpoint
  <2>3. xc' = "begin"
    BY <1>3 DEF Run
  <2>4. QED BY <2>2, <2>3
<1>4. ASSUME NEW n, Step(n) PROVE InOrder'
  <2>1. xc = "off"
    BY <1>4, ClientAtRest DEF Step
  <2>2. pc_reg' = due' /\ mepc' = due_saved'
    BY <1>4, <2>1, GuestInOrder DEF Step, StepPastBreakpoint
  <2>3. xc' = "loop" /\ pc' = pc_reg' /\ next_pc' = pc_reg'
    BY <1>4 DEF Step
  <2>4. QED BY <2>2, <2>3
<1>5. ASSUME NEW v, WritePc(v) PROVE InOrder'
  <2>1. xc = "off"
    BY <1>5, ClientAtRest DEF WritePc, CanEdit
  <2>2. QED BY <1>5, <2>1 DEF WritePc
<1>6. ASSUME NEW a, \/ SetSwBreakpoint(a) \/ ClearSwBreakpoint(a)
                    \/ SetActionPoint(a) \/ ClearActionPoint(a)
      PROVE  InOrder'
  BY <1>6 DEF SetSwBreakpoint, ClearSwBreakpoint, SetActionPoint, ClearActionPoint
<1>7. QED
  BY <1>1, <1>2, <1>3, <1>4, <1>5, <1>6 DEF Client

-------------------------------------------------------------------------------
(* What is stepped over, and why the core stopped.                         *)

\* Without a halter the reason at an ebreak is the one RequestHalt has just stored, and
\* a mark set there belongs to it: on the way out of the loop the pc either stays on
\* the ebreak with the mark or leaves without it.
StepOverHeld ==
  /\ xc = "action" => halt_reason = "kActionPoint"
  /\ xc = "breakpoint" => halt_reason = "kSoftwareBreakpoint"
  /\ need_to_step_over =>
       \/ xc \in {"off", "stopped"} /\ pc_reg = pc
       \/ xc \in {"breakpoint", "resume", "reset"}
       \/ /\ xc \in {"executed", "check"} /\ paused
          /\ halt_reason \in {"kSoftwareBreakpoint", "kActionPoint"}
       \/ xc = "finish" /\ halt_reason = "kSoftwareBreakpoint"

LEMMA LoopHoldsStepOver ==
  ASSUME BreakpointReported, StepOverHeld, Executor
  PROVE  StepOverHeld'
<1> USE DEF StepOverHeld, At, Goto, flags, locals, guest
<1>1. CASE BeginRun \/ ClearFlags \/ ClearReason \/ LeaveLoop
  BY <1>1 DEF BeginRun, ClearFlags, ClearReason, LeaveLoop
<1>2. CASE ExecuteInstruction \/ ExecuteEbreak \/ ExecuteStrayEbreak
  BY <1>2 DEF ExecuteInstruction, ExecuteEbreak, ExecuteStrayEbreak
<1>3. CASE PerformBreakpointAction
  BY <1>3 DEF PerformBreakpointAction
<1>4. CASE PerformOtherActions \/ BreakpointRequested
  <2>1. xc' = "executed" /\ UNCHANGED <<halt_reason, paused>>
    BY <1>4 DEF PerformOtherActions, BreakpointRequested
  <2>2. paused /\ halt_reason \in {"kSoftwareBreakpoint", "kActionPoint"}
    BY <1>4 DEF PerformOtherActions, BreakpointRequested, BreakpointReported
  <2>3. QED BY <2>1, <2>2
<1>5. CASE EndIteration
  BY <1>5 DEF EndIteration
<1>6. CASE StepOverActionPoint \/ ResumeFlags \/ ResetReason \/ BreakOut
  BY <1>6 DEF StepOverActionPoint, ResumeFlags, ResetReason, BreakOut
<1>7. CASE UpdatePc \/ BecomeHalted
  BY <1>7 DEF UpdatePc, BecomeHalted
<1>8. QED
  BY <1>1, <1>2, <1>3, <1>4, <1>5, <1>6, <1>7 DEF Executor

LEMMA OthersHoldStepOver ==
  ASSUME ~AsyncHalt, PcWrites = {}, TypeOK, ControlHandedOver, HalterHalts, StepOverHeld,
         NotifyHalted \/ Client \/ HaltFirstWrite \/ HaltSecondWrite
  PROVE  StepOverHeld'
<1> USE DEF StepOverHeld, flags, locals, guest
<1>1. CASE NotifyHalted \/ Wait \/ WaitReturns \/ Destroy \/ DestroyReturns
  BY <1>1 DEF NotifyHalted, Wait, WaitReturns, Destroy, DestroyReturns
<1>2. ~HaltFirstWrite /\ ~HaltSecondWrite
  BY DEF HaltFirstWrite, HaltSecondWrite, HalterHalts
<1>3. CASE Run
  BY <1>3 DEF Run
<1>4. ASSUME NEW n, Step(n) PROVE StepOverHeld'
  <2>1. xc' = "loop" /\ ~need_to_step_over'
    BY <1>4 DEF Step
  <2>2. QED BY <2>1
<1>5. ASSUME NEW a, \/ SetSwBreakpoint(a) \/ ClearSwBreakpoint(a)
                    \/ SetActionPoint(a) \/ ClearActionPoint(a)
      PROVE  StepOverHeld'
  BY <1>5 DEF SetSwBreakpoint, ClearSwBreakpoint, SetActionPoint, ClearActionPoint
<1>6. QED
  BY <1>1, <1>2, <1>3, <1>4, <1>5 DEF Client

LEMMA StepOverIsHeld ==
  ASSUME ~AsyncHalt, PcWrites = {}
  PROVE  Spec => []StepOverHeld
<1>1. Init => StepOverHeld
  BY DEF Init, StepOverHeld
<1>2. TypeOK /\ ControlHandedOver /\ BreakpointReported /\ HalterHalts /\ StepOverHeld
        /\ [Next]_vars => StepOverHeld'
  <2>1. CASE UNCHANGED vars
    BY <2>1 DEF vars, flags, locals, guest, StepOverHeld
  <2>2. QED
    BY <2>1, LoopHoldsStepOver, OthersHoldStepOver DEF Next
<1>3. QED
  BY <1>1, <1>2, TypeCorrect, ControlIsHandedOver, BreakpointsAreReported,
     OnlyHalterHalts, PTL DEF Spec

\* The instruction that the next Run or Step executes without its ebreak
\* (riscv_top.cc:403-404 and 600-601) is the one the core stopped at: breakpoints and
\* action points in any combination, interrupts at any moment, but no halter and no
\* write of the pc, either of which leaves the mark to another instruction.
THEOREM StepOverAtPc ==
  ASSUME ~AsyncHalt, PcWrites = {}
  PROVE  Spec => []StepOverBelongsToPc
<1>1. StepOverHeld => StepOverBelongsToPc
  BY DEF StepOverHeld, StepOverBelongsToPc, Quiescent
<1>2. QED
  BY <1>1, StepOverIsHeld, PTL

-------------------------------------------------------------------------------
(* Which ebreaks are in the program.                                       *)

\* Every ebreak in memory is a breakpoint's, and the one to be stepped over next, which
\* StepPastBreakpoint will write again, has not been cleared.
EbreaksBelong ==
  /\ armed \subseteq bps
  /\ need_to_step_over \/ xc \in {"action", "breakpoint"} => pc \in bps

LEMMA LoopKeepsEbreaks ==
  ASSUME OnlyBreakpoints, StepOverHeld, EbreaksBelong, Executor
  PROVE  EbreaksBelong'
<1> USE DEF EbreaksBelong, At, Goto, flags, locals, points
<1>1. CASE BeginRun \/ ClearFlags \/ LeaveLoop \/ BreakOut
  BY <1>1 DEF BeginRun, ClearFlags, LeaveLoop, BreakOut
<1>2. CASE ClearReason
  BY <1>2 DEF ClearReason, StepOverHeld
<1>3. CASE ExecuteInstruction \/ ExecuteStrayEbreak
  BY <1>3 DEF ExecuteInstruction, ExecuteStrayEbreak
<1>4. CASE ExecuteEbreak
  BY <1>4 DEF ExecuteEbreak
<1>5. CASE PerformBreakpointAction \/ PerformOtherActions \/ BreakpointRequested
  BY <1>5 DEF PerformBreakpointAction, PerformOtherActions, BreakpointRequested
<1>6. CASE EndIteration
  <2>1. need_to_step_over => paused
    BY <1>6 DEF EndIteration, StepOverHeld
  <2>2. need_to_step_over' => pc' = pc
    BY <1>6, <2>1 DEF EndIteration
  <2>3. QED BY <1>6, <2>2 DEF EndIteration
<1>7. ~StepOverActionPoint /\ ~ResumeFlags /\ ~ResetReason
  BY DEF OnlyBreakpoints, StepOverActionPoint, ResumeFlags, ResetReason
<1>8. CASE UpdatePc \/ BecomeHalted
  BY <1>8 DEF UpdatePc, BecomeHalted
<1>9. QED
  BY <1>1, <1>2, <1>3, <1>4, <1>5, <1>6, <1>7, <1>8 DEF Executor

LEMMA OthersKeepEbreaks ==
  ASSUME ~AsyncHalt, PcWrites = {}, ApAddrs = {}, ~ClearsPending, TypeOK,
         ControlHandedOver, HalterHalts, OnlyBreakpoints, StepOverHeld, EbreaksBelong,
         NotifyHalted \/ Client \/ HaltFirstWrite \/ HaltSecondWrite
  PROVE  EbreaksBelong'
<1> USE DEF EbreaksBelong, flags, locals, points
<1>1. CASE NotifyHalted \/ Wait \/ WaitReturns \/ Destroy \/ DestroyReturns
  BY <1>1 DEF NotifyHalted, Wait, WaitReturns, Destroy, DestroyReturns
<1>2. ~HaltFirstWrite /\ ~HaltSecondWrite
  BY DEF HaltFirstWrite, HaltSecondWrite, HalterHalts
<1>3. CASE Run
  <2>1. xc = "off"
    BY <1>3, ClientAtRest DEF Run
  <2>2. armed' \subseteq bps
    BY <1>3, <2>1 DEF Run, StepPastBreakpoint, StepOverHeld
  <2>3. QED BY <1>3, <2>2 DEF Run
<1>4. ASSUME NEW n, Step(n) PROVE EbreaksBelong'
  <2>1. xc = "off"
    BY <1>4, ClientAtRest DEF Step
  <2>2. armed' \subseteq bps
    BY <1>4, <2>1 DEF Step, StepPastBreakpoint, StepOverHeld
  <2>3. QED BY <1>4, <2>2 DEF Step
<1>5. ASSUME NEW a, SetSwBreakpoint(a) PROVE EbreaksBelong'
  BY <1>5 DEF SetSwBreakpoint
<1>6. ASSUME NEW a, ClearSwBreakpoint(a) PROVE EbreaksBelong'
  <2>1. xc = "off"
    BY <1>6, ClientAtRest DEF ClearSwBreakpoint, CanEdit
  <2>2. armed' \subseteq bps'
    BY <1>6 DEF ClearSwBreakpoint, OnlyBreakpoints
  <2>3. need_to_step_over => pc_reg = pc /\ a # pc
    BY <1>6, <2>1 DEF ClearSwBreakpoint, StepOverHeld
  <2>4. QED BY <1>6, <2>1, <2>2, <2>3 DEF ClearSwBreakpoint
<1>7. QED
  BY <1>1, <1>2, <1>3, <1>4, <1>5, <1>6 DEF Client

\* What riscv_action_point_memory_interface.h:57-58 promises, for the clients of whom it
\* is true: a client alone with the program that sets breakpoints only, does not write
\* the pc and does not clear the breakpoint it is about to step past leaves no ebreak
\* behind in the program. Any other client may: StepPastBreakpoint (riscv_top.cc:272)
\* writes one at the pc, whatever is there.
THEOREM NoEbreakIsLeft ==
  ASSUME ~AsyncHalt, PcWrites = {}, ApAddrs = {}, ~ClearsPending
  PROVE  Spec => []OnlyPointsAreArmed
<1>1. Init => EbreaksBelong
  BY DEF Init, EbreaksBelong
<1>2. TypeOK /\ ControlHandedOver /\ HalterHalts /\ OnlyBreakpoints /\ StepOverHeld
        /\ EbreaksBelong /\ [Next]_vars => EbreaksBelong'
  <2>1. CASE UNCHANGED vars
    BY <2>1 DEF vars, flags, locals, points, EbreaksBelong
  <2>2. QED
    BY <2>1, LoopKeepsEbreaks, OthersKeepEbreaks DEF Next
<1>3. EbreaksBelong => OnlyPointsAreArmed
  BY DEF EbreaksBelong, OnlyPointsAreArmed, Active
<1>4. QED
  BY <1>1, <1>2, <1>3, TypeCorrect, ControlIsHandedOver, OnlyHalterHalts,
     BreakpointsOnly, StepOverIsHeld, PTL DEF Spec

\* The machinery of halting, breakpoints and stepping (Run, Step, StepPastBreakpoint and
\* the loop of riscv_top.cc) neither skips, repeats nor loses an instruction, for every
\* program and for two kinds of client: one alone with the program that sets and clears
\* breakpoints at will, stops, steps and resumes, but neither writes the pc nor clears
\* the breakpoint it is about to step past; and one without breakpoints, with halts,
\* interrupts and writes of the pc at any moment. Action points, breakpoints together
\* with interrupts, halts or writes of the pc, and a breakpoint cleared while the core
\* stands on it (its ebreak is written again, riscv_top.cc:272, and the program traps
\* there) do break the order.
THEOREM ProgramInOrder ==
  ASSUME ApAddrs = {},
         BpAddrs = {} \/ (~AsyncHalt /\ ~Interrupts /\ PcWrites = {} /\ ~ClearsPending)
  PROVE  Spec => []ProgramOrder
<1> DEFINE IInv == InOrder /\ Orderly
<1> DEFINE Armed == OnlyPointsAreArmed \/ BpAddrs = {}
<1>1. Init => IInv
  BY DEF Init, InOrder, Orderly, NoPoints
<1>2. Spec => []Armed
  <2>1. CASE BpAddrs = {}
    <3>1. Armed BY <2>1
    <3>2. QED BY <3>1, PTL
  <2>2. CASE ~AsyncHalt /\ PcWrites = {} /\ ~ClearsPending
    <3>1. OnlyPointsAreArmed => Armed OBVIOUS
    <3>2. QED BY <2>2, <3>1, NoEbreakIsLeft, PTL
  <2>3. QED BY <2>1, <2>2
<1>3. TypeOK /\ ControlHandedOver /\ BreakpointReported /\ OnlyBreakpoints
        /\ HalterHalts /\ Armed /\ IInv /\ [Next]_vars => IInv'
  <2> SUFFICES ASSUME TypeOK, ControlHandedOver, BreakpointReported, OnlyBreakpoints,
                      HalterHalts, Armed, IInv, [Next]_vars
               PROVE  IInv'
    OBVIOUS
  <2>1. Orderly'
    BY NoPointsStay DEF Orderly
  <2>2. OnlyPointsAreArmed
    BY DEF Orderly, NoPoints, OnlyPointsAreArmed
  <2>3. InOrder'
    <3>1. CASE UNCHANGED vars
      BY <3>1 DEF vars, flags, locals, guest, InOrder
    <3>2. QED
      BY <2>2, <3>1, LoopInOrder, OthersInOrder DEF Next
  <2>4. QED BY <2>1, <2>3
<1>4. BreakpointReported /\ InOrder => ProgramOrder
  BY DEF BreakpointReported, InOrder, ProgramOrder, Quiescent, At
<1>5. QED
  BY <1>1, <1>2, <1>3, <1>4, TypeCorrect, ControlIsHandedOver, BreakpointsAreReported,
     BreakpointsOnly, OnlyHalterHalts, PTL DEF Spec

-------------------------------------------------------------------------------
(* Why the core stopped.                                                   *)

\* halted_ is only ever true together with a reason, and is false wherever the loop
\* overwrites the reason: when a run clears it, at the ebreak, and when it resumes from
\* an action point.
HaltExplained ==
  halted => /\ halt_reason \in {"kSoftwareBreakpoint", "kSemihostHaltRequest"}
            /\ xc \notin {"clear_reason", "action", "resume", "reset"}
            /\ xc = "loop" => paused

LEMMA LoopExplains ==
  ASSUME Exits = {} \/ OnlyBreakpoints, StepOverHeld, HaltExplained, Executor
  PROVE  HaltExplained'
<1> USE DEF HaltExplained, At, Goto, flags
<1>1. CASE BeginRun \/ ClearFlags \/ ClearReason \/ LeaveLoop \/ BreakOut
  BY <1>1 DEF BeginRun, ClearFlags, ClearReason, LeaveLoop, BreakOut
<1>2. CASE ExecuteInstruction
  BY <1>2 DEF ExecuteInstruction
<1>3. CASE ExecuteEbreak \/ ExecuteStrayEbreak
  BY <1>3 DEF ExecuteEbreak, ExecuteStrayEbreak, LoopDone
<1>4. CASE PerformBreakpointAction \/ PerformOtherActions \/ BreakpointRequested
  BY <1>4 DEF PerformBreakpointAction, PerformOtherActions, BreakpointRequested
<1>5. CASE EndIteration
  BY <1>5 DEF EndIteration
<1>6. CASE StepOverActionPoint
  <2>1. ~halted /\ ~OnlyBreakpoints
    BY <1>6 DEF StepOverActionPoint, OnlyBreakpoints
  <2>2. ~halted'
    BY <1>6, <2>1 DEF StepOverActionPoint
  <2>3. QED BY <2>2
<1>7. CASE ResumeFlags \/ ResetReason
  BY <1>7 DEF ResumeFlags, ResetReason
<1>8. CASE UpdatePc \/ BecomeHalted
  BY <1>8 DEF UpdatePc, BecomeHalted
<1>9. QED
  BY <1>1, <1>2, <1>3, <1>4, <1>5, <1>6, <1>7, <1>8 DEF Executor

LEMMA OthersExplain ==
  ASSUME ~AsyncHalt, PcWrites = {}, HalterHalts, HaltExplained,
         NotifyHalted \/ Client \/ HaltFirstWrite \/ HaltSecondWrite
  PROVE  HaltExplained'
<1> USE DEF HaltExplained, flags
<1>1. CASE NotifyHalted \/ Wait \/ WaitReturns \/ Destroy \/ DestroyReturns
  BY <1>1 DEF NotifyHalted, Wait, WaitReturns, Destroy, DestroyReturns
<1>2. ~HaltFirstWrite /\ ~HaltSecondWrite
  BY DEF HaltFirstWrite, HaltSecondWrite, HalterHalts
<1>3. CASE Run
  BY <1>3 DEF Run
<1>4. ASSUME NEW n, Step(n) PROVE HaltExplained'
  <2>1. CASE need_to_step_over /\ pc_reg \in Exits
    BY <1>4, <2>1 DEF Step
  <2>2. CASE ~(need_to_step_over /\ pc_reg \in Exits)
    BY <1>4, <2>2 DEF Step
  <2>3. QED BY <2>1, <2>2
<1>5. ASSUME NEW a, \/ SetSwBreakpoint(a) \/ ClearSwBreakpoint(a)
                    \/ SetActionPoint(a) \/ ClearActionPoint(a)
      PROVE  HaltExplained'
  BY <1>5 DEF SetSwBreakpoint, ClearSwBreakpoint, SetActionPoint, ClearActionPoint
<1>6. QED
  BY <1>1, <1>2, <1>3, <1>4, <1>5 DEF Client

\* GetLastHaltReason of a core that was stopped by a request never answers kNone: for a
\* client alone with the program that does not write the pc, and as long as no
\* instruction asks for a halt while an action point is stepped over.
THEOREM HaltGivesReason ==
  ASSUME ~AsyncHalt, PcWrites = {}, ApAddrs = {} \/ Exits = {}
  PROVE  Spec => []HaltHasReason
<1> DEFINE Points == Exits = {} \/ OnlyBreakpoints
<1>1. Init => HaltExplained
  BY DEF Init, HaltExplained
<1>2. Spec => []Points
  <2>1. CASE ApAddrs = {}
    <3>1. OnlyBreakpoints => Points OBVIOUS
    <3>2. QED BY <2>1, <3>1, BreakpointsOnly, PTL
  <2>2. CASE Exits = {}
    <3>1. Points BY <2>2
    <3>2. QED BY <3>1, PTL
  <2>3. QED BY <2>1, <2>2
<1>3. Points /\ HalterHalts /\ StepOverHeld /\ HaltExplained /\ [Next]_vars
        => HaltExplained'
  <2>1. CASE UNCHANGED vars
    BY <2>1 DEF vars, flags, HaltExplained
  <2>2. QED
    BY <2>1, LoopExplains, OthersExplain DEF Next
<1>4. HaltExplained => HaltHasReason
  BY DEF HaltExplained, HaltHasReason
<1>5. QED
  BY <1>1, <1>2, <1>3, <1>4, StepOverIsHeld, OnlyHalterHalts, PTL DEF Spec
===============================================================================
