------------------------------ MODULE RunControl ------------------------------
(***************************************************************************)
(* RiscVTop's run control (src/riscv/riscv_top.cc): the execution loop of  *)
(* Run() and Step(), the flags through which a debugger, a SIGINT handler  *)
(* and the simulated program stop it, software breakpoints and action      *)
(* points (ebreak instructions swapped into program memory), stepping past *)
(* them, Wait() and the destructor.                                        *)
(*                                                                         *)
(* Three threads share the state.                                          *)
(*   client    the debugger: calls Run, Step, Wait, WriteRegister("pc"),   *)
(*             Set/ClearSwBreakpoint, Set/ClearActionPoint and deletes the *)
(*             object, one call at a time (dbg);                           *)
(*   executor  runs the loop: the detached thread of Run(), or the client  *)
(*             inside Step() (xc is its control location);                 *)
(*   halter    the control-C handler or a second shell: calls Halt() at    *)
(*             any moment (hc).                                            *)
(* Nothing in RiscVTop is locked, so a read or a write of a flag that      *)
(* another thread writes is a step of its own.                             *)
(*                                                                         *)
(* The simulated program is a graph: Succ[a] are the addresses execution   *)
(* may go to after the instruction at a, FallThrough[a] the next           *)
(* sequential address.                                                     *)
(***************************************************************************)
EXTENDS Naturals, FiniteSets

CONSTANTS
  Addr,          \* instruction addresses of the program
  Entry,         \* where the pc points before the first command
  Succ,          \* [Addr -> SUBSET Addr], successors of the original code
  FallThrough,   \* [Addr -> Addr], pc + size
  Exits,         \* instructions that request a halt (semihosting exit, tohost)
  MRets,         \* mret instructions
  Vector,        \* entry of the trap handler
  BpAddrs,       \* where the client may set software breakpoints
  ApAddrs,       \* where the client may set other action points
  PcWrites,      \* values the client may write to the pc
  AsyncHalt,     \* TRUE: a halter thread exists
  Interrupts,    \* TRUE: an interrupt may become available
  MayDestroy,    \* TRUE: the client may delete the object
  Polls,         \* TRUE: the client may Run() again without a Wait()
  ClearsPending, \* TRUE: it may clear the breakpoint it is about to step past
  MaxStep        \* bound on Step's argument

ASSUME ProgramAssumption ==
  /\ Entry \in Addr
  /\ Vector \in Addr
  /\ Succ \in [Addr -> SUBSET Addr]
  /\ \A a \in Addr : Succ[a] # {}
  /\ FallThrough \in [Addr -> Addr]
  /\ Exits \subseteq Addr
  /\ MRets \subseteq Addr
ASSUME ClientAssumption ==
  /\ BpAddrs \subseteq Addr
  /\ ApAddrs \subseteq Addr
  /\ PcWrites \subseteq Addr
  /\ AsyncHalt \in BOOLEAN
  /\ Interrupts \in BOOLEAN
  /\ MayDestroy \in BOOLEAN
  /\ Polls \in BOOLEAN
  /\ ClearsPending \in BOOLEAN
ASSUME BoundAssumption == MaxStep \in Nat \ {0}

VARIABLES
  run_status,         \* run_status_
  halted,             \* halted_
  paused,             \* paused_
  halt_reason,        \* halt_reason_
  need_to_step_over,  \* need_to_step_over_
  run_halted,         \* run_halted_: null, or the state of the Notification
  pc_reg,             \* the architectural pc register
  xc,                 \* executor: control location
  pc,                 \* executor: local variable pc
  next_pc,            \* executor: local variable next_pc
  count,              \* Step: instructions done
  num,                \* Step: instructions asked for
  tails,              \* Run threads past "run_status_ = kHalted", not notified
  fault,              \* a thread touched an object already deleted
  dbg,                \* client: the call it is in
  hc,                 \* halter: the write of Halt() still to come
  bps,                \* addresses with a breakpoint (BreakpointManager)
  aps,                \* addresses with another enabled action
  armed,              \* addresses whose memory holds an ebreak
  mepc,               \* guest: saved pc of the trap handler
  in_handler,         \* guest: in the trap handler, interrupts disabled
  due,                \* history: where the program must execute next
  due_saved           \* history: where it must resume after the handler

flags == <<run_status, halted, paused, halt_reason, need_to_step_over>>
locals == <<pc, next_pc, count, num>>
points == <<bps, aps>>
guest == <<pc_reg, mepc, in_handler, due, due_saved>>
sync == <<run_halted, tails, fault>>
vars == <<flags, locals, points, guest, sync, armed, xc, dbg, hc>>

RunStatus == {"kHalted", "kRunning", "kSingleStep"}
HaltReason == {"kNone", "kUserRequest", "kSoftwareBreakpoint", "kActionPoint",
               "kSemihostHaltRequest"}

\* Control locations of the thread that Run() starts, in program order; Step()
\* enters at "loop" and leaves after "stopped".
Locations == {"off", "begin", "clear", "clear_reason", "loop", "action",
              "breakpoint", "executed", "check", "resume", "reset", "finish",
              "stopped"}

Active(a) == a \in bps \/ a \in aps

Init ==
  /\ run_status = "kHalted" /\ halt_reason = "kNone"
  /\ halted = FALSE /\ paused = FALSE /\ need_to_step_over = FALSE
  /\ run_halted = "null" /\ tails = 0 /\ fault = FALSE
  /\ xc = "off" /\ dbg = "idle" /\ hc = "idle"
  /\ pc = Entry /\ next_pc = Entry /\ count = 0 /\ num = 0
  /\ bps = {} /\ aps = {} /\ armed = {}
  /\ pc_reg = Entry /\ mepc = Entry /\ in_handler = FALSE
  /\ due = Entry /\ due_saved = Entry

-------------------------------------------------------------------------------
(* The guest.                                                              *)

Targets(a) == IF a \in MRets THEN {mepc} ELSE Succ[a]

\* Trap(): the handler gets control and will return to epc.
EnterHandler(epc) ==
  /\ pc_reg' = Vector
  /\ mepc' = epc
  /\ in_handler' = TRUE

\* TakeAvailableInterrupt(epc); "resume" is where the handler should return.
TakeInterrupt(epc, resume) ==
  /\ EnterHandler(epc)
  /\ due' = Vector
  /\ due_saved' = resume

\* The original instruction at a executes, then an available interrupt is taken.
ExecuteOriginal(a) ==
  \E n \in Targets(a) :
    LET d == IF a \in MRets THEN due_saved ELSE n
        masked == in_handler /\ a \notin MRets
    IN \/ /\ pc_reg' = n
          /\ due' = d
          /\ in_handler' = masked
          /\ UNCHANGED <<mepc, due_saved>>
       \/ /\ Interrupts /\ ~masked
          /\ TakeInterrupt(n, d)

\* Mutant: the ebreak is not written again.
StepPastWithoutRearming ==
  ExecuteOriginal(pc_reg) /\ armed' = armed \ {pc_reg}

\* StepPastBreakpoint(): write the original instruction back, execute it and
\* write the ebreak again, whether or not the address is an action point.
StepPastBreakpoint ==
  /\ ExecuteOriginal(pc_reg)
  /\ armed' = armed \union {pc_reg}

-------------------------------------------------------------------------------
(* The execution loop.                                                     *)

At(l) == xc = l
Goto(l) == xc' = l

\* First statement of the Run() thread.
BeginRun ==
  /\ At("begin") /\ Goto("clear")
  /\ run_status' = "kRunning"
  /\ UNCHANGED <<halted, paused, halt_reason, need_to_step_over, locals, points,
                 guest, sync, armed, dbg, hc>>

\* Mutant: halted_ keeps its value from the previous run.
ClearPausedOnly ==
  /\ At("clear") /\ Goto("clear_reason")
  /\ paused' = FALSE
  /\ UNCHANGED <<halted, run_status, halt_reason, need_to_step_over, locals,
                 points, guest, sync, armed, dbg, hc>>

ClearFlags ==
  /\ At("clear") /\ Goto("clear_reason")
  /\ halted' = FALSE /\ paused' = FALSE
  /\ UNCHANGED <<run_status, halt_reason, need_to_step_over, locals, points,
                 guest, sync, armed, dbg, hc>>

\* halt_reason_ = kNone, run_started_->Notify(), which lets Run() return.
ClearReason ==
  /\ At("clear_reason") /\ Goto("loop")
  /\ halt_reason' = "kNone"
  /\ dbg' = "idle"
  /\ pc' = pc_reg /\ next_pc' = pc_reg
  /\ UNCHANGED <<run_status, halted, paused, need_to_step_over, count, num,
                 points, guest, sync, armed, hc>>

LoopDone == paused \/ (run_status = "kSingleStep" /\ count >= num)

LeaveLoop ==
  /\ At("loop") /\ LoopDone /\ Goto("finish")
  /\ UNCHANGED <<flags, locals, points, guest, sync, armed, dbg, hc>>

\* An ordinary iteration; a semihosting exit calls RequestHalt. (pc_reg keeps
\* the successor of an untaken branch too: SetPc rewrites it before a read.)
ExecuteInstruction ==
  /\ At("loop") /\ ~LoopDone /\ pc \notin armed
  /\ Goto("executed")
  /\ ExecuteOriginal(pc)
  /\ next_pc' = pc_reg'
  /\ IF pc \in Exits
     THEN halt_reason' = "kSemihostHaltRequest" /\ halted' = TRUE
     ELSE UNCHANGED <<halt_reason, halted>>
  /\ UNCHANGED <<run_status, paused, need_to_step_over, pc, count, num, points,
                 sync, armed, dbg, hc>>

\* The ebreak handler at an active action point: RequestHalt(kActionPoint),
\* up to its second read of halt_reason_.
ExecuteEbreak ==
  /\ At("loop") /\ ~LoopDone /\ pc \in armed /\ Active(pc)
  /\ Goto("action")
  /\ pc_reg' = pc /\ next_pc' = FallThrough[pc]
  /\ halt_reason' = "kActionPoint" /\ paused' = TRUE
  /\ UNCHANGED <<run_status, halted, need_to_step_over, pc, count, num, points,
                 mepc, in_handler, due, due_saved, sync, armed, dbg, hc>>

\* An ebreak that no handler claims is a breakpoint exception in the guest. The
\* program has no such instruction: what is due is still the one the ebreak hides.
ExecuteStrayEbreak ==
  /\ At("loop") /\ ~LoopDone /\ pc \in armed /\ ~Active(pc)
  /\ Goto("executed")
  /\ EnterHandler(pc)
  /\ next_pc' = Vector
  /\ UNCHANGED <<flags, pc, count, num, points, due, due_saved, sync, armed, dbg, hc>>

\* The end of RequestHalt: halt_reason_ is read back.
MarkStepOver ==
  need_to_step_over' = (need_to_step_over
                          \/ halt_reason \in {"kSoftwareBreakpoint", "kActionPoint"})

\* The loop checks for an interrupt after the ebreak as after any instruction.
InterruptAfterEbreak ==
  \/ UNCHANGED <<guest, next_pc>>
  \/ /\ Interrupts /\ ~in_handler
     /\ TakeInterrupt(next_pc, due)
     /\ next_pc' = Vector

\* PerformActions: the breakpoint's action is RequestHalt(kSoftwareBreakpoint).
PerformBreakpointAction ==
  /\ At("action") /\ pc \in bps /\ Goto("breakpoint")
  /\ MarkStepOver
  /\ halt_reason' = "kSoftwareBreakpoint" /\ halted' = TRUE
  /\ UNCHANGED <<run_status, paused, locals, points, guest, sync, armed, dbg, hc>>

PerformOtherActions ==
  /\ At("action") /\ pc \notin bps /\ Goto("executed")
  /\ MarkStepOver
  /\ InterruptAfterEbreak
  /\ UNCHANGED <<run_status, halted, paused, halt_reason, pc, count, num, points,
                 sync, armed, dbg, hc>>

BreakpointRequested ==
  /\ At("breakpoint") /\ Goto("executed")
  /\ MarkStepOver
  /\ InterruptAfterEbreak
  /\ UNCHANGED <<run_status, halted, paused, halt_reason, pc, count, num, points,
                 sync, armed, dbg, hc>>

\* paused_ |= halted_, the counters, the next pc and "if (!paused_)".
EndIteration ==
  /\ At("executed")
  /\ paused' = (paused \/ halted)
  /\ count' = IF run_status = "kSingleStep" THEN count + 1 ELSE count
  /\ IF paused' THEN Goto("check") /\ UNCHANGED pc
                ELSE Goto("loop") /\ pc' = next_pc
  /\ UNCHANGED <<run_status, halted, halt_reason, need_to_step_over, next_pc, num,
                 points, guest, sync, armed, dbg, hc>>

\* "If it's an action point, just step over and continue executing."
StepOverActionPoint ==
  /\ At("check") /\ halt_reason = "kActionPoint" /\ Goto("resume")
  /\ StepPastBreakpoint
  /\ IF pc_reg \in Exits
     THEN halt_reason' = "kSemihostHaltRequest" /\ halted' = TRUE
     ELSE UNCHANGED <<halt_reason, halted>>
  /\ UNCHANGED <<run_status, paused, need_to_step_over, locals, points, sync,
                 dbg, hc>>

\* Mutant: resuming from an action point clears halted_ itself.
ResumeClearsHalted ==
  /\ At("resume") /\ Goto("reset")
  /\ paused' = FALSE /\ halted' = FALSE
  /\ UNCHANGED <<run_status, halt_reason, need_to_step_over, locals, points,
                 guest, sync, armed, dbg, hc>>

ResumeFlags ==
  /\ At("resume") /\ Goto("reset")
  /\ paused' = halted
  /\ UNCHANGED <<run_status, halted, halt_reason, need_to_step_over, locals,
                 points, guest, sync, armed, dbg, hc>>

ResetReason ==
  /\ At("reset") /\ Goto("loop")
  /\ halt_reason' = "kNone" /\ need_to_step_over' = FALSE
  /\ UNCHANGED <<run_status, halted, paused, locals, points, guest, sync, armed,
                 dbg, hc>>

BreakOut ==
  /\ At("check") /\ halt_reason # "kActionPoint" /\ Goto("finish")
  /\ UNCHANGED <<flags, locals, points, guest, sync, armed, dbg, hc>>

\* Mutant: the pc moves on whatever stopped the loop.
UpdatePcAlways ==
  /\ At("finish") /\ Goto("stopped")
  /\ pc_reg' = next_pc
  /\ UNCHANGED <<flags, locals, points, mepc, in_handler, due, due_saved, sync,
                 armed, dbg, hc>>

\* The pc register after the loop.
UpdatePc ==
  /\ At("finish") /\ Goto("stopped")
  /\ pc_reg' = IF halt_reason = "kSoftwareBreakpoint" THEN pc ELSE next_pc
  /\ halt_reason' = IF run_status = "kSingleStep" /\ ~halted THEN "kNone"
                                                             ELSE halt_reason
  /\ UNCHANGED <<run_status, halted, paused, need_to_step_over, locals, points,
                 mepc, in_handler, due, due_saved, sync, armed, dbg, hc>>

\* run_status_ = kHalted; Step() returns, a Run() thread has yet to notify.
BecomeHalted ==
  /\ At("stopped") /\ Goto("off")
  /\ run_status' = "kHalted"
  /\ IF run_status = "kSingleStep"
     THEN dbg' = "idle" /\ UNCHANGED tails
     ELSE tails' = tails + 1 /\ UNCHANGED dbg
  /\ UNCHANGED <<halted, paused, halt_reason, need_to_step_over, locals, points,
                 guest, run_halted, fault, armed, hc>>

\* Mutant: no notification is sent.
NotifyNobody ==
  /\ tails > 0 /\ tails' = tails - 1
  /\ UNCHANGED <<flags, locals, points, guest, run_halted, fault, armed, xc, dbg, hc>>

\* run_halted_->Notify(), last statement of the thread.
NotifyHalted ==
  /\ tails > 0 /\ tails' = tails - 1
  /\ IF run_halted = "null" \/ dbg = "destroyed"
     THEN fault' = TRUE /\ UNCHANGED run_halted
     ELSE run_halted' = "notified" /\ UNCHANGED fault
  /\ UNCHANGED <<flags, locals, points, guest, armed, xc, dbg, hc>>

Executor ==
  \/ BeginRun \/ ClearFlags \/ ClearReason
  \/ LeaveLoop \/ ExecuteInstruction \/ ExecuteEbreak \/ ExecuteStrayEbreak
  \/ PerformBreakpointAction \/ PerformOtherActions \/ BreakpointRequested
  \/ EndIteration \/ StepOverActionPoint \/ ResumeFlags \/ ResetReason
  \/ BreakOut \/ UpdatePc \/ BecomeHalted

-------------------------------------------------------------------------------
(* The client.                                                             *)

\* Run(): the step over a breakpoint happens in the caller, before the flags
\* are cleared; then a new Notification and the thread.
Run ==
  /\ dbg = "idle" /\ run_status # "kRunning"
  /\ (run_halted # "null" => Polls)
  /\ tails <= 1          \* bound: Run threads that have still to notify
  /\ IF need_to_step_over
     THEN /\ StepPastBreakpoint
          /\ IF pc_reg \in Exits
             THEN halt_reason' = "kSemihostHaltRequest" /\ halted' = TRUE
             ELSE UNCHANGED <<halt_reason, halted>>
     ELSE UNCHANGED <<guest, armed, halt_reason, halted>>
  /\ need_to_step_over' = FALSE
  /\ run_halted' = "fresh"
  /\ xc' = "begin" /\ dbg' = "starting"
  /\ UNCHANGED <<run_status, paused, locals, points, tails, fault, hc>>

\* Step(n) up to its loop; the caller's thread is the executor.
Step(n) ==
  /\ dbg = "idle" /\ run_status = "kHalted"
  /\ run_status' = "kSingleStep"
  /\ num' = n
  /\ need_to_step_over' = FALSE
  /\ IF need_to_step_over
     THEN /\ StepPastBreakpoint
          /\ IF pc_reg \in Exits
             THEN /\ halted' = TRUE /\ paused' = TRUE
                  /\ halt_reason' = "kSemihostHaltRequest"
             ELSE /\ halted' = FALSE /\ paused' = FALSE
                  /\ halt_reason' = "kNone"
          /\ count' = 1
     ELSE /\ UNCHANGED <<guest, armed>>
          /\ halted' = FALSE /\ paused' = FALSE
          /\ halt_reason' = "kNone"
          /\ count' = 0
  /\ pc' = pc_reg' /\ next_pc' = pc_reg'
  /\ xc' = "loop" /\ dbg' = "stepping"
  /\ UNCHANGED <<points, sync, hc>>

Wait ==
  /\ dbg = "idle" /\ run_halted # "null"
  /\ dbg' = "waiting"
  /\ UNCHANGED <<flags, locals, points, guest, sync, armed, xc, hc>>

\* Mutant: the notification is deleted without waiting for it.
WaitReturnsAtOnce ==
  /\ dbg = "waiting"
  /\ dbg' = "idle" /\ run_halted' = "null"
  /\ UNCHANGED <<flags, locals, points, guest, tails, fault, armed, xc, hc>>

WaitReturns ==
  /\ dbg = "waiting" /\ run_halted = "notified"
  /\ dbg' = "idle" /\ run_halted' = "null"
  /\ UNCHANGED <<flags, locals, points, guest, tails, fault, armed, xc, hc>>

CanEdit == dbg = "idle" /\ run_status = "kHalted"

WritePc(v) ==
  /\ CanEdit
  /\ pc_reg' = v /\ due' = v
  /\ halt_reason' = IF halt_reason = "kSoftwareBreakpoint" THEN "kNone"
                                                           ELSE halt_reason
  /\ UNCHANGED <<run_status, halted, paused, need_to_step_over, locals, points,
                 mepc, in_handler, due_saved, sync, armed, xc, dbg, hc>>

\* ActionPointManager: the ebreak is written with an address's first action
\* and removed with its last.
SetSwBreakpoint(a) ==
  /\ CanEdit /\ a \notin bps
  /\ bps' = bps \union {a}
  /\ armed' = armed \union {a}
  /\ UNCHANGED <<flags, locals, aps, guest, sync, xc, dbg, hc>>

ClearSwBreakpoint(a) ==
  /\ CanEdit /\ a \in bps
  /\ need_to_step_over /\ a = pc_reg => ClearsPending
  /\ bps' = bps \ {a}
  /\ armed' = IF a \in aps THEN armed ELSE armed \ {a}
  /\ UNCHANGED <<flags, locals, aps, guest, sync, xc, dbg, hc>>

\* SetActionPoint and EnableAction, ClearActionPoint and DisableAction: the
\* run status is not consulted.
SetActionPoint(a) ==
  /\ dbg = "idle" /\ a \notin aps
  /\ aps' = aps \union {a}
  /\ armed' = armed \union {a}
  /\ UNCHANGED <<flags, locals, bps, guest, sync, xc, dbg, hc>>

ClearActionPoint(a) ==
  /\ dbg = "idle" /\ a \in aps
  /\ aps' = aps \ {a}
  /\ armed' = IF a \in bps THEN armed ELSE armed \ {a}
  /\ UNCHANGED <<flags, locals, bps, guest, sync, xc, dbg, hc>>

\* ~RiscVTop: waits only if run_status_ is kRunning.
Destroy ==
  /\ MayDestroy /\ dbg = "idle"
  /\ dbg' = IF run_status = "kRunning" THEN "destroying" ELSE "destroyed"
  /\ UNCHANGED <<flags, locals, points, guest, sync, armed, xc, hc>>

\* Mutant: the destructor does not wait for the thread.
DestroyAtOnce ==
  /\ dbg = "destroying"
  /\ dbg' = "destroyed" /\ run_halted' = "null"
  /\ UNCHANGED <<flags, locals, points, guest, tails, fault, armed, xc, hc>>

DestroyReturns ==
  /\ dbg = "destroying" /\ run_halted = "notified"
  /\ dbg' = "destroyed" /\ run_halted' = "null"
  /\ UNCHANGED <<flags, locals, points, guest, tails, fault, armed, xc, hc>>

Client ==
  \/ Run \/ Wait \/ WaitReturns \/ Destroy \/ DestroyReturns
  \/ \E n \in 1..MaxStep : Step(n)
  \/ \E v \in PcWrites : WritePc(v)
  \/ \E a \in BpAddrs : SetSwBreakpoint(a) \/ ClearSwBreakpoint(a)
  \/ \E a \in ApAddrs : SetActionPoint(a) \/ ClearActionPoint(a)

-------------------------------------------------------------------------------
(* Halt() from another thread: two unsynchronised writes, either of which  *)
(* another thread may see first.                                           *)

HaltReasonWrite == halt_reason' = "kUserRequest" /\ UNCHANGED halted
HaltFlagWrite == halted' = TRUE /\ UNCHANGED halt_reason

HaltFirstWrite ==
  /\ AsyncHalt /\ hc = "idle" /\ run_status = "kRunning" /\ dbg # "destroyed"
  /\ \/ HaltReasonWrite /\ hc' = "flag"
     \/ HaltFlagWrite /\ hc' = "reason"
  /\ UNCHANGED <<run_status, paused, need_to_step_over, locals, points, guest,
                 sync, armed, xc, dbg>>

HaltSecondWrite ==
  /\ hc # "idle" /\ hc' = "idle"
  /\ IF hc = "flag" THEN HaltFlagWrite ELSE HaltReasonWrite
  /\ UNCHANGED <<run_status, paused, need_to_step_over, locals, points, guest,
                 sync, armed, xc, dbg>>

Next == Executor \/ NotifyHalted \/ Client \/ HaltFirstWrite \/ HaltSecondWrite

\* The operating system schedules every thread: the executor, a thread that has
\* still to notify, a call whose notification has come and a Halt() under way
\* all complete. Nothing obliges the client or the halter to make a call.
Fairness ==
  /\ WF_vars(Executor)
  /\ WF_vars(NotifyHalted)
  /\ WF_vars(WaitReturns \/ DestroyReturns)
  /\ WF_vars(HaltSecondWrite)

Spec == Init /\ [][Next]_vars
FairSpec == Spec /\ Fairness

-------------------------------------------------------------------------------
(* Properties.                                                             *)

FlagsTyped ==
  /\ run_status \in RunStatus /\ halt_reason \in HaltReason
  /\ halted \in BOOLEAN /\ paused \in BOOLEAN /\ need_to_step_over \in BOOLEAN
ThreadsTyped ==
  /\ xc \in Locations
  /\ dbg \in {"idle", "starting", "stepping", "waiting", "destroying", "destroyed"}
  /\ hc \in {"idle", "flag", "reason"}
  /\ run_halted \in {"null", "fresh", "notified"}
  /\ fault \in BOOLEAN
CountersTyped == tails \in Nat /\ count \in Nat /\ num \in Nat
ProgramTyped ==
  /\ pc \in Addr /\ next_pc \in Addr
  /\ bps \subseteq Addr /\ aps \subseteq Addr /\ armed \subseteq Addr
  /\ pc_reg \in Addr /\ mepc \in Addr /\ in_handler \in BOOLEAN
  /\ due \in Addr /\ due_saved \in Addr
TypeOK == FlagsTyped /\ ThreadsTyped /\ CountersTyped /\ ProgramTyped

\* No command is being executed: what the client then reads is what it acts on.
Quiescent == dbg = "idle" /\ xc = "off"

\* Every address with a breakpoint or an enabled action holds an ebreak, however
\* often it has been stepped past, cleared and set again (WriteOriginalInstruction
\* and WriteBreakpointInstruction stay paired).
ActivePointsAreArmed == \A a \in Addr : Active(a) => a \in armed

\* riscv_action_point_memory_interface.h:57-58: "Store breakpoint instruction,
\* provided the address is an action point. Otherwise no action is taken": no
\* ebreak is left in the program for a point that was cleared.
OnlyPointsAreArmed == \A a \in armed : Active(a)

\* A core that reports a software breakpoint stands on the ebreak that stopped
\* it, and the next Run or Step will step over it: the pc restored after the loop
\* and RequestHalt's flag agree, whatever another thread's Halt() wrote meanwhile.
StoppedAtBreakpoint ==
  Quiescent /\ halt_reason = "kSoftwareBreakpoint"
    => need_to_step_over /\ pc_reg = pc

\* A pending step-over belongs to the ebreak at the pc: the instruction that the
\* next command runs without its breakpoint is the one the core stopped at
\* (riscv_top.cc:403-404 and 600-601).
StepOverBelongsToPc == Quiescent /\ need_to_step_over => pc_reg = pc

\* No instruction of the program is skipped, repeated or lost by the machinery of
\* halting, breakpoints and stepping: whenever the loop is about to execute, and
\* whenever the core is stopped, the pc is where the program itself had got to.
\* (It is not for a client that clears the breakpoint it has stopped at:
\* StepPastBreakpoint puts the ebreak back, riscv_top.cc:272, and the next time
\* round the program gets a breakpoint exception in place of its instruction.)
ProgramOrder ==
  /\ At("loop") /\ ~LoopDone => pc = due
  /\ Quiescent => pc_reg = due

\* A core that was stopped by a request tells why (GetLastHaltReason).
HaltHasReason == Quiescent /\ halted => halt_reason # "kNone"

InLoop == xc \in {"loop", "action", "breakpoint", "executed", "check", "resume",
                  "reset"}

\* riscv_top.cc:853-857: an asynchronous halt request is never lost to the
\* clearing of the pause flag: once halted_ is set in the loop, the run ends.
HaltStopsTheRun == halted /\ InLoop ~> run_status # "kRunning"

\* A caller of Wait() is woken once the run has ended.
WaiterIsWoken == dbg = "waiting" /\ run_status = "kHalted" ~> dbg # "waiting"

\* riscv_top.cc:507: Wait() is there to "wait for the simulator to finish": when it
\* returns, the thread that the last Run() started executes no more.
WaitMeansFinished ==
  [][dbg = "waiting" /\ dbg' = "idle" => xc = "off"]_vars

\* The destructor of a core that is running ends only after the execution loop.
DestructorOutlastsTheLoop ==
  [][dbg = "destroying" /\ dbg' = "destroyed" => xc = "off"]_vars

\* No thread notifies through a notification that was deleted.
NoUseAfterDelete == ~fault

\* riscv_top.cc:104-105: "If the simulator is still running, request a halt", so
\* that the destructor ends even if the program would not.
DestructorReturns == dbg = "destroying" ~> dbg = "destroyed"
===============================================================================
