# A TLA+ verification of mpact-riscv

mpact-riscv is an instruction set simulator for RV32 and RV64, built on the MPACT-Sim
framework. The repository holds the instruction semantics, the architectural state,
two interrupt controllers and a top-level class, `RiscVTop`, through which a debugger
drives the simulation. This directory models two kinds of parts. Some are correct or not by
*sequences* of events: run control, traps and interrupts, the platform level interrupt
controller, the floating point status, the vector unit. The others are large families of
*functions*, written once per type, per width and per encoding: the integer, vector and
floating point semantics, the csrs, the operand tables and the assembler. There the question is whether
separately written pieces compose and agree. All paths below are relative to `src/`.

Contents

1. [The system](#1-the-system): components, state, operations, interactions
2. [The models](#2-the-models): modules and how they correspond to the code
3. [The runs](#3-the-runs): what TLC checks, bounds, fairness
4. [Disagreements found](#4-disagreements-found)
5. [The proofs](#5-the-proofs)
6. [What is not modelled](#6-what-is-not-modelled)
7. [Plan](#7-plan)

Commands (in this directory):

    tlc -workers 2 -config PlicProtocol.cfg MCPlic      # one run; the list is in section 3
    tlapm TrapsProofs.tla                               # one module of proofs

## 1. The system

### 1.1 Components

| Component | Source | State it keeps | Operations |
|---|---|---|---|
| Run control | `riscv/riscv_top.cc`, `riscv_action_point_memory_interface.cc` | `run_status_`, `halted_`, `paused_`, `halt_reason_`, `need_to_step_over_`, `run_halted_`, breakpoints and action points, the ebreaks in program memory | `Run`, `Step`, `Halt`, `Wait`, `RequestHalt`, `StepPastBreakpoint`, `Set/ClearSwBreakpoint`, `Set/Clear/Enable/DisableAction(Point)`, `WriteRegister`, destructor |
| Traps and privilege | `riscv/riscv_state.cc`, `riscv_priv_instructions.cc`, `riscv_xstatus.cc`, `riscv_xip_xie.cc` | privilege mode, `mstatus`, `mip`, `mie`, `mideleg`, `medeleg`, the latch `available_interrupt_code_` | `Trap`, `CheckForInterrupt`, `TakeAvailableInterrupt`, `ecall`, `mret`, `sret`, writes of the csrs |
| PLIC | `riscv/riscv_plic.cc` | priorities, thresholds, enables, pending bits, gateways, claim registers, IRQ lines | `Configure`, `SetInterrupt`, register writes, claim (a load), complete (a store) |
| CLINT | `riscv/riscv_clint.cc` | `mtime`, `mtimecmp`, `msip` | loads and stores, the cycle counter's listener |
| CSR framework, Zicsr | `riscv/riscv_csr.*`, `riscv_zicsr_instructions.cc` | the csr set, read and write masks | read-modify-write instructions, the privilege check |
| Counters | `riscv/riscv_counter_csr.h` | `mcycle`, `minstret` and their high halves, offsets | read, write |
| misa, pmp, jvt, simulator csrs | `riscv/riscv_misa.*`, `riscv_pmp.h`, ... | plain registers | read, masked write |
| FP state and instructions | `riscv/riscv_fp_*`, `riscv_f/d/zfh_*` | `fcsr` = `frm` + `fflags`, the cached rounding mode, the host's control register | scopes that set the mode and collect flags, arithmetic, conversions, NaN boxing |
| Vector state and instructions | `riscv/riscv_vector_*` | `vtype`, `vl`, `vstart`, `vxrm`, `vxsat`, register groups | `vsetvl*`, element loops with mask and tail |
| I, M, A, C, Zb*, Zc* instructions | `riscv/riscv_*_instructions.cc` | registers, the load reservation | one function per instruction |
| Decoders, encodings, ISA descriptions | `riscv/*.isa`, `*.bin_fmt`, `*_decoder.*`, `*_encoding.*`, `*getters*.h` | none of their own | from an instruction word to operands and resources |
| Encoder (assembler) | `riscv/riscv64g_as_main.cc`, `riscv64g_bin_encoder_interface.cc`, `riscv_bin_setters.*` | the word and the relocations of a line | from texts of operands to bits and relocations |
| Semihosting | `riscv/riscv_arm_semihost.cc`, `riscv32_htif_semihost.cc` | table of open files | host I/O, exit |
| Command shell, instrumentation | `riscv/debug_command_shell.cc`, `riscv_instrumentation_control.cc` | current core, action numbers | text commands |
| Renode adapter | `riscv/riscv_renode.cc`, ... | the tops it owns | `Step`, `SetIrqValue`, register access |

`PROJECT.json` repeats the list with sources and status.

### 1.2 How they interact

- The **execution loop** (`RiscVTop::Run`'s detached thread, or the caller inside
  `Step`) fetches, executes, increments the cycle counter, looks at the interrupt latch
  and then at `paused_ |= halted_`.
- The **cycle counter** calls the CLINT (a listener), which may set `mip.mtip`. Setting a
  bit of `mip` calls `CheckForInterrupt`, which fills the **latch**; the loop empties it
  with `TakeAvailableInterrupt` at the end of an instruction.
- The **PLIC** drives `meip`/`seip` through a callback interface per context; handlers
  claim with a load and complete with a store, so the claim is a side effect of a read.
- A **breakpoint** is an `ebreak` written into program memory. Executing it calls back
  into `RiscVTop` (`RequestHalt`). Continuing from it takes the ebreak out, executes the
  original instruction and puts it back (`StepPastBreakpoint`).
- A **debugger**, a control-C handler and Renode call in from other threads. Nothing in
  `RiscVTop` is locked; `run_started_` and `run_halted_` are the only synchronisation.
- A **semantic function** gets its operands as objects that an *encoding* made from bits of
  the word, reads and writes registers through them, and opens an FP **scope**
  that copies the rounding mode to the host and the host's flags back. `frm` and `fflags`
  exist in up to three copies (the csr, a cached mode, the host's register).
- A **vector load** issues its memory access and hands the data to a *child* instruction that
  writes the register group; `vstart` says where an interrupted one is taken up again.
- The **assembler** uses the same instruction formats as the decoders, by a second, handwritten
  set of tables, so a line is correct only if two tables agree.

### 1.3 What is hard, and what correctness means

| Part | Hard behaviour | Correct means |
|---|---|---|
| Run control | three threads on plain flags; a reason and a flag written separately; state kept between commands (`need_to_step_over_`); objects deleted under a thread's feet | the program executes exactly its own instruction sequence however it is stopped and continued; a request to stop is not lost; whoever waits is woken; nobody uses what was deleted |
| Traps | an interrupt is selected at one moment and taken at another; two levels of one-deep stacks nest; masked views of one register | the interrupt taken is the one due; enabled interrupts are noticed; privilege only falls through returns; a return restores what its trap saved; the supervisor cannot reach machine state |
| PLIC | gateways, pending bits and claims of several contexts interleave; the line is a cached summary of the pending bits | no source goes dead; claims follow priorities; a new request reaches the line; an edge request is served once |
| FP status | copies of one mode and one set of flags, updated at different times, by nested scopes | a scalar instruction rounds in the mode the program selected; no flag is lost |
| Vector unit | one loop shape for all of mask, tail, restart, groups of registers and fractions of one; buffers between a load and its write-back | exactly the active elements change; loads invert stores; permutations and mask operations agree with each other |
| Arithmetic | the same operation written for RV32, RV64, scalar, vector, and for three FP precisions; corner cases of width, sign and rounding | the versions agree with exact arithmetic and with each other |
| Encodings | nine tables of operands; setters written apart from getters | what is assembled decodes to what was written; the tables agree, and operands agree with their resources |

The `hazards` of `PROJECT.json` list, line by line, what of this a unit test hardly
reaches and which property watches it.

## 2. The models

Each component has a module with its state, one action per operation, and its
properties at the end; an `MC*` module where the small instance TLC checks needs definitions; and a
`*Proofs` module where there are theorems. Families of pure functions are modules of operators that the
component's module extends. Definitions keep the names of the code. Operators
introduced by the comment "Mutant:" are deliberately wrong variants of the next
definition: replacing the definition by the variant must make a property fail, which
shows that the property can see that kind of bug.

### 2.1 RunControl

*Threads.* `xc` is the control location of the executor (the loop), `dbg` the call the
client is in, `hc` the write that a concurrent `Halt()` has still to do. An action is a
stretch of code without a read or a write of a flag that another thread writes, so
`Run`'s thread is `BeginRun`, `ClearFlags`, `ClearReason`, then the loop. `Halt()` is two
writes in either order (`HaltFirstWrite`, `HaltSecondWrite`): they are plain stores to
unsynchronised fields, so another thread may see either first.

*Loop.* One iteration is `ExecuteInstruction` (or `ExecuteEbreak`, then
`PerformBreakpointAction`/`PerformOtherActions`/`BreakpointRequested`, which split
`RequestHalt` at its accesses of `halt_reason_`), `EndIteration`, and, when paused,
`StepOverActionPoint`, `ResumeFlags`, `ResetReason` or `BreakOut`. `UpdatePc` and
`BecomeHalted` follow the loop and `NotifyHalted` is the thread's last statement; up to two
threads can be in that tail at once (`tails`). `Step(n)` shares the loop with `Run`
and runs on the client's thread.

*Program.* A graph: `Succ[a]` are the successors of the instruction at `a`. `Exits` are
instructions that request a halt (semihosting), `MRets` return from the trap
handler. `armed` is the set of addresses whose memory currently holds an ebreak;
`bps` and `aps` are what `BreakpointManager` and `ActionPointManager` believe.

*History.* `due` is the address the *program* must execute next. Only executing an
instruction, taking an interrupt or a client's write of the pc changes it: the halting
machinery should not. An ebreak that belongs to no point (`ExecuteStrayEbreak`) enters the trap handler, but what is due stays the
instruction it hides: the program has not asked for that trap.

*Client.* `Polls`, `MayDestroy`, `PcWrites` and `ClearsPending` say what it does: run again without waiting, delete the core, write
the pc, clear the breakpoint it has stopped at and is about to step past.

| Actions | Code |
|---|---|
| `Run`, `BeginRun`, `ClearFlags`, `ClearReason` | `riscv_top.cc:397-431` |
| `LeaveLoop` ... `BreakOut` | `432-485`, and the same loop in `Step`, `329-380` |
| `UpdatePc`, `BecomeHalted`, `NotifyHalted` | `486-497`, `381-394` |
| `ExecuteEbreak`, `MarkStepOver`, `Perform*`, `BreakpointRequested` | `184-199`, `849-869` |
| `StepPastBreakpoint` | `250-290` |
| `Step`, `Wait`, `WaitReturns`, `WritePc`, `Destroy*` | `292-328`, `504-513`, `569-624`, `103-121` |
| `Set/ClearSwBreakpoint`, `Set/ClearActionPoint` | `683-754` |
| `EnterHandler`, `ExecuteStrayEbreak` | `riscv_state.cc:762-799`, `615-624` |
| `HaltFirstWrite`, `HaltSecondWrite` | `226-238` |

### 2.2 Traps

One hart. `mip`, `mie`, `mideleg` are sets of interrupt codes, `mstatus` a record of the
fields the code acts on. A loop iteration has two phases: `fetch`, in which an
instruction (`ECall`, `Illegal`, `MRet`, `SRet`, a csr write, a store to the CLINT,
`Plain`) executes, and `boundary`, in which the cycle counter may raise a timer
(`TimerRises`) before the latch is looked at (`TakeAvailableInterrupt` or
`NextInstruction`). `ExternalLine` is `SetIrqValue`, called between two instructions.

The csr setters carry their side effects: `SetMStatus`, `SetMIp` and `SetMIe` call
`CheckForInterrupt` under the condition the code tests, with the *new* value of every
register. `CheckForInterrupt` sets the latch and never clears it, as in
`riscv_state.cc:801-846`.

The privilege mode and `mpp` are numbers from 0 to 3 (`Levels`): `set_mpp` refuses modes that the hart lacks, but a csr write of
`mstatus` stores what it is given (`riscv_xstatus.cc:107`), the reserved 2 as well, and `mret` enters it. An `ecall` is only logged there.

*History.* `disturbed` says that a line changed from outside the loop since the last
boundary. `m_context` and `s_context` remember the mode and the interrupt enable that
the last trap to each level interrupted, until software rewrites the status register: the mode itself, not the one
bit of it that `spp` keeps.

### 2.3 Plic and EdgeRequests

The controller in the state that `Configure` leaves, with one word of enable bits per
context. `Withhold` and `Forward` are the two outcomes of `SetInterrupt`, by the gateway's
state; `SetPlicPendingInterrupt` is shared by everything that makes a source pending,
as in the code. `ClaimInterrupt` searches `listed[c]`, the context's part
of the multimap `context_to_source_`, in the multimap's order, with `BetterOf` at each entry: the result of the
search, and the count it keeps, depend on that order. A write of the enable register appends the bits that were
set, in increasing order (`Ranked`), and erases the first entry of each bit that was cleared (`Without`); the
search and these two are recursion-free or a recursive function, so that they can be proved about.
`served` is a history variable:
what the handler of a context has claimed and not yet completed.

`EdgeRequests` is the abstract specification: a request is waiting, then served by one
target, then finished, and only then can the next arrive. `Plic` implements it for the
edge-triggered sources, with `waiting <- pending \intersect Edge` and `servers <-` the
contexts that hold the source.

The device's environment is a handler that completes only what it claimed; with
`Nesting = FALSE` it completes before it claims again. A completion of a source that was disabled
after the claim is ignored by the code (`IgnoreCompletion`, `riscv_plic.cc:547`): the claim register and the gateway
stay as they are and the handler is done. The history variable `dropped` holds the sources this happened to whose gateway has not
opened since; `DisablesServed` says that software disables sources while their handlers run.

### 2.4 The integer unit

`Words` has machine words as naturals of a given width, with `&`, `|` and `^^` defined on numbers (`CommonBits` is a
recursive function, so that `WordProofs` can reason about them). On top of it stand four modules of operators:

- `VectorElements`: what each integer vector instruction does to one element
  (`riscv_vector_opi_`, `_opm_`, `_unary_`, `_basic_bit_manipulation_instructions.cc`). The code
  writes a lambda per element type; here it is one operator of the width.
- `ScalarOps`: the register operations of I, M, Zicond and the two bit-manipulation families, by
  namespace (RV32, RV64).
- `ScalarFlow`: jumps, branches, loads, stores, Zcmp's pushes, pops and moves, Zcmt's table jumps, as
  functions from a hart to a hart. Memory is a sparse function of the bytes stored, with a fill
  pattern for the others, so that a load of what was never stored is seen.
- `MachineCsrs`: csrs with read and write masks, shadow csrs, the three csr instructions, the
  set of csrs, the counters with their two halves, `misa`, `jvt`. `w` stands for the width of `uint32_t`,
  `2w` for that of `uint64_t`; `misa` is checked at width 8.

`IntegerUnit` composes them. Its state is one lane: two operands, the accumulator, the carry bit, and
the fixed-point csrs; `Execute` (the saturating instructions, which accumulate) and the writes of `vxsat`, `vxrm` and `vcsr` change it. Its properties are invariants of that
state, hence checked for every pair of operands, every rounding mode and every history of `vxsat`.
`WidthAssumption` admits the widths the code uses, powers of two up to 64, and smaller ones from 4 (bytes from 2 bits).
`ImplementationsAgree` has five named parts: `ScalarAndVector`, `WordForms`, `TwoFiles`, `OneOrder`, `ViewsAgree`.

### 2.5 The vector unit

`VectorUnit` has the register file, `vtype`, `vl`, `vstart`, `vxsat` and the sticky
`vector_exception`, and an action for every kind of loop in the helpers: unary, binary, ternary, widening, narrowing,
masks, reductions, slides, gathers, compress, moves. `VectorMemory` adds the memory, the address,
mask and data buffers, and loads and stores of every form (unit, strided, indexed, mask, segment, whole
register). `VectorChecks` composes both and states the properties: each loop is compared with a *flat*
definition by element number, which knows nothing of registers, items and buffers. `MCVector` is the instance.
A vset may be given a type with a reserved multiplier (`VLMAX` is then 0); with a reserved width `SetVectorType` divides by zero, and there is
no action (`Selectable`). The code checks the size of destination groups only. A source operand indexed past its registers
is read out of bounds; `Sources`, `HoldsMax`, `WholeSource` and uses of `Enough` keep those instructions out of the model.
The file has all 32 registers. An instruction that doubles a width exists only where there is a type of twice the width (`Widens`: the
code raises an exception at 64-bit elements). A loop that carries a place from one element to the next, in the code an item
and a register index, is a recursive function of the number of elements, so that the proofs can follow it.

A semantic function runs to its end before the next, so each is one action; where it stops because of
`vstart` or the vector exception is part of it.

### 2.6 FpState

`fcsr` with its views, `rounding_mode` and `rounding_mode_valid` as cached by `SetRoundingMode`, and
the host's copy of mode and flags (`Host` says which of the two host files is built; the arm one always rounds to nearest, because its map is shifted out of the register). An instruction opens a scope, may
open a nested one, raises any set of flags, and closes them in the order of the C++
destructors; csr instructions read and write the three views. What an operation computes is not here.

### 2.7 FpOps, FpScalar, FpTransfers, FpVector, FpUnit

An IEEE format is a parameter (`e` exponent, `s` significand bits), a value a word, and the
host FPU an operator that computes exactly and rounds once. That makes arithmetic checkable: the code is
written for any format and TLC enumerates small ones. `FpScalar` and `FpTransfers` translate F, D and Zfh,
`FpVector` the vector floating point elements and the estimate tables. `FpUnit` has two
operands, an accumulator *register with all its bits* and the rounding mode: loads, moves, conversions and arithmetic write
the register, each with its own boxing, and later instructions read it. Facts about the operands alone
are evaluated only in the states where the accumulator is zero (`PairsOnly`), since they would be the same in the others.

### 2.8 InstructionFields, Operands, Assembler

A word is the set of its one bits and a field a sequence of bit positions (`InstructionFields`), so an
operand read from a word is a permutation of bits, and two getters agree when they pick the same bits. `Operands`
has the getters of nine encodings (`riscv32g`, `riscv64g`, their vector forms and the
bit-manipulation ones put together from `riscv_getters*.h`), each operand a kind with its field, and the
resource getters. `Assembler` is the line-by-line machine: `StartLine` picks an opcode, `EncodeOperand` converts
the text of the next operand (a register, a number, a symbol or a relocation function), ORs the
setter's bits and appends the relocation, or fails as the code does; `FinishLine` ends it. `Decode` gives any other word to the getters.
The generated matcher and encoder are external: they start from the bits of the opcode and OR in what the setters return.

## 3. The runs

| Run | Instance | Shows |
|---|---|---|
| `run_sequential` (`RunSequential.cfg`) | 5 addresses with a branch, a semihosting exit and a loop; breakpoints at the branch and at the exit, set and cleared, but not the one the core stands on; `Step` 1 and 2 | no instruction is skipped, repeated or lost (`ProgramOrder`); a pending step-over belongs to the pc (`StepOverBelongsToPc`); a halted core has a reason; notification objects outlive their users (`NoUseAfterDelete`); `Wait` means finished |
| `run_concurrent` (`RunConcurrent.cfg`) | 3 addresses, breakpoint and action point on one of them, interrupts, pc writes, `Halt()` at any moment, deletion | active points stay armed (`ActivePointsAreArmed`); a reported breakpoint is where the core stands (`StoppedAtBreakpoint`); a halt request seen in the loop ends the run (`HaltStopsTheRun`); a waiter is woken (`WaiterIsWoken`); the destructor outlasts the loop |
| `traps` (`TrapsInterrupts.cfg`) | 4 interrupts (two delegated), every mode, `mstatus` written with every `mpp`, the reserved one included, and every enable pair, lines from stores, the timer and outside | the interrupt taken is due (`TakenInterruptIsDue`); machine handlers do not miss interrupts (`MachineInterruptNotMissed`); traps do not lower privilege; machine fields are isolated; returns restore the enable and, as far as `spp` holds it, the mode that was interrupted (`ReturnRestoresContext`) |
| `plic` (`PlicProtocol.cfg`) | 3 sources (1 level, 2 edge), 2 contexts sharing two of them, priorities 0..2, thresholds 0..1, sources of context 0 disabled at any moment, in service too | no source goes dead but by a completion that is ignored (`GatewayAccountedFor`); claims follow priority then id (`ClaimsHighestPriority`); what becomes deliverable raises the line (`DeliverableRaisesIrq`); `EdgeRequests` is implemented |
| `integer_unit` (`IntegerUnit.cfg`) | width 4, bytes of 2 bits; all pairs of operands (for the remainder, those that C++ defines) | chained carries, products, quotients, fixed-point rounding and saturation are exact (`LimbArithmetic`, `ProductsAndQuotients`, `FixedPoint`); bit permutations and carry-less products fit together (`BitPermutations`); RV32 and RV64, scalar and vector, `b` and `bitmanip` agree (`ImplementationsAgree`); RV64's pops restore what `cm.push` saved, jumps and accesses go where they should (`FramesAndTargets`) |
| `vector_unit` (`VectorUnit.cfg`) | registers of 4 units, fractional, single and double groups, a reserved multiplier and a reserved width, all `vl`, `vstart` and 5 masks | exactly the active elements from `vstart` to `vl` change, also when the loop is split there (`ActiveElementsOnly`); `vl` fits the type (`VlFits`); mask instructions, permutations, and loads and stores agree with each other (`MaskInstructions`, `PermutesCompose`, `LoadsInvertStores`) |
| `fp_state` (`FpState.cfg`) | two flags, all modes, legal or not, the x86 host | scalar instructions round as `frm` or their `rm` says (`ScalarRoundsAsFrm`); the host's mode is `frm`'s or the last scalar one (`HostModeTracksFrm`); no flag is lost (`FlagsAccrue`) |
| `fp_unit` (`FpUnit.cfg`) | a 5-bit half, a 14-bit single, a 20-bit register | conversions are one rounding with the right flags (`ConvertRounds`); half precision through single rounds as if once (`HalfArithmetic`); scalar, double, half and vector forms agree but for named flags (`FpImplementationsAgree`); the estimates are within seven bits (`Estimates`) |
| `assembler` (`Assembler.cfg`) | 6 register numbers, 21 boundary numbers, 3 symbols, 3 csrs; all words of at most two one bits | an accepted line decodes, in every encoding, to what was written, and relocations patch their own operand (`DecodesAsWritten`); encodings agree with each other and with their resources (`EncodingsAgree`) |

Three more runs (`run_action_point`, `plic_irq`, `fp_boxing`) each check one statement of the repository
that the code does not meet; see section 4. `RunControl`'s, `Plic`'s and `FpState`'s `TypeOK` are not
in a run: they are theorems.

### 3.1 Bounds and why they suffice

- **RunControl.** The machinery distinguishes a breakpoint's address, its successors and
  "elsewhere", so three to five addresses with a branch and a cycle reach every
  control location. `Step(2)` is the smallest count for which a step-over can use part of
  the budget and leave some. `tails <= 1` in `Run` bounds threads that have ended their
  loop but not notified; the hazard needs one. One concurrent `Halt()` at a time: its
  second write can be delayed over any number of other steps.
- **Traps.** Four codes give two per level, hence priority choices at each level and the
  interplay of levels. The csr writes range over all subsets of the codes, so every
  pending/enabled combination occurs. `mideleg` is written with one value: between
  "nothing delegated" and that value both directions of a comparison occur, but a
  delegation once given is not taken back (a pending interrupt taken back is not looked
  for, see the hazards). A csr write of `mstatus` stores set saved enables and
  a user `spp`, and `tsr` only together with both enables; traps and returns produce the other values.
- **Plic.** Two contexts that share sources are what makes claims race; three sources
  allow a tie and a strict order of priorities at once. Thresholds stay below the highest
  priority, so a source can be masked by a threshold and not. Enable writes are limited
  to changes of context 0 that exercise the list's order (adding and removing listed sources, in service or not); context 1 keeps its two.
- **IntegerUnit.** The code never mentions the width but through `sizeof`, so a
  formula wrong at 64 bits is wrong at 4 unless it depends on a wide constant. Those are translated
  with the constant's meaning (the byte of `Vmadc`, the ...w halves), and `BW < W` keeps byte, half and word
  distinct. Stack frames range over every register list and a stack pointer that wraps.
- **VectorUnit.** A register of four 2-bit units with elements of one and two units is the smallest
  with more than one element per register at both widths; a group of two registers crosses a boundary. `MaxSteps`
  is 1: the initial states already are every combination of type, `vl`, `vstart`, mask and vector exception (with one pattern of register
  and memory contents), so one step from them is the induction step of `VlFits`, and the comparisons are evaluated
  before and after every instruction. The unit may stop after that step, hence no deadlock check.
- **FpState.** Two flags are enough: `NV`, which the fused instructions treat specially, and one other.
- **FpUnit.** `FormatAssumption` asks of the small formats what the real ones satisfy: the register is four
  halves wide, and single precision has `2s + 3` bits or more, the condition under which rounding twice is rounding once.
  `Coarse` has a wide exponent and a short significand, so conversions overflow and underflow in it.
- **Assembler.** The numbers are the ends of every field's range and their neighbours. A getter is a
  permutation of bits, so words of one bit tell any two apart, and words of two tell overlays with
  constants and conditions on `x0`.
- Deadlock is checked except in `run_concurrent`, where the client may delete the core and stop for good, and `vector_unit`.

### 3.2 Fairness

Only `RunControl` has liveness properties: in the other parts a step is a call that returns. `Fairness` assumes weak fairness of the executor
(an ordinary thread, which the operating system schedules), of `NotifyHalted`, of the
return of `Wait` and of the destructor once notified, and of the second write of a
`Halt()` that has begun. Nothing obliges the client to call anything or the halter to
halt, and no fairness makes the simulated program reach its exit: that is why
`HaltStopsTheRun` starts from a request, and why `WaiterIsWoken` starts from a run that
has ended.

## 4. Disagreements found

### 4.1 As runs

Each is a run whose property quotes the repository and whose counterexample TLC prints.

| Run | The repository says | The code does |
|---|---|---|
| `run_action_point` | `riscv_top.cc:469` "just step over and continue executing" | steps over, then `continue`s with its local `pc` unchanged: the ebreak is fetched again and the instruction executed again |
| `plic_irq` | `riscv_plic_test.cc:276` the line stays high "until there are no more pending interrupts" | the count is of improvements found by the search, not of pending sources: the line falls early |
| `fp_boxing` | `riscv_instruction_helpers.h:636` "the upper bits have to be set to all ones" | shifts the ones by the difference of the widths: a half result in a 64-bit register keeps zeros in bits 16 to 47, and the next instruction reads a NaN |

### 4.2 As definitions

These properties are stated in the modules and known to be false of the code; adding one to the run's
configuration shows the counterexample. They are kept because they mark the boundary of what the passing runs
state.

| Definition | Statement | Why it fails |
|---|---|---|
| `RunControl!ProgramOrder` with `AsyncHalt` | `riscv_top.cc:488` "If at a breakpoint, keep the pc at the current value" | a concurrent `Halt()` overwrites the reason after the hit; the pc moves past the unexecuted instruction with `need_to_step_over_` still set |
| `RunControl!ProgramOrder` with `ClearsPending` | stepping past a breakpoint executes the instruction under it | the ebreak that is put back at a cleared breakpoint traps in place of the instruction (see the next row) |
| `RunControl!OnlyPointsAreArmed` with `ClearsPending` | `riscv_action_point_memory_interface.h:57` "Store breakpoint instruction, provided the address is an action point. Otherwise no action is taken." | stores it at any address: stepping past a breakpoint cleared meanwhile (`riscv_top.cc:272`) arms it again, and the next time round the program gets a breakpoint exception |
| `RunControl!DestructorReturns` | `riscv_top.cc:104` "request a halt (set halted_ to true), and wait" | only waits |
| `Traps!NoInterruptMissed` | `riscv_state.h:311` checked "after any event that may have caused an interrupt" to be pending or enabled | `mret` to a lower mode with both enable bits clear enables machine interrupts and checks nothing |
| `Traps!OnlyReturnsLowerPrivilege` | `riscv_state.cc:690` "Traps cannot be delegated lower than the current level of execution" | a latched code is not checked again: after a line change between instructions it can be taken from machine mode into supervisor mode |
| `Traps!OnlySupportedModes` | `riscv_xstatus.cc:116` "Don't allow values for unsupported privilege modes" | only `set_mpp` looks; a csr write of `mstatus` stores the reserved 2, which `mret` enters |
| `Traps!ReturnRestoresEveryMode` | `sret` returns to the mode that the trap interrupted | `spp` is one bit (`riscv_state.cc:773`): a trap into supervisor mode out of machine mode (see above) or out of the reserved mode comes back in supervisor or user mode |
| `Traps!SIpWritesDelegatedBits` | `riscv_xip_xie.h:106` delegated bits are "readable and writable in sip as they would be in mip" | the mask on the old value is not complemented: a write of `sip` cannot clear a bit, and drops the bits outside the mask |
| `Plic!CompletionReopensGateway` | `riscv_plic.h:119` "Signal interrupt completion for the given context and interrupt id" | does nothing if the source was disabled after the claim; with `Nesting`, completes the last claimed source, whatever id was written |
| `Plic!NoSourceIsDead` | `riscv_plic.cc:164` a gateway is closed "to prevent any other requests until this has been processed" | a completion of a source disabled meanwhile is ignored: the gateway stays closed, also when the source is enabled again |
| `IntegerUnit!Carry64` | comment of `Vmadc`: "First get the carry out from adding the low byte" | `&` binds weaker than `+`: the carry of the low byte is lost |
| `IntegerUnit!CpopwWritesAll` | both files' `cpopw` write one register | `bitmanip`'s writes its low word only |
| `IntegerUnit!XlenOf64` | `RiscVXlen` of an `mxl` of 2 is RV64 | the mask is `0xb11`, for `0b11` |
| `IntegerUnit!LowWriteKeepsHigh` | a write of a counter's low half leaves the high half | the offset may carry where it did not |
| `IntegerUnit!Zcmp32PopRestores` | "pops the number of registers specified into the appropriate destination operands" | `riscv_zc.isa:334` declares `sp` first, the semantic function writes it last |
| `VectorChecks!Slide1upMovesAll` | `riscv_vector_permute_instructions_test.cc:456` "Other values are shifted by 1." | the scalar goes wherever the source index is not above 0 (`riscv_vector_permute_instructions.cc:301`): element 1 gets it like element 0. The test's mask leaves element 1 out |
| `VectorChecks!PrestartMaskBits` | "applying a mask to mask out any preceding bits" | not when `vstart` and `vl` lie in one byte |
| `VectorChecks!SegmentGroups` | "adjacent vector registers are grouped together" | the number of registers rounds down: the last, partly filled one is not loaded |
| `FpState!RaisedFlagsShow` | invalid is set for infinity times zero | set in the csr inside the scope, whose end overwrites it with the host's flags |
| `FpState!SetBitsKeepsOthers` | `SetBits` "leaves other bits unchanged" | `csrrs` of `fcsr` starts from flags the host has since added to |
| `FpState!VectorRoundsAsFrm` | vector instructions round as `frm` | a scalar instruction's static mode stays in the host's register |
| `FpState!LegalModeIsValid` | a legal mode makes the mode valid | not if it equals the one cached before the illegal one |

### 4.3 What the properties except

Where a statement holds but for a case, the property says the case. What was met on the way:

- *Vector.* A segment load with `vl = 0` divides by zero, `vstart > vl` asks for a buffer of negative size, and a vset with a reserved
  element width divides by zero (none has an action). The registers of a source group are not counted: an instruction whose source
  is shorter than `vl` asks for reads past the operand (`riscv_register.cc:88`), and so does a segment store, whose check rounds
  the registers per field down (`riscv_vector_memory_instructions.cc:1023`); these have no action either. Indexed and segment loads with `vstart > 0` set the vector exception, which is never cleared. Strided,
  indexed and segment stores with `vstart > 0` leave stale entries in their buffers; the write-back of a load misplaces
  elements when `vstart` is not a multiple of the elements per register. Permutations look the mask
  up by position in the register, not in the group. `vslide1up` gives the scalar to elements 0 and 1, and `PermutesCompose` says so. `vmsbf`
  clears inactive bits. A reduction with `vstart` not zero calls the getter where the setter is meant.
- *Integer.* The RV32 loop of `clmulr` is one short. `Vrem` has no guard for the smallest number by -1 (undefined for 32 and 64 bits,
  `riscv_vector_opm_instructions.cc:417`): `ProductsAndQuotients` and `ImplementationsAgree` leave it out (`VremDefined`). RV32's pops declare `sp`
  first (`riscv_zc.isa:334-345`) and their poprets neither `ra` nor the next pc, so `FramesAndTargets` is about RV64's pops.
  A branch's trap value is its own address, a jump's the target. `cm.jalt` writes `ra` even after a trap.
- *Csrs.* A 32-bit write of a 64-bit csr clears its upper half. A csr that does not exist is logged, not trapped.
- *Floating point.* RV32's single compares do not unbox, RV64's do; neither does the ternary helper. The
  conversion of the vector unit ignores the rounding mode. Its comparisons raise no flag, also not for a signaling NaN. Scalar
  multiply-adds raise invalid for an infinity times zero by hand, the vector and half ones leave it to the host, which on x86 does not for a
  quiet NaN as addend; `FpImplementationsAgree` states the difference. `fnmadd.d` and `fnmsub.d` negate after rounding. The estimate of the
  reciprocal root has one wrong table entry (index 88), and that of infinity raises invalid. A tie in nearest-away raises no inexact.
- *Encodings.* `c.fld` names an x register in three encodings (`riscv64g_encoding.cc:438`), the csr
  destination is missing on RV64G, Zvbb's operands are single registers. Groups of segment operands are
  `num_regs * nf` long, up to 64, past `v31`.
- *Assembler.* `kFrs2`'s setter writes `rs1` (`riscv_bin_setters.h:689`). Immediates out of range are truncated in silence;
  negative store offsets and branch targets are refused. A symbol of one character gets no relocation, and in
  a relocation function it is garbled. `jal`, `j` and `lui` take a relocation function of any name. The lines of `c.lwsp`, `c.sdsp`,
  `c.addi16sp` and `c.addi4spn` name `sp` explicitly, for which there is no setter, and cannot be assembled.

The passing runs state what holds in spite of these: `UndisturbedTrapsKeepPrivilege` is
the statement of `riscv_state.cc:690` for programs whose lines change only inside the
loop, `StoppedAtBreakpoint` is what a client can rely on under a concurrent `Halt()`,
`DeliverableRaisesIrq` what it can rely on of the line.

A client that polls `GetRunStatus` instead of calling `Wait` may `Run` again before the
previous thread has notified; that thread then notifies the new notification, and a
`Wait` returns while the program runs. The constant `Polls` describes that client. It is
`FALSE` in the runs, whose clients call `Wait` between two `Run`s as the command shell's
`run` and the tests do (`run free` leaves `Wait` to a later command); with `TRUE`,
`WaitMeansFinished` is violated.

## 5. The proofs

TLAPS proves the following for **every** value of the constants allowed by the modules'
named `ASSUME`s.

| Module | Theorem | Statement |
|---|---|---|
| `RunControlProofs` | `TypeCorrect` | `Spec => []TypeOK`, for every program, client and interleaving |
| | `PointsStayArmed` | an address with a breakpoint or an enabled action holds its ebreak |
| | `BreakpointIsWhereItStopped` | a reported breakpoint is where the core stands, and it will be stepped over, under any interleaving with `Halt()` |
| | `WaitWaits` | clients that wait between runs: when `Wait` returns, the loop has ended |
| | `DestructorOutlasts` | the same clients: the destructor returns only after the loop has ended |
| | `NoThreadUsesDeleted` | those of them that do not delete the core: no thread notifies through a deleted object |
| `RunOrderProofs` | `NoEbreakIsLeft` | no action points, halter, writes of the pc, or clearing of the breakpoint stopped at: every ebreak belongs to a point |
| | `ProgramInOrder` | no action points, and breakpoints only without a halter, interrupts, writes of the pc, and clearing of the breakpoint stopped at: no instruction is skipped, repeated or lost |
| | `StepOverAtPc` | no halter, no writes of the pc: a pending step-over belongs to the pc |
| | `HaltGivesReason` | no halter, no writes of the pc, and no action points in a program that exits: a core at rest has a reason for its halt |
| `TrapsProofs` | `TypeCorrect` | `Spec => []TypeOK`, whatever is written to `mstatus`, the reserved mode included |
| | `TakenIsDue` | an interrupt taken at an undisturbed boundary is the due one |
| | `TrapsKeepPrivilege` | undisturbed traps out of user, supervisor and machine mode never lower the privilege mode |
| | `MachineFieldsIsolated` | code below machine mode cannot change machine fields of `mstatus` |
| | `ReturnsRestore` | `mret`/`sret` restore the enable that the matching trap interrupted and the mode too, `sret` if that was user or supervisor mode |
| | `MachineNotMissed` | programs that keep their delegation: no boundary passes over a due machine interrupt |
| `PlicProofs` | `TypeCorrect` | `Spec => []TypeOK` |
| | `NoSourceIsLost` | with non-nesting handlers, a closed gateway belongs to a source that is pending, served, or was disabled while served |
| | `NoSourceGoesDead` | sources configured once and enabled, non-nesting handlers, no source disabled while served: a closed gateway belongs to a pending or served source |
| | `LinesRise` | what becomes deliverable raises the line, for every configuration and handler |
| | `ClaimsInOrder` | sources configured once and enabled: a claim takes the highest priority, then the lowest id |
| | `EdgesServedOnce` | non-nesting handlers, no software writes of these sources' pending bits: `Plic` implements `EdgeRequests` |
| `VectorProofs` | `LengthStaysLegal` | `vl` fits the selected vector type, for every register length and every set of types, reserved multipliers included |
| | `StateStaysTyped` | registers and memory hold bytes, `vstart` and the scalar are numbers, through any number of arithmetic, mask, permutation, load and store instructions whose source groups hold what they read |
| | `ActiveElementsAreWritten` | every loop over elements changes exactly the active elements from `vstart` to `vl`, may be interrupted and restarted at any of them, and reductions are the sum, extreme or bitwise combination of the active elements |
| | `MasksAgree` | the mask instructions describe one first set bit, agree with `viota` and `vcpop`, keep the bits from `vl` on, and the byte loops are the operation on bits |
| | `PermutationsCompose` | in groups of at most one register: `vcompress` puts each active element at its rank and writes no more, slides are gathers at a distance, `vslide1down` is a slide by one with the scalar last, `vslide1up` one from element 2 on with the scalar in elements 0 and 1, a boxed element comes back |
| | `LoadsUndoStores` | a strided load restores the active elements a strided store of any stride wrote and changes nothing else; a segment store is one strided store per field, and a segment load that fills its registers one strided load per field |
| `IntegerProofs` | `TypeCorrect` | operands stay words and `vxrm` a rounding mode, for every width |
| | `LimbsAreExact` | carry and borrow chains, widening sums and counters in two halves are exact; not the carry of 64-bit elements (`Carry64`), nor the high half of a counter after a write of the low one alone (`LowWriteKeepsHigh`) |
| | `ProductsAreExact` | products for every combination of signs, multiply-accumulates and quotients are exact; not the vector remainder of the smallest number by -1 |
| | `FixedPointIsExact` | saturating, averaging, scaling and clipping instructions: the exact result rounded and clamped, `vxsat` set exactly when it was clamped |
| | `ImplementationsAreAlike` | scalar and vector forms, `...w` forms and RV32, the `b` and `bitmanip` files, compares with selections and branches, and the views of one CSR agree on all operands |
| | `PermutationsAndProducts` | reversals and rotations invert and compose, zero and one counts mirror each other, and `clmul`, `clmulh` and `clmulr` are the parts of one polynomial product, linear in its factors |
| | `FramesAndTargetsHold` | any register list and stack pointer: `cm.push` writes its frame and nothing beside it, RV64's pops restore what it saved; jumps reach their targets or trap, loads give back what was stored |
| `FpStateProofs` | `TypeCorrect` | `Spec => []TypeOK`: in particular the cached mode is always a legal one, on both hosts |
| | `ScalarRounding` | a scalar instruction rounds in its own mode or `frm`'s, after any writes, on both hosts, for any set of flags |
| | `HostMode_Tracks` | on x86 the host's mode is `frm`'s or that of the last scalar instruction |
| | `FlagsNeverLost` | no floating point instruction clears a flag that `fflags` shows |

*How the arguments go.*

- `BreakpointIsWhereItStopped`. `BreakpointReported` follows the reason through the
  loop: the pause lasts to the end of the iteration, `need_to_step_over_` is set before it,
  and nothing moves the pc after `UpdatePc`. A concurrent `Halt()` can only take the reason
  away; only a new hit brings it back.
- `NoThreadUsesDeleted`, `WaitWaits` and `DestructorOutlasts` share two invariants. `ControlHandedOver`, which holds of
  every client, says that the run status, the call the client is in and the place of the executor agree, although no lock
  guards them; under it
  `NotificationOwed` is inductive: at most one thread has a notification outstanding, and it is the one
  `run_halted_` points to, to the end of the destructor.
- `ProgramInOrder`. `InOrder` says which of `pc`, `next_pc` and the pc register tells, at each place of the loop, where the program
  has got to: at an ebreak `pc`, after any other instruction `next_pc`; the halt reason tells the two apart, and
  `Orderly` that nobody else writes it there. It needs that no ebreak is executed but a point's: `EbreaksBelong`, from which
  `NoEbreakIsLeft` follows too, says that stepping past puts back the ebreak of a point that is still set.
- `StepOverAtPc` and `HaltGivesReason`. `StepOverHeld` and `HaltExplained` carry the flag and the reason from the point in the
  loop where they are set to the rest that the properties speak of.
- `PointsStayArmed`: `ActivePointsAreArmed` is inductive; the step that carries it is
  that stepping past writes the ebreak back.
- `TakenIsDue`. The latch is filled at one step and read at another and is never cleared,
  so the claim is not inductive. `LatchFresh` is: while undisturbed, the latch is empty at
  a fetch, and at a boundary it is empty or equals what is due *now*. Two facts carry it:
  every instruction either checks or leaves the latch (`InstructionShape`), and a check
  that finds something overwrites what was latched (`CheckLatches`). The timer is the
  delicate step: it adds a pending bit after the instruction has latched, and
  `SelectionMonotone` (a due interrupt stays due when more become pending) guarantees that
  the check it performs replaces the old code.
- `TrapsKeepPrivilege` follows from `LatchFresh` and `SelectionSound`: what is selected in
  machine mode is not delegated.
- `ReturnsRestore`. `ContextKept`: as long as a context is known, the fields
  `mpp`/`mpie` (`spp`/`spie`) hold it. A trap to one level leaves the other's fields alone.
- `MachineNotMissed`. `MachineNoticed`: in machine mode with interrupts enabled nothing is due or the latch is not empty, also in
  the middle of an instruction.
  Every write that can make one due checks (`CheckNotices`); what is due in machine mode is a matter of the delegation
  (`MachineSelection`), whose write checks nothing, hence the hypothesis.
- `NoSourceIsLost`. `GatewayAccountedFor` alone is not inductive: `CompleteInterrupt`
  completes `claim_complete[c]`, not the id written. `ServedIsRecorded` says that they
  agree, and is where `~Nesting` is needed. `NoSourceGoesDead` adds that what is served is enabled (`ServedStayEnabled`), which
  software that disables a source in service breaks; with the lists exact (`ListedAreEnabled`), every completion then finds its source.
- `LinesRise` and `ClaimsInOrder` are about the lists that mirror the enable bits. The first needs that enabled sources are
  listed (`EnabledAreListed`), which every configuration keeps. The second needs that exactly they are listed, once each
  (`ListedAreEnabled`): a cleared bit erases one entry only, so a source that
  `Configure` lists twice, or with enable 0, can be claimed while disabled, though `riscv_plic.h:149-151` says that
  the map holds enabled sources. The first part of `PlicProofs` says what the operators on lists return, for lists of
  every length: `RankedLists` and `ListRewritten` for the enable register, `SearchSteps` (the recursive function has a
  solution) and `SearchFinds` (after `n` entries the loop has the best of them) for the claim. The induction in them is `LeastNumber`:
  of the numbers at which the statement fails there would be a least one.
- `EdgesServedOnce` is the refinement: `EdgesInOrder` excludes that an open gateway has a request under way or that a
  waiting one is in service; `Forward` maps to `Request`, `ClaimInterrupt` to `Serve`, `CompleteInterrupt` to `Finish`,
  everything else, and all four for level-triggered sources, to a stutter.
- `FpStateProofs`. `ScalarRoundsAsFrm` speaks of the last instruction only; `ModeCached` carries it: the cached
  mode is `frm`'s whenever it is marked valid. It survives an illegal write because that clears the mark, and the
  write of a legal mode equal to the cached one because nothing changes then. `HostRoundsAs` says the same of the host's
  register and the history variable `override`. Lemmas about the shared operators (`FcsrWriteIs`, `FflagsWriteIs`,
  `SetFflagsIs`, `LeaveIs`, ...) say which copies each of them touches, so that every kind of instruction is a composition of them.

- `LengthStaysLegal`. `LengthFits` adds to `VlFits` that `vtype` is one that can be selected and `vl` a number. Only the vset
  instructions write either: the proof shows for every other one, with its early returns and exceptions, that it leaves
  both alone (`UnitKeeps`, `MemKeeps`). The vset form that keeps `vl` is the delicate step, legal only if VLMAX stays.
- `StateStaysTyped`. The invariant is `VectorState`: `LengthFits`, with registers and memory of bytes. It is what the other two
  theorems need of a state, and it is not only a matter of types: an element wider than its
  place or a store whose address is no number would leave it (reads past a source group have no action, see 2.5). `GroupReach` bounds the registers of a group by its multiplier; the loads go through
  the states of the write-back loop (`BackStepTyped`, `WriteBackTyped`), the stores through the memory after each element
  (`StoreLoop`), segments through their buffer (`SegmentEntriesTyped`).
- `ActiveElementsAreWritten`. `PlaceOfElement` says that an element has one place, a register and an item, and that the
  loop, which steps item and register, is there when it reaches the element; so the loop up to an element is the flat write up
  to it (`LoopIsFlatWrite`, one `FlatStep` per element), and a flat write resumed is the flat write of the whole (`FlatResumed`). A reduction is
  followed by its accumulator: `RunningSum`, `RunningExtreme` and `RunningAny` say what it holds after each element, whichever
  are active; and/or/exclusive or are taken one bit at a time.
- `MasksAgree`. `SetBitsBits` says that writing bits, in whatever order, changes each to its value and no other; with
  it every result is a set of elements (`FlaggedBits`), `viota` is a count of members below (`IotaCounts`), and what is left is
  arithmetic about the first member. `LogicAcross` carries a bit through the byte loop: the first byte, the bytes between, and the
  last one with their masks.
- `PermutationsCompose`. `WordOfBytes` adds the bytes of a word up to the word, so an element read back from a flat write is the
  value written or what was there (`FlatElement`); in a group of one register the mask bit of an item is that of the element
  (`OneRegister`). `PackedInOrder` says where `vcompress` finds each active element: at its rank in the list.
- `LoadsUndoStores`. `StoredByte` says what a byte of memory is after a list of entries, written one after the other: that of the only
  active entry that reaches it, or what it was; `PlacedByte` says it for entries laid out from a base, wrapping with memory. A load
  register by register is a flat write of what is at the addresses (`BackIsFlat`). So a strided load reads back what was stored
  (`StridedInverts`); the entries of a segment store and of the stores of its fields, one more field at a time (`NextField`), reach the
  same bytes (`SegmentsAreStores`); and the one pass of a segment load over all registers and the loads field by field (`NextLoad`) give
  each byte of each register the same element (`SegmentsAreLoads`).
- `IntegerProofs`. The invariant is `Types` only; the properties hold of any words, and the work is in the
  arithmetic. `WordProofs` shows that `&` and `^^` work bit by bit (`AndBits`, `XorBits`), that the top bit of an
  exclusive or compares signs (`TopBitsDiffer`), and what casts and the signed view do (`TruncIs`, `TruncInner`,
  `SignedTrunc`). `AddCarry` and `SubBorrow` are one limb of a chain, `Shown` is the number two counter CSRs show, and every
  read, write and tick is stated of it. `TowardZero` is C++ division. In `FixedPointIsExact` the code rounds by looking at the
  bits it shifts out and detects overflow by the signs of exclusive ors: `BitsRead` says that these bits depend on the number
  only up to bit k, `RoundingIsExact` that the shift and the rounding bit are one exact rounding, `SignedSaturating` that the sign test is
  the range test.
- `ImplementationsAreAlike` has one lemma for each part of `ImplementationsAgree`. `ScalarIsVector`: the 64-bit `mulhsu`, which negates the
  product of the magnitude, is the high half of the exact product, and a rotation put together with `|` is one added up
  (`Rotations`: the two parts have no bit in common). `WordFormsHold`: the low word of a product or a shift is that of the low words
  (`LowWord`, `SignedShift`). `TwoFilesAgree`: extension by testing the sign bit and or'ing ones in is extension by the signed cast
  (`ExtensionsAgree`), `a ^ ~b` is `~(a ^ b)` (`XorInverse`). `OneOrderHolds`: flipping the sign bit turns the signed order into the unsigned one
  (`FlippedSign`). `ViewsAgreeHold`: a masked write takes the bits of its mask from the new value (`MergeBits`), so each view is followed bit by
  bit; the maps of a CSR set agree by the invariant `SetsAgree`, which any addition or removal keeps (`SetsStayAgreeing`), not only those of the run.
- `PermutationsAndProducts` compares words bit by bit: a word made of digits has their bits, in whatever order the digits are added
  (`PlacedDigits`), which gives the reversals of bits and of bytes (`WordOfBits`, `BytesSwapped`, `BytesReversed`). The highest one bit bounds the
  word (`HighestBit`), and the lowest of the reversed word is the highest of the word. A bit of a carry-less product is the parity of the pairs of
  one bits that meet there (`ProductBits`); reversing both factors is a bijection between the pairs that meet at two mirrored bits
  (`CoefficientReversed`), and the pairs of a sum are the symmetric difference (`CoefficientOfSum`).
- `FramesAndTargetsHold`. `StoredByte` says what a byte of memory is after a store: that of the buffer at its distance from the address, in
  memory that goes round, or what it was (`Around`, `Distance`); `GetBytes`, that bytes read from a buffer add up to the number they
  are of. `Framed` is the callee's view of the stack: byte j of register i stands where the pops look for it, whether or not the frame
  passes address 0, and the bytes on both sides are untouched (`FrameBytes`). The registers of a list differ and none is `sp`
  (`ListsAreSets`), so each takes its own word and `sp` the frame's end (`PopRestores`). Instructions and loads address memory in different
  widths; `StoredIsLoaded` and `FrameLoaded` say where both reach the same bytes.

*The hypotheses.* Each excludes a client or a program for which the statement is false, not one for which it is hard: TLC
finds the property violated on the run's instance when the hypothesis is dropped. `Polls` breaks `WaitMeansFinished`,
`DestructorOutlastsTheLoop` and `NoUseAfterDelete`, `MayDestroy` the last; action points, and breakpoints with interrupts, with a halter, with writes of the pc or with `ClearsPending`, break
`ProgramOrder`, and `ClearsPending` breaks `OnlyPointsAreArmed`; a halter or a write of the pc breaks `StepOverBelongsToPc` and `HaltHasReason`, action points with a program
exit the latter; a delegation taken back breaks `MachineInterruptNotMissed`; `Nesting` breaks `GatewayAccountedFor` and the refinement of
`EdgeRequests`, `DisablesServed` breaks `NoSourceIsDead`, as do software writes of an edge-triggered source's pending bit the latter; a source configured twice, or with
enable 0, breaks `ClaimsHighestPriority`. The runs' instances satisfy the hypotheses of the theorems about their properties.

*Only model-checked.* Liveness (`HaltStopsTheRun`, `WaiterIsWoken`): temporal reasoning under
fairness is out of the prover's reach. And the floating point unit and the assembler, whose properties compare whole computations and tables of encodings.

The provers have no induction over data. Where a loop or a recursive definition is followed all the same, `WordProofs` replaces it by the
least number: of the elements at which the statement fails there would be a first (`LeastNumber`, `StepByStep`). That a recursive function
has values at all is shown the same way (`LoopExists`, `FoldExists`), as is that the library's folds and sums are what
adding in any order gives (`SumIsSum`, `DigitsSum`).

The proofs about words use one assumption besides the ranges of the widths: `PowerAssumption`, that `2^(k+1) = 2 * 2^k` for the
exponents that words of `4 * W` bits (`IntegerUnit`: `misa` keeps twice the `2 * W` bits it shows) or of two vector registers (`VectorUnit`) need. It is what `^` means (the prover knows
nothing of it), and TLC evaluates it on `integer_unit` and `vector_unit`. `VectorAssumption` says of the vector types
what the architecture does: element widths of 1, 2, 4 and 8 bytes, multipliers from 1/8 to 8 (0 stands for a reserved one), a register that holds whole elements of the
widths the instructions name, and mask registers with a bit for each element of the largest group.

## 6. What is not modelled

- **Inside the modelled parts.** `RunControl`: registers other than the pc, memory
  access, watchpoints, the caches, the branch trace, delay lines. `Traps`: user-level interrupts
  (`sideleg`, `uip`, `uie`, `uret`, which the code logs as unsupported), `set_ext_seip` (no
  caller), trap values and vectors, the handler depth counter, `tvm` and `sfence.vma`.
  `Plic`: the address decoding of `Read` and `Write`, completions of an id never claimed,
  clearing of pending bits by software, contexts without an interface.
  `FpState`: nothing. The vector unit: instructions with a source group shorter than what they read, a vset to a reserved width (both undefined in the code), memory latency between a load and its child
  instruction, the csr reads of `vl`, `vtype` and `vlenb`. `Operands`: printed names and latencies. `Assembler`:
  labels and sections, the names of the csrs, the ELF writer.
- **Atomics** (`riscv_a_instructions.cc`): the reservation and the read-modify-write are
  MPACT-Sim's `AtomicMemoryOpInterface`; the code here passes buffers on.
- **CLINT registers** and the pmp csrs: the first appear only by what they do to `mip`, the second are storage that nothing consults.
- **The host's underflow flag**: hosts differ in when a result is tiny.
- **Generated code**: the opcode decoders and matchers that MPACT-Sim's generators make from the `.isa` and
  `.bin_fmt` files.
- **I/O and text**: semihosting's file operations, the command shell, instrumentation control, register name tables, command-line programs.
- **Outside the repository**: MPACT-Sim (action point and breakpoint managers, counters,
  the Renode command-line arbiter) is modelled only as the code here uses it, and marked
  external in the map.

## 7. Plan

Done: the modules of section 2 and the theorems of section 5. Left, in order of what matters most:

1. Proofs: the properties of the floating point unit, for any precision, and of the encodings.
2. `Clint`: `mtime`, `mtimecmp`, `msip` with their widths, the listener, 4- and 8-byte
   accesses; composed with `Traps` in place of its free timer and store lines.
3. `Atomics`: load-reserved/store-conditional and the load-callback-store sequence of an
   AMO, with reference counts of the buffers passed on.
4. `PlicRegisters`: the address decoding of `Read` against that of `Write`, as pure functions.
5. `Watchpoints` and the branch trace ring in `RunControl`; a run with a polling client;
   the semihosting file table.
