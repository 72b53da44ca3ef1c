# A TLA+ model of toydbg

`toydbg` is a ptrace debugger for x86-64 Linux written in Go
(`src/debugger`, with the command line in `src/cmd/toydbg/main.go`). This
directory models the parts of it that keep state about the traced process,
checks them with TLC on small instances and proves the main results with TLAPS.

## 1. Inventory

| Part | State it keeps | Operations | What makes it correct |
|---|---|---|---|
| Breakpoint sites (`breakpoint_site.go`, `process.go`) | collection of sites, `savedData`, the int3 bytes in the tracee | create, `Enable`, `Disable`, remove by id or address, hit handlers | memory without traps is the program; an enabled site has its trap; internal users leave nothing behind; ids name one site |
| Thread control (`process.go`) | `p.threads` with `State`, `PendingSigstop`; `currentThread` | `ResumeAllThreads`, `Resume`, `StepInstruction`, `WaitOnSignal`, `stopRunningThreads` | all-stop; no thread passes a disabled site; executed int3s are taken back; SIGSTOPs are accounted for; commands finish |
| Hardware stoppoints (`watchpoint.go`, `process.go`) | two collections with `hardwareRegisterIndex`, DR0-DR3 and DR7 of every thread, `data`, `previousData` | set, enable, disable, delete, attribute a trap | enabled = programmed in every thread; disabled = in none; a trap names its stoppoint; the values shown are those of the memory |
| Syscall catchpoints (`process.go`) | policy, `ExpectingSyscallExit` per thread | set policy, filter, label | entry and exit stops are labelled as what they are; caught calls are reported |
| Launch, attach, close (`process.go`, `target.go`) | pid, attached or launched | `Launch`, `Attach`, `Close` | all threads traced; a detached process runs on |
| Dynamic libraries (`dynlib.go`, `elf_collection.go`) | ELF collection, rendezvous address | `resolveRendezvous`, `reloadDynamicLibraries` | the collection is the link map |
| Stepping (`stepping.go`) | none between commands | `StepIn`, `StepOver`, `StepOut`, `RunUntilAddress` | stops where the source line changes, in the right frame |
| Expressions (`expr.go`, `parse.go`) | saved registers, borrowed site | `EvaluateExpression`, `inferiorMalloc` | the call is invisible to the program; arguments follow the ABI |
| Memory (`memory_linux.go`, `process.go`) | none | word-wise write, page-wise read | what is read is what was written |
| CFI, unwinding, stack (`cfi.go`, `unwind.go`, `stack.go`) | caches | FDE lookup, row machine, frame walk, inline frames | a backtrace is the call stack, with the registers, CFA and line of every caller; the walk ends |
| Location expressions (`dwarf_expr.go`, `dwarf_loc.go`) | the stack, the pieces so far | `Eval`, `evalFrameBase`, `evalLocationList`, `ReadLocationData` | the bits read are the object's, wherever the compiler put it |
| Variables and types (`dwarf.go`, `target.go`, `type.go`) | index of globals | `FindVariable`, `ResolveIndirectName`, `ReadMember`, `Index`, `DerefPointer` | what is shown is what the name means in the source |
| ELF (`elf.go`) | symbols, sections | lookups | pure functions of the file |
| Registers, ptrace, disassembler, formatting, CLI parsing | copies only | wrappers | layout and text |

How they interact. The command line calls `Process` and `Target` methods from
one goroutine; a second one turns Ctrl-C into a SIGSTOP for the process. The
rest of the concurrency is between the debugger and the kernel: each traced
thread stops, exits and clones on its own, and the debugger learns of it one
`wait4` status at a time. Sites are shared by everyone: the user's commands,
the one-shot breakpoint at the entry point, the breakpoint on
`_dl_debug_state`, the temporary site of `RunUntilAddress` and the return
breakpoint of expression calls. Hit handlers run inside `handleSignal`.

What is hard to test here, and so what the properties are about, is listed
with its lines under `hazards` in `PROJECT.json`.

## 2. Modules

`BreakpointSites` (`MCBreakpointSites`, `BreakpointSites_proofs`). The
collection is a function from addresses to site records; creation order is the
field `ord`, so that "the first site with id -1" means what `removeByID` does.
`mem` is the tracee's memory, `text` the bytes the program and the user's own
writes would have left there with no debugger. A command that runs the tracee
goes through the phases *resuming* (step over the site at the pc), *stepover*,
*running*, *returning*; the entry handler adds *resolve* and *oneshot*. Each
CLI command, `RunUntilAddress` with its two error outcomes,
`EvaluateExpression`/`inferiorMalloc` with an own or a borrowed site,
`installEntryPointBreakpoint`, `resolveRendezvous` and `restoreExprState` is an
action. Go pointers are addresses, bytes are a small set.

`ThreadControl` (`MCThreadControl`, `ThreadControl_proofs`). The kernel's half (marked external in the
map): a thread is returning to user mode, in user mode, in a ptrace-stop,
a zombie or gone; it has a status `wait4` has not returned and queued signals.
The debugger's half is `process.go` cut at every place where it waits: the two
passes, the step-over with `swallowPendingSigstop`, `waitOnSignalFor` with one
action per outcome of `handleSignal`, `stopRunningThreads` (send, then collect)
and `cleanupExitedThreads`. `swallowPendingSigstop` ignores the error of its
PTRACE_CONT, of a thread that is dead or that a failed continue has left
running, and waits all the same. There is one software site; a thread is at it, past
it or elsewhere. Go map iteration order is a nondeterministic choice.

`AllStopSession` is the abstract specification of what `ThreadControl` is for:
prompt, stepping, running, stopping, the threads that may move and those on the
site, with no word of signals or `wait4`. `ThreadControl!Session` instantiates
it with a refinement mapping (`SessionState` groups the phases, `moving` is who
can execute, `onSite` who is at the int3 or just past it), and
`ImplementsSession` is a property of `threads_fair` and a theorem.

`DebugRegisters` (`MCDebugRegisters`, `DebugRegisters_proofs`). DR0-DR3 and the
DR7 fields of every thread, the two collections, `hardwareRegisterIndex`, and
the watched values. Each command is one action because no thread runs at the
prompt. A run is cut where the debugger waits: the step-overs of the first pass
(`BeginStep`, `EndStep`, also `StepInstruction`), in which a write is seen by
nobody; the writes of the threads, each of which may leave its thread stopped
with a trap (`Write`, `hit`); the handling of the reported stop and, one by one,
of the collected ones (`ReportStop`, `CollectStop`), where `UpdateData` reads
memory as it is by then; and the return. `swallowPendingSigstop` is no step:
the SIGSTOP is queued, so its thread executes nothing. `steady`, `late`, `wrote`
and `old` are history variables: the watchpoints whose value was read since they
were enabled and not written by a single step since, whether a thread was
created while a stoppoint was enabled, how often the run wrote each watchpoint,
and the value that its only write replaced. Threads that exit, and a single step
that ends in a clone event, are left to `ThreadControl`.

`SyscallCatch` (`MCSyscallCatch`, `SyscallCatch_proofs`). The policy is the set
of calls caught; the kernel part says whether a thread is inside a call and
which stop it is in; the debugger part is the toggle, the filter and the labels.

`CallFrames`, extended by the next two. A small machine (external) runs a
program that pushes, pops, calls, jumps and returns; the history variable
`calls` remembers what every caller gets back. `Image` is what the debugger has
read of each ELF file: load bias, function and line tables, inlined calls,
`.eh_frame` entries at their offsets and the sorted `.eh_frame_hdr` table.
`FDEForPC`, `ExecuteCFIInstruction`, `Row`, `UnwindFrame` and the lookups are
operators named after the functions. One address is one instruction and one
stack slot, so the alignment factors are 1 and -1. A table lookup
(`sort.Search` and one step back) is the last entry at or below the address,
for tables that are sorted as the linker and `newDWARF` leave them. Pointers in
the frame information are absolute (the readers' encodings are not modelled),
and a DWARF expression is a register or the CFA plus a constant, with the
linkage stub's extra slot.

`Unwind` (`MCUnwind`). The loop of `UnwindStack` is the action `WalkFrame` with
its exits `EndWalk` and `LastFrame`, and its locals are the variables `pc`,
`cur`, `count`, `frames`.

`Stepping` (`MCStepping`, `Stepping_proofs`). `StepIn`, `StepOver` and `StepOut`
over the machine, the lookups by address and `UnwindFrame` of `CallFrames`. A
loop iteration is one instruction (`StepOnce`) or a run to the return address (`StepOverCall`), then a look at the line (`SameLine`,
`SkipPrologue`, `Arrives`); `RunUntilAddress` begins a run, `Run` executes until
a site, `Interrupt` is a Ctrl-C and `RunEnds` is what follows the wait. `origin`,
`mark`, `cut` and `floor` are history variables: the frame the command began in,
the call `step` found, whether something else ended a run, and the least number
of pending calls since the command began, which says which frame `next` is in. The user's sites are
chosen at the start (`SiteChoices`); an inlined call has one range.

`DwarfExpr`, extended by `Variables` (`MCVariables`, `Variables_proofs`). `Eval` as a stack machine,
one operation a step: constants, registers, arithmetic modulo the word,
relations, jumps, dereferences, values, pieces, with the error returns and the
one slice access that panics. `Variables` adds the search for a name in the
lexical scopes (a set, ordered by entry number: `ScopesNest`) and in the index of
globals, location lists with base address
selection, the nested evaluation of a frame base (`outer`), the assembly of
pieces from bytes and bits, the walk along `.`, `->`, `*` and `[]`, and the
word-wise `WriteMemory` that may come before. The reference is a second
definition by other means: every variable of the instance carries the place the
compiler chose for it and every field its bit position, and `Asked` computes
from these, without expressions, lists or depth counters, the object the source
text means. `KnownWrong` names the inputs on which the code is known to differ
(section 4).

`ExprCall` (`MCExprCall`, `ExprCall_proofs`). `EvaluateExpression` cut at every run of the
inferior: arguments are parsed one by one, a string calls `inferiorMalloc`, the
return slot is allocated, the function runs, the value is read and everything is
put back. `setupArguments` is three actions, as its loop is: the return slot's
register (`SetupArguments`), one argument a step (`AssignArgument`, with the
registers used so far in `acc`), and the stack, rip and the return address
(`PushArguments`). No other thread can act in between, so the cut adds no
behaviour. The activations are a stack, so a
malloc within a call is nested as it is in the code. `ClassOf`, `Fits`, `Goes` and
`ReturnRegister` are the code's classification and placement; `AbiClasses` and
`AbiPlaces` state the System V rules on their own (by the eightbyte of every
scalar leaf), and the inferior's actions use only these. `obj` is the debugger's
`Registers` object of each thread with the thread it writes to, because
`restoreExprState` copies the object and not its values. The inferior may
return, stop before it returns, create a thread that stops first, or exit.

`Target` (`MCTarget`, `Target_proofs`). A session from `Launch` or `Attach` to `Close`, with the
kernel and the dynamic linker as the environment: while `Attach` seizes,
interrupts and waits for one thread after another, those not attached yet
clone, exit and call dlopen. The list of libraries, the rendezvous and the trap
at `r_brk` are here; the waiting of `ThreadControl` is one step. At `Attach`
`resolveRendezvous` is two, for late threads run on meanwhile: the list is read
(`Resolve`), then the trap is planted (`PlantTrap`). At the entry point the only
thread is stopped and they are one. The walk of the list itself is one step: a
dlclose that frees an entry while it is read is not modelled. `late`, `lost`,
`closed` and `missed` are history variables for the cases of section 4; `late` is
empty again when the task directory is read, since a thread that is in it then
is attached like any other.

Operators named `Faulty...` are variants of the definition they precede with
one plausible bug; no action uses them. They are there to show that each
property can fail.

Constants that restrict the user (`Rearm`, `PatchTraps`, `Toggles`, `Steps`,
`Resets`) mark sequences of commands after which a property is known not to
hold; section 4 says which.

## 3. Runs

| Run | Instance | Shows |
|---|---|---|
| `sites_static` | 4 addresses (one unmapped), 3 site creations, static program, user writes | `ViewIsText`, `NoTemporaryLeft`, `UserIDsUnique` |
| `sites_dynamic` | same, dynamic program launched or attached to, double enables allowed | `TrapInPlace`, `RunsKeepSites` |
| `threads_allstop` | 3 threads, clones, program signals, Ctrl-C, 2 signals | `AllStop`, `PendingIsQueued`, `RewoundAtPrompt` |
| `threads_fair` | 3 threads, clones, one Ctrl-C, fairness | `NoFreeRunPastTrap`, `SwallowLeavesNoSigstop`, `CommandsProgress`, `CtrlCInterrupts`, `ImplementsSession` |
| `threads_exits` | 3 threads, exits, exit_group, Ctrl-C, auto-resumed site | `HandledHitsAreSilent`, `StoppedMeansStopped`, `WaitHasCause` |
| `regs_slots` | 2 registers, 2 watchpoints of 2 values, 1 hardware breakpoint, 2 threads, the second there from the start or created on the way | `ArmedEverywhere`, `HitsAreFound`, `DisabledIsSilent`, `ChangeIsShown` |
| `catch_labels` | 2 threads, 2 calls, 3 policies | `LabelsAreRight` |
| `unwind_walk` | a relocated program and a library, 7 nested calls, two threads' starts | `FramesHaveTheirRegisters`, `BacktraceIsCallStack` |
| `step_commands` | a program with inlined calls, a linkage stub, a library that calls back, a function without frame information; with and without user sites; Ctrl-C | `UnwindsToCaller`, `FinishReturns`, `FinishStaysInlined`, `NextStaysInFrame`, `NextMissesNoLine`, `SkipStaysInCall` |
| `vars_shown` | 2 compile units, 58 entries, variables in memory, registers, pieces and lists, structs with bit fields, pointers out of the mapping; 14 arithmetic laws over boundary words; memory writes at the edges | `ValueShown`, `ShownIfItExists`, `WritesPrefix`, `LocalsAreThoseFound` |
| `expr_calls` | 10 signatures of scalars, structs, arrays, long double and strings; 4 kinds of entry site; 4 values of rsp; 2 calls | `ArgumentsArrive`, `ResultsKept`, `CallerRestored` |
| `target_session` | 3 threads, launched or attached to, 2 libraries at start-up (one without a file), 1 dlopen or dlclose, fairness | `PromptHoldsAll`, `LibrariesKnown`, `ReleasedAfterClose`, `SessionEnds` |

No run expects a violation. The type invariants of `BreakpointSites`,
`DebugRegisters`, `SyscallCatch`, `ThreadControl` and `Target` are proved
(section 5); the other modules have none of their own.

Why the bounds are enough. Three site creations hold a user site, the
`_dl_debug_state` site and a temporary one at once; three threads are the one
that reports, the one that is collected and one the debugger has not met;
two registers for three stoppoints exhaust the registers; two threads and two
watchpoints of two values are a trap that is handled while another thread writes
the same variable, or the other one, and traps in turn (`MCView` identifies
states that differ in values alone once a thread was created late: from then on
only `DisabledIsSilent` promises anything, and no value decides what it sees;
362 505 states are left of 4.1 million, which pass too); seven nested calls
hold the chain `_start`, `main`, stub, library, callback with two recursions
and the call that never returns (`MaxDepth`); two signals let a
Ctrl-C and a program signal race; bytes of four bits and words of two bytes
have every edge that bytes of eight bits have (a field inside a byte, across
two, at the top of a word, a write that begins and ends inside a word) in an
arithmetic TLC can exhaust; two argument registers of each kind are exhausted by
three arguments, and five heap slots by two calls; three threads at `Attach` are
the leader, one being attached and one nobody has seen; one use of dlopen or
dlclose may begin before, during or after `Attach` (two also pass, in about four
minutes). `MaxSites` counts calls of
`nextBreakpointID` and `MaxSent` signals; both are guards. The threads other
than the leader are symmetric in the safety runs. Deadlock checking is off in
`threads_exits` and `step_commands`: there the process can end, and in the
first the debugger can hang (section 4). In `vars_shown`, `expr_calls` and
`target_session` it is on: the debugger has a next step until the command is
over. The program of `step_commands` has no
recursion and `MaxDepth` is never reached.

Fairness (`ThreadControl!Fairness`). The debugger goroutine keeps running
(weak fairness of its next step). The kernel lets a resumed thread run, deliver
its signals, finish a single step and raise the trap of an int3 it stands on.
Nothing is assumed of the user or of what a running program does: it may never
reach the breakpoint. In `Target!FairSpec` the debugger goes on with `Attach` and
`Close` once begun (one goroutine, no lock), and the kernel stops a thread that
was sent PTRACE_INTERRUPT or SIGSTOP. The other modules have no fairness.

## 4. Where the code and its documentation part ways

Sequences and inputs the runs leave out by a constant, a history variable or a
condition. The first group was seen as TLC counterexamples with the constants
given; the others are named by a definition of the module, and without it the
run fails.

Breakpoints, threads, registers, frames:

* `Dynamic = TRUE`, `Rearm = FALSE`, `Patch = {}` in `sites_static`:
  `NoTemporaryLeft` fails. `RunUntilAddress` removes its temporary site by id
  (`stepping.go:50`), and all internal sites have id -1: in a dynamic program
  the `_dl_debug_state` site goes, with its int3 left in memory, and the
  temporary one stays; `stepping.go:15` says it "cleans up".
* Threads {m, t1}, `World = {}`, `Commands = {"continue"}`, `AutoResume = TRUE`,
  `MaxSent = 0` and `FairSpec`: a hit handler that returns true makes
  `waitOnSignalFor` continue the thread on the int3 it was just moved back to
  (`process.go:919`), so it traps for ever.
* World with `exit` beside `user` and `ctrlc` in `threads_allstop`:
  `PendingIsQueued` fails.
* `CatchesAreReported` with `Policies <- MCAll` in `catch_labels`: fails. A
  caught syscall-stop that `stopRunningThreads` collects from another thread
  (`process.go:992`) is never reported, while `process.go:181` says of
  `CatchAllSyscalls` that it "returns a policy that stops on every syscall
  entry/exit".
* `Code <- MCRecursive` in `step_commands`: `FinishReturns` and
  `NextStaysInFrame` fail. The temporary site at the return address is hit first
  by a deeper call of the same function, so `finish` stops where it began and
  `next` in the callee; `stepping.go:170` says "StepOut steps out of the current
  function". (The other properties of the run still hold.)
* `NextStaysInFrame` without `~cut`: fails. A user's breakpoint or a Ctrl-C in a
  called function ends `next` there, and the stop is labelled a single step.
* `ArmedEverywhere` without its premise `~late`: fails. `notifyThreadLifecycle` does
  nothing, so a thread created after a stoppoint was set has empty registers,
  while `src/docs/architecture.md:2476` says "New threads automatically inherit
  the current thread's debug register state."
* `Image <- MCUnindexed` in `unwind_walk`: `BacktraceIsCallStack` fails. The
  linear scan computes the place of an FDE's CIE pointer as `entryOffset +
  entryStart`, where `entryStart` already includes the offset (`cfi.go:783`), so
  no FDE is found in a file without `.eh_frame_hdr`; `architecture.md:2185`
  says "it falls back to a linear scan of `.eh_frame`".
* `Image <- MCStripped` in `unwind_walk`: `FramesHaveTheirRegisters` fails. An
  undefined return address is left in place (`unwind.go:493`), and only the
  missing function entry of a file *with* debug information stops the walk
  there: without it the same frame is reported for ever.
* `Rearm = TRUE` in `sites_static`: `ViewIsText` fails (disable a site that was
  never enabled, or enable twice and disable).
* `Rearm = TRUE` in `regs_slots`: `DisabledIsSilent` fails (a second register is taken and one is
  leaked, so the watchpoint still traps when `Disable` returns, while
  `watchpoint.go:103` says it "deactivates the watchpoint").
* `PatchTraps = TRUE` in `sites_static`: `ViewIsText` fails. A memory write over an
  int3 leaves `savedData` as it was (`process.go:1053`), and the view shows that
  byte instead of the written one, while `process.go:1098` says it "returns the
  'original' memory contents as they would appear without breakpoints".
* `Steps = TRUE` or `Resets = TRUE` in `catch_labels`: `LabelsAreRight` fails (a
  step out of a syscall-entry-stop has no exit-stop; a policy set there resets
  the toggle).
* Commands with `stepi` in `threads_fair`: `NoFreeRunPastTrap` fails (a step
  over a clone is continued freely with the site disabled).
* Commands with `stepi` and `MaxSent = 2` in `threads_exits`:
  `HandledHitsAreSilent` fails. A continue that fails on a dead thread leaves
  others running; a `stepi` then disables the site, the stepped thread exits,
  and the wait goes on for any thread, so another thread's earlier trap finds no
  enabled site and is reported.
* World with `exit` in `threads_allstop`, `AutoResume = FALSE`:
  `RewoundAtPrompt` fails, for a thread that such a failed continue left running.
* World with `exit` in `threads_fair`: `CommandsProgress` fails (the leader's
  exit is not reported while another thread is held stopped, and
  `stopRunningThreads` waits for the leader).
* `SwallowLeavesNoSigstop` without its condition `sent = 0`: fails, because one
  `wait4` takes whichever SIGSTOP or program signal comes first.
* `AllStop` also for the phase *error*: fails, because `ResumeAllThreads`
  returns at the first thread that died with the others running.
* `ChangeIsShown` with the writes of single steps counted like the others in
  `wrote`, `old` and `steady`: fails. A write in a step-over or a single step
  updates nothing, its status being dropped (`process.go:650`) or a TRAP_TRACE
  (`process.go:925`), and `Enable` does not read the value again: the next trap
  shifts the older value, while `watchpoint.go:70` says `PreviousData` is "the old
  value before the write that triggered the watchpoint".
* `ChangeIsShown` with later writes of a run counted as the first (`wrote` stays 1,
  `old` the value that the first replaced): fails. The value is read when a stop is
  handled, not when it traps (`watchpoint.go:72`), so both traps of two threads may
  read what the second one wrote, and after the second reading the previous value is
  the current one.
* A watchpoint and a hardware breakpoint at one address in `regs_slots`:
  `HitsAreFound` fails (a disabled watchpoint keeps its index).

Variables (`Variables!KnownWrong`, `CutShort`):

* A bit field with `DW_AT_bit_offset = 0`, in the top bits of its unit, is read
  from the low bits: zero is taken for "not given" (`type.go:268`), while
  `type.go:269` says the offset is converted.
* A bit piece that starts inside a byte and ends in the next reads too few bytes
  (`dwarf_loc.go:327`); a signed bit field is extended with zeros
  (`type.go:256`).
* An inner declaration without a location (optimised out) shows the outer
  variable of that name (`dwarf.go:602`); a global that follows a function in
  its compile unit is not indexed (`dwarf_loc.go:272`); with several files the
  first with a global of the name wins (`target.go:246`).
* A location with `DW_OP_call_frame_cfa` of its own, or in a list, gets CFA 0
  (`dwarf_loc.go:47`, `:161`); so does a frame base when the CFI of the address
  has an error.
* `a[-1]` of an array panics (`type.go:184`), as does a dereference at the end of
  the mapping (`dwarf_expr.go:430`); a struct there is shown with zeros.
* `Eval` has no limit on steps: an expression with a backward jump may not end.

Calls (`ExprCall!KnownWrong`, `early`, `WellTyped`):

* An integer literal for a floating parameter goes to an integer register; a
  struct field that is an aggregate and straddles two eightbytes loses its second
  class; a long double behind an odd number of stack eightbytes is not aligned;
  without stack arguments rsp is not aligned; the red zone is overwritten.
* Any stop is taken for the return: the result, or the pointer malloc
  "returned", is then whatever the registers hold, and is written through. A
  disabled site at the entry point is borrowed without being enabled, so the
  call never comes back there.
* A function without debugging information gets no return slot. If it returns a
  struct of more than 16 bytes it writes it wherever rdi points
  (`KnownReturns` in `ExprCall_proofs` excludes it; no call of the run does).
* When another thread's stop ends the call, `restoreExprState` (`expr.go:250`)
  copies the caller's saved object, its thread id included, over the object of
  the thread that stopped: from then on that thread's registers are read from
  and written to the caller.

Sessions (`Target`: `late`, `lost`, `closed`, `missed`):

* `late`: a thread made by one that is not attached yet, after the task directory
  was read (`process.go:406`), is never traced.
* `lost`: a thread that exits between seize and wait is listed as stopped
  (`process.go:428`); `EnableThreadTracking` fails on it, its error is dropped,
  and every later continue fails.
* `missed`: a thread that stops on `r_brk` before its int3 is stepped over it,
  and the change goes unseen until the next one. So does that of a late thread
  which was in the middle of a dlopen and passes `r_brk` after `Attach` has read
  the list (`dynlib.go:107`) and before the trap is there (`dynlib.go:124`): the
  library is unknown at the prompt. `closed`: nothing is ever
  removed from the collection, so an address that dlclose freed still finds the
  old library. A process attached to before the linker has set `DT_DEBUG` is
  never resolved.
* `Close` leaves the int3 bytes in the detached process: the next dlopen kills it
  (`group = "killed"`), while `src/docs/architecture.md:222` says "process
  continues running".

## 5. Theorems

All hold for every value of the constants that satisfies the named assumptions
(`SitesAssumption`, `NoSiteAssumption`, `RegistersAssumption`,
`CatchAssumption`, `ThreadAssumption`, `TargetAssumption`, `StartupAssumption`,
`FramesAssumption`, `SteppingAssumption`, and of `ExprCall`
`CallAssumption`, `RegsAssumption`, `TypesAssumption`, `SitesAssumption`, of
`Variables` `ExprAssumption`, `DiesAssumption`, `ContextsAssumption`), without
the bounds of the runs. Each inductive invariant was checked by TLC on the
instance of its run, and on others, before it was proved. A theorem with an
ASSUME or with a hypothesis beside the specification excludes what section 4
shows to fail.

`BreakpointSites_proofs`
* `TypeCorrect`. `TypeOK` is not inductive: the step-over and the end of a run
  update the site they hold, which must still be there. `HeldSites` says so for
  each phase and command, and that the entry handler never runs on a site a
  command holds.
* `UserIDs`. `IdInv`: internal sites have id -1, user sites the counter value
  they were created with, and creation numbers are distinct. Every step keeps
  members, drops some or adds one (`MemberSteps`).
* `Traps`. For every step and address, one of six ways a step can touch it
  (`EveryStepTouches`); each keeps `TrapInPlace`. It assumes that the user
  writes no memory under a trap, and allows everything else.
* `StaticView`, `StaticTemporaries`. For a static program and a user who toggles
  only what changes (`Disciplined`). `StaticInv`: the only internal site is the
  one the running command created, so removing by -1 finds it; it is enabled
  except during its own step-over; a step-over ends on a disabled site, so
  `Enable` never saves an int3.

`DebugRegisters_proofs`
* `TypeCorrect`, with `HeldInv`: what a single step holds is disabled. `Silent` by
  `SlotsOwned`, which relates an address in one thread to a condition in another
  because each operation copies the DR7 of the current thread over the rest;
  `Armed` with `IndexInv`; `Attribution`.
* `ChangeShown` by `HitInv` (a trap not yet handled belongs to a stopped thread
  that the loops have still to visit) and `ShownInv`: the value of a steady
  watchpoint is that of memory, or a trap on it is pending that will read it; and
  if the run has written it once, either the replaced value is shown and no trap
  is pending, or exactly one is and the replaced value is still in `data`. Like
  `Silent` and `Armed` it assumes `~Rearm`.

`SyscallCatch_proofs`
* `TypeCorrect`; `Labels` by `LabelInv`: the toggle of a thread equals "inside a
  call", corrected by a stop that has not been seen yet.

`ThreadControl_proofs`
* `TypeCorrect`.
* `StoppedStay`, `AllStopped`: for every program, user and outcome. `ControlInv`
  says, phase by phase, which threads each loop of `process.go` has still to
  visit: what was not collected is in `todo`, what runs is marked running
  (`LoopInv`, `CollectInv`), a thread with an unseen status is in a ptrace-stop
  (`StatusInv`), and one the debugger has not met has not left its birth stop
  (`UnmetInv`). `AllStop` alone says nothing of the phases before the prompt.
* `ContinueHasCause`: `WaitInv` accounts for every thread while continue waits.
  Nobody is listed as stopped any more (`VisitInv`), a thread listed as running
  is not in a stop that was already reported (`RunningInv`), and the lists
  disagree with the kernel only where a thread has ended, which itself is
  something to report (`KilledInv`, `FailedInv`).
* `NoSigstopLeft`: `BookInv` relates the bookkeeping to the kernel (what was
  reaped, when `PendingSigstop` is set, when the site is disabled), and
  `QuietInv` says that while nobody else sends signals a SIGSTOP is queued or
  reported exactly where one is outstanding, and that no thread but the one being
  collected runs its program with one queued.
* `PendingQueued`, `PromptRewound` (threads do not end one by one) add
  `GroupInv`, `QueuedInv` and `TrapInv`: a trap not yet handled is one whose site
  is armed, so the pc is moved back when it is.
* `HandledHitsSilent` (no such exit, or no `stepi`) by `SilentInv`: a trap is
  never waited for with its site disabled (`TrapsHandled`).
* `NoFreeRun` (neither) from the same invariants.
* `SessionImplemented` (neither, and no exit of the group): the refinement of
  `AllStopSession`. `Init` maps to `Init`; each of the 41 actions maps to a step
  of the session or a stutter. `LiveInv` says that no thread is dead, so
  that the errors of a continue do not arise.

`Target_proofs`
* `TypeCorrect`, in two halves: `ThreadsOK` for the threads and the session, first
  because the rest uses it, and `LibrariesOK` for the linker, the link map, the
  collection and the history, at the end because it uses `LibInv`. `PromptHeld` and `Released` by `HoldInv`, for every number of
  threads cloning and exiting meanwhile, and with no exclusion. Its parts follow
  the session: a launched process has one thread until the prompt
  (`LaunchInv`); during `Attach` nobody else touches the threads (`AttachQuiet`),
  the thread in hand is in the state its last request left (`AttachMe`), those
  already listed are stopped, and every live thread is listed, still to do, in
  hand, or late (`AttachCovers`); then
  `SessionInv`; and `CloseInv` for each loop of `Close`. `AttachCovers` is what
  makes the result more than a restatement: a thread is born on either side of
  the reading of the directory.
* `LibrariesFound`, by `LibInv`: the link map has no library and no base twice
  (`MapInv`), what is in the collection is mapped or was closed, and is there
  once (`ElvesInv`), and once the list was read the trap at `r_brk` is planted, or
  to be planted next, and the collection covers the map, but for what cannot be
  opened, a change that was `missed` and one whose hit is still to come
  (`CoverInv`). `StartupAssumption` says that the linker starts with distinct
  entries. `reloadDynamicLibraries` is a loop, a recursive function of the
  number of entries done; `LoopExists` shows that there is such a function, and
  `ReloadKeeps` and `ReloadLoads` follow it entry by entry. The induction is by
  least counterexample (`Least`): were there an entry after which the claim
  fails, there would be a first one.

`Stepping_proofs`. The hypotheses are state predicates of `Stepping` that must
hold throughout, since the program and the compiler's tables are arbitrary:
`ObeysConvention` (the program stays in its text, a return goes back to its
caller with the caller's rsp and rbp), `NotReentered` (no return address is
executed while its call is pending) and `UnwindsToCaller` (where there is frame
information it leads to the innermost return address). All three hold in every
state of `step_commands`, so the theorems speak about that program too;
`MCRecursive` satisfies the first and the third and breaks the second, and there
the two theorems that use it fail as section 4 says. Pending calls are counted
from the outermost one (`Pending`), so that an instruction leaves them alone, adds
one or takes the last away (`MachineStep`).
* `NextMisses`, by `OverInv`, from `ObeysConvention` alone: recursion, user sites
  and Ctrl-C included. While `next` runs, either the call has not been made, or a
  call that is deeper than the frame and returns to the target is still
  pending; the return from it reaches the temporary site, so the run cannot go
  on in the frame.
* `NextStays`, by `StaysInv`: as long as nothing else stopped a run, that call is
  the one just above the frame, and the target cannot be reached before it has
  returned (`RunStays`).
* `FinishReturnsToCaller`, by `OutInv`: the calls pending when `finish` was given
  stay pending during the run, and the instruction that ends it is the return
  from the innermost of them (`RunOut`).

`ExprCall_proofs`
* `CallLeavesNothing`, for every set of types, signatures, registers, threads,
  stack pointers and heap sizes, under `KnownReturns` (section 4). `RestoreInv`
  follows the stack of activations: which calls are in progress in each phase
  (`PhaseInv`), how the entry point's site was before the outer one (`SiteInv`),
  that what each saved is what the caller had (`SavedInv`), that a thread's
  `Registers` object is its own until another thread's stop ends a call
  (`OwnInv`), that malloc and the function find the entry point as their return
  address and the slot in the first register (`RunInv`), and that all writes go
  below the caller's rsp or to blocks that malloc returned (`MemInv`).

`Variables_proofs`
* `WritesAPrefix`, for any sizes of byte, word, mapping and data, by `WriteInv`.
  `Poke` reads a word, patches it and writes it back; `PokeCopies` shows that
  this is a copy of the patched bytes alone, and `CopyOn` that two such copies
  in a row are one.
* `LocalsFound`: the scopes with a name have a last one, and it has a first
  entry of the name (`MinIsLeast`, `MaxIsGreatest`), so the listing, which
  compares all entries, and the lookup, which stops at the first, agree.

Only model-checked:
* liveness (`CommandsProgress`, `CtrlCInterrupts`, `SessionEnds`): fairness is
  out of TLAPS's reach;
* `ArgumentsArrive`, `ResultsKept`, `ValueShown`, `ShownIfItExists`: they compare
  two recursions over types, or a run of the stack machine and a definition
  without one, and need induction over data of more than one kind;
* `FinishStaysInlined`, `SkipStaysInCall`: the end of an inlined range or of a
  prologue is reached in the same frame because of what a compiler emits; as a
  hypothesis this would be the property itself;
* `UnwindsToCaller` and the properties of `Unwind`: they relate the tables of the
  instance to its program (a compiler's output is an assumption about data).

## 6. Plan

Done: the modules above, and the proofs of section 5. Next:

1. Lemmas about the operators of `CallFrames` and `DwarfExpr` that need no
   induction (what a lookup and a row return; `MemcpyBits` against a pointwise
   definition).
2. `ArgumentsArrive` by following `AssignArgument` one argument at a time, as
   `RunInv` does for the return slot.

## 7. Not modelled

The tables of registers and system calls, ELF and DWARF parsing (standard
library), formatting (`Visualize`, `format.go`), disassembly and the parsing of
commands and expressions are data or text. The ptrace wrappers are one system
call each and appear as the environment's actions. Byte encodings (LEB128, form
classes, `.eh_frame` pointers) are read by the models in decoded form.
Sub-word details of DR7 (sizes, alignment) are left out of `DebugRegisters`,
and the user's own memory write to a watched address is not one of its
actions. In `BreakpointSites` a malloc call nested in an expression call is
taken as two calls in a row. Signals are never passed on to the program by this
debugger, so their effect on the program is not modelled.
