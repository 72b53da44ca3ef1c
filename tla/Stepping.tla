------------------------------ MODULE Stepping ------------------------------
(***************************************************************************)
(* Source-level stepping (stepping.go): step, next and finish as loops of  *)
(* single instructions and of runs to a temporary site, over the line      *)
(* table, the functions and the frame information of the loaded files.     *)
(*                                                                         *)
(* The machine, the lookups by address and UnwindFrame are those of        *)
(* CallFrames.  One thread runs.  A Ctrl-C during a single step only makes *)
(* the loops go round once more; during a run it is Interrupt.             *)
(***************************************************************************)
EXTENDS CallFrames

CONSTANT
  SiteChoices  \* the user's sites: records [on, off] of sets of addresses

ASSUME SteppingAssumption == \A c \in SiteChoices : c.on \cap c.off = {}

VARIABLES
  sites,   \* the user's sites, one of SiteChoices
  phase,   \* "prompt", "step", "check", "run", "stopped" or "exited"
  cmd,     \* "stepi", "in", "skip" (StepIn past a prologue), "over" or "out"
  start,   \* startLoc
  target,  \* the argument of RunUntilAddress
  temp,    \* its temporary site, or None
  reason,  \* of the last stop
  origin,  \* history: the frame the command began in
  mark,    \* history: calls when StepIn found a new line
  cut,     \* history: something else stopped a run of this command
  floor    \* history: the least number of calls since the command began

control == <<phase, cmd, start, target, temp, reason>>
history == <<origin, mark, cut, floor>>
vars    == <<machine, sites, control, history>>

pc == regs.rip

ExecuteOne == Code[pc].op # "exit" /\ Execute

-----------------------------------------------------------------------------
(* Lookups at the pc, in the file e it belongs to.                         *)

ELFContainingPC == LET e == ELFContainingAddress(pc)
                   IN  IF e = None THEN MainELF ELSE e

LineIn(e) ==
  LET entry == IF Image[e].dwarf THEN LineAt(e, FileAddr(e, pc)) ELSE None
  IN  IF entry = None THEN None ELSE entry.line

SourceLocationAtPC == LineIn(ELFContainingPC)

FunctionIn(e) == IF Image[e].dwarf THEN FunctionAt(e, FileAddr(e, pc)) ELSE None

InlineStackIn(e) ==
  LET f == FunctionIn(e) IN IF f = None THEN <<>> ELSE InlinedAt(f, FileAddr(e, pc))

InlineStack == InlineStackIn(ELFContainingPC)

FaultyPrologueEnd(e, lo, hi) ==           \* not bounded by the function
  LET lines == Image[e].lines
      In     == {i \in DOMAIN lines : lines[i].lo >= lo /\ ~lines[i].end}
      Marked == {i \in In : lines[i].prologueEnd}
  IN  IF Marked # {} THEN {lines[Min(Marked)].lo} ELSE {}

(* PrologueEndForRange: the first entry marked as such in the range, else  *)
(* the second one; at most one address.                                    *)
PrologueEnd(e, lo, hi) ==
  LET lines == Image[e].lines
      In     == {i \in DOMAIN lines : lines[i].lo \in lo .. hi - 1 /\ ~lines[i].end}
      Marked == {i \in In : lines[i].prologueEnd}
  IN  IF Marked # {} THEN {lines[Min(Marked)].lo}
      ELSE IF Cardinality(In) > 1 THEN {lines[Min(In \ {Min(In)})].lo}
      ELSE {}

(* skipPrologueIfNeeded: where to, if anywhere.                            *)
PrologueIn(e) ==
  LET f == FunctionIn(e) IN
  IF f = None \/ FileAddr(e, pc) # f.lo THEN {}
  ELSE {a + Image[e].bias : a \in {b \in PrologueEnd(e, f.lo, f.hi) : b > f.lo}}

Prologue == PrologueIn(ELFContainingPC)

FaultyIsCallAt(op) == FALSE               \* calls are stepped into

FaultyIsCallAtJump(op) == op \in {"call", "jump"}   \* a tail jump taken for a call

IsCallAt(op) == op = "call"

-----------------------------------------------------------------------------
(* RunUntilAddress: a disabled site or an address that cannot be written   *)
(* is an error; an enabled site there is used as it is.                    *)
RunFails(a) == a \in sites.off \/ a \notin DOMAIN Code

RunUntilAddress(a, c) ==
  /\ cmd' = c
  /\ IF RunFails(a)
     THEN phase' = "prompt" /\ reason' = "error" /\ UNCHANGED <<target, temp>>
     ELSE /\ phase' = "run" /\ target' = a /\ UNCHANGED reason
          /\ temp' = IF a \in sites.on THEN None ELSE a

(* An instruction of the program under a command.                          *)
Executed ==
  /\ ExecuteOne
  /\ floor' = Min({floor, Len(calls')})
  /\ UNCHANGED <<origin, mark, cut>>

Traps == sites.on \cup {temp}

(* The site under the pc is stepped over, then the next one reached stops. *)
Run ==
  /\ phase = "run"
  /\ Executed
  /\ phase' = IF regs'.rip \in Traps THEN "stopped" ELSE "run"
  /\ reason' = IF regs'.rip \in Traps THEN "break" ELSE reason
  /\ UNCHANGED <<sites, cmd, start, target, temp>>

Interrupt ==
  /\ phase = "run"
  /\ phase' = "stopped" /\ reason' = "signal"
  /\ UNCHANGED <<machine, sites, cmd, start, target, temp, history>>

(* The temporary site is removed and a hit of it is called a step.  The    *)
(* reason is dropped by skipPrologueIfNeeded; StepOver looks at the line.  *)
RunEnds ==
  /\ phase = "stopped"
  /\ phase' = IF cmd = "over" THEN "check" ELSE "prompt"
  /\ temp' = None
  /\ reason' = IF cmd = "skip" \/ (temp = pc /\ reason = "break") THEN "step" ELSE reason
  /\ cut' = (cut \/ pc # target \/ reason # "break")
  /\ UNCHANGED <<machine, sites, cmd, start, target, origin, mark, floor>>

-----------------------------------------------------------------------------
(* Commands                                                                *)

Begins ==
  /\ phase = "prompt"
  /\ origin' = [calls |-> calls, inlined |-> InlineStack # <<>>,
                cfi |-> FDEForPC(ELFContainingPC, pc) # {}]
  /\ mark' = calls /\ cut' = FALSE /\ floor' = Len(calls)
  /\ UNCHANGED sites

(* stepi, and step and next without line information.                      *)
StepInstruction ==
  /\ Begins
  /\ ExecuteOne
  /\ cmd' = "stepi" /\ reason' = "step"
  /\ UNCHANGED <<phase, start, target, temp>>

(* StepIn and StepOver.                                                    *)
StepCommand(c) ==
  /\ Begins
  /\ SourceLocationAtPC # None
  /\ phase' = "step" /\ cmd' = c /\ start' = SourceLocationAtPC
  /\ UNCHANGED <<machine, target, temp, reason>>

(* One iteration of their loops.                                           *)
StepOnce ==
  /\ phase = "step"
  /\ ~(cmd = "over" /\ IsCallAt(Code[pc].op))
  /\ Executed
  /\ phase' = "check" /\ reason' = "step"
  /\ UNCHANGED <<sites, cmd, start, target, temp>>

StepOverCall ==
  /\ phase = "step"
  /\ cmd = "over" /\ IsCallAt(Code[pc].op)
  /\ RunUntilAddress(pc + 1, "over")
  /\ UNCHANGED <<machine, sites, start, history>>

NewLine == SourceLocationAtPC \notin {None, start}

SameLine ==
  /\ phase = "check" /\ ~NewLine
  /\ phase' = "step"
  /\ UNCHANGED <<machine, sites, cmd, start, target, temp, reason, history>>

SkipPrologue ==
  /\ phase = "check" /\ NewLine /\ cmd = "in"
  /\ \E a \in Prologue : RunUntilAddress(a, "skip")
  /\ mark' = calls
  /\ UNCHANGED <<machine, sites, start, origin, cut, floor>>

Arrives ==
  /\ phase = "check" /\ NewLine
  /\ cmd = "in" => Prologue = {}
  /\ phase' = "prompt" /\ reason' = "step" /\ mark' = calls
  /\ UNCHANGED <<machine, sites, cmd, start, target, temp, origin, cut, floor>>

FaultyReturnAddress ==                    \* frame pointers only
  IF regs.rbp + 1 \in 1 .. StackTop THEN {mem[regs.rbp + 1]} ELSE {}

(* The return address from the frame information, else the one above the   *)
(* saved frame pointer, if that can be read.                               *)
ReturnAddress ==
  LET e == ELFContainingPC
      Unwound == {u.regs.rip : u \in IF Image[e].cfi THEN UnwindFrame(e, pc, regs) ELSE {}} \ {0}
      Saved   == {mem[a] : a \in {regs.rbp + 1} \cap 1 .. StackTop}
  IN  IF Unwound # {} THEN Unwound ELSE Saved

FaultyStepOutInlined ==                   \* inlined calls are not told apart
  /\ Begins
  /\ InlineStack # <<>>
  /\ \E a \in ReturnAddress : RunUntilAddress(a, "out")
  /\ UNCHANGED <<machine, start>>

(* From an inlined call to the end of its range.                           *)
StepOutInlined ==
  /\ Begins
  /\ InlineStack # <<>>
  /\ RunUntilAddress(Last(InlineStack).hi + Image[ELFContainingPC].bias, "out")
  /\ UNCHANGED <<machine, start>>

StepOut ==
  /\ Begins
  /\ InlineStack = <<>>
  /\ \E a \in ReturnAddress : RunUntilAddress(a, "out")
  /\ UNCHANGED <<machine, start>>

StepOutFails ==
  /\ Begins
  /\ InlineStack = <<>> /\ ReturnAddress = {}
  /\ cmd' = "out" /\ reason' = "error"
  /\ UNCHANGED <<machine, phase, start, target, temp>>

(* The process exits; skipPrologueIfNeeded would not tell.                 *)
Exit ==
  /\ phase \in {"prompt", "step", "run"} /\ Code[pc].op = "exit"
  /\ phase' = "exited" /\ temp' = None
  /\ reason' = IF cmd = "skip" /\ phase = "run" THEN "step" ELSE "exit"
  /\ UNCHANGED <<machine, sites, cmd, start, target, history>>

-----------------------------------------------------------------------------
Init ==
  /\ MachineInit
  /\ sites \in SiteChoices
  /\ phase = "prompt" /\ cmd = "stepi" /\ start = None /\ target = 0 /\ temp = None
  /\ reason = "step"
  /\ origin = [calls |-> <<>>, inlined |-> FALSE, cfi |-> FALSE] /\ mark = <<>> /\ cut = FALSE
  /\ floor = 0

Next ==
  \/ StepInstruction \/ (\E c \in {"in", "over"} : StepCommand(c)) \/ StepOutInlined \/ StepOut \/ StepOutFails
  \/ StepOnce \/ StepOverCall \/ SameLine \/ SkipPrologue \/ Arrives
  \/ Run \/ Interrupt \/ RunEnds
  \/ Exit

Spec == Init /\ [][Next]_vars
-----------------------------------------------------------------------------
(* Properties                                                              *)

(* One of these commands has ended where it wanted to.                     *)
Finished(cs) == phase = "prompt" /\ cmd \in cs /\ reason \in {"step", "break"} /\ ~cut

(* The frame the command began in, or the caller it has returned to since. *)
InFrame == Len(calls) = floor

(* The program keeps to its text and to the calling convention: a return   *)
(* goes back to its caller, with the caller's rsp and rbp.                 *)
ObeysConvention ==
  /\ pc \in DOMAIN Code
  /\ Code[pc].op = "ret" =>
       /\ calls # <<>>
       /\ mem[regs.rsp] = calls[1].rip /\ regs.rsp + 1 = calls[1].rsp
       /\ regs.rbp = calls[1].rbp

(* No function is entered again, or jumped back into, that would reach the *)
(* return address of a call before that call has returned.                 *)
NotReentered == \A i \in DOMAIN calls : pc # calls[i].rip

(* At every instruction with frame information, in prologue, body,         *)
(* epilogue or linkage stub, it leads finish to the return address of the  *)
(* innermost call (StepOut, UnwindFrame).                                  *)
UnwindsToCaller ==
  calls # <<>> /\ FDEForPC(ELFContainingPC, pc) # {} => ReturnAddress = {calls[1].rip}

(* finish ends in the caller, with the registers the caller gets back,     *)
(* wherever in prologue, body, epilogue or linkage stub it was given       *)
(* (StepOut).                                                              *)
FinishReturns ==
  Finished({"out"}) /\ origin.calls # <<>> /\ ~origin.inlined /\ origin.cfi =>
    /\ calls = Tail(origin.calls)
    /\ \A r \in {"rip", "rsp", "rbp"} : regs[r] = origin.calls[1][r]

(* From an inlined call finish stays in the frame, whatever the call has   *)
(* called (StepOut).                                                       *)
FinishStaysInlined == Finished({"out"}) /\ origin.inlined => calls = origin.calls

(* next never ends in a function the line called, whatever that one calls  *)
(* back or jumps to: it ends in the frame it began in or in a caller       *)
(* (StepOver).                                                             *)
NextStaysInFrame == Finished({"over"}) => InFrame

(* next never goes past another line of that frame or of its callers: the  *)
(* program reaches one only to be stopped there (StepOver).                *)
NextMissesNoLine == cmd = "over" /\ phase \in {"step", "run"} /\ InFrame => ~NewLine

(* Skipping a prologue does not leave the call that step has just found,   *)
(* not even through a function of a few instructions                       *)
(* (skipPrologueIfNeeded, PrologueEndForRange).                            *)
SkipStaysInCall ==
  /\ Finished({"in", "skip"}) => calls = mark
  /\ cmd = "skip" /\ phase = "run" => IsSuffix(mark, calls)
=============================================================================
