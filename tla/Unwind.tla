------------------------------- MODULE Unwind -------------------------------
(***************************************************************************)
(* The frame walk of the backtrace command (stack.go) over the machine and *)
(* the frame information of CallFrames.  The user stops the machine        *)
(* anywhere and asks for a backtrace.                                      *)
(***************************************************************************)
EXTENDS CallFrames

CONSTANT Limits  \* arguments maxFrames; 0 is unlimited

ASSUME UnwindAssumption == Limits \subseteq Nat

VARIABLES
  phase,   \* "run", "walk" (in UnwindStack) or "done" (frames are printed)
  limit,   \* maxFrames
  pc,      \* the locals of UnwindStack
  cur,     \*   its regs
  count,   \*   physicalCount
  frames

walk == <<limit, pc, cur, count, frames>>
vars == <<machine, phase, walk>>

Step == phase = "run" /\ Execute /\ UNCHANGED <<phase, walk>>

-----------------------------------------------------------------------------
(* UnwindStack                                                             *)

PhysicalFrame(e, f, a) ==
  LET line == IF Image[e].dwarf THEN LineAt(e, FileAddr(e, a)) ELSE None IN
  [fn |-> IF f = None THEN None ELSE f.name,
   line |-> IF line = None THEN None ELSE line.line,
   at |-> IF line = None \/ count = 0 THEN a ELSE line.lo + Image[e].bias,
   inlined |-> FALSE, elf |-> e, regs |-> cur, cfa |-> 0]

(* createInlineFrames: innermost first; an outer frame stands at the call  *)
(* that was inlined into it.                                               *)
InlineFrames(e, f, a) ==
  LET inner == InlinedAt(f, FileAddr(e, a))
      n     == Len(inner)
      line  == LineAt(e, FileAddr(e, a))
      Name(d)  == IF d = 0 THEN f.name ELSE inner[d].name
      Frame(d) ==
        [fn |-> Name(d), inlined |-> d > 0, elf |-> e, regs |-> cur, cfa |-> 0,
         line |-> IF d < n THEN inner[d + 1].callLine
                  ELSE IF line = None THEN None ELSE line.line,
         at |-> IF d < n THEN inner[d + 1].lo + Image[e].bias ELSE a]
  IN  [k \in 1 .. n + 1 |-> Frame(n + 1 - k)]

FramesAt(e, f, a) ==
  IF f # None /\ InlinedAt(f, FileAddr(e, a)) # <<>>
  THEN InlineFrames(e, f, a) ELSE <<PhysicalFrame(e, f, a)>>

CurELF == LET e == ELFContainingAddress(pc)
          IN  IF e = None /\ count = 0 THEN MainELF ELSE e

CurFunction == IF Image[CurELF].dwarf THEN FunctionAt(CurELF, FileAddr(CurELF, pc)) ELSE None

(* None of the breaks at the head of the loop.                             *)
GoesOn ==
  /\ pc # 0
  /\ ~(limit > 0 /\ count >= limit)
  /\ CurELF # None
  /\ ~(Image[CurELF].dwarf /\ CurFunction = None /\ count > 0)

FaultyCallSite(ret) == ret                \* the return address itself

(* The instruction before the return address is the call.                  *)
CallSite(ret) == ret - 1

Continues(ret) == ret # 0

(* The CFA goes to the frame that is not inlined, the last one added.      *)
WithCFA(new, cfa) == [new EXCEPT ![Len(new)].cfa = cfa]

(* backtrace: UnwindStack begins at the registers of the stopped thread.   *)
Backtrace(n) ==
  /\ phase = "run" /\ phase' = "walk"
  /\ limit' = n /\ pc' = regs.rip /\ cur' = regs /\ count' = 0 /\ frames' = <<>>
  /\ UNCHANGED machine

EndWalk ==
  /\ phase = "walk" /\ ~GoesOn
  /\ phase' = "done" /\ UNCHANGED <<machine, walk>>

(* The last frame, with no caller to go on to.                             *)
LastFrame ==
  /\ phase = "walk" /\ GoesOn
  /\ Image[CurELF].cfi => UnwindFrame(CurELF, pc, cur) = {}
  /\ frames' = frames \o FramesAt(CurELF, CurFunction, pc)
  /\ phase' = "done" /\ UNCHANGED <<machine, limit, pc, cur, count>>

(* A frame that is unwound.                                                *)
WalkFrame ==
  /\ phase = "walk" /\ GoesOn /\ Image[CurELF].cfi
  /\ \E u \in UnwindFrame(CurELF, pc, cur) :
       /\ frames' = frames \o WithCFA(FramesAt(CurELF, CurFunction, pc), u.cfa)
       /\ IF Continues(u.regs.rip)
          THEN /\ pc' = CallSite(u.regs.rip) /\ cur' = u.regs /\ count' = count + 1
               /\ UNCHANGED phase
          ELSE phase' = "done" /\ UNCHANGED <<pc, cur, count>>
  /\ UNCHANGED <<machine, limit>>

Resume == phase = "done" /\ phase' = "run" /\ UNCHANGED <<machine, walk>>

-----------------------------------------------------------------------------
Init ==
  /\ MachineInit
  /\ phase = "run"
  /\ limit = 0 /\ pc = 0 /\ cur = regs /\ count = 0 /\ frames = <<>>

Next ==
  \/ Step
  \/ \E n \in Limits : Backtrace(n)
  \/ EndWalk \/ LastFrame \/ WalkFrame \/ Resume

Spec == Init /\ [][Next]_vars
-----------------------------------------------------------------------------
(* Properties                                                              *)

Physical == SelectSeq(frames, LAMBDA f : ~f.inlined)

(* No frame is reported past the outermost one, and the rip, rsp and rbp   *)
(* of a frame are those its function gets back when the deeper calls       *)
(* return, wherever in a prologue, a body, an epilogue or a linkage stub   *)
(* they stopped (UnwindFrame, executeUnwindRules).  Its CFA is the stack   *)
(* pointer its caller gets back (UnwindStack, "Record CFA").               *)
FramesHaveTheirRegisters ==
  /\ phase # "run" =>
       /\ Len(Physical) <= Len(calls) + 1
       /\ \A k \in DOMAIN Physical, r \in {"rip", "rsp", "rbp"} :
            Physical[k].regs[r] = IF k = 1 THEN regs[r] ELSE calls[k - 1][r]
  /\ phase = "done" =>
       \A k \in DOMAIN Physical : k <= Len(calls) => Physical[k].cfa = calls[k].rsp

(* What is really at an address: the calls inlined there, innermost first, *)
(* then the function, each with the line it is at.  The first is at the    *)
(* instruction's own line, the others where the call was inlined.          *)
Covers(x, e, a) == FileAddr(e, a) \in x.lo .. x.hi - 1

Logical(a) ==
  LET e  == ELFContainingAddress(a)
      fs == {f \in ToSet(Image[e].funcs) : Covers(f, e, a)}
      In(f)   == Reverse(SelectSeq(f.inlined, LAMBDA c : Covers(c, e, a)))
      Names(f) == [k \in DOMAIN In(f) |-> In(f)[k].name] \o <<f.name>>
      Lines(f) == <<Code[a].line>> \o [k \in DOMAIN In(f) |-> In(f)[k].callLine]
  IN  IF ~Image[e].dwarf THEN <<[fn |-> None, line |-> None]>>
      ELSE IF fs = {} THEN <<[fn |-> None, line |-> Code[a].line]>>
      ELSE LET f == CHOOSE x \in fs : TRUE
           IN  [k \in DOMAIN Names(f) |-> [fn |-> Names(f)[k], line |-> Lines(f)[k]]]

(* Where the frames really are: the pc, then the call instructions.        *)
TruePCs == <<regs.rip>> \o [k \in DOMAIN calls |-> calls[k].rip - 1]

(* The walk ends at a caller outside every known function (_start).        *)
Shown ==
  LET Hidden(a) == Image[ELFContainingAddress(a)].dwarf /\ Logical(a)[1].fn = None
      n == Min({Len(TruePCs) + 1} \cup {k \in 2 .. Len(TruePCs) : Hidden(TruePCs[k])}) - 1
  IN  SubSeq(TruePCs, 1, IF limit = 0 THEN n ELSE Min({n, limit}))

(* A finished backtrace names the functions on the call stack and the      *)
(* calls inlined into them, deepest first, all of them and nothing else,   *)
(* each at the line of the call going on in it and not at the line the     *)
(* call returns to (createInlineFrames, createPhysicalFrame).              *)
BacktraceIsCallStack ==
  phase = "done" =>
    /\ [k \in DOMAIN frames |-> [fn |-> frames[k].fn, line |-> frames[k].line]] =
         FlattenSeq([k \in DOMAIN Shown |-> Logical(Shown[k])])
    /\ Len(Physical) = Len(Shown)
    /\ \A k \in DOMAIN Physical : Physical[k].at <= Shown[k]

=============================================================================
