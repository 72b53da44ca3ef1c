-------------------------- MODULE Stepping_proofs --------------------------
(***************************************************************************)
(* Proofs about Stepping: next misses no line and ends in no function the  *)
(* line called, and finish ends in the caller, whatever the program, its   *)
(* files and the user's sites are.                                         *)
(*                                                                         *)
(* What the program does is a hypothesis, []ObeysConvention and, where a   *)
(* temporary site must not be reached too early, []NotReentered; what the  *)
(* frame information says is one too, []UnwindsToCaller.                   *)
(***************************************************************************)
EXTENDS Stepping, SequenceTheorems, TLAPS

Depth == Len(calls)

(* The pending calls counted from the outermost one, so that a call or a   *)
(* return leaves the others where they are.                                *)
Pending(k) == calls[Len(calls) - k + 1]

(* The same in the frame the command began in.                             *)
Began(k) == origin.calls[Len(origin.calls) - k + 1]

MachineType ==
  /\ \E S : calls \in Seq(S)
  /\ regs = [r \in Reg |-> regs[r]]

HistoryType ==
  /\ \E S : origin.calls \in Seq(S)
  /\ floor \in Nat /\ cut \in BOOLEAN

(* What one instruction does to the pending calls.                         *)
Stays == calls' = calls

Calls ==
  /\ IsCallAt(Code[pc].op)
  /\ Depth' = Depth + 1
  /\ \A k \in 1 .. Depth : Pending(k)' = Pending(k)
  /\ Pending(Depth)'.rip = pc + 1

Returns ==
  /\ Depth \in Nat \ {0}
  /\ Depth' = Depth - 1
  /\ calls' = Tail(calls)
  /\ \A k \in 1 .. Depth - 1 : Pending(k)' = Pending(k)
  /\ \A r \in {"rip", "rsp", "rbp"} : regs'[r] = Pending(Depth)[r]

(* A run over a call, before the call and once it is made.                 *)
AtCall   == IsCallAt(Code[pc].op) /\ target = pc + 1 /\ ~NewLine
Inside(k) == k \in 1 .. Depth /\ Pending(k).rip = target

OverInv ==
  /\ phase \in {"step", "check", "run", "stopped"} => floor <= Depth
  /\ phase = "run" => target \in Traps
  /\ cmd = "over" /\ phase = "step" => ~NewLine
  /\ cmd = "over" /\ phase = "run" => AtCall \/ \E k \in 1 .. Depth : Inside(k) /\ floor < k

StaysInv ==
  cmd = "over" /\ ~cut =>
    /\ phase \in {"step", "check"} => InFrame
    /\ phase = "run" => (AtCall /\ InFrame) \/ Inside(floor + 1)
    /\ phase = "stopped" /\ pc = target /\ reason = "break" => InFrame
    /\ phase = "prompt" /\ reason \in {"step", "break"} => InFrame

Uncalled == origin.calls # <<>> /\ ~origin.inlined /\ origin.cfi

Returned ==
  /\ calls = Tail(origin.calls)
  /\ \A r \in {"rip", "rsp", "rbp"} : regs[r] = origin.calls[1][r]

Leaving ==
  /\ target = origin.calls[1].rip
  /\ Len(origin.calls) <= Depth
  /\ \A k \in 1 .. Len(origin.calls) : Pending(k) = Began(k)

OutInv ==
  /\ cmd = "out" => phase \notin {"step", "check"}
  /\ cmd = "out" /\ Uncalled =>
       /\ phase = "run" => Leaving
       /\ phase = "stopped" /\ pc = target /\ reason = "break" => Returned
       /\ phase = "prompt" /\ ~cut /\ reason \in {"step", "break"} => Returned

-----------------------------------------------------------------------------
(* Min of two numbers is the smaller one (the floor of a command).         *)
LEMMA TwoMin ==
  ASSUME NEW a \in Nat, NEW b \in Nat
  PROVE  Min({a, b}) = IF a <= b THEN a ELSE b
<1>1. \E x \in {a, b} : \A y \in {a, b} : x <= y
  OBVIOUS
<1>2. Min({a, b}) \in {a, b} /\ \A y \in {a, b} : Min({a, b}) <= y
  BY <1>1, Zenon DEF Min
<1>. QED  BY <1>2

(* A frame put in front of the others leaves those where they are, counted *)
(* from the end.                                                           *)
LEMMA PushFrame ==
  ASSUME NEW S, NEW c \in Seq(S), NEW f
  PROVE  LET d == <<f>> \o c IN
         /\ d \in Seq(S \cup {f})
         /\ Len(d) = Len(c) + 1
         /\ d[1] = f
         /\ \A k \in 1 .. Len(c) : d[Len(d) - k + 1] = c[Len(c) - k + 1]
<1>. DEFINE T == S \cup {f}
            d == <<f>> \o c
            n == Len(c)
<1>1. c \in Seq(T) /\ <<f>> \in Seq(T) /\ Len(<<f>>) = 1 /\ <<f>>[1] = f
  OBVIOUS
<1>2. n \in Nat
  OBVIOUS
<1>. HIDE DEF T
<1>3. d \in Seq(T) /\ Len(d) = Len(<<f>>) + Len(c)
      /\ \A i \in 1 .. Len(<<f>>) + Len(c) :
           d[i] = IF i <= Len(<<f>>) THEN <<f>>[i] ELSE c[i - Len(<<f>>)]
  BY <1>1, ConcatProperties
<1>. HIDE DEF d, n
<1>4. Len(d) = n + 1 /\ \A i \in 1 .. n + 1 : d[i] = IF i <= 1 THEN f ELSE c[i - 1]
  BY <1>1, <1>2, <1>3 DEF n
<1>5. d[1] = f
  BY <1>2, <1>4
<1>6. ASSUME NEW k \in 1 .. n
      PROVE  d[n + 1 - k + 1] = c[n - k + 1]
  <2>. DEFINE i == n + 1 - k + 1
  <2>1. i \in 1 .. n + 1 /\ ~(i <= 1) /\ i - 1 = n - k + 1
    BY <1>2
  <2>. HIDE DEF i
  <2>2. d[i] = c[i - 1]
    BY <1>4, <2>1
  <2>. QED  BY <2>1, <2>2 DEF i
<1>. QED  BY <1>3, <1>4, <1>5, <1>6 DEF T, d, n

(* So does the first frame taken away.                                     *)
LEMMA PopFrame ==
  ASSUME NEW S, NEW c \in Seq(S), c # <<>>
  PROVE  LET d == Tail(c) IN
         /\ Len(c) \in Nat \ {0}
         /\ d \in Seq(S)
         /\ Len(d) = Len(c) - 1
         /\ \A k \in 1 .. Len(c) - 1 : d[Len(d) - k + 1] = c[Len(c) - k + 1]
<1>. DEFINE d == Tail(c)
            n == Len(c)
<1>1. n \in Nat \ {0}
  BY EmptySeq
<1>2. d \in Seq(S) /\ Len(d) = n - 1 /\ \A i \in 1 .. n - 1 : d[i] = c[i + 1]
  BY HeadTailProperties
<1>. HIDE DEF d, n
<1>3. ASSUME NEW k \in 1 .. n - 1
      PROVE  d[n - 1 - k + 1] = c[n - k + 1]
  <2>1. n - 1 - k + 1 \in 1 .. n - 1 /\ n - 1 - k + 1 + 1 = n - k + 1
    BY <1>1
  <2>. QED  BY <1>2, <2>1
<1>. QED  BY <1>1, <1>2, <1>3 DEF d, n

(* An instruction that is no call and no return only moves the registers.  *)
LEMMA Moves ==
  ASSUME MachineType, ObeysConvention, ExecuteOne, Code[pc].op \notin {"call", "ret"}
  PROVE  MachineType' /\ Stays
<1>1. Code[pc].op \in {"push", "pop", "add", "set", "mov", "jump"}
  BY FramesAssumption DEF ObeysConvention, ExecuteOne
<1>2. calls' = calls
  BY <1>1 DEF ExecuteOne, Execute, pc
<1>3. regs' = [r \in Reg |-> regs'[r]]
  BY <1>1 DEF ExecuteOne, Execute, pc, Goto, Moved, MachineType, Reg
<1>. QED  BY <1>2, <1>3 DEF MachineType, Stays

LEMMA CallStep ==
  ASSUME MachineType, ObeysConvention, ExecuteOne, Code[pc].op = "call"
  PROVE  MachineType' /\ Calls
<1>1. PICK S : calls \in Seq(S)
  BY DEF MachineType
<1>. DEFINE f == Goto(regs.rip + 1)
<1>2. /\ calls' = <<f>> \o calls
      /\ regs' = [Goto(Code[regs.rip].to) EXCEPT !.rsp = @ - 1]
  BY DEF ExecuteOne, Execute, pc
<1>3. f.rip = pc + 1
  BY DEF MachineType, Goto, pc, Reg
<1>4. regs' = [r \in Reg |-> regs'[r]]
  BY <1>2 DEF MachineType, Goto, Reg
<1>. HIDE DEF f
<1>5. /\ calls' \in Seq(S \cup {f}) /\ Len(calls') = Len(calls) + 1 /\ calls'[1] = f
      /\ \A k \in 1 .. Len(calls) : calls'[Len(calls') - k + 1] = calls[Len(calls) - k + 1]
  BY <1>1, <1>2, PushFrame
<1>6. Len(calls) \in Nat
  BY <1>1
<1>7. \A k \in 1 .. Depth : Pending(k)' = Pending(k)
  BY <1>5 DEF Depth, Pending
<1>8. Pending(Depth)'.rip = pc + 1
  BY <1>3, <1>5, <1>6 DEF Depth, Pending
<1>9. MachineType'
  BY <1>4, <1>5 DEF MachineType
<1>. QED  BY <1>5, <1>7, <1>8, <1>9 DEF Calls, Depth, IsCallAt

LEMMA ReturnStep ==
  ASSUME MachineType, ObeysConvention, ExecuteOne, Code[pc].op = "ret"
  PROVE  MachineType' /\ Returns
<1>1. PICK S : calls \in Seq(S)
  BY DEF MachineType
<1>2. /\ calls' = Tail(calls)
      /\ regs' = [Goto(mem[regs.rsp]) EXCEPT !.rsp = @ + 1]
  BY DEF ExecuteOne, Execute, pc
<1>3. /\ calls # <<>>
      /\ mem[regs.rsp] = calls[1].rip /\ regs.rsp + 1 = calls[1].rsp
      /\ regs.rbp = calls[1].rbp
  BY DEF ObeysConvention
<1>4. regs' = [r \in Reg |-> regs'[r]]
  BY <1>2 DEF MachineType, Goto, Reg
<1>5. \A r \in {"rip", "rsp", "rbp"} : regs'[r] = calls[1][r]
  BY <1>2, <1>3 DEF MachineType, Goto, Reg
<1>6. /\ Len(calls) \in Nat \ {0} /\ calls' \in Seq(S) /\ Len(calls') = Len(calls) - 1
      /\ \A k \in 1 .. Len(calls) - 1 : calls'[Len(calls') - k + 1] = calls[Len(calls) - k + 1]
  BY <1>1, <1>2, <1>3, PopFrame
<1>7. \A k \in 1 .. Depth - 1 : Pending(k)' = Pending(k)
  BY <1>6 DEF Depth, Pending
<1>8. Pending(Depth) = calls[1]
  BY <1>6 DEF Depth, Pending
<1>9. MachineType'
  BY <1>4, <1>6 DEF MachineType
<1>. QED  BY <1>2, <1>5, <1>6, <1>7, <1>8, <1>9 DEF Returns, Depth

(* Every instruction stays in its frame, calls or returns.                 *)
LEMMA MachineStep ==
  ASSUME MachineType, ObeysConvention, ExecuteOne
  PROVE  /\ MachineType'
         /\ Depth \in Nat /\ Depth' \in Nat
         /\ (Stays /\ ~IsCallAt(Code[pc].op)) \/ Calls \/ (Returns /\ ~IsCallAt(Code[pc].op))
<1>1. /\ MachineType'
      /\ (Stays /\ ~IsCallAt(Code[pc].op)) \/ Calls \/ (Returns /\ ~IsCallAt(Code[pc].op))
  BY Moves, CallStep, ReturnStep DEF IsCallAt
<1>2. Depth \in Nat
  <2>1. PICK S : calls \in Seq(S)
    BY DEF MachineType
  <2>. QED  BY <2>1 DEF Depth
<1>3. Depth' \in Nat
  <2>1. PICK S : calls' \in Seq(S)
    BY <1>1 DEF MachineType
  <2>. QED  BY <2>1 DEF Depth
<1>. QED  BY <1>1, <1>2, <1>3

(* An instruction leaves the m outermost calls alone unless it returns     *)
(* from one of them.                                                       *)
LEMMA OthersStay ==
  ASSUME MachineType, NEW m \in 1 .. Depth, Stays \/ Calls \/ (Returns /\ m < Depth)
  PROVE  m <= Depth' /\ \A k \in 1 .. m : Pending(k)' = Pending(k)
<1>1. PICK S : calls \in Seq(S)
  BY DEF MachineType
<1>2. Depth \in Nat
  BY <1>1 DEF Depth
<1>3. CASE Stays
  <2>1. Depth' = Depth /\ \A k \in 1 .. m : Pending(k)' = Pending(k)
    BY <1>3 DEF Stays, Depth, Pending
  <2>. QED  BY <1>2, <2>1
<1>4. CASE Calls
  BY <1>2, <1>4 DEF Calls
<1>5. CASE Returns /\ m < Depth
  BY <1>2, <1>5 DEF Returns
<1>. QED  BY <1>3, <1>4, <1>5

(* What the debugger looks up depends on the machine alone.                *)
LEMMA Looks ==
  ASSUME UNCHANGED machine
  PROVE  /\ pc' = pc /\ Depth' = Depth /\ calls' = calls /\ regs' = regs
         /\ \A k : Pending(k)' = Pending(k)
         /\ SourceLocationAtPC' = SourceLocationAtPC
         /\ Code[pc].op' = Code[pc].op
<1>1. pc' = pc /\ calls' = calls /\ regs' = regs
  BY DEF machine, pc
<1>2. SourceLocationAtPC' = SourceLocationAtPC
  BY <1>1 DEF SourceLocationAtPC, ELFContainingPC, LineIn
<1>. QED  BY <1>1, <1>2 DEF Depth, Pending

-----------------------------------------------------------------------------
(* Types                                                                   *)

TypeInv == MachineType /\ HistoryType

Quiet ==
  \/ \E c \in {"in", "over"} : StepCommand(c)
  \/ StepOutInlined \/ StepOut \/ StepOutFails
  \/ StepOverCall \/ SameLine \/ SkipPrologue \/ Arrives
  \/ Interrupt \/ RunEnds \/ Exit

LEMMA QuietKeeps ==
  ASSUME Quiet
  PROVE  UNCHANGED machine
BY DEF Quiet, StepCommand, StepOutInlined, StepOut, StepOutFails, StepOverCall, SameLine,
       SkipPrologue, Arrives, Interrupt, RunEnds, Exit

LEMMA DepthNat ==
  ASSUME MachineType
  PROVE  Depth \in Nat /\ Len(calls) \in Nat
<1>1. PICK S : calls \in Seq(S)
  BY DEF MachineType
<1>. QED  BY <1>1 DEF Depth

LEMMA BeginsType ==
  ASSUME MachineType, Begins
  PROVE  HistoryType'
<1>1. Len(calls) \in Nat
  BY DepthNat
<1>2. origin'.calls = calls /\ floor' = Len(calls) /\ cut' = FALSE
  BY DEF Begins
<1>. QED  BY <1>1, <1>2 DEF HistoryType, MachineType

LEMMA FloorFalls ==
  ASSUME TypeInv, ObeysConvention, Executed
  PROVE  /\ floor' \in Nat
         /\ floor' = IF floor <= Depth' THEN floor ELSE Depth'
<1>1. Len(calls') \in Nat
  BY MachineStep DEF Executed, TypeInv, Depth
<1>2. floor \in Nat /\ floor' = Min({floor, Len(calls')})
  BY DEF TypeInv, HistoryType, Executed
<1>3. floor' = IF floor <= Len(calls') THEN floor ELSE Len(calls')
  BY <1>1, <1>2, TwoMin
<1>. QED  BY <1>1, <1>2, <1>3 DEF Depth

LEMMA TypeStep ==
  ASSUME TypeInv, ObeysConvention, [Next]_vars
  PROVE  TypeInv'
<1>1. CASE StepInstruction
  BY <1>1, MachineStep, BeginsType DEF StepInstruction, TypeInv
<1>2. CASE StepOnce \/ Run
  <2>1. Executed
    BY <1>2 DEF StepOnce, Run
  <2>2. MachineType' /\ floor' \in Nat
    BY <2>1, MachineStep, FloorFalls DEF Executed, TypeInv
  <2>3. origin' = origin /\ cut' = cut
    BY <2>1 DEF Executed
  <2>. QED  BY <2>2, <2>3 DEF TypeInv, HistoryType
<1>3. CASE Quiet
  <2>1. MachineType'
    BY <1>3, QuietKeeps DEF machine, MachineType, TypeInv
  <2>2. CASE Begins
    BY <2>1, <2>2, BeginsType DEF TypeInv
  <2>3. CASE ~Begins
    <3>1. StepOverCall \/ SameLine \/ SkipPrologue \/ Arrives \/ Interrupt \/ RunEnds \/ Exit
      BY <1>3, <2>3 DEF Quiet, StepCommand, StepOutInlined, StepOut, StepOutFails
    <3>2. origin' = origin /\ floor' = floor
      BY <3>1 DEF StepOverCall, SameLine, SkipPrologue, Arrives, Interrupt, RunEnds, Exit, history
    <3>3. cut' \in BOOLEAN
      BY <3>1, Zenon DEF StepOverCall, SameLine, SkipPrologue, Arrives, Interrupt, RunEnds, Exit,
         history, TypeInv, HistoryType
    <3>. QED  BY <2>1, <3>2, <3>3 DEF TypeInv, HistoryType
  <2>. QED  BY <2>2, <2>3
<1>4. CASE UNCHANGED vars
  BY <1>4 DEF vars, machine, history, TypeInv, MachineType, HistoryType
<1>. QED  BY <1>1, <1>2, <1>3, <1>4 DEF Next, Quiet

LEMMA TypeInit ==
  ASSUME Init
  PROVE  TypeInv
<1>1. calls = <<>> /\ origin.calls = <<>> /\ floor \in Nat
  BY DEF Init, MachineInit
<1>2. calls \in Seq({}) /\ origin.calls \in Seq({})
  BY <1>1
<1>3. cut \in BOOLEAN
  BY DEF Init
<1>4. regs = [r \in Reg |-> regs[r]]
  BY DEF Init, MachineInit, Reg
<1>. QED  BY <1>1, <1>2, <1>3, <1>4 DEF TypeInv, MachineType, HistoryType

-----------------------------------------------------------------------------
(* next misses no line.                                                    *)

(* Once the call is made, the run goes on inside it until the call has     *)
(* returned, and that return reaches the temporary site.                   *)
LEMMA RunOver ==
  ASSUME TypeInv, ObeysConvention, Executed, UNCHANGED target, floor <= Depth,
         AtCall \/ \E k \in 1 .. Depth : Inside(k) /\ floor < k
  PROVE  (\E k \in 1 .. Depth' : Inside(k)' /\ floor' < k) \/ pc' = target
<1>. USE DEF TypeInv
<1>1. MachineType /\ ExecuteOne /\ floor \in Nat
  BY DEF Executed, HistoryType
<1>2. /\ Depth \in Nat /\ Depth' \in Nat
      /\ (Stays /\ ~IsCallAt(Code[pc].op)) \/ Calls \/ (Returns /\ ~IsCallAt(Code[pc].op))
  BY <1>1, MachineStep
<1>3. floor' = IF floor <= Depth' THEN floor ELSE Depth'
  BY FloorFalls
<1>4. CASE AtCall
  <2>1. Calls /\ target = pc + 1
    BY <1>2, <1>4 DEF AtCall
  <2>2. Depth' \in 1 .. Depth' /\ floor' < Depth' /\ Pending(Depth)'.rip = target'
    BY <1>1, <1>2, <1>3, <2>1 DEF Calls
  <2>3. Inside(Depth)'
    BY <2>2 DEF Inside
  <2>. QED  BY <2>2, <2>3 DEF Inside
<1>5. ASSUME NEW k \in 1 .. Depth, Inside(k), floor < k
      PROVE  (\E j \in 1 .. Depth' : Inside(j)' /\ floor' < j) \/ pc' = target
  <2>1. CASE Stays \/ Calls \/ (Returns /\ k < Depth)
    <3>1. k \in 1 .. Depth' /\ Pending(k)' = Pending(k)
      BY <1>1, <1>2, <2>1, OthersStay
    <3>2. floor' = floor
      BY <1>1, <1>2, <1>3, <1>5, <3>1
    <3>3. Inside(k)'
      BY <1>5, <3>1 DEF Inside
    <3>. QED  BY <1>5, <3>1, <3>2, <3>3
  <2>2. CASE Returns /\ k = Depth
    BY <1>5, <2>2 DEF Returns, Inside, pc
  <2>. QED  BY <1>2, <2>1, <2>2
<1>. QED  BY <1>4, <1>5

LEMMA OverStep ==
  ASSUME TypeInv, ObeysConvention, OverInv, [Next]_vars
  PROVE  OverInv'
<1>. USE DEF TypeInv
<1>1. Depth \in Nat /\ floor \in Nat /\ TypeInv'
  BY DepthNat, TypeStep DEF HistoryType
<1>2. CASE StepInstruction
  <2>1. phase' = "prompt" /\ cmd' = "stepi"
    BY <1>2 DEF StepInstruction, Begins
  <2>. QED  BY <2>1 DEF OverInv
<1>3. CASE StepOnce
  <2>1. phase' = "check"
    BY <1>3 DEF StepOnce
  <2>2. floor' <= Depth'
    BY <1>1, <1>3, FloorFalls, DepthNat DEF StepOnce, HistoryType
  <2>. QED  BY <2>1, <2>2 DEF OverInv
<1>4. CASE Run
  <2>1. /\ Executed /\ phase = "run" /\ target' = target /\ temp' = temp /\ sites' = sites
        /\ cmd' = cmd /\ phase' \in {"run", "stopped"}
        /\ phase' = "run" => pc' \notin Traps
    BY <1>4 DEF Run, pc
  <2>2. floor' <= Depth' /\ floor <= Depth /\ target \in Traps /\ Traps' = Traps
    BY <1>1, <2>1, FloorFalls, MachineStep DEF Executed, OverInv, Traps
  <2>3. cmd' = "over" /\ phase' = "run" =>
          \E k \in 1 .. Depth' : Inside(k)' /\ floor' < k
    BY <2>1, <2>2, RunOver DEF OverInv
  <2>. QED  BY <2>1, <2>2, <2>3 DEF OverInv
<1>5. CASE Quiet
  <2>1. /\ pc' = pc /\ Depth' = Depth /\ \A k : Pending(k)' = Pending(k)
        /\ SourceLocationAtPC' = SourceLocationAtPC /\ Code[pc].op' = Code[pc].op
    BY <1>5, QuietKeeps, Looks
  <2>2. CASE (\E c \in {"in", "over"} : StepCommand(c)) \/ StepOutInlined \/ StepOut \/ StepOutFails
    <3>1. floor' = Depth /\ phase = "prompt" /\ sites' = sites
      BY <2>2 DEF StepCommand, StepOutInlined, StepOut, StepOutFails, Begins, Depth
    <3>2. CASE \E c \in {"in", "over"} : StepCommand(c)
      <4>1. phase' = "step" /\ start' = SourceLocationAtPC
        BY <3>2 DEF StepCommand
      <4>. QED  BY <1>1, <2>1, <3>1, <4>1 DEF OverInv, NewLine
    <3>3. CASE StepOutInlined \/ StepOut \/ StepOutFails
      <4>1. /\ cmd' = "out" /\ phase' \in {"prompt", "run"}
            /\ phase' = "run" => target' \in Traps'
        BY <3>1, <3>3 DEF StepOutInlined, StepOut, StepOutFails, RunUntilAddress, Traps
      <4>. QED  BY <1>1, <2>1, <3>1, <4>1 DEF OverInv
    <3>. QED  BY <2>2, <3>2, <3>3
  <2>3. CASE StepOverCall
    <3>1. /\ phase = "step" /\ IsCallAt(Code[pc].op) /\ start' = start /\ floor' = floor
          /\ cmd = "over" /\ phase' \in {"prompt", "run"}
          /\ phase' = "run" => target' = pc + 1 /\ target' \in Traps'
      BY <2>3 DEF StepOverCall, RunUntilAddress, Traps, history
    <3>2. phase' = "run" => AtCall'
      BY <2>1, <3>1 DEF AtCall, OverInv, NewLine
    <3>. QED  BY <2>1, <3>1, <3>2 DEF OverInv
  <2>4. CASE SameLine
    BY <2>1, <2>4 DEF SameLine, OverInv, NewLine, history
  <2>5. CASE SkipPrologue
    <3>1. /\ phase = "check" /\ cmd' = "skip" /\ floor' = floor /\ phase' \in {"prompt", "run"}
          /\ phase' = "run" => target' \in Traps'
      BY <2>5 DEF SkipPrologue, RunUntilAddress, Traps
    <3>. QED  BY <2>1, <3>1 DEF OverInv
  <2>6. CASE Arrives
    BY <2>6 DEF Arrives, OverInv
  <2>7. CASE Interrupt
    BY <2>1, <2>7 DEF Interrupt, OverInv, history
  <2>8. CASE RunEnds
    BY <2>1, <2>8 DEF RunEnds, OverInv
  <2>9. CASE Exit
    BY <2>9 DEF Exit, OverInv
  <2>. QED  BY <1>5, <2>2, <2>3, <2>4, <2>5, <2>6, <2>7, <2>8, <2>9 DEF Quiet
<1>6. CASE UNCHANGED vars
  <2>1. /\ pc' = pc /\ Depth' = Depth /\ \A k : Pending(k)' = Pending(k)
        /\ SourceLocationAtPC' = SourceLocationAtPC /\ Code[pc].op' = Code[pc].op
    BY <1>6, Looks DEF vars
  <2>2. UNCHANGED <<phase, cmd, start, target, temp, sites, floor>>
    BY <1>6 DEF vars, control, history
  <2>. QED  BY <2>1, <2>2 DEF OverInv, AtCall, Inside, NewLine, Traps
<1>. QED  BY <1>2, <1>3, <1>4, <1>5, <1>6 DEF Next, Quiet

LEMMA OverInit ==
  ASSUME Init
  PROVE  OverInv
BY DEF Init, OverInv

(* next never goes past another line of the frame or of its callers        *)
(* (StepOver): whatever the program, its tables and the user's sites, when *)
(* its returns go back to their callers.                                   *)
THEOREM NextMisses == Spec /\ []ObeysConvention => []NextMissesNoLine
<1>1. Init => TypeInv /\ OverInv
  BY TypeInit, OverInit
<1>2. TypeInv /\ OverInv /\ ObeysConvention /\ [Next]_vars => TypeInv' /\ OverInv'
  BY TypeStep, OverStep
<1>3. TypeInv /\ OverInv => NextMissesNoLine
  <2>. SUFFICES ASSUME TypeInv, OverInv, cmd = "over", phase \in {"step", "run"}, InFrame, NewLine
                PROVE  FALSE
    BY DEF NextMissesNoLine
  <2>1. Depth \in Nat /\ floor = Depth
    BY DepthNat DEF TypeInv, InFrame, Depth
  <2>. QED  BY <2>1 DEF OverInv, AtCall
<1>. QED  BY <1>1, <1>2, <1>3, PTL DEF Spec

-----------------------------------------------------------------------------
(* next ends in no function the line called.                               *)

(* The return address of a pending call is not executed.                   *)
LEMMA NotThere ==
  ASSUME MachineType', NotReentered', NEW k \in 1 .. Depth'
  PROVE  pc' # Pending(k)'.rip
<1>1. PICK S : calls' \in Seq(S)
  BY DEF MachineType
<1>2. Len(calls') - k + 1 \in DOMAIN calls'
  BY <1>1 DEF Depth
<1>. QED  BY <1>2 DEF NotReentered, Pending

LEMMA RunStays ==
  ASSUME TypeInv, ObeysConvention, NotReentered', Executed, UNCHANGED target,
         (AtCall /\ InFrame) \/ Inside(floor + 1)
  PROVE  (Inside(floor + 1)' /\ pc' # target) \/ (InFrame' /\ pc' = target)
<1>. USE DEF TypeInv
<1>1. MachineType /\ ExecuteOne /\ floor \in Nat
  BY DEF Executed, HistoryType
<1>2. /\ MachineType' /\ Depth \in Nat /\ Depth' \in Nat
      /\ (Stays /\ ~IsCallAt(Code[pc].op)) \/ Calls \/ (Returns /\ ~IsCallAt(Code[pc].op))
  BY <1>1, MachineStep
<1>3. floor' = IF floor <= Depth' THEN floor ELSE Depth'
  BY FloorFalls
<1>4. CASE AtCall /\ InFrame
  <2>1. Calls /\ target = pc + 1 /\ floor = Depth
    BY <1>2, <1>4 DEF AtCall, InFrame, Depth
  <2>2. /\ Depth' = floor' + 1 /\ Depth' \in 1 .. Depth'
        /\ Pending(Depth)'.rip = target'
    BY <1>1, <1>2, <1>3, <2>1 DEF Calls
  <2>3. pc' # target
    BY <1>2, <2>2, NotThere
  <2>4. Inside(floor + 1)'
    BY <2>2 DEF Inside
  <2>. QED  BY <2>3, <2>4
<1>5. ASSUME NEW k \in 1 .. Depth, k = floor + 1, Pending(k).rip = target
      PROVE  (Inside(floor + 1)' /\ pc' # target) \/ (InFrame' /\ pc' = target)
  <2>1. CASE Stays \/ Calls \/ (Returns /\ k < Depth)
    <3>1. k \in 1 .. Depth' /\ Pending(k)' = Pending(k)
      BY <1>1, <1>2, <2>1, OthersStay
    <3>2. floor' + 1 = k
      <4>1. floor <= Depth'
        BY <1>1, <1>2, <1>5, <3>1
      <4>. QED  BY <1>3, <1>5, <4>1
    <3>3. pc' # target
      BY <1>2, <1>5, <3>1, NotThere
    <3>4. Inside(floor + 1)'
      BY <1>5, <3>1, <3>2 DEF Inside
    <3>. QED  BY <3>3, <3>4
  <2>2. CASE Returns /\ k = Depth
    <3>1. pc' = target
      BY <1>5, <2>2 DEF Returns, pc
    <3>2. InFrame'
      <4>1. Depth' = floor
        BY <1>1, <1>2, <1>5, <2>2 DEF Returns
      <4>2. floor' = Depth'
        BY <1>1, <1>3, <4>1
      <4>. QED  BY <4>2 DEF InFrame, Depth
    <3>. QED  BY <3>1, <3>2
  <2>. QED  BY <1>2, <2>1, <2>2
<1>. QED  BY <1>4, <1>5 DEF Inside

LEMMA StaysStep ==
  ASSUME TypeInv, OverInv, ObeysConvention, NotReentered', StaysInv, [Next]_vars
  PROVE  StaysInv'
<1>. SUFFICES ASSUME cmd' = "over", ~cut'
              PROVE  /\ phase' \in {"step", "check"} => InFrame'
                     /\ phase' = "run" => (AtCall /\ InFrame)' \/ Inside(floor + 1)'
                     /\ phase' = "stopped" /\ pc' = target' /\ reason' = "break" => InFrame'
                     /\ phase' = "prompt" /\ reason' \in {"step", "break"} => InFrame'
  BY DEF StaysInv
<1>. USE DEF TypeInv
<1>1. Depth \in Nat /\ floor \in Nat /\ cut \in BOOLEAN
  BY DepthNat DEF HistoryType
<1>2. CASE StepInstruction
  BY <1>2 DEF StepInstruction
<1>3. CASE StepOnce
  <2>1. Executed /\ phase = "step" /\ cmd = "over" /\ ~IsCallAt(Code[pc].op) /\ phase' = "check"
    BY <1>3 DEF StepOnce
  <2>2. ~cut
    BY <2>1 DEF Executed
  <2>3. floor = Depth
    BY <2>1, <2>2 DEF StaysInv, InFrame, Depth
  <2>4. Depth' \in Nat /\ (Stays \/ Returns)
    BY <2>1, MachineStep DEF Executed, Calls
  <2>5. floor' = Depth'
    BY <1>1, <2>1, <2>3, <2>4, FloorFalls DEF Stays, Returns, Depth
  <2>. QED  BY <2>1, <2>5 DEF InFrame, Depth
<1>4. CASE Run
  <2>1. /\ Executed /\ phase = "run" /\ target' = target /\ cmd = "over"
        /\ phase' \in {"run", "stopped"}
        /\ phase' = "run" => pc' \notin Traps
    BY <1>4 DEF Run, pc
  <2>2. (AtCall /\ InFrame) \/ Inside(floor + 1)
    BY <2>1 DEF StaysInv, Executed
  <2>3. phase' = "run" => pc' # target
    BY <2>1 DEF OverInv
  <2>4. (Inside(floor + 1)' /\ pc' # target) \/ (InFrame' /\ pc' = target)
    BY <2>1, <2>2, RunStays
  <2>. QED  BY <2>1, <2>3, <2>4
<1>5. CASE Quiet
  <2>1. /\ pc' = pc /\ Depth' = Depth /\ \A k : Pending(k)' = Pending(k)
        /\ SourceLocationAtPC' = SourceLocationAtPC /\ Code[pc].op' = Code[pc].op
    BY <1>5, QuietKeeps, Looks
  <2>2. CASE \E c \in {"in", "over"} : StepCommand(c)
    BY <2>1, <2>2 DEF StepCommand, Begins, InFrame, Depth
  <2>3. CASE StepOutInlined \/ StepOut \/ StepOutFails \/ SkipPrologue
    BY <2>3 DEF StepOutInlined, StepOut, StepOutFails, SkipPrologue, RunUntilAddress
  <2>4. CASE StepOverCall
    <3>1. /\ phase = "step" /\ IsCallAt(Code[pc].op) /\ start' = start /\ floor' = floor
          /\ cmd = "over" /\ cut' = cut
          /\ \/ phase' = "prompt" /\ reason' = "error"
             \/ phase' = "run" /\ target' = pc + 1
      BY <2>4 DEF StepOverCall, RunUntilAddress, history
    <3>. QED  BY <2>1, <3>1 DEF StaysInv, OverInv, AtCall, NewLine, InFrame, Depth
  <2>5. CASE SameLine \/ Arrives
    <3>1. phase = "check" /\ cmd = "over" /\ ~cut /\ floor' = floor /\ phase' \in {"step", "prompt"}
      BY <2>5 DEF SameLine, Arrives, history
    <3>. QED  BY <2>1, <3>1 DEF StaysInv, InFrame, Depth
  <2>6. CASE Interrupt
    BY <2>6 DEF Interrupt
  <2>7. CASE RunEnds
    <3>1. ~cut /\ pc = target /\ reason = "break"
      BY <1>1, <2>7, Zenon DEF RunEnds
    <3>2. phase = "stopped" /\ cmd = "over" /\ floor' = floor /\ phase' = "check"
      BY <2>7 DEF RunEnds
    <3>. QED  BY <2>1, <3>1, <3>2 DEF StaysInv, InFrame, Depth
  <2>8. CASE Exit
    BY <2>8 DEF Exit
  <2>. QED  BY <1>5, <2>2, <2>3, <2>4, <2>5, <2>6, <2>7, <2>8 DEF Quiet
<1>6. CASE UNCHANGED vars
  <2>1. /\ pc' = pc /\ Depth' = Depth /\ \A k : Pending(k)' = Pending(k)
        /\ SourceLocationAtPC' = SourceLocationAtPC /\ Code[pc].op' = Code[pc].op
    BY <1>6, Looks DEF vars
  <2>2. UNCHANGED <<phase, cmd, start, target, reason, cut, floor>>
    BY <1>6 DEF vars, control, history
  <2>. QED  BY <2>1, <2>2 DEF StaysInv, AtCall, Inside, NewLine, InFrame, Depth
<1>. QED  BY <1>2, <1>3, <1>4, <1>5, <1>6 DEF Next, Quiet

LEMMA StaysInit ==
  ASSUME Init
  PROVE  StaysInv
BY DEF Init, StaysInv

(* next ends in the frame it began in or in a caller of it, never in a     *)
(* function the line called (StepOver): whatever the program, its tables   *)
(* and the user's sites, when its returns go back to their callers and no  *)
(* return address is reached before its call has returned.                 *)
THEOREM NextStays ==
  Spec /\ []ObeysConvention /\ []NotReentered => []NextStaysInFrame
<1>1. Init => TypeInv /\ OverInv /\ StaysInv
  BY TypeInit, OverInit, StaysInit
<1>2. TypeInv /\ OverInv /\ StaysInv /\ ObeysConvention /\ NotReentered' /\ [Next]_vars
      => TypeInv' /\ OverInv' /\ StaysInv'
  BY TypeStep, OverStep, StaysStep
<1>3. StaysInv => NextStaysInFrame
  BY DEF StaysInv, NextStaysInFrame, Finished
<1>. QED  BY <1>1, <1>2, <1>3, PTL DEF Spec

-----------------------------------------------------------------------------
(* finish ends in the caller.                                              *)

(* Sequences that agree counted from the end are equal.                    *)
LEMMA SameCalls ==
  ASSUME NEW S, NEW T, NEW c \in Seq(S), NEW d \in Seq(T), Len(c) = Len(d),
         \A k \in 1 .. Len(c) : c[Len(c) - k + 1] = d[Len(d) - k + 1]
  PROVE  c = d
<1>. DEFINE U == S \cup T
<1>1. c \in Seq(U) /\ d \in Seq(U)
  OBVIOUS
<1>2. \A i \in 1 .. Len(c) : c[i] = d[i]
  <2>. SUFFICES ASSUME NEW i \in 1 .. Len(c)
                PROVE  c[i] = d[i]
    OBVIOUS
  <2>1. Len(c) - i + 1 \in 1 .. Len(c) /\ Len(c) - (Len(c) - i + 1) + 1 = i
    OBVIOUS
  <2>. QED  BY <2>1
<1>. HIDE DEF U
<1>. QED  BY <1>1, <1>2, SeqEqual

(* The frame the command began in stays pending until the instruction that *)
(* returns from it, and that one reaches the return address.               *)
LEMMA RunOut ==
  ASSUME TypeInv, ObeysConvention, NotReentered', Executed, UNCHANGED target,
         Leaving, origin.calls # <<>>
  PROVE  (Leaving' /\ pc' # target) \/ (Returned' /\ pc' = target)
<1>. USE DEF TypeInv
<1>1. MachineType /\ ExecuteOne /\ origin' = origin
  BY DEF Executed
<1>2. /\ MachineType' /\ Depth \in Nat /\ Depth' \in Nat
      /\ Stays \/ Calls \/ Returns
  BY <1>1, MachineStep
<1>3. PICK T : origin.calls \in Seq(T)
  BY DEF HistoryType
<1>. DEFINE m == Len(origin.calls)
<1>4. m \in Nat \ {0} /\ m <= Depth /\ Began(m) = origin.calls[1]
  BY <1>3 DEF Leaving, Began
<1>5. target = Began(m).rip /\ \A k \in 1 .. m : Pending(k) = Began(k) /\ Began(k)' = Began(k)
  BY <1>1, <1>4 DEF Leaving, Began
<1>6. CASE Stays \/ Calls \/ (Returns /\ m < Depth)
  <2>. HIDE DEF m
  <2>1. m <= Depth' /\ \A k \in 1 .. m : Pending(k)' = Pending(k)
    <3>1. m \in 1 .. Depth
      BY <1>2, <1>4
    <3>. QED  BY <1>1, <1>6, <3>1, OthersStay
  <2>2. Leaving'
    BY <1>1, <1>4, <1>5, <2>1 DEF Leaving, m
  <2>3. pc' # target
    <3>1. \A k \in 1 .. Depth' : pc' # Pending(k)'.rip
      BY <1>2, NotThere
    <3>2. m \in 1 .. m /\ m \in 1 .. Depth'
      BY <1>2, <1>4, <2>1
    <3>. QED  BY <1>5, <2>1, <3>1, <3>2
  <2>. QED  BY <2>2, <2>3
<1>7. CASE Returns /\ m = Depth
  <2>1. PICK S : calls \in Seq(S)
    BY <1>1 DEF MachineType
  <2>2. calls = origin.calls
    BY <1>3, <1>5, <1>7, <2>1, SameCalls DEF Depth, Pending, Began
  <2>3. Pending(Depth) = origin.calls[1]
    BY <1>2, <2>2 DEF Pending, Depth
  <2>4. Returned'
    BY <1>1, <1>7, <2>2, <2>3 DEF Returned, Returns
  <2>5. pc' = target
    BY <1>7, <2>3 DEF Returns, pc, Leaving
  <2>. QED  BY <2>4, <2>5
<1>. QED  BY <1>2, <1>4, <1>6, <1>7

LEMMA OutStep ==
  ASSUME TypeInv, OverInv, OutInv, ObeysConvention, NotReentered', UnwindsToCaller, [Next]_vars
  PROVE  OutInv'
<1>. USE DEF TypeInv
<1>1. Depth \in Nat /\ cut \in BOOLEAN
  BY DepthNat DEF HistoryType
<1>2. CASE StepInstruction \/ (\E c \in {"in", "over"} : StepCommand(c))
  <2>1. cmd' # "out"
    BY <1>2 DEF StepInstruction, StepCommand
  <2>. QED  BY <2>1 DEF OutInv
<1>3. CASE StepOnce \/ StepOverCall \/ SameLine \/ SkipPrologue \/ Arrives
  <2>1. phase \in {"step", "check"} /\ (cmd' = cmd \/ cmd' \in {"over", "skip"})
    BY <1>3 DEF StepOnce, StepOverCall, SameLine, SkipPrologue, Arrives, RunUntilAddress
  <2>. QED  BY <2>1 DEF OutInv
<1>4. CASE Run
  <2>1. /\ Executed /\ phase = "run" /\ target' = target /\ cmd' = cmd
        /\ phase' \in {"run", "stopped"}
        /\ phase' = "run" => pc' \notin Traps
    BY <1>4 DEF Run, pc
  <2>2. Uncalled' => Uncalled
    BY <2>1 DEF Executed, Uncalled
  <2>3. phase' = "run" => pc' # target
    BY <2>1 DEF OverInv
  <2>4. cmd = "out" /\ Uncalled => (Leaving' /\ pc' # target) \/ (Returned' /\ pc' = target)
    BY <2>1, RunOut DEF OutInv, Uncalled
  <2>. QED  BY <2>1, <2>2, <2>3, <2>4 DEF OutInv
<1>5. CASE StepOut
  <2>1. /\ origin' = [calls |-> calls, inlined |-> InlineStack # <<>>,
                      cfi |-> FDEForPC(ELFContainingPC, pc) # {}]
        /\ cmd' = "out" /\ phase' \in {"prompt", "run"}
        /\ phase' = "prompt" => reason' = "error"
        /\ phase' = "run" => target' \in ReturnAddress
    BY <1>5 DEF StepOut, Begins, RunUntilAddress
  <2>2. pc' = pc /\ Depth' = Depth /\ calls' = calls /\ \A k : Pending(k)' = Pending(k)
    BY <1>5, QuietKeeps, Looks DEF Quiet
  <2>3. origin'.calls = calls /\ (Uncalled' => calls # <<>> /\ FDEForPC(ELFContainingPC, pc) # {})
    BY <2>1 DEF Uncalled
  <2>4. Uncalled' /\ phase' = "run" => target' = calls[1].rip
    BY <2>1, <2>3 DEF UnwindsToCaller
  <2>5. Len(origin'.calls) <= Depth' /\ \A k \in 1 .. Len(origin'.calls) : Pending(k)' = Began(k)'
    BY <1>1, <2>2, <2>3 DEF Depth, Pending, Began
  <2>6. Uncalled' /\ phase' = "run" => Leaving'
    BY <2>3, <2>4, <2>5 DEF Leaving
  <2>. QED  BY <2>1, <2>6 DEF OutInv
<1>6. CASE StepOutInlined
  <2>1. /\ origin' = [calls |-> calls, inlined |-> InlineStack # <<>>,
                      cfi |-> FDEForPC(ELFContainingPC, pc) # {}]
        /\ InlineStack # <<>> /\ phase' \in {"prompt", "run"}
    BY <1>6 DEF StepOutInlined, Begins, RunUntilAddress
  <2>2. ~Uncalled'
    BY <2>1 DEF Uncalled
  <2>. QED  BY <2>1, <2>2 DEF OutInv
<1>7. CASE StepOutFails
  BY <1>7 DEF StepOutFails, Begins, OutInv
<1>8. CASE Interrupt
  BY <1>8 DEF Interrupt, OutInv
<1>9. CASE RunEnds
  <2>1. /\ phase = "stopped" /\ cmd' = cmd /\ phase' = IF cmd = "over" THEN "check" ELSE "prompt"
        /\ UNCHANGED <<machine, target, origin>>
    BY <1>9 DEF RunEnds
  <2>2. ~cut' => pc = target /\ reason = "break"
    BY <1>1, <1>9, Zenon DEF RunEnds
  <2>3. (Uncalled' => Uncalled) /\ (Returned => Returned')
    BY <2>1 DEF Uncalled, Returned, machine
  <2>. QED  BY <2>1, <2>2, <2>3 DEF OutInv
<1>10. CASE Exit
  BY <1>10 DEF Exit, OutInv
<1>11. CASE UNCHANGED vars
  <2>1. UNCHANGED <<machine, phase, cmd, target, reason, origin, cut>>
    BY <1>11 DEF vars, control, history
  <2>2. (Uncalled' => Uncalled) /\ (Returned => Returned') /\ (Leaving => Leaving') /\ pc' = pc
    BY <2>1 DEF Uncalled, Returned, Leaving, Depth, Pending, Began, machine, pc
  <2>. QED  BY <2>1, <2>2 DEF OutInv
<1>. QED  BY <1>2, <1>3, <1>4, <1>5, <1>6, <1>7, <1>8, <1>9, <1>10, <1>11 DEF Next

LEMMA OutInit ==
  ASSUME Init
  PROVE  OutInv
BY DEF Init, OutInv

(* finish ends in the caller with the registers the caller gets back       *)
(* (StepOut): whatever the program and the user's sites, when its returns  *)
(* go back to their callers, no return address is reached before its call  *)
(* has returned, and the frame information leads to the return address.    *)
THEOREM FinishReturnsToCaller ==
  Spec /\ []ObeysConvention /\ []NotReentered /\ []UnwindsToCaller => []FinishReturns
<1>1. Init => TypeInv /\ OverInv /\ OutInv
  BY TypeInit, OverInit, OutInit
<1>2. TypeInv /\ OverInv /\ OutInv /\ ObeysConvention /\ NotReentered' /\ UnwindsToCaller /\ [Next]_vars
      => TypeInv' /\ OverInv' /\ OutInv'
  BY TypeStep, OverStep, OutStep
<1>3. OutInv => FinishReturns
  BY DEF OutInv, FinishReturns, Finished, Uncalled, Returned
<1>. QED  BY <1>1, <1>2, <1>3, PTL DEF Spec
=============================================================================
