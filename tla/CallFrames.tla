----------------------------- MODULE CallFrames -----------------------------
(***************************************************************************)
(* Call frame information: FDE lookup (cfi.go), the interpreter of call    *)
(* frame instructions and the register rules (unwind.go), and the DWARF    *)
(* lookups by address (dwarf.go), over a small machine that runs a program *)
(* whose functions move rsp and rbp the way compiled code does.  A history *)
(* variable remembers what every caller had in its registers.              *)
(*                                                                         *)
(* Addresses and stack slots are counted in units of 1, so the data        *)
(* alignment factor is -1.                                                 *)
(***************************************************************************)
EXTENDS Integers, Sequences, FiniteSetsExt, SequencesExt

CONSTANTS
  Code,      \* address -> instruction of the program
  Starts,    \* where a thread starts
  StackTop,  \* the stack is 1..StackTop
  MaxDepth,  \* bound on nested calls
  Image,     \* file name -> what the debugger reads from that ELF file
  MainELF,
  None

ASSUME FramesAssumption ==
  /\ Starts \subseteq DOMAIN Code /\ MainELF \in DOMAIN Image
  /\ StackTop \in Nat \ {0} /\ MaxDepth \in Nat
  /\ \A a \in DOMAIN Code :
       Code[a].op \in {"push", "pop", "add", "set", "mov", "jump", "call", "ret", "exit"}

Reg == {"rax", "rip", "rsp", "rbp"}

VARIABLES
  regs,   \* registers of the thread
  mem,    \* its stack
  calls   \* history: registers every caller gets back, deepest call first

machine == <<regs, mem, calls>>

MachineInit ==
  /\ \E a \in Starts : regs = [rax |-> 0, rip |-> a, rsp |-> StackTop, rbp |-> 0]
  /\ mem = [a \in 1 .. StackTop |-> 0]
  /\ calls = <<>>

-----------------------------------------------------------------------------
(* The program                                                             *)

Goto(a)    == [regs EXCEPT !.rip = a]
Moved(n)   == [regs EXCEPT !.rip = @ + 1, !.rsp = @ + n]
Store(a,v) == mem' = [mem EXCEPT ![a] = v]

Execute ==
  LET i == Code[regs.rip] IN
  CASE i.op = "push" -> /\ Store(regs.rsp - 1, regs[i.reg])
                        /\ regs' = Moved(-1) /\ UNCHANGED calls
    [] i.op = "pop"  -> /\ regs' = [Moved(1) EXCEPT ![i.reg] = mem[regs.rsp]]
                        /\ UNCHANGED <<mem, calls>>
    [] i.op = "add"  -> regs' = Moved(i.n) /\ UNCHANGED <<mem, calls>>
    [] i.op = "set"  -> /\ regs' = [Moved(0) EXCEPT ![i.reg] = i.n]
                        /\ UNCHANGED <<mem, calls>>
    [] i.op = "mov"  -> /\ regs' = [Moved(0) EXCEPT ![i.reg] = regs[i.from]]
                        /\ UNCHANGED <<mem, calls>>
    [] i.op = "jump" -> /\ \E a \in i.to : regs' = Goto(a)
                        /\ UNCHANGED <<mem, calls>>
    [] i.op = "call" -> /\ Len(calls) < MaxDepth
                        /\ Store(regs.rsp - 1, regs.rip + 1)
                        /\ regs' = [Goto(i.to) EXCEPT !.rsp = @ - 1]
                        /\ calls' = <<Goto(regs.rip + 1)>> \o calls
    [] i.op = "ret"  -> /\ regs' = [Goto(mem[regs.rsp]) EXCEPT !.rsp = @ + 1]
                        /\ calls' = Tail(calls) /\ UNCHANGED mem

-----------------------------------------------------------------------------
(* Lookups.  A table is a sequence sorted by the field lo; sort.Search and *)
(* the step back find its last entry at or below an address.               *)

LastStart(table, a) == Max({0} \cup {i \in DOMAIN table : table[i].lo <= a})

FileAddr(e, a) == a - Image[e].bias

ELFContainingAddress(a) ==
  LET hits == {e \in DOMAIN Image : FileAddr(e, a) \in Image[e].low .. Image[e].high - 1}
  IN  IF hits = {} THEN None ELSE CHOOSE e \in hits : TRUE

(* FunctionContainingPC, at a file address.                                *)
FunctionAt(e, a) ==
  LET table == Image[e].funcs
      i == LastStart(table, a)
  IN  IF i > 0 /\ a < table[i].hi THEN table[i] ELSE None

(* GetEntryByAddress: end-of-sequence entries are walked past.             *)
LineAt(e, a) ==
  LET table == Image[e].lines
      i == Max({0} \cup {j \in 1 .. LastStart(table, a) : ~table[j].end})
  IN  IF i > 0 THEN table[i] ELSE None

(* walkInlineChildren over a function's inlined calls in tree order; up is *)
(* the call an inlined call is nested in, 0 for the function itself.       *)
InlinedAt(f, a) ==
  LET in[i \in DOMAIN f.inlined] ==
        LET c == f.inlined[i]
        IN  a \in c.lo .. c.hi - 1 /\ (c.up = 0 \/ in[c.up])
  IN  SelectSeq(f.inlined, LAMBDA c : \E i \in DOMAIN f.inlined :
                                         f.inlined[i] = c /\ in[i])

-----------------------------------------------------------------------------
(* Call frame information: entries of .eh_frame at their offsets.  The     *)
(* pointer of an FDE counts back from its own place to its CIE.            *)

LengthField == 4

Entries(e)     == ToSet(Image[e].ehFrame)
FDEs(e)        == {x \in Entries(e) : x.kind = "fde"}
CIEAt(e, off)  == {x \in Entries(e) : x.kind = "cie" /\ x.off = off}
ContainsPC(f, a) == a \in f.lo .. f.lo + f.len - 1

(* parseFDE with the CIE at the offset found: at most one FDE.             *)
ParseFDE(e, x, cieOffset) ==
  {[lo |-> x.lo, len |-> x.len, program |-> x.program, initial |-> c.program] :
     c \in CIEAt(e, cieOffset)}

ParseFDEAtOffset(e, off) ==
  UNION {ParseFDE(e, x, x.off + LengthField - x.ptr) :
           x \in {y \in FDEs(e) : y.off = off}}

BinarySearch(e, a) ==
  LET i == LastStart(Image[e].table, a)
  IN  IF i = 0 THEN {}
      ELSE {f \in ParseFDEAtOffset(e, Image[e].table[i].off) : ContainsPC(f, a)}

(* The scan adds the offset of the entry to a position that includes it.   *)
LinearScan(e, a) ==
  LET section == Image[e].ehFrame
      Parsed(x) == ParseFDE(e, x, x.off + (x.off + LengthField) - x.ptr)
      hits == {i \in DOMAIN section : /\ section[i].kind = "fde"
                                      /\ \E f \in Parsed(section[i]) : ContainsPC(f, a)}
  IN  IF hits = {} THEN {} ELSE Parsed(section[Min(hits)])

FDEForPC(e, a) ==
  IF Image[e].table # None THEN BinarySearch(e, FileAddr(e, a))
                           ELSE LinearScan(e, FileAddr(e, a))

-----------------------------------------------------------------------------
(* executeCFIInstruction.  A register with no rule is left alone, as one   *)
(* with the rule "undefined" is.                                           *)

Undefined  == [kind |-> "undefined"]
EmptyRules == [r \in Reg |-> Undefined]
Fresh      == [loc |-> 0, cfa |-> [kind |-> "reg", reg |-> "rax", n |-> 0],
               rules |-> EmptyRules, initial |-> EmptyRules, stack |-> <<>>, ok |-> TRUE]

WithRule(c, r, rule) == [c EXCEPT !.rules[r] = rule]

ExecLocation(c, i) ==
  CASE i.op = "advance_loc" -> [c EXCEPT !.loc = @ + i.n]
    [] i.op = "set_loc"     -> [c EXCEPT !.loc = i.n]
    [] i.op = "nop"         -> c

ExecCFA(c, i) ==
  CASE i.op = "def_cfa"            -> [c EXCEPT !.cfa = [kind |-> "reg", reg |-> i.reg, n |-> i.n]]
    [] i.op = "def_cfa_register"   -> [c EXCEPT !.cfa.reg = i.reg]
    [] i.op = "def_cfa_offset"     -> [c EXCEPT !.cfa.n = i.n]
    [] i.op = "def_cfa_expression" -> [c EXCEPT !.cfa = [kind |-> "expr", expr |-> i.expr]]

ExecRule(c, i) ==
  CASE i.op = "undefined"      -> WithRule(c, i.reg, Undefined)
    [] i.op = "same_value"     -> WithRule(c, i.reg, [kind |-> "same"])
    [] i.op = "offset"         -> WithRule(c, i.reg, [kind |-> "offset", n |-> -i.n])
    [] i.op = "val_offset"     -> WithRule(c, i.reg, [kind |-> "val_offset", n |-> -i.n])
    [] i.op = "register"       -> WithRule(c, i.reg, [kind |-> "register", reg |-> i.from])
    [] i.op = "expression"     -> WithRule(c, i.reg, [kind |-> "expression", expr |-> i.expr])
    [] i.op = "val_expression" -> WithRule(c, i.reg, [kind |-> "val_expression", expr |-> i.expr])
    [] i.op = "restore"        -> WithRule(c, i.reg, c.initial[i.reg])

ExecState(c, i) ==
  CASE i.op = "remember_state" ->
         [c EXCEPT !.stack = Append(@, [rules |-> c.rules, cfa |-> c.cfa])]
    [] i.op = "restore_state" /\ c.stack = <<>> -> [c EXCEPT !.ok = FALSE]
    [] i.op = "restore_state" /\ c.stack # <<>> ->
         [c EXCEPT !.rules = Last(c.stack).rules, !.cfa = Last(c.stack).cfa,
                   !.stack = Front(@)]

ExecuteCFIInstruction(c, i) ==
  CASE i.op \in {"advance_loc", "set_loc", "nop"}    -> ExecLocation(c, i)
    [] i.op \in {"def_cfa", "def_cfa_register", "def_cfa_offset",
                 "def_cfa_expression"}               -> ExecCFA(c, i)
    [] i.op \in {"remember_state", "restore_state"}  -> ExecState(c, i)
    [] OTHER                                         -> ExecRule(c, i)

RowOfCIE(f) == FoldLeft(LAMBDA c, i : IF c.ok THEN ExecuteCFIInstruction(c, i) ELSE c,
                        Fresh, f.initial)

FaultyRow(f, a) ==                        \* stops at the row's own address
  LET cie   == RowOfCIE(f)
      start == [cie EXCEPT !.initial = cie.rules, !.loc = f.lo]
  IN  FoldLeft(LAMBDA c, i : IF c.ok /\ c.loc < a THEN ExecuteCFIInstruction(c, i) ELSE c,
               start, f.program)

(* The row of the unwind table for a file address.                         *)
Row(f, a) ==
  LET cie   == RowOfCIE(f)
      start == [cie EXCEPT !.initial = cie.rules, !.loc = f.lo]
  IN  FoldLeft(LAMBDA c, i : IF c.ok /\ c.loc <= a THEN ExecuteCFIInstruction(c, i) ELSE c,
               start, f.program)

-----------------------------------------------------------------------------
(* executeUnwindRules                                                      *)

(* Eval on the expressions compilers put in frame information: a register  *)
(* or the CFA plus a constant, and for a procedure linkage stub one slot   *)
(* more from a given address on.                                           *)
Eval(x, old, cfa) ==
  (IF x.base = "cfa" THEN cfa ELSE old[x.base]) + x.n + (IF old.rip >= x.from THEN 1 ELSE 0)

CFA(row, old) ==
  IF row.cfa.kind = "expr" THEN Eval(row.cfa.expr, old, 0) ELSE old[row.cfa.reg] + row.cfa.n

(* The address a rule reads from the stack, if it reads one.               *)
ReadsFrom(rule, old, cfa) ==
  CASE rule.kind = "offset"     -> {cfa + rule.n}
    [] rule.kind = "expression" -> {Eval(rule.expr, old, cfa)}
    [] OTHER                    -> {}

Restored(r, rule, old, cfa) ==
  CASE rule.kind \in {"undefined", "same"}       -> IF r = "rsp" THEN cfa ELSE old[r]
    [] rule.kind \in {"offset", "expression"}    -> mem[CHOOSE a \in ReadsFrom(rule, old, cfa) : TRUE]
    [] rule.kind = "val_offset"                  -> cfa + rule.n
    [] rule.kind = "register"                    -> old[rule.reg]
    [] rule.kind = "val_expression"              -> Eval(rule.expr, old, cfa)

(* UnwindFrame: at most one result.                                        *)
UnwindFrame(e, a, old) ==
  {[regs |-> [r \in Reg |-> Restored(r, row.rules[r], old, CFA(row, old))], cfa |-> CFA(row, old)] :
     row \in {w \in {Row(f, FileAddr(e, a)) : f \in FDEForPC(e, a)} :
                /\ w.ok /\ (w.cfa.kind = "expr" \/ w.cfa.reg \in Reg)
                /\ \A r \in Reg : ReadsFrom(w.rules[r], old, CFA(w, old)) \subseteq 1 .. StackTop}}
=============================================================================
