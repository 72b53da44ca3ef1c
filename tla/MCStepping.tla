----------------------------- MODULE MCStepping -----------------------------
(* main calls through a linkage stub into a library without debug          *)
(* information from a call inlined twice, then twice on one line, in a     *)
(* loop; the library keeps something else than a frame pointer in rbp and  *)
(* calls cb and bare back; cb may call leaf, which has one line and no     *)
(* prologue; bare has no frame information and jumps to leaf.              *)
EXTENDS Stepping

Exe == 10  \* load bias of the program
Lib == 50  \* load bias of the library

At(base, is) == [a \in {base + k - 1 : k \in DOMAIN is} |-> is[a - base + 1]]

I(op)        == [op |-> op]
Push         == [op |-> "push", reg |-> "rbp"]
Pop          == [op |-> "pop", reg |-> "rbp"]
Add(n)       == [op |-> "add", n |-> n]
Mov(r, from) == [op |-> "mov", reg |-> r, from |-> from]
Jump(to)     == [op |-> "jump", to |-> to]
Call(to)     == [op |-> "call", to |-> to]

ExeCode == At(Exe, <<
  (*  0 stub   *) Jump({Exe + 1}), Add(-1), Jump({Lib}),
  (*  3 _start *) Call(Exe + 5), I("exit"),
  (*  5 main   *) Push, Mov("rbp", "rsp"), Call(Exe), Add(0),
  (*  9        *) Call(Exe + 15), Call(Exe + 23), Jump({Exe + 9, Exe + 12}),
  (* 12        *) Mov("rsp", "rbp"), Pop, I("ret"),
  (* 15 cb     *) Add(-1), Jump({Exe + 17, Exe + 18}), Call(Exe + 21), Add(1), I("ret"),
  (* 20 pad    *) I("exit"),
  (* 21 leaf   *) Add(0), I("ret"),
  (* 23 bare   *) Push, Mov("rbp", "rsp"), Pop, Jump({Exe + 21}) >>)

LibCode == At(Lib, <<
  (*  0 entry  *) Add(1),
  (*  1 f      *) Push, [op |-> "set", reg |-> "rbp", n |-> 30], Call(Exe + 15),
  (*  4        *) Call(Exe + 23), Pop, I("ret") >>)

Joined(f, g) == [a \in DOMAIN f \cup DOMAIN g |-> IF a \in DOMAIN f THEN f[a] ELSE g[a]]

MCCode == Joined(ExeCode, LibCode)

-----------------------------------------------------------------------------
Adv(n)       == [op |-> "advance_loc", n |-> n]
DefCFA(r, n) == [op |-> "def_cfa", reg |-> r, n |-> n]
DefOff(n)    == [op |-> "def_cfa_offset", n |-> n]
Off(r, n)    == [op |-> "offset", reg |-> r, n |-> n]
OfReg(op, r) == [op |-> op, reg |-> r]
FDE(off, lo, len, is) ==
  [kind |-> "fde", off |-> off, ptr |-> off + LengthField, lo |-> lo, len |-> len, program |-> is]
CIE0 == [kind |-> "cie", off |-> 0, program |-> <<DefCFA("rsp", 1), Off("rip", 1)>>]

ExeFrame == << CIE0,
  FDE(20, 0, 3, <<[op |-> "def_cfa_expression",
                   expr |-> [base |-> "rsp", n |-> 1, from |-> Exe + 2]]>>),
  FDE(40, 3, 2, <<OfReg("undefined", "rip")>>),
  FDE(60, 5, 10, <<Adv(1), DefOff(2), Off("rbp", 2), Adv(1), OfReg("def_cfa_register", "rbp"),
                   Adv(6), DefCFA("rsp", 2), Adv(1), DefOff(1), OfReg("restore", "rbp")>>),
  FDE(80, 15, 5, <<Adv(1), DefOff(2), Adv(3), DefOff(1)>>),
  FDE(100, 21, 2, <<[op |-> "nop"]>>) >>

LibFrame == << CIE0,
  FDE(20, 0, 1, <<DefOff(2)>>),
  FDE(40, 1, 6, <<Adv(1), DefOff(2), Off("rbp", 2), Adv(4), DefOff(1), OfReg("restore", "rbp")>>) >>

T(lo, off)  == [lo |-> lo, off |-> off]
L(lo, line) == [lo |-> lo, line |-> line, end |-> FALSE, prologueEnd |-> FALSE]
PE(lo, line) == [L(lo, line) EXCEPT !.prologueEnd = TRUE]
F(lo, hi, name, is) == [lo |-> lo, hi |-> hi, name |-> name, inlined |-> is]

MCFuncs == <<
  F(5, 15, "main", << [lo |-> 7, hi |-> 9, up |-> 0, name |-> "outer", callLine |-> 3],
                      [lo |-> 7, hi |-> 8, up |-> 1, name |-> "inner", callLine |-> 14] >>),
  F(15, 20, "cb", <<>>), F(21, 23, "leaf", <<>>), F(23, 27, "bare", <<>>) >>

MCLines == <<
  L(3, 1), L(5, 2), L(7, 4), L(8, 5), L(9, 6), L(11, 7), L(12, 8),
  L(15, 9), PE(16, 10), L(17, 11), L(18, 12), [L(20, 12) EXCEPT !.end = TRUE],
  L(21, 13), L(23, 14), PE(25, 15) >>

MCImage ==
  [exe |-> [bias |-> Exe, low |-> 0, high |-> 27, dwarf |-> TRUE, cfi |-> TRUE,
            funcs |-> MCFuncs, lines |-> MCLines, ehFrame |-> ExeFrame,
            table |-> << T(0, 20), T(3, 40), T(5, 60), T(15, 80), T(21, 100) >>],
   lib |-> [bias |-> Lib, low |-> 0, high |-> 7, dwarf |-> FALSE, cfi |-> TRUE,
            funcs |-> <<>>, lines |-> <<>>, ehFrame |-> LibFrame,
            table |-> << T(0, 20), T(1, 40) >>]]

(* No site; or one in cb and one where cb returns to main, with a disabled *)
(* one after the call of bare.                                             *)
MCSites == { [on |-> {}, off |-> {}], [on |-> {Exe + 17, Exe + 10}, off |-> {Exe + 11}] }

(* cb calls itself instead of leaf.                                        *)
MCRecursive == [MCCode EXCEPT ![Exe + 17] = Call(Exe + 15)]
=============================================================================
