------------------------------ MODULE MCUnwind ------------------------------
(* A position-independent program and a library without debug information. *)
(* _start calls main, main calls through a linkage stub into the library   *)
(* from a call inlined twice, the library calls cb back, cb calls itself,  *)
(* returns early, or ends in a call of die, which never returns.  A second *)
(* thread starts in the library with a null return address.                *)
EXTENDS Unwind

Exe == 10  \* load bias of the program
Lib == 40  \* load bias of the library

At(base, is) == [a \in {base + k - 1 : k \in DOMAIN is} |-> is[a - base + 1]]

I(op, line)         == [op |-> op, line |-> line]
Push(line)          == [op |-> "push", reg |-> "rbp", line |-> line]
Pop(line)           == [op |-> "pop", reg |-> "rbp", line |-> line]
Add(n, line)        == [op |-> "add", n |-> n, line |-> line]
Mov(r, from, line)  == [op |-> "mov", reg |-> r, from |-> from, line |-> line]
Jump(to, line)      == [op |-> "jump", to |-> to, line |-> line]
Call(to, line)      == [op |-> "call", to |-> to, line |-> line]

ExeCode == At(Exe, <<
  (*  0 _start *) Call(Exe + 2, 1), Jump({Exe + 1}, 1),
  (*  2 main   *) Push(2), Mov("rbp", "rsp", 2), Call(Exe + 9, 4), Add(0, 5),
  (*  6        *) Mov("rsp", "rbp", 6), Pop(6), I("ret", 6),
  (*  9 stub   *) Jump({Exe + 10}, 7), Add(-1, 7), Jump({Lib}, 7),
  (* 12 cb     *) Add(-1, 8), Jump({Exe + 14, Exe + 15, Exe + 17}, 9), Call(Exe + 12, 10),
  (* 15        *) Add(1, 11), I("ret", 11), Call(Exe + 18, 12),
  (* 18 die    *) Jump({Exe + 18}, 13) >>)

LibCode == At(Lib, <<
  (*  0 entry  *) Add(1, 0),
  (*  1 f      *) Push(0), [op |-> "set", reg |-> "rbp", n |-> 7, line |-> 0],
  (*  3        *) Call(Exe + 12, 0), Pop(0), I("ret", 0),
  (*  6 start  *) Call(Lib + 1, 0), Jump({Lib + 7}, 0) >>)

MCCode == [a \in DOMAIN ExeCode \cup DOMAIN LibCode |->
             IF a \in DOMAIN ExeCode THEN ExeCode[a] ELSE LibCode[a]]

-----------------------------------------------------------------------------
Adv(n)       == [op |-> "advance_loc", n |-> n]
DefCFA(r, n) == [op |-> "def_cfa", reg |-> r, n |-> n]
DefReg(r)    == [op |-> "def_cfa_register", reg |-> r]
DefOff(n)    == [op |-> "def_cfa_offset", n |-> n]
Off(r, n)    == [op |-> "offset", reg |-> r, n |-> n]
Op(op, r)    == [op |-> op, reg |-> r]
CIE(off, is) == [kind |-> "cie", off |-> off, program |-> is]
FDE(off, cie, lo, len, is) ==
  [kind |-> "fde", off |-> off, ptr |-> off + LengthField - cie, lo |-> lo, len |-> len,
   program |-> is]

ExeFrame == <<
  CIE(0, <<DefCFA("rsp", 1), Off("rip", 1)>>),
  FDE(20, 0, 0, 1, <<Op("undefined", "rip")>>),
  FDE(40, 0, 2, 7, <<Adv(1), DefOff(2), Off("rbp", 2), Adv(1), DefReg("rbp"), Adv(3),
                     DefCFA("rsp", 2), Adv(1), DefOff(1), Op("restore", "rbp")>>),
  FDE(60, 0, 12, 6, <<Adv(1), DefOff(2), Adv(3), [op |-> "remember_state"], DefOff(1),
                      Adv(1), [op |-> "restore_state"]>>),
  FDE(80, 0, 18, 1, <<[op |-> "nop"]>>),
  CIE(100, <<Off("rip", 1)>>),
  FDE(120, 100, 9, 3, <<[op |-> "def_cfa_expression",
                         expr |-> [base |-> "rsp", n |-> 1, from |-> Exe + 11]]>>) >>

LibFrame == <<
  CIE(0, <<DefCFA("rsp", 1), Off("rip", 1), [op |-> "val_offset", reg |-> "rsp", n |-> 0]>>),
  FDE(20, 0, 0, 1, <<DefOff(2), Op("same_value", "rbp")>>),
  FDE(40, 0, 1, 5, <<Adv(1), DefOff(2), Off("rbp", 2), [op |-> "set_loc", n |-> 5], DefOff(1),
                     Op("same_value", "rbp")>>),
  FDE(60, 0, 6, 2, <<[op |-> "nop"]>>) >>

T(lo, off)        == [lo |-> lo, off |-> off]
L(lo, line)       == [lo |-> lo, line |-> line, end |-> FALSE]
F(lo, hi, name, is) == [lo |-> lo, hi |-> hi, name |-> name, inlined |-> is]

MCFuncs == <<
  F(2, 9, "main", << [lo |-> 4, hi |-> 6, up |-> 0, name |-> "outer", callLine |-> 3],
                     [lo |-> 4, hi |-> 5, up |-> 1, name |-> "inner", callLine |-> 14] >>),
  F(9, 12, "stub", <<>>), F(12, 18, "cb", <<>>), F(18, 19, "die", <<>>) >>

MCLines == <<
  L(0, 1), L(2, 2), L(4, 4), L(5, 5), L(6, 6), [lo |-> 9, line |-> 6, end |-> TRUE], L(9, 7),
  L(12, 8), L(13, 9), L(14, 10), L(15, 11), L(17, 12), L(18, 13) >>

Exe1(dwarf, table) ==
  [bias |-> Exe, low |-> 0, high |-> 19, dwarf |-> dwarf, cfi |-> TRUE,
   funcs |-> MCFuncs, lines |-> MCLines, ehFrame |-> ExeFrame, table |-> table]

ExeTable == << T(0, 20), T(2, 40), T(9, 120), T(12, 60), T(18, 80) >>
LibTable == << T(0, 20), T(1, 40), T(6, 60) >>

MCLib == [bias |-> Lib, low |-> 0, high |-> 8, dwarf |-> FALSE, cfi |-> TRUE,
          funcs |-> <<>>, lines |-> <<>>, ehFrame |-> LibFrame, table |-> LibTable]

MCImage      == [e \in {"exe", "lib"} |-> IF e = "exe" THEN Exe1(TRUE, ExeTable) ELSE MCLib]
MCStripped   == [MCImage EXCEPT !["exe"].dwarf = FALSE]
MCUnindexed  == [MCImage EXCEPT !["exe"].table = None]
=============================================================================
