----------------------------- MODULE MCVariables -----------------------------
(* A program with two compile units, and the states in which it is looked  *)
(* at.  A byte has four bits and a word two bytes, so a word is 0 .. 255;  *)
(* sixteen bytes are mapped.                                               *)
EXTENDS Variables

MCReg == {"rax", "rbx", "rbp"}

-----------------------------------------------------------------------------
(* Types                                                                   *)
Ty(k, n, to, fs, c) == [kind |-> k, size |-> n, to |-> to, fields |-> fs, count |-> c]
Plain(name, t, b)  == [name |-> name, type |-> t, pos |-> 4 * b, byteOff |-> b,
                       bitSize |-> 0, bitOff |-> 0, dataBitOff |-> 0]
(* A bit field with DW_AT_bit_offset, counted from the top of its unit of  *)
(* n bytes at byte b, and one with DW_AT_data_bit_offset.                  *)
Legacy(name, t, n, b, pos, size) ==
  [name |-> name, type |-> t, pos |-> pos, byteOff |-> b, bitSize |-> size,
   bitOff |-> 4 * n - (pos - 4 * b) - size, dataBitOff |-> 0]
Modern(name, t, pos, size) ==
  [name |-> name, type |-> t, pos |-> pos, byteOff |-> 0, bitSize |-> size,
   bitOff |-> 0, dataBitOff |-> pos]

TypeTable ==
  [byte |-> Ty("base", 1, "byte", {}, 0), word |-> Ty("base", 2, "word", {}, 0),
   arr  |-> Ty("array", 2, "byte", {}, 2), ptrS |-> Ty("ptr", 2, "S", {}, 0),
   linkS |-> Ty("alias", 2, "ptrS", {}, 0), constS |-> Ty("alias", 7, "S", {}, 0),
   ptrW |-> Ty("ptr", 2, "word", {}, 0),
   pair |-> Ty("struct", 3, "pair", {Plain("lo", "byte", 0), Plain("hi", "word", 1)}, 0),
   S    |-> Ty("struct", 7, "S",
              {Plain("a", "byte", 0), Legacy("b", "word", 2, 0, 4, 1), Legacy("c", "word", 2, 0, 5, 2),
               Legacy("top", "word", 2, 0, 7, 1), Modern("d", "byte", 9, 3),
               Plain("next", "linkS", 3), Plain("arr", "arr", 5)}, 0)]

-----------------------------------------------------------------------------
(* Places, and the expressions a compiler writes for them                  *)
Mem(base, off, n)    == [at |-> "mem", base |-> base, off |-> off, bit |-> 0, n |-> n, bits |-> << >>]
MemBits(base, off, bit, n) == [Mem(base, off, n) EXCEPT !.bit = bit]
InReg(r, bit, n)     == [at |-> "reg", base |-> r, off |-> 0, bit |-> bit, n |-> n, bits |-> << >>]
Known(bits)          == [at |-> "val", base |-> "abs", off |-> 0, bit |-> 0, n |-> Len(bits), bits |-> bits]

O0(o)       == [op |-> o, n |-> 0, r |-> "rax"]
O(o, n)     == [op |-> o, n |-> n, r |-> "rax"]
R(o, r, n)  == [op |-> o, n |-> n, r |-> r]
A == R("breg", "rax", 0)
B == R("breg", "rbx", 0)
K(n) == O("constu", n)

Encode(r) ==
  CASE r.at = "mem" /\ r.base = "abs" -> <<O("addr", r.off - Bias)>>
    [] r.at = "mem" /\ r.base = "cfa" -> <<O("fbreg", r.off)>>
    [] r.at = "mem" /\ r.base \in MCReg -> <<R("breg", r.base, r.off)>>
    [] r.at = "reg" -> <<R("reg", r.base, 0)>>
    [] r.at = "val" -> <<[op |-> "implicit_value", bits |-> r.bits]>>
Piece(r) ==
  IF r.bit = 0 /\ r.n % 4 = 0 THEN <<O("piece", r.n \div 4)>>
  ELSE <<[op |-> "bit_piece", n |-> r.n, off |-> r.bit]>>
Compile(runs) ==
  IF Len(runs) = 1 THEN Encode(runs[1])
  ELSE FlattenSeq([i \in DOMAIN runs |-> Encode(runs[i]) \o Piece(runs[i])])

Expr(p)      == [class |-> "expr", prog |-> p]
Anywhere(rs) == {[lo |-> 0, hi |-> 100, runs |-> rs]}
Entry(lo, hi, p) == [k |-> "range", lo |-> lo, hi |-> hi, prog |-> p]
NewBase(a)   == [k |-> "base", a |-> a, prog |-> << >>]

-----------------------------------------------------------------------------
(* The entries                                                             *)
D(tag, name, parent, kids) ==
  [tag |-> tag, name |-> name, parent |-> parent, kids |-> kids, lo |-> 0, hi |-> 0,
   type |-> "word", loc |-> None, fb |-> None, places |-> {}]
Span(tag, parent, lo, hi) == [D(tag, "", parent, TRUE) EXCEPT !.lo = lo, !.hi = hi]
Fn(parent, lo, hi, fb)     == [Span("function", parent, lo, hi) EXCEPT !.fb = fb]
Null == D("null", "", 0, FALSE)

V(name, parent, t, runs) ==
  [D("variable", name, parent, FALSE) EXCEPT
     !.type = t, !.loc = Expr(Compile(runs)), !.places = Anywhere(runs)]
(* A word that the compiler knows how to compute from rax and rbx: the     *)
(* value is that of rax again.                                             *)
L(name, prog) ==
  [D("variable", name, 23, FALSE) EXCEPT
     !.loc = Expr(prog \o <<O0("stack_value")>>), !.places = Anywhere(<<InReg("rax", 0, 8)>>)]

(* A location that cannot be evaluated.                                    *)
Bad(name, parent, prog) == [D("variable", name, parent, FALSE) EXCEPT !.loc = Expr(prog)]

Laws == <<
  L("minus", <<A, B, O0("minus"), B, O0("plus")>>),
  L("xor",   <<A, B, O0("xor"), B, O0("xor")>>),
  L("and",   <<A, B, O0("and"), A, B, O0("not"), O0("and"), O0("or")>>),
  L("neg",   <<A, O0("not"), O("plus_uconst", 1), O0("neg")>>),
  L("div",   <<A, O("consts", -1), O0("div"), O0("neg")>>),
  L("shift", <<A, K(3), O0("shl"), A, K(5), O0("shr"), O0("or"),
               O0("dup"), K(3), O0("shr"), O0("swap"), K(5), O0("shl"), O0("or")>>),
  L("sign",  <<A, O0("abs"), A, K(7), O0("shra"), O0("xor"), A, K(7), O0("shra"), O0("minus")>>),
  L("mul",   <<A, B, O0("mul"), A, B, K(1), O0("minus"), O0("mul"), O0("minus")>>),
  L("mod",   <<A, K(2), O0("shr"), K(4), O0("mul"), A, K(4), O0("mod"), O0("plus")>>),
  L("order", <<A, B, O0("over"), O0("over"), O0("lt"), O("bra", 1), O0("swap"), O0("plus"),
               B, O0("minus")>>),
  L("parts", <<A, A, B, O0("lt"), A, B, O0("eq"), O0("plus"), A, B, O0("gt"), O0("plus"), O0("mul")>>),
  L("split", <<A, A, B, O0("le"), A, B, O0("ge"), O0("plus"), A, B, O0("ne"), O0("plus"),
               K(1), O0("shr"), O0("mul"), O0("nop")>>),
  L("turn",  <<A, B, K(7), O0("rot"), O0("rot"), O0("rot"), O0("drop"), O("pick", 1),
               O0("swap"), O0("drop"), O0("swap"), O0("drop")>>),
  L("loop",  <<K(0), A, O0("dup"), O("bra", 1), O("skip", 6), K(1), O0("minus"), O0("swap"),
               O("plus_uconst", 1), O0("swap"), O("skip", -9), O0("drop")>>) >>

InR   == <<InReg("rax", 0, 8)>>
Spill == <<Mem("cfa", -4, 8)>>

Entries == <<
  Span("unit", 0, 0, 20),                                                        \* 1
    V("g", 1, "word", <<Mem("abs", 9, 8)>>),
    V("s", 1, "constS", <<Mem("abs", 2, 28)>>),
    V("p", 1, "linkS", <<Mem("abs", 0, 8)>>),
    V("x", 1, "word", <<Mem("abs", 11, 8)>>),                                     \* 5
    Fn(1, 2, 12, Expr(<<O0("call_frame_cfa")>>)),                                 \* 6
      V("x", 6, "word", <<Mem("cfa", -2, 8)>>),
      [D("variable", "r", 6, FALSE) EXCEPT
         !.loc = [class |-> "list", entries |-> <<Entry(2, 6, Compile(InR)), Entry(6, 9, Compile(Spill))>>],
         !.places = {[lo |-> 2, hi |-> 6, runs |-> InR], [lo |-> 6, hi |-> 9, runs |-> Spill]}],
      V("c", 6, "pair", <<InReg("rbx", 0, 4), Mem("cfa", -6, 8)>>),
      V("b", 6, "word", <<InReg("rbx", 2, 3), InReg("rax", 0, 5)>>),              \* 10
      Span("block", 6, 4, 10),                                                   \* 11
        V("x", 11, "word", <<Mem("rbp", -3, 8)>>),
        V("v", 11, "pair", <<Known(<<1,0,1,1, 0,1,1,0, 1,0,0,0>>)>>),
        Span("block", 11, 6, 8),                                                 \* 14
          V("x", 14, "byte", <<InReg("rbx", 0, 4)>>),
          D("variable", "g", 14, FALSE),
          Null,
        Null,
      Null,
    V("late", 1, "word", <<Mem("abs", 13, 8)>>),                                  \* 20
    Null,
  Span("unit", 0, 20, 40),                                                       \* 22
    Fn(22, 24, 36,                                                                \* 23
       [class |-> "list", entries |-> <<Entry(4, 10, <<R("breg", "rbp", 1)>>),
                                        NewBase(28), Entry(2, 8, <<R("reg", "rbp", 0)>>)>>]),
      [D("variable", "y", 23, FALSE) EXCEPT
         !.loc = Expr(<<O("fbreg", -2)>>),
         !.places = {[lo |-> 24, hi |-> 30, runs |-> <<Mem("rbp", -1, 8)>>],
                     [lo |-> 30, hi |-> 36, runs |-> <<Mem("rbp", -2, 8)>>]}],
      [D("variable", "w", 23, FALSE) EXCEPT
         !.loc = Expr(<<R("breg", "rbp", -4), O0("deref"), O0("stack_value")>>),
         !.places = Anywhere(<<Mem("rbp", -4, 8), Known(<< >>)>>)],
      [D("variable", "z", 23, FALSE) EXCEPT
         !.type = "byte",
         !.loc = Expr(<<R("breg", "rbp", -5), O("deref_size", 1), O0("stack_value")>>),
         !.places = Anywhere(<<Mem("rbp", -5, 4), Known(<< >>)>>)],
      [D("variable", "mix", 23, FALSE) EXCEPT
         !.type = "pair",
         !.loc = Expr(<<B, O0("stack_value"), O("piece", 1), R("breg", "rbp", -7), O("piece", 2)>>),
         !.places = Anywhere(<<InReg("rbx", 0, 4), Mem("rbp", -7, 8)>>)],
      V("pw", 23, "ptrW", <<Mem("rbp", -9, 8)>>),
      V("cross", 23, "word", <<InReg("rax", 0, 5), MemBits("rbp", -6, 2, 3)>>),
      [D("variable", "cfa", 23, FALSE) EXCEPT
         !.loc = Expr(<<O0("call_frame_cfa")>>), !.places = Anywhere(<<Mem("cfa", 0, 8)>>)],
      V("nowhere", 23, "word", <<Mem("abs", 200, 8)>>),
      Bad("call", 23, <<A, O0("call4")>>),
      Bad("zero", 23, <<A, K(0), O0("div")>>),
      Bad("under", 23, <<A, O0("plus")>>),
      Bad("wild", 23, <<K(200), O0("deref")>>),
      Bad("noreg", 23, <<R("breg", "st0", 0)>>) >>
  \o Laws \o <<Null,
    Fn(22, 36, 38, None),                                                         \* 52
      Bad("nobase", 52, <<O("fbreg", 0)>>), Null,
    Fn(22, 38, 40, Expr(<<[op |-> "implicit_value", bits |-> <<1, 0, 1, 1>>]>>)), \* 55
      Bad("nobase", 55, <<O("fbreg", 0)>>), Null,
    Null>>

-----------------------------------------------------------------------------
(* The states                                                              *)
ByteSeq(s) == FlattenSeq([i \in DOMAIN s |-> SubSeq(BitsOf(s[i]), 1, 4)])
Memory1 == ByteSeq(<<2, 0, 1, 11, 5, 8, 0, 13, 7, 3, 14, 9, 6, 15, 4, 10>>)
Memory2 == ByteSeq(<<8, 0, 12, 6, 3, 12, 0, 10, 1, 15, 5, 4, 9, 0, 2, 7>>)   \* runs off the end
Memory3 == ByteSeq(<<0, 15, 14, 2, 9, 5, 13, 1, 6, 12, 3, 8, 10, 4, 7, 11>>) \* wild pointers

M(name)  == [op |-> "member", name |-> name]
Star     == [op |-> "deref"]
I(n)     == [op |-> "index", n |-> n]
Ask(name, path) == [name |-> name, path |-> path]

NoWrite == [addr |-> 0, data |-> << >>, off |-> 0]
Writes  == {NoWrite, [addr |-> 3, data |-> ByteSeq(<<5, 9, 2, 6>>), off |-> 0],
            [addr |-> 4, data |-> ByteSeq(<<10, 3, 4>>), off |-> 0],
            [addr |-> 13, data |-> ByteSeq(<<1, 12, 8, 8>>), off |-> 0]}

Context(a, regset, bits, q, w) ==
  [pc |-> a + Bias, regs |-> regset, mem |-> bits, cfa |-> 12, req |-> q, wr |-> w]
Regs(a, b) == [rax |-> a, rbx |-> b, rbp |-> 13]

(* Everything in the first unit, with and without a write before.          *)
Fields == {<<M("a")>>, <<M("b")>>, <<M("c")>>, <<M("top")>>, <<M("d")>>, <<M("next")>>,
           <<M("arr")>>, <<M("arr"), I(0)>>, <<M("arr"), I(1)>>, <<M("arr"), I(2)>>, <<M("none")>>}
Members == {Ask("s", f) : f \in Fields} \cup {Ask("p", <<Star>> \o f) : f \in Fields}
           \cup {Ask("s", <<M("next"), Star>> \o f) : f \in Fields}
           \cup {Ask("p", << >>), Ask("p", <<I(0), M("arr")>>), Ask("p", <<I(1), M("c")>>), Ask("p", <<I(1), M("next")>>),
                 Ask("s", << >>), Ask("s", <<Star>>), Ask("s", <<I(0)>>), Ask("p", <<M("a")>>)}
Names == {Ask(n, << >>) : n \in {"g", "x", "r", "c", "b", "v", "late"}}
         \cup {Ask("c", <<M("hi")>>), Ask("v", <<M("lo")>>), Ask("v", <<M("hi")>>)}

Second == {Ask(n, << >>) : n \in {"y", "w", "z", "mix", "pw", "cross", "cfa", "nowhere",
                                 "call", "zero", "under", "wild", "noreg"}}
          \cup {Ask("mix", <<M("hi")>>), Ask("pw", <<I(1)>>), Ask("pw", <<I(-1)>>)}
LawNames == {Laws[i].name : i \in DOMAIN Laws} \ {"loop"}
Sample   == {0, 1, 2, 7, 100, 127, 128, 129, 200, 254, 255}

MCDebug == [dies |-> Entries, types |-> TypeTable]
MCContexts ==
  {Context(5, Regs(90, 165), bits, q, w) : bits \in {Memory1, Memory2, Memory3}, q \in Members, w \in Writes}
  \cup {Context(a, r, bits, q, NoWrite) : a \in {3, 5, 7, 9, 11}, r \in {Regs(90, 165), Regs(38, 219)},
          bits \in {Memory1, Memory3}, q \in Names}
  \cup {Context(a, Regs(90, 165), bits, q, NoWrite) : a \in {25, 33}, bits \in {Memory1, Memory2}, q \in Second}
  \cup {Context(26, Regs(a, b), Memory1, Ask(n, << >>), NoWrite) : a \in Sample, b \in Sample, n \in LawNames}
  \cup {Context(26, Regs(a, 0), Memory1, Ask("loop", << >>), NoWrite) : a \in 0 .. 3}
  \cup {Context(5, Regs(90, 165), Memory1, Ask("s", <<M("arr"), I(-1)>>), NoWrite)}
  \cup {Context(a, Regs(90, 165), Memory1, Ask("nobase", << >>), NoWrite) : a \in {37, 39}}
  \cup {Context(26, [Regs(90, 165) EXCEPT !["rbp"] = b], Memory1, Ask("w", << >>), NoWrite) : b \in 17 .. 20}
=============================================================================
