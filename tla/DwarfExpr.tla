------------------------------ MODULE DwarfExpr ------------------------------
(***************************************************************************)
(* The evaluator of DWARF location expressions, debugger/dwarf_expr.go:    *)
(* Eval as a stack machine that executes one operation a step, the nested  *)
(* evaluation of a frame base for DW_OP_fbreg, and the reading of the      *)
(* bytes a location describes (dwarf_loc.go).                              *)
(*                                                                         *)
(* Bytes and words are scaled down: a byte has ByteBits bits and a word    *)
(* WordBytes bytes, where the code has 8 and 8.  Data are sequences of     *)
(* bits, the least significant bit of the first byte first.  An operation  *)
(* has its operands decoded; a jump counts operations where the code       *)
(* counts bytes.                                                           *)
(***************************************************************************)
EXTENDS Integers, Sequences, SequencesExt

CONSTANTS
  ByteBits, WordBytes,   \* the sizes of a byte in bits and of a word in bytes
  Reg,                   \* the registers DWARF numbers name
  Bias,                  \* the load bias of the ELF file
  None                   \* no location, no address

WordBits == ByteBits * WordBytes
Modulus  == 2 ^ WordBits

ASSUME ExprAssumption ==
  /\ ByteBits \in Nat \ {0} /\ WordBytes \in Nat \ {0}
  /\ Bias \in Nat

VARIABLES
  regs,   \* the registers of the current thread
  mem,    \* the mapped memory from address 0, as bits
  phase,  \* what the debugger is doing
  ev,     \* the state of the running Eval
  outer   \* the Evals that wait for a frame base

machine == <<regs, mem>>

-----------------------------------------------------------------------------
(* Words and bits                                                          *)

Smaller(a, b) == IF a < b THEN a ELSE b

BitsOf(w)  == [k \in 1 .. WordBits |-> (w \div 2 ^ (k - 1)) % 2]
NumOf(b)   == FoldLeft(LAMBDA n, bit : 2 * n + bit, 0, Reverse(b))
Zeros(n)   == [k \in 1 .. n |-> 0]
Signed(w)  == IF w < Modulus \div 2 THEN w ELSE w - Modulus

(* The mapped bytes among the n from address a: process_vm_readv fails     *)
(* when there are none and returns fewer than n at the end of the mapping. *)
Mapped(a) == a * ByteBits < Len(mem)
ReadMemory(a, n) == SubSeq(mem, a * ByteBits + 1, Smaller((a + n) * ByteBits, Len(mem)))

-----------------------------------------------------------------------------
(* The evaluator                                                           *)

(* A SimpleLocation: address, register, literal, data or empty.            *)
Loc(k, v) == [kind |-> k, v |-> v]
Empty     == Loc("empty", None)

(* NewDwarfExpression and the first lines of Eval.                         *)
Evaluator(prog, inFrame, cfa) ==
  [prog |-> prog, pos |-> 1, stack |-> << >>, recent |-> Empty, pieces |-> << >>,
   isAddr |-> TRUE, inFrame |-> inFrame, cfa |-> cfa]

Op      == ev.prog[ev.pos]
Running == phase = "eval" /\ ev.pos \in DOMAIN ev.prog
At(ops) == Running /\ Op.op \in ops
Depth   == Len(ev.stack)
Top(k)  == ev.stack[Depth - k]
Below(k) == SubSeq(ev.stack, 1, Depth - k)

Binary     == {"plus", "minus", "mul", "mod", "and", "or", "xor", "shl", "shr", "shra", "div"}
Relational == {"eq", "ne", "lt", "le", "gt", "ge"}
Unary      == {"abs", "neg", "not", "plus_uconst"}
Reading    == {"deref", "deref_size"}
NotSupported == {"xderef", "xderef_size", "push_object_address", "form_tls_address",
                 "call2", "call4", "call_ref"}

(* How many entries the code asks the stack to have.                       *)
Needs(o) ==
  CASE o.op \in Binary \cup Relational \cup {"over", "swap"} -> 2
    [] o.op = "rot"  -> 3
    [] o.op = "pick" -> o.n + 1
    [] o.op \in Unary \cup Reading \cup {"dup", "drop", "bra"} -> 1
    [] OTHER -> 0

(* The stack after the operation, and the next one.                        *)
Proceed(s) ==
  /\ ev' = [ev EXCEPT !.pos = @ + 1, !.stack = s]
  /\ UNCHANGED <<machine, phase, outer>>

GiveUp(p) == phase' = p /\ UNCHANGED <<machine, ev, outer>>

EvalError ==
  /\ \/ Running /\ Depth < Needs(Op)
     \/ At(NotSupported)
     \/ At({"breg", "reg"}) /\ Op.r \notin Reg /\ (Op.op = "breg" \/ ev.inFrame)
     \/ At({"div"}) /\ Depth >= 2 /\ Top(0) = 0
     \/ At(Reading) /\ Depth >= 1 /\ ~Mapped(Top(0))
  /\ GiveUp("error")

(* binary.LittleEndian.Uint64 of a short read.                             *)
DerefPanic ==
  /\ At({"deref"}) /\ Depth >= 1 /\ Mapped(Top(0))
  /\ Len(ReadMemory(Top(0), WordBytes)) < WordBits
  /\ GiveUp("panic")

(* DW_OP_lit*, const*, addr, call_frame_cfa.                               *)
PushConst ==
  /\ At({"constu", "consts", "addr", "call_frame_cfa"})
  /\ Proceed(Append(ev.stack,
       CASE Op.op = "constu" -> Op.n
         [] Op.op = "consts" -> Op.n % Modulus
         [] Op.op = "addr"   -> (Op.n + Bias) % Modulus
         [] Op.op = "call_frame_cfa" -> ev.cfa))

PushRegister ==
  /\ At({"breg"}) /\ Op.r \in Reg
  /\ Proceed(Append(ev.stack, (regs[Op.r] + Op.n) % Modulus))

(* DW_OP_reg*: in a frame base the register's value, else a location.      *)
NameRegister ==
  /\ At({"reg"})
  /\ \/ ev.inFrame /\ Op.r \in Reg /\ Proceed(Append(ev.stack, regs[Op.r]))
     \/ /\ ~ev.inFrame
        /\ ev' = [ev EXCEPT !.pos = @ + 1, !.recent = Loc("register", Op.r)]
        /\ UNCHANGED <<machine, phase, outer>>

Shuffle ==
  /\ At({"dup", "drop", "pick", "over", "swap", "rot", "nop"}) /\ Depth >= Needs(Op)
  /\ Proceed(CASE Op.op = "dup"  -> Append(ev.stack, Top(0))
               [] Op.op = "drop" -> Below(1)
               [] Op.op = "pick" -> Append(ev.stack, Top(Op.n))
               [] Op.op = "over" -> Append(ev.stack, Top(1))
               [] Op.op = "swap" -> Below(2) \o <<Top(0), Top(1)>>
               [] Op.op = "rot"  -> Below(3) \o <<Top(0), Top(2), Top(1)>>
               [] Op.op = "nop"  -> ev.stack)

Deref ==
  LET n    == IF Op.op = "deref" THEN WordBytes ELSE Op.n
      data == ReadMemory(Top(0), n)
  IN  /\ At(Reading) /\ Depth >= 1 /\ Mapped(Top(0))
      /\ Op.op = "deref_size" \/ Len(data) = WordBits
      /\ Proceed(Append(Below(1), NumOf(data) % Modulus))

Bitwise2(a, b, table) ==
  NumOf([k \in 1 .. WordBits |-> table[BitsOf(a)[k] + BitsOf(b)[k] + 1]])

(* Division of int64 truncates towards zero.                               *)
Quotient(a, b) ==
  LET q == (IF a < 0 THEN -a ELSE a) \div (IF b < 0 THEN -b ELSE b)
  IN  IF (a < 0) = (b < 0) THEN q ELSE -q

(* Arithmetic is modulo the word; div and shra take signed operands.       *)
Binop(op, a, b) ==
  CASE op = "plus"  -> (a + b) % Modulus
    [] op = "minus" -> (a - b) % Modulus
    [] op = "mul"   -> (a * b) % Modulus
    [] op = "mod"   -> IF b = 0 THEN 0 ELSE a % b
    [] op = "div"   -> Quotient(Signed(a), Signed(b)) % Modulus
    [] op = "and"   -> Bitwise2(a, b, <<0, 0, 1>>)
    [] op = "or"    -> Bitwise2(a, b, <<0, 1, 1>>)
    [] op = "xor"   -> Bitwise2(a, b, <<0, 1, 0>>)
    [] op = "shl"   -> (a * 2 ^ Smaller(b, WordBits)) % Modulus
    [] op = "shr"   -> a \div 2 ^ Smaller(b, WordBits)
    [] op = "shra"  -> (Signed(a) \div 2 ^ Smaller(b, WordBits)) % Modulus

Relop(op, a, b) ==
  CASE op = "eq" -> a = b [] op = "ne" -> a # b [] op = "lt" -> a < b
    [] op = "le" -> a <= b [] op = "gt" -> a > b [] op = "ge" -> a >= b

Arithmetic ==
  /\ At(Binary \cup Relational) /\ Depth >= 2
  /\ ~(Op.op = "div" /\ Top(0) = 0)
  /\ Proceed(Append(Below(2),
       IF Op.op \in Binary THEN Binop(Op.op, Top(1), Top(0))
       ELSE IF Relop(Op.op, Signed(Top(1)), Signed(Top(0))) THEN 1 ELSE 0))

UnaryOp ==
  /\ At(Unary) /\ Depth >= 1
  /\ Proceed(Append(Below(1),
       CASE Op.op = "abs" -> IF Signed(Top(0)) < 0 THEN -Signed(Top(0)) ELSE Top(0)
         [] Op.op = "neg" -> (-Top(0)) % Modulus
         [] Op.op = "not" -> Modulus - 1 - Top(0)
         [] Op.op = "plus_uconst" -> (Top(0) + Op.n) % Modulus))

(* The offset of a jump counts from the operation after it.                *)
Jump ==
  /\ At({"skip", "bra"}) /\ Depth >= Needs(Op)
  /\ ev' = [ev EXCEPT !.stack = IF Op.op = "bra" THEN Below(1) ELSE @,
                      !.pos = @ + 1 + IF Op.op = "skip" \/ Top(0) # 0 THEN Op.n ELSE 0]
  /\ UNCHANGED <<machine, phase, outer>>

ImplicitValue ==
  /\ At({"implicit_value"})
  /\ ev' = [ev EXCEPT !.pos = @ + 1, !.recent = Loc("data", Op.bits)]
  /\ UNCHANGED <<machine, phase, outer>>

StackValue ==
  /\ At({"stack_value"})
  /\ ev' = [ev EXCEPT !.pos = @ + 1, !.isAddr = FALSE]
  /\ UNCHANGED <<machine, phase, outer>>

(* getCurrentLocation: what the stack and the last named location mean.    *)
CurrentLocation(e) ==
  IF e.stack = << >> THEN e.recent
  ELSE Loc(IF e.isAddr THEN "address" ELSE "literal", Last(e.stack))

FaultyAfterLocation(e) ==                 \* a value stays one for later pieces
  IF e.stack = << >> THEN [e EXCEPT !.recent = Empty]
  ELSE [e EXCEPT !.stack = Front(@)]

(* ... and what it leaves: the entry is popped, the next one is an address. *)
AfterLocation(e) ==
  IF e.stack = << >> THEN [e EXCEPT !.recent = Empty]
  ELSE [e EXCEPT !.stack = Front(@), !.isAddr = TRUE]

(* DW_OP_piece and DW_OP_bit_piece: n bits at an offset in the location.   *)
AddPiece ==
  /\ At({"piece", "bit_piece"})
  /\ ev' = [AfterLocation(ev) EXCEPT
              !.pos = @ + 1,
              !.pieces = Append(@,
                [loc |-> CurrentLocation(ev),
                 n   |-> IF Op.op = "piece" THEN Op.n * ByteBits ELSE Op.n,
                 off |-> IF Op.op = "piece" THEN 0 ELSE Op.off])]
  /\ UNCHANGED <<machine, phase, outer>>

EvalStep ==
  \/ EvalError \/ DerefPanic
  \/ PushConst \/ PushRegister \/ NameRegister \/ Shuffle \/ Deref
  \/ Arithmetic \/ UnaryOp \/ Jump \/ ImplicitValue \/ StackValue \/ AddPiece

-----------------------------------------------------------------------------
(* Reading the bytes of a location                                         *)

(* readSimpleLocationData: a register is read whole, whatever the size.    *)
Readable(loc) == loc.kind # "empty" /\ (loc.kind = "address" => Mapped(loc.v))
                                    /\ (loc.kind = "register" => loc.v \in Reg)
ReadSimple(loc, size) ==
  CASE loc.kind = "register" -> BitsOf(regs[loc.v])
    [] loc.kind = "address"  -> ReadMemory(loc.v, size)
    [] loc.kind = "literal"  -> SubSeq(BitsOf(loc.v), 1, Smaller(size, WordBytes) * ByteBits)
    [] loc.kind = "data"     -> SubSeq(loc.v \o Zeros(size * ByteBits), 1, size * ByteBits)

(* memcpyBits, to bit d of dest from bit s of src; what src does not have  *)
(* counts as zero.                                                         *)
MemcpyBits(dest, d, src, s, n) ==
  [k \in 1 .. Len(dest) |->
     IF k \notin d + 1 .. d + n THEN dest[k]
     ELSE IF k - d + s \in DOMAIN src THEN src[k - d + s] ELSE 0]

(* The copy of Go: as much of src as dest has room for.                    *)
Copy(dest, d, src) == MemcpyBits(dest, d, src, 0, Smaller(Len(src), Len(dest) - d))

(* ReadLocationData of a composite: whole bytes are copied, the whole      *)
(* register included; other pieces bit by bit.                             *)
Assemble(pieces, size) ==
  FoldLeft(LAMBDA acc, p :
    LET data == ReadSimple(p.loc, (p.n + ByteBits - 1) \div ByteBits)
    IN  [at   |-> acc.at + p.n,
         data |-> IF acc.at % ByteBits = 0 /\ p.off = 0 /\ p.n % ByteBits = 0
                  THEN Copy(acc.data, acc.at, data)
                  ELSE MemcpyBits(acc.data, acc.at, data, p.off, p.n)],
    [at |-> 0, data |-> Zeros(size * ByteBits)], pieces).data
=============================================================================
