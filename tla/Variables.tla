------------------------------ MODULE Variables ------------------------------
(***************************************************************************)
(* Showing a variable, debugger/target.go: the search for its name in the  *)
(* lexical scopes at the program counter and in the index of globals       *)
(* (dwarf.go, dwarf_loc.go), the evaluation of its location, the reading   *)
(* of its bytes, and the walk along members, pointers and array elements   *)
(* (type.go).  Memory writes (process.go) may come before.                 *)
(*                                                                         *)
(* The debugging information is given by CONSTANTS.  Beside what the       *)
(* debugger reads, each variable and each struct field carries the fact    *)
(* the compiler started from (places, pos): the properties compare what is *)
(* shown with these.                                                       *)
(***************************************************************************)
EXTENDS DwarfExpr

CONSTANTS
  Debug,     \* the debugging information: the entries in file order, null
             \* entries included, and the types by name
  Contexts   \* where the process has stopped, and what the user asks for

(* Blocks come after what they lie in, and blocks side by side do not      *)
(* overlap.                                                                *)
ASSUME ScopesNest ==
  LET dies == Debug.dies IN
  \A d \in DOMAIN dies : dies[d].tag = "block" =>
    /\ LET p == dies[dies[d].parent] IN
       p.tag \in {"block", "function"} /\ p.lo <= dies[d].lo /\ dies[d].hi <= p.hi
    /\ dies[d].parent < d
    /\ \A e \in DOMAIN dies \ {d} : dies[e].tag = "block" /\ dies[e].parent = dies[d].parent =>
                                     dies[e].hi <= dies[d].lo \/ dies[d].hi <= dies[e].lo

(* Entries are numbered.                                                   *)
ASSUME DiesAssumption == DOMAIN Debug.dies = 1 .. Len(Debug.dies) /\ Len(Debug.dies) \in Nat /\ None \notin Nat

(* Memory and the data to write are bits; nothing is written yet.          *)
ASSUME ContextsAssumption ==
  \A c \in Contexts :
    /\ c.mem \in Seq({0, 1})
    /\ c.wr \in [addr : Nat, data : Seq({0, 1}), off : {0}]

VARIABLES
  info,      \* the debugging information that was loaded
  pc, cfa,   \* the program counter, and the CFA that the CFI gives for it
  req,       \* the name and the path the user asked for
  old,       \* history: the memory before the write
  die,       \* the entry that was found
  result,    \* its ExprResult
  td,        \* the TypedData so far
  rest,      \* the part of the path that is left
  wr         \* the memory write that comes first: address, data, offset

given == <<info, pc, cfa, req, old>>
query == <<given, die, result, td, rest, wr>>
vars  == <<machine, phase, ev, outer, query>>

Dies    == info.dies
Types   == info.types
Die     == DOMAIN Dies
FilePC  == pc - Bias
Within(r, a) == r.lo <= a /\ a < r.hi

-----------------------------------------------------------------------------
(* Names                                                                   *)

FunctionAt(a) ==
  LET S == {d \in Die : Dies[d].tag = "function" /\ Within(Dies[d], a)}
  IN  IF S = {} THEN None ELSE CHOOSE d \in S : TRUE

(* The function and the blocks around a.  The inner ones are the later     *)
(* entries: the range of a block lies in that of its parent.               *)
ScopesAt(a) ==
  IF FunctionAt(a) = None THEN {}
  ELSE {FunctionAt(a)} \cup {d \in Die : Dies[d].tag = "block" /\ Within(Dies[d], a)}

(* The variables and parameters of a scope that have a location.           *)
Locals(s) == {d \in Die : Dies[d].tag = "variable" /\ Dies[d].parent = s /\ Dies[d].loc # None}

Named(S, name) == {d \in S : Dies[d].name = name}
FirstOf(S)     == IF S = {} THEN None ELSE Min(S)

(* The innermost scope that has the name, and its first variable of it.    *)
FindLocalVariable(name, a) ==
  LET scopes == {s \in ScopesAt(a) : Named(Locals(s), name) # {}}
  IN  IF scopes = {} THEN None ELSE Min(Named(Locals(Max(scopes)), name))

FaultyLocalVariablesAt(a) == UNION {Locals(s) : s \in ScopesAt(a)}  \* shadowed ones too

(* LocalVariablesAtAddress: the first of each name.                        *)
LocalVariablesAt(a) ==
  UNION {{d \in Locals(s) : \A t \in ScopesAt(a) : \A e \in Named(Locals(t), Dies[d].name) :
                               t < s \/ (t = s /\ d <= e)} : s \in ScopesAt(a)}

(* buildGlobalVarIndex walks over the entries once.  Its depth is 1 at a   *)
(* function, goes up with every entry that has children and down with      *)
(* every null entry: with a function's own children it comes back to 1,    *)
(* and to 0 only with the null entry that ends the compile unit.           *)
DepthFrom(f, k) ==
  1 + Cardinality({j \in f .. k : Dies[j].kids}) - Cardinality({j \in f .. k : Dies[j].tag = "null"})
InFunction(i) ==
  \E f \in 1 .. i :
    /\ Dies[f].tag = "function"
    /\ \A k \in f .. i - 1 : Dies[k + 1].tag # "function" /\ DepthFrom(f, k) > 0
Globals == {i \in Die : Dies[i].tag = "variable" /\ Dies[i].loc # None /\ ~InFunction(i)}

-----------------------------------------------------------------------------
(* Locations                                                               *)

CompileUnitBase(a) ==
  LET S == {d \in Die : Dies[d].tag = "unit" /\ Within(Dies[d], a)}
  IN  IF S = {} THEN 0 ELSE Dies[CHOOSE d \in S : TRUE].lo

FaultyBaseOf(entries, i, base) == base    \* base address selections are skipped

(* The base address that holds for entry i of a location list.             *)
BaseOf(entries, i, base) ==
  LET S == {j \in 1 .. i - 1 : entries[j].k = "base"}
  IN  IF S = {} THEN base ELSE entries[CHOOSE j \in S : \A h \in S : h <= j].a

(* evalLocationList: the first entry whose range holds the file address.   *)
ListEntry(entries) ==
  LET S == {i \in DOMAIN entries :
              /\ entries[i].k = "range"
              /\ LET b == BaseOf(entries, i, CompileUnitBase(FilePC))
                 IN  b + entries[i].lo <= FilePC /\ FilePC < b + entries[i].hi}
  IN  IF S = {} THEN None ELSE entries[CHOOSE i \in S : \A j \in S : i <= j]

(* evalLocationFieldWithCFA: only a single expression gets the CFA.        *)
Start(field, inFrame, c) ==
  IF field.class = "expr" THEN Evaluator(field.prog, inFrame, c)
  ELSE IF ListEntry(field.entries) = None THEN Evaluator(<< >>, inFrame, 0)
  ELSE Evaluator(ListEntry(field.entries).prog, inFrame, 0)

(* DW_OP_fbreg: evalFrameBase evaluates the attribute of the function ...  *)
CallFrameBase ==
  LET f == FunctionAt(FilePC) IN
  /\ At({"fbreg"})
  /\ \/ /\ f = None \/ Dies[f].fb = None
        /\ phase' = "error" /\ UNCHANGED <<ev, outer>>
     \/ /\ f # None /\ Dies[f].fb # None
        /\ outer' = Append(outer, ev)
        /\ ev' = Start(Dies[f].fb, TRUE, cfa)
        /\ UNCHANGED phase
  /\ UNCHANGED <<machine, query>>

Ended == phase = "eval" /\ ev.pos > Len(ev.prog)

(* ... and its value, an address or a literal, is the base.                *)
FrameBaseReturns ==
  LET loc == CurrentLocation(ev) IN
  /\ Ended /\ outer # << >>
  /\ \/ /\ ev.pieces = << >> /\ loc.kind \in {"address", "literal"}
        /\ ev' = [Last(outer) EXCEPT
                    !.stack = Append(@, (loc.v + Last(outer).prog[Last(outer).pos].n) % Modulus),
                    !.pos = @ + 1]
        /\ outer' = Front(outer)
        /\ UNCHANGED phase
     \/ /\ ev.pieces # << >> \/ loc.kind \notin {"address", "literal"}
        /\ phase' = "error" /\ UNCHANGED <<ev, outer>>
  /\ UNCHANGED <<machine, query>>

EvalReturns ==
  /\ Ended /\ outer = << >>
  /\ result' = [pieces |-> ev.pieces, loc |-> CurrentLocation(ev)]
  /\ phase' = "read"
  /\ UNCHANGED <<machine, ev, outer, given, die, td, rest, wr>>

-----------------------------------------------------------------------------
(* Commands                                                                *)

FaultyPoke(bits, a, data, off, n) ==      \* the word is not read first
  LET word == a - (a % WordBytes)
      new  == MemcpyBits(Zeros(WordBits), (a - word) * ByteBits, data, off * ByteBits, n * ByteBits)
  IN  MemcpyBits(bits, word * ByteBits, new, 0, WordBits)

(* Read the aligned word around address a, put n bytes of the data in, and *)
(* write it back.                                                          *)
Poke(bits, a, data, off, n) ==
  LET word == a - (a % WordBytes)
      now  == SubSeq(bits, word * ByteBits + 1, word * ByteBits + WordBits)
      new  == MemcpyBits(now, (a - word) * ByteBits, data, off * ByteBits, n * ByteBits)
  IN  MemcpyBits(bits, word * ByteBits, new, 0, WordBits)

Remaining == Len(wr.data) \div ByteBits - wr.off

(* WriteMemory, one word a step; an unmapped word ends it half way.        *)
WriteWord ==
  LET a == wr.addr + wr.off
      n == Smaller(WordBytes - (a % WordBytes), Remaining)
  IN  /\ phase = "write" /\ Remaining > 0
      /\ Mapped(a)
      /\ mem' = Poke(mem, a, wr.data, wr.off, n)
      /\ wr' = [wr EXCEPT !.off = @ + n]
      /\ UNCHANGED <<regs, phase, ev, outer, given, die, result, td, rest>>

WriteEnds ==
  /\ phase = "write"
  /\ \/ Remaining = 0 /\ phase' = "ready"
     \/ Remaining > 0 /\ ~Mapped(wr.addr + wr.off) /\ phase' = "error"
  /\ UNCHANGED <<machine, ev, outer, query>>

(* A local of the scopes around the program counter, or else a global.     *)
Lookup(name) ==
  IF FindLocalVariable(name, FilePC) # None THEN FindLocalVariable(name, FilePC)
  ELSE FirstOf(Named(Globals, name))

FindVariable ==
  /\ phase = "ready"
  /\ \E d \in {Lookup(req.name)} :
       \/ d = None /\ phase' = "error" /\ UNCHANGED <<ev, die>>
       \/ d # None /\ die' = d /\ phase' = "eval" /\ ev' = Start(Dies[d].loc, FALSE, 0)
  /\ UNCHANGED <<machine, outer, given, result, td, rest, wr>>

SizeOf(t) == IF Types[t].size <= 0 THEN WordBytes ELSE Types[t].size

(* ReadLocationData; the value has an address when its location is one.    *)
ReadVariable ==
  LET t    == Dies[die].type
      locs == IF result.pieces = << >> THEN {result.loc}
              ELSE {result.pieces[i].loc : i \in DOMAIN result.pieces}
  IN  /\ phase = "read"
      /\ \/ /\ \E l \in locs : ~Readable(l)
            /\ phase' = "error" /\ UNCHANGED td
         \/ /\ \A l \in locs : Readable(l)
            /\ td' = [data |-> IF result.pieces = << >> THEN ReadSimple(result.loc, SizeOf(t))
                               ELSE Assemble(result.pieces, SizeOf(t)),
                      type |-> t,
                      addr |-> IF result.pieces = << >> /\ result.loc.kind = "address"
                               THEN result.loc.v ELSE None]
            /\ phase' = "walk"
      /\ UNCHANGED <<machine, ev, outer, given, die, result, rest, wr>>

-----------------------------------------------------------------------------
(* Members, pointers and elements                                          *)

(* stripQualifiers                                                         *)
Strip[t \in DOMAIN Types] == IF Types[t].kind = "alias" THEN Strip[Types[t].to] ELSE t
Kind(t) == Types[Strip[t]].kind
Elem(t) == Types[Strip[t]].to

FieldNamed(t, name) ==
  LET S == {f \in Types[Strip[t]].fields : f.name = name}
  IN  IF S = {} THEN None ELSE CHOOSE f \in S : TRUE

FieldByteOffset(f) == IF f.byteOff # 0 THEN f.byteOff ELSE f.dataBitOff \div ByteBits

(* fixupBitfieldData: the bits of the field, moved to bit 0.               *)
Fixup(data, f) ==
  IF f.bitSize = 0 THEN data
  ELSE LET s == CASE f.dataBitOff # 0 -> f.dataBitOff % ByteBits
                  [] f.dataBitOff = 0 /\ f.bitOff # 0 -> Len(data) - f.bitOff - f.bitSize
                  [] OTHER -> 0
       IN  MemcpyBits(Zeros(Len(data)), 0, data, s, f.bitSize)

(* n bytes from byte b on, as far as there are any, the others zero.       *)
Slice(data, b, n) ==
  Copy(Zeros(n * ByteBits), 0,
       SubSeq(data, b * ByteBits + 1, Smaller((b + n) * ByteBits, Len(data))))

WalkTo(t) ==
  /\ td' = t /\ rest' = Tail(rest)
  /\ UNCHANGED <<machine, phase, ev, outer, given, die, result, wr>>

Walking(op) == phase = "walk" /\ rest # << >> /\ Head(rest).op = op

ReadMember ==
  LET f == FieldNamed(td.type, Head(rest).name)
      b == FieldByteOffset(f)
  IN  /\ Walking("member") /\ Kind(td.type) = "struct" /\ f # None
      /\ b * ByteBits <= Len(td.data)
      /\ WalkTo([data |-> Fixup(Slice(td.data, b, SizeOf(f.type)), f),
                type |-> f.type,
                addr |-> IF td.addr = None THEN None ELSE td.addr + b])

Pointer == NumOf(SubSeq(td.data, 1, WordBits))

(* The n bytes at address a, of type t.                                    *)
DataAt(a, t) == [data |-> ReadMemory(a, SizeOf(t)), type |-> t, addr |-> a]

IsPointer == Kind(td.type) = "ptr" /\ Len(td.data) >= WordBits

DerefPointer ==
  /\ Walking("deref") /\ IsPointer /\ Mapped(Pointer)
  /\ WalkTo(DataAt(Pointer, Elem(td.type)))

ElementAddress(a, n, t) == (a + n * SizeOf(t)) % Modulus

IndexPointer ==
  LET t == Elem(td.type)
      a == ElementAddress(Pointer, Head(rest).n, t)
  IN  /\ Walking("index") /\ IsPointer /\ Mapped(a)
      /\ WalkTo(DataAt(a, t))

IndexArray ==
  LET t == Elem(td.type)
      b == Head(rest).n * SizeOf(t)
  IN  /\ Walking("index") /\ Kind(td.type) = "array"
      /\ b >= 0 /\ (b + SizeOf(t)) * ByteBits <= Len(td.data)
      /\ WalkTo([data |-> Slice(td.data, b, SizeOf(t)),
                type |-> t,
                addr |-> IF td.addr = None THEN None ELSE td.addr + b])

(* A step of the path that is refused.                                     *)
WalkError ==
  /\ \/ Walking("member") /\ (Kind(td.type) # "struct" \/ FieldNamed(td.type, Head(rest).name) = None)
     \/ Walking("deref") /\ ~(IsPointer /\ Mapped(Pointer))
     \/ Walking("index") /\ Kind(td.type) \notin {"ptr", "array"}
     \/ Walking("index") /\ Kind(td.type) = "ptr"
        /\ ~(IsPointer /\ Mapped(ElementAddress(Pointer, Head(rest).n, Elem(td.type))))
     \/ Walking("index") /\ Kind(td.type) = "array"
        /\ (Head(rest).n + 1) * SizeOf(Elem(td.type)) * ByteBits > Len(td.data)
  /\ phase' = "error"
  /\ UNCHANGED <<machine, ev, outer, query>>

(* Go slices that are out of range: a field behind the end of a short      *)
(* read, and an array element before the first.                            *)
WalkPanic ==
  /\ \/ /\ Walking("member") /\ Kind(td.type) = "struct"
        /\ FieldNamed(td.type, Head(rest).name) # None
        /\ FieldByteOffset(FieldNamed(td.type, Head(rest).name)) * ByteBits > Len(td.data)
     \/ /\ Walking("index") /\ Kind(td.type) = "array"
        /\ Head(rest).n < 0 /\ (Head(rest).n + 1) * SizeOf(Elem(td.type)) * ByteBits <= Len(td.data)
  /\ phase' = "panic"
  /\ UNCHANGED <<machine, ev, outer, query>>

Show ==
  /\ phase = "walk" /\ rest = << >>
  /\ phase' = "done"
  /\ UNCHANGED <<machine, ev, outer, query>>

-----------------------------------------------------------------------------
Init ==
  \E c \in Contexts :
    /\ info = Debug
    /\ regs = c.regs /\ mem = c.mem /\ pc = c.pc /\ cfa = c.cfa
    /\ req = c.req /\ rest = c.req.path
    /\ wr = c.wr /\ old = c.mem
    /\ die = None /\ result = None /\ td = None
    /\ phase = "write" /\ ev = None /\ outer = << >>

Debugger ==
  \/ WriteWord \/ WriteEnds
  \/ FindVariable \/ CallFrameBase \/ FrameBaseReturns \/ EvalReturns
  \/ EvalStep /\ UNCHANGED query
  \/ ReadVariable
  \/ ReadMember \/ DerefPointer \/ IndexPointer \/ IndexArray \/ WalkError \/ WalkPanic
  \/ Show

Stops == {"done", "error", "panic"}

Next == Debugger \/ (phase \in Stops /\ UNCHANGED vars)

Spec == Init /\ [][Next]_vars

-----------------------------------------------------------------------------
(* What the compiler started from                                          *)

(* The bits of a run of a place: in memory, from an address, the CFA or a  *)
(* register on; in a register; or known to the compiler.                   *)
BaseAddress(r) == CASE r.base = "abs" -> 0 [] r.base = "cfa" -> cfa [] OTHER -> regs[r.base]
RunAt(r)   == (BaseAddress(r) + r.off) * ByteBits + r.bit
RunBits(r) == CASE r.at = "mem" -> SubSeq(mem, RunAt(r) + 1, Smaller(RunAt(r) + r.n, Len(mem)))
                [] r.at = "reg" -> SubSeq(BitsOf(regs[r.base]), r.bit + 1, r.bit + r.n)
                [] r.at = "val" -> r.bits

(* The places of a variable by ranges of the program counter.              *)
PlaceOf(d) ==
  LET S == {p \in Dies[d].places : Within(p, FilePC)}
  IN  IF S = {} THEN None ELSE (CHOOSE p \in S : TRUE).runs

(* The innermost declaration of a name: the one whose scope is deepest.    *)
Level[d \in {0} \cup Die] == IF d = 0 THEN 0 ELSE 1 + Level[Dies[d].parent]
Declared(name) ==
  LET S == {d \in Die : /\ Dies[d].tag = "variable" /\ Dies[d].name = name
                        /\ \/ Dies[Dies[d].parent].tag = "unit"
                           \/ Within(Dies[Dies[d].parent], FilePC)}
  IN  IF S = {} THEN None ELSE CHOOSE d \in S : \A e \in S : Level[e] <= Level[d]

(* An object: n bits from bit at of the memory or of a value.              *)
Object(s, at, n, t) == [src |-> s, at |-> at, n |-> n, type |-> t]
InMemory(a, t) == Object("mem", a * ByteBits, SizeOf(t) * ByteBits, t)

Source(o) == IF o.src = "mem" THEN mem ELSE o.src
BitsIn(o) == SubSeq(Source(o), o.at + 1, o.at + o.n)
Exists(o) == o # None /\ o.at >= 0 /\ o.at + o.n <= Len(Source(o))

Variable(d) ==
  LET p == PlaceOf(d)
      n == SizeOf(Dies[d].type) * ByteBits
  IN  CASE p = None -> None
        [] p # None /\ Len(p) = 1 /\ p[1].at = "mem" -> Object("mem", RunAt(p[1]), n, Dies[d].type)
        [] OTHER -> Object(FlattenSeq([i \in DOMAIN p |-> RunBits(p[i])]), 0, n, Dies[d].type)

(* One step of a path in C, or None.                                       *)
Walk(o, s) ==
  IF ~Exists(o) THEN None
  ELSE LET t == Elem(o.type) IN
    CASE s.op = "member" /\ Kind(o.type) = "struct" /\ FieldNamed(o.type, s.name) # None ->
           LET f == FieldNamed(o.type, s.name) IN
           Object(o.src, o.at + f.pos,
                  IF f.bitSize > 0 THEN f.bitSize ELSE SizeOf(f.type) * ByteBits, f.type)
      [] s.op = "deref" /\ Kind(o.type) = "ptr" -> InMemory(NumOf(BitsIn(o)), t)
      [] s.op = "index" /\ Kind(o.type) = "ptr" -> InMemory(NumOf(BitsIn(o)) + s.n * SizeOf(t), t)
      [] s.op = "index" /\ Kind(o.type) = "array" /\ s.n \in 0 .. Types[Strip[o.type]].count - 1 ->
           Object(o.src, o.at + s.n * SizeOf(t) * ByteBits, SizeOf(t) * ByteBits, t)
      [] OTHER -> None

AskedAfter(k) ==
  IF Declared(req.name) = None THEN None
  ELSE FoldLeft(Walk, Variable(Declared(req.name)), SubSeq(req.path, 1, k))
Asked == AskedAfter(Len(req.path))

(* The read of an object on the way ends with the mapped memory: the rest  *)
(* counts as zero.                                                         *)
CutShort ==
  \E k \in 0 .. Len(req.path) :
    LET o == AskedAfter(k) IN o # None /\ o.src = "mem" /\ o.at < Len(mem) /\ Len(mem) < o.at + o.n

(* Where the code is known to go wrong; the README has each of them.       *)
(* A bit field in the most significant bits of its unit, in the encoding   *)
(* with DW_AT_bit_offset; a piece that starts inside a byte of memory and  *)
(* ends in another; a variable with no location attribute that hides       *)
(* another; a global that follows a function of its compile unit; and a    *)
(* location that takes the CFA other than through DW_OP_fbreg.             *)
Crosses(r) == r.at = "mem" /\ r.bit + r.n > ((r.n + ByteBits - 1) \div ByteBits) * ByteBits
Operations(field) ==
  IF field.class = "expr" THEN ToSet(field.prog)
  ELSE UNION {ToSet(field.entries[i].prog) : i \in DOMAIN field.entries}
TopField(f) == f.bitSize > 0 /\ f.bitOff = 0 /\ f.dataBitOff = 0 /\ f.pos # f.byteOff * ByteBits
KnownWrong ==
  \/ \E i \in DOMAIN req.path : /\ req.path[i].op = "member"
                                /\ \E t \in DOMAIN Types : \E f \in Types[t].fields :
                                     f.name = req.path[i].name /\ TopField(f)
  \/ LET d == Declared(req.name) IN
     /\ d # None
     /\ \/ Dies[d].loc = None
        \/ \E p \in Dies[d].places : \E i \in DOMAIN p.runs : Crosses(p.runs[i])
        \/ \E o \in Operations(Dies[d].loc) : o.op = "call_frame_cfa"
        \/ Dies[Dies[d].parent].tag = "unit"
           /\ \E e \in 1 .. d : Dies[e].tag = "function" /\ Dies[e].parent = Dies[d].parent

-----------------------------------------------------------------------------
(* Properties                                                              *)

(* variable read shows the object the name means in the source: the bits   *)
(* of the innermost declaration, followed along members, pointers and      *)
(* elements (getInitialVariableData, ResolveIndirectName), whether it      *)
(* lives in memory, in registers, in pieces or nowhere.  The address that  *)
(* goes with the value, which a call gets for an argument, is where the    *)
(* object is in memory (a bit field gets that of its byte).                *)
ValueShown ==
  phase = "done" /\ ~KnownWrong =>
    /\ \/ CutShort
       \/ /\ Exists(Asked)
          /\ SubSeq(td.data, 1, Asked.n) = BitsIn(Asked)
          /\ td.type = Asked.type
    /\ Asked # None /\ td.addr # None =>
         /\ Asked.src = "mem"
         /\ Asked.n = SizeOf(Asked.type) * ByteBits => Asked.at = td.addr * ByteBits

(* A variable that exists at the program counter is shown: no error and no *)
(* runtime panic on the way (Eval, ReadLocationData, ReadMember, Index).   *)
ShownIfItExists ==
  phase \in {"error", "panic"} /\ Remaining = 0 /\ ~KnownWrong => ~Exists(Asked)

(* memory write changes the bytes it has come to and no others, also when  *)
(* it starts or ends inside a word or runs into unmapped memory            *)
(* (WriteMemory).                                                          *)
WritesPrefix ==
  mem = MemcpyBits(old, wr.addr * ByteBits, wr.data, 0, wr.off * ByteBits)

(* variable locals lists the variables a name can mean here, each once     *)
(* (LocalVariablesAtAddress, FindLocalVariable).                           *)
LocalsAreThoseFound ==
  phase = "ready" =>
    LocalVariablesAt(FilePC) =
      {FindLocalVariable(name, FilePC) : name \in {Dies[d].name : d \in Die}} \ {None}

=============================================================================
