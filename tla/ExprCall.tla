------------------------------ MODULE ExprCall ------------------------------
(***************************************************************************)
(* Calling a function of the inferior, debugger/expr.go: EvaluateExpression *)
(* with the classification of types, the set up of arguments and the       *)
(* reading of the return value after the System V ABI, the nested calls of *)
(* malloc for strings and for the return slot, and restoreExprState.       *)
(*                                                                         *)
(* Memory is a sequence of eightbytes: StackSlots of stack, then HeapSlots *)
(* that malloc hands out; an even address is aligned to 16 bytes.  Types   *)
(* have their sizes in bytes.  The inferior's side is what the ABI asks of *)
(* a callee: it takes its parameters and leaves its value at the places    *)
(* the reference definitions below name.                                   *)
(***************************************************************************)
EXTENDS Integers, Sequences, FiniteSets, SequencesExt

CONSTANTS
  Thread, Main,           \* the threads; the one that exists at first
  IntRegs, SseRegs,       \* the registers for arguments, in order
  Types,                  \* the types by name
  Calls,                  \* the calls the user may ask for
  EntrySites, Stacks,     \* choices: the site at the entry point, rsp
  StackSlots, HeapSlots,
  MaxCalls,               \* bound: number of calls
  None

ASSUME CallAssumption ==
  /\ Main \in Thread
  /\ StackSlots \in Nat \ {0} /\ HeapSlots \in Nat /\ MaxCalls \in Nat
  /\ Stacks \subseteq 1 .. StackSlots

(* intRegNames and sseRegNames.                                            *)
ASSUME RegsAssumption ==
  /\ IntRegs \in Seq(STRING) /\ IntRegs # << >> /\ SseRegs \in Seq(STRING)
  /\ \A i \in DOMAIN IntRegs : IntRegs[i] \notin {"rip", "rsp", "rax", "st0"}
  /\ \A j \in DOMAIN SseRegs : SseRegs[j] \notin {"rip", "rsp", "rax", "st0"}
  /\ \A i, j \in DOMAIN IntRegs : IntRegs[i] = IntRegs[j] => i = j
  /\ \A i \in DOMAIN IntRegs, j \in DOMAIN SseRegs : IntRegs[i] # SseRegs[j]

(* Types have sizes, and a scalar has at most two eightbytes; the calls    *)
(* and the arguments are of such types.                                    *)
ASSUME TypesAssumption ==
  /\ {None, "void"} \cap DOMAIN Types = {}
  /\ \A t \in DOMAIN Types :
       /\ Types[t].size \in Nat
       /\ Types[t].size <= 16 \/ Types[t].kind \in {"struct", "array"}
  /\ \A c \in Calls :
       /\ c.params \in Seq(DOMAIN Types) /\ c.ret \in DOMAIN Types \cup {"void"}
       /\ c.args \in Seq([k : {"int", "float", "string", "value", "result"},
                           type : DOMAIN Types \cup {None}, n : Nat])
       /\ \A i \in DOMAIN c.args : c.args[i].k = "value" => c.args[i].type # None

(* A site that is not there has no state.                                  *)
ASSUME SitesAssumption ==
  \A s \in EntrySites :
    /\ s \in [there : BOOLEAN, enabled : BOOLEAN, handler : STRING]
    /\ ~s.there => ~s.enabled /\ s.handler = "none"

VARIABLES
  kregs,    \* the registers of each thread, in the kernel
  obj,      \* the Registers object of each thread: whose they are, the copy
  alive,    \* the threads there are
  cur,      \* currentThread
  mem,      \* the memory
  brk,      \* the first free eightbyte of the heap
  site,     \* the breakpoint site at the entry point
  phase,    \* what EvaluateExpression is doing
  call,     \* the call it is about
  args,     \* the arguments parsed so far
  ptr,      \* what the last inferiorMalloc returned
  act,      \* the calls in progress, malloc innermost
  acc,      \* setupArguments: the registers used so far, the stack arguments
  results,  \* exprResults
  count,    \* the number of calls
  before,   \* history: the state when the command was given
  received, \* history: the arguments the function found
  truth,    \* history: the value it returned; and those behind the results
  early     \* history: how the last runs of the inferior ended

inferior == <<kregs, alive, mem, brk>>
history  == <<before, received, truth, early>>
vars     == <<inferior, obj, cur, site, phase, call, args, ptr, act, acc, results, count, history>>

-----------------------------------------------------------------------------
(* Values                                                                  *)
Addr  == 1 .. StackSlots + HeapSlots
Reg   == {"rip", "rsp", "rax", "rdx", "xmm0", "xmm1", "st0"} \cup ToSet(IntRegs) \cup ToSet(SseRegs)
Junk  == 999                        \* a value nobody chose
User  == 901                        \* addresses in the text
Entry == 902
Fn    == 903
Malloc == 904
Datum(i, j)    == 1000 + 10 * i + j                \* eightbyte j of argument i
Returned(n, j) == 2000 + 10 * n + j                \* of what call n returns
Words(t) == (Types[t].size + 7) \div 8

Mapped(a, n) == a >= 1 /\ a + n - 1 <= StackSlots + HeapSlots
Load(a, n)   == [j \in 1 .. n |-> mem[a + j - 1]]
Store(m, a, d) == [b \in Addr |-> IF b \in a .. a + Len(d) - 1 THEN d[b - a + 1] ELSE m[b]]
Absent == [there |-> FALSE, enabled |-> FALSE, handler |-> "none"]

-----------------------------------------------------------------------------
(* Classification                                                          *)

MergeParamClass(a, b) ==
  CASE a = b -> a
    [] a # b /\ a = "NO" -> b
    [] a # b /\ b = "NO" -> a
    [] a # b /\ "NO" \notin {a, b} ->
         IF "MEMORY" \in {a, b} THEN "MEMORY"
         ELSE IF "INTEGER" \in {a, b} THEN "INTEGER"
         ELSE "MEMORY"              \* two of SSE, X87 and X87UP

InMemory == <<"MEMORY", "MEMORY">>

(* classifyType, classifyStructType and classifyArrayType for types of at  *)
(* most two eightbytes.  A field counts for the eightbyte it starts in.    *)
Classes[t \in DOMAIN Types] ==
  LET ty == Types[t]
      inHalf(h) == SelectSeq(ty.fields, LAMBDA f : (f.off >= 8) = (h = 2))
      first(h)  == [i \in DOMAIN inHalf(h) |-> Classes[inHalf(h)[i].type][1]]
      spill     == [i \in DOMAIN inHalf(1) |-> Classes[inHalf(1)[i].type][2]]
      merged    == <<FoldLeft(MergeParamClass, "NO", first(1)),
                     FoldLeft(MergeParamClass, "NO", first(2) \o spill)>>
  IN  CASE ty.kind = "int" -> <<"INTEGER", "NO">>
        [] ty.kind = "sse" -> <<"SSE", "NO">>
        [] ty.kind = "x87" -> <<"X87", "X87UP">>
        [] ty.kind = "struct" ->
             IF "MEMORY" \in ToSet(merged) THEN InMemory ELSE merged
        [] ty.kind = "array" ->
             LET c == Classes[ty.to]
             IN  IF ty.size > 8 /\ c[2] = "NO" THEN <<c[1], c[1]>> ELSE c

(* An aggregate of more than two eightbytes is not looked into.            *)
Large(t)   == Types[t].kind \in {"struct", "array"} /\ Types[t].size > 16
ClassOf(t) == IF Large(t) THEN InMemory ELSE Classes[t]

(* A field that is an aggregate and goes from one eightbyte to the next:   *)
(* the code is known to lose its second class.                             *)
Straddles(t) ==
  \E f \in ToSet(Types[t].fields) :
    Types[f.type].kind \in {"struct", "array"} /\ f.off % 8 # 0 /\ f.off < 8 /\ f.off + Types[f.type].size > 8

LiteralClass(k) == IF k = "float" THEN <<"SSE", "NO">> ELSE <<"INTEGER", "NO">>

-----------------------------------------------------------------------------
(* setupArguments                                                          *)

Rank(classes, j) == IF j = 2 /\ classes[1] = classes[2] THEN 2 ELSE 1
Needed(classes, c) == Cardinality({j \in {1, 2} : j \in DOMAIN classes /\ classes[j] = c})

(* The type decides by DWARF when there is one, the argument's own if not; *)
(* a literal has the class of its form in any case.                        *)
ArgType(i)  == IF call.dwarf /\ i <= Len(call.params) THEN call.params[i] ELSE args[i].type
ArgClass(i) == IF args[i].k # "value" THEN LiteralClass(args[i].k)
               ELSE IF ArgType(i) = None THEN LiteralClass("int") ELSE ClassOf(ArgType(i))
ArgWords(i) == IF ArgType(i) = None THEN Len(args[i].data) ELSE Words(ArgType(i))
Word(d, j)  == IF j \in DOMAIN d THEN d[j] ELSE 0

FaultyFits(c) ==                          \* room for the first eightbyte is enough
  /\ acc.int < Len(IntRegs) \/ c[1] # "INTEGER"
  /\ acc.sse < Len(SseRegs) \/ c[1] # "SSE"
  /\ c[1] \in {"INTEGER", "SSE"}

(* All of an argument goes to registers, or all of it to the stack.        *)
Fits(c) ==
  /\ acc.int + Needed(c, "INTEGER") <= Len(IntRegs)
  /\ acc.sse + Needed(c, "SSE") <= Len(SseRegs)
  /\ Needed(c, "INTEGER") + Needed(c, "SSE") > 0
  /\ c[1] \notin {"MEMORY", "X87"}

(* The eightbytes of an argument that the register gets: one, or none.     *)
Goes(c, n, r) ==
  {j \in {1, 2} : /\ j <= n
                  /\ \/ /\ c[j] = "INTEGER" /\ acc.int + Rank(c, j) \in DOMAIN IntRegs
                        /\ IntRegs[acc.int + Rank(c, j)] = r
                     \/ /\ c[j] = "SSE" /\ acc.sse + Rank(c, j) \in DOMAIN SseRegs
                        /\ SseRegs[acc.sse + Rank(c, j)] = r}

HasSlot    == call.dwarf /\ call.ret # "void"
SlotPassed == HasSlot /\ ClassOf(call.ret)[1] = "MEMORY"

(* Space for n eightbytes, then down to 16 bytes.                          *)
StackFor(rsp, n) == IF n = 0 THEN rsp ELSE (rsp - n) - ((rsp - n) % 2)

-----------------------------------------------------------------------------
(* Calls                                                                   *)

Regs == obj[cur].regs

(* Register writes go to the thread the object is of.                      *)
WriteRegs(f) ==
  /\ obj' = [obj EXCEPT ![cur].regs = f]
  /\ kregs' = [kregs EXCEPT ![obj[cur].pid] = f]

(* Save the registers and make the entry point the place to return to; a   *)
(* site that is there already is taken as it is.                           *)
Activation(what, then) ==
  [what |-> what, then |-> then, saved |-> obj[cur], existed |-> site.there, old |-> site.handler]
PrepareSite ==
  site' = [there |-> TRUE, enabled |-> IF site.there THEN site.enabled ELSE TRUE, handler |-> "stop"]

Restored(a) ==
  IF a.existed THEN [there |-> site.there, enabled |-> site.enabled, handler |-> a.old] ELSE Absent

FaultySavedBy(a) == [a.saved EXCEPT !.regs["rsp"] = Regs["rsp"]]  \* the return has popped

SavedBy(a) == a.saved

(* restoreExprState: into the object of the thread that is current now.    *)
RestoreExprState(a) ==
  /\ obj' = [obj EXCEPT ![cur] = SavedBy(a)]
  /\ kregs' = [kregs EXCEPT ![a.saved.pid] = SavedBy(a).regs]
  /\ site' = Restored(a)

(* The command is taken.                                                   *)
Evaluate ==
  /\ phase = "idle" /\ count < MaxCalls
  /\ \E c \in Calls : call' = c
  /\ phase' = "args" /\ args' = << >> /\ count' = count + 1
  /\ before' = [kregs |-> kregs, mem |-> mem, site |-> site, cur |-> cur, mixed |-> "other" \in early]
  /\ received' = None /\ early' = early \ {"call"} /\ truth' = [truth EXCEPT !.last = None]
  /\ UNCHANGED <<inferior, obj, cur, site, ptr, act, acc, results>>

Next1 == call.args[Len(args) + 1]
Parsing == phase = "args" /\ Len(args) < Len(call.args)

Arg(k, t, d) == [k |-> k, type |-> t, data |-> d]

(* parseSingleArgument: a literal, a variable, or $N, which is read from   *)
(* memory again.                                                           *)
ParseArgument ==
  LET a == Next1
      i == Len(args) + 1
  IN  /\ Parsing
      /\ \/ /\ a.k \in {"int", "float"}
            /\ args' = Append(args, Arg(a.k, None, <<Datum(i, 1)>>))
            /\ UNCHANGED <<phase, results>>
         \/ /\ a.k = "value"
            /\ args' = Append(args, Arg("value", a.type, [j \in 1 .. Words(a.type) |-> Datum(i, j)]))
            /\ UNCHANGED <<phase, results>>
         \/ /\ a.k = "result" /\ a.n \in DOMAIN results
            /\ LET r == results[a.n]
                   d == IF Mapped(r.slot, Words(r.type)) THEN Load(r.slot, Words(r.type)) ELSE r.data
               IN  /\ args' = Append(args, Arg("value", r.type, d))
                   /\ results' = [results EXCEPT ![a.n].data = d]
            /\ UNCHANGED phase
         \/ /\ a.k = "result" /\ a.n \notin DOMAIN results
            /\ phase' = "idle" /\ UNCHANGED <<args, results>>
      /\ UNCHANGED <<inferior, obj, cur, site, call, ptr, act, acc, count, history>>

FaultyMallocSize(n) == 1                  \* a pointer's worth

MallocSize(n) == n

(* inferiorMalloc: the write of the return address is not checked.         *)
InferiorMalloc(n, then) ==
  /\ act' = Append(act, Activation("malloc", then))
  /\ PrepareSite
  /\ WriteRegs([Regs EXCEPT ![IntRegs[1]] = MallocSize(n), !["rip"] = Malloc, !["rsp"] = @ - 1, !["rax"] = 0])
  /\ mem' = IF Mapped(Regs["rsp"] - 1, 1) THEN Store(mem, Regs["rsp"] - 1, <<Entry>>) ELSE mem
  /\ phase' = "run"

StringArgument ==
  /\ Parsing /\ Next1.k = "string"
  /\ InferiorMalloc(1, "string")
  /\ UNCHANGED <<alive, brk, cur, call, args, ptr, acc, results, count, history>>

StringWritten ==
  /\ phase = "string"
  /\ \/ /\ Mapped(ptr, 1)
        /\ mem' = Store(mem, ptr, <<Datum(Len(args) + 1, 9)>>)
        /\ args' = Append(args, Arg("string", None, <<ptr>>))
        /\ phase' = "args"
     \/ /\ ~Mapped(ptr, 1)
        /\ phase' = "idle" /\ UNCHANGED <<mem, args>>
  /\ UNCHANGED <<kregs, alive, brk, obj, cur, site, call, ptr, act, acc, results, count, history>>

(* The arguments are there: save the registers, prepare the entry point.   *)
PrepareCall ==
  /\ phase = "args" /\ Len(args) = Len(call.args)
  /\ act' = Append(act, Activation("call", "none"))
  /\ PrepareSite
  /\ phase' = IF HasSlot THEN "slot" ELSE "setup"
  /\ UNCHANGED <<inferior, obj, cur, call, args, ptr, acc, results, count, history>>

ReturnSlot ==
  /\ phase = "slot"
  /\ InferiorMalloc(Words(call.ret), "setup")
  /\ UNCHANGED <<alive, brk, cur, call, args, ptr, acc, results, count, history>>

(* The address of the return slot takes the first register.               *)
SetupArguments ==
  /\ phase = "setup"
  /\ acc' = [next |-> 1, int |-> IF SlotPassed THEN 1 ELSE 0, sse |-> 0, stack |-> << >>]
  /\ WriteRegs(IF SlotPassed THEN [Regs EXCEPT ![IntRegs[1]] = ptr] ELSE Regs)
  /\ phase' = "assign"
  /\ UNCHANGED <<alive, mem, brk, cur, site, call, args, ptr, act, results, count, history>>

(* One argument: to its registers, or to the others for the stack.         *)
AssignArgument ==
  LET i == acc.next
      c == ArgClass(i)
      n == ArgWords(i)
      d == args[i].data
  IN  /\ phase = "assign" /\ i <= Len(args)
      /\ \/ /\ Fits(c)
            /\ acc' = [acc EXCEPT !.next = @ + 1, !.int = @ + Needed(c, "INTEGER"), !.sse = @ + Needed(c, "SSE")]
            /\ WriteRegs([r \in Reg |-> IF Goes(c, n, r) = {} THEN Regs[r]
                                        ELSE Word(d, CHOOSE j \in Goes(c, n, r) : TRUE)])
         \/ /\ ~Fits(c)
            /\ acc' = [acc EXCEPT !.next = @ + 1, !.stack = @ \o [j \in 1 .. n |-> Word(d, j)]]
            /\ UNCHANGED <<kregs, obj>>
      /\ UNCHANGED <<alive, mem, brk, cur, site, phase, call, args, ptr, act, results, count, history>>

(* The stack arguments, rip and the return address; rax counts the SSE     *)
(* registers.  A stack that is full is an error.                           *)
PushArguments ==
  /\ phase = "assign" /\ acc.next > Len(args)
  /\ \E sp \in {StackFor(Regs["rsp"], Len(acc.stack))} :
       \/ /\ sp - 1 >= 1
          /\ mem' = Store(Store(mem, sp, acc.stack), sp - 1, <<Entry>>)
          /\ WriteRegs([Regs EXCEPT !["rax"] = acc.sse, !["rip"] = Fn, !["rsp"] = sp - 1])
          /\ phase' = "run"
       \/ /\ sp - 1 < 1
          /\ mem' = IF sp >= 1 THEN Store(mem, sp, acc.stack) ELSE mem
          /\ phase' = "fail" /\ UNCHANGED <<kregs, obj>>
  /\ acc' = None
  /\ UNCHANGED <<alive, brk, cur, site, call, args, ptr, act, results, count, history>>

Fail ==
  /\ phase = "fail"
  /\ RestoreExprState(Last(act)) /\ act' = Front(act)
  /\ phase' = "idle"
  /\ UNCHANGED <<alive, mem, brk, cur, call, args, ptr, acc, results, count, history>>

(* malloc has stopped: rax is taken for the block, whatever the stop was.  *)
MallocBack ==
  LET a == Last(act) IN
  /\ phase = "back" /\ a.what = "malloc"
  /\ ptr' = Regs["rax"]
  /\ RestoreExprState(a) /\ act' = Front(act)
  /\ phase' = IF ptr' # 0 THEN a.then ELSE IF Front(act) = << >> THEN "idle" ELSE "fail"
  /\ UNCHANGED <<alive, mem, brk, cur, call, args, acc, results, count, history>>

ReturnRegister(classes, j) ==
  IF classes[j] = "SSE" THEN IF Rank(classes, j) = 1 THEN "xmm0" ELSE "xmm1"
  ELSE IF Rank(classes, j) = 1 THEN "rax" ELSE "rdx"

(* readReturnValue, as far as the type goes; the second eightbyte is not   *)
(* read when it has no class.                                              *)
ReadReturnValue(t) ==
  CASE ClassOf(t)[1] = "MEMORY" -> Load(ptr, Words(t))
    [] ClassOf(t)[1] = "X87" -> Regs["st0"]
    [] OTHER -> [j \in 1 .. Min({Words(t), 2 - Needed(ClassOf(t), "NO")}) |->
                   Regs[ReturnRegister(ClassOf(t), j)]]

CallBack ==
  LET a == Last(act) IN
  /\ phase = "back" /\ a.what = "call"
  /\ \/ /\ HasSlot /\ Mapped(ptr, Words(call.ret))
        /\ \E d \in {ReadReturnValue(call.ret)} :
             /\ mem' = Store(mem, ptr, d)
             /\ results' = Append(results, [slot |-> ptr, type |-> call.ret, data |-> d])
        /\ truth' = [truth EXCEPT !.list = Append(@, IF "call" \in early \/ Straddles(call.ret)
                                                     THEN None ELSE truth.last)]
     \/ /\ ~(HasSlot /\ Mapped(ptr, Words(call.ret)))
        /\ UNCHANGED <<mem, results, truth>>
  /\ RestoreExprState(a) /\ act' = Front(act)
  /\ phase' = "idle"
  /\ UNCHANGED <<alive, brk, cur, call, args, ptr, acc, count, before, received, early>>

(* The thread command.                                                     *)
SetCurrentThread ==
  /\ phase = "idle" /\ cur' \in alive \ {cur}
  /\ UNCHANGED <<inferior, obj, site, phase, call, args, ptr, act, acc, results, count, history>>

-----------------------------------------------------------------------------
(* What the ABI says                                                       *)

(* The scalars a type is made of, with their offsets.                      *)
Leaves[t \in DOMAIN Types] ==
  LET ty == Types[t]
      at(off, u) == {[l EXCEPT !.off = @ + off] : l \in Leaves[u]}
  IN  CASE ty.kind = "struct" -> UNION {at(f.off, f.type) : f \in ToSet(ty.fields)}
        [] ty.kind = "array"  -> UNION {at(k * Types[ty.to].size, ty.to) : k \in 0 .. ty.size \div Types[ty.to].size - 1}
        [] OTHER -> {[off |-> 0, size |-> ty.size, kind |-> ty.kind]}

(* An eightbyte is INTEGER when a part of an integer lies in it.           *)
AbiClasses(t) ==
  LET kinds(h) == {l.kind : l \in {m \in Leaves[t] : m.off < 8 * h /\ m.off + m.size > 8 * (h - 1)}}
  IN  IF Types[t].size > 16 THEN InMemory
      ELSE IF "x87" \in kinds(1) THEN <<"X87", "X87UP">>
      ELSE [h \in 1 .. Words(t) |-> IF "int" \in kinds(h) THEN "INTEGER" ELSE "SSE"]

(* Where a function finds its parameters: each eightbyte in a register or  *)
(* at an offset from the first stack argument.                             *)
AbiPlaces(params, ints) ==
  FoldLeft(LAMBDA at, t :
    LET c   == AbiClasses(t)
        ni  == Needed(c, "INTEGER")
        ns  == Needed(c, "SSE")
        off == IF c[1] = "X87" THEN at.off + (at.off % 2) ELSE at.off
    IN  IF c[1] \notin {"MEMORY", "X87"} /\ at.int + ni <= Len(IntRegs) /\ at.sse + ns <= Len(SseRegs)
        THEN [int |-> at.int + ni, sse |-> at.sse + ns, off |-> at.off,
              places |-> Append(at.places, [j \in DOMAIN c |->
                [reg |-> IF c[j] = "INTEGER" THEN IntRegs[at.int + Rank(c, j)] ELSE SseRegs[at.sse + Rank(c, j)],
                 off |-> 0]])]
        ELSE [at EXCEPT !.off = off + Words(t),
                        !.places = Append(@, [j \in 1 .. Words(t) |-> [reg |-> None, off |-> off + j]])],
    [int |-> ints, sse |-> 0, off |-> 0, places |-> << >>], params)

Found(p, k) == IF p.reg # None THEN k[p.reg]
               ELSE IF k["rsp"] + p.off \in Addr THEN mem[k["rsp"] + p.off] ELSE Junk

-----------------------------------------------------------------------------
(* The inferior                                                            *)

JunkRegs(rax) == [r \in Reg |-> IF r = "rax" THEN rax ELSE IF r = "st0" THEN <<Junk, Junk>> ELSE Junk]

(* Registers after a return: the value in those that set gives, the other  *)
(* argument registers lost.                                                *)
AfterReturn(k, set) ==
  [r \in Reg |-> IF r = "rip" THEN mem[k["rsp"]]
                ELSE IF r = "rsp" THEN k["rsp"] + 1
                ELSE IF r \in DOMAIN set THEN set[r]
                ELSE IF r \in ToSet(IntRegs) \cup ToSet(SseRegs) \cup {"rax", "rdx"} THEN Junk
                ELSE k[r]]

(* The thread arrives at the entry point: the trap stops it there, and     *)
(* without one it runs on.                                                 *)
Arrives(f) ==
  /\ kregs' = [kregs EXCEPT ![cur] = f]
  /\ \/ /\ f["rip"] = Entry /\ site.there /\ site.enabled
        /\ phase' = "back"
        /\ obj' = [obj EXCEPT ![cur].regs = kregs'[obj[cur].pid]]
     \/ /\ ~(f["rip"] = Entry /\ site.there /\ site.enabled)
        /\ UNCHANGED <<phase, obj>>

Runs(at) == phase = "run" /\ kregs[cur]["rip"] = at /\ Mapped(kregs[cur]["rsp"], 1)

MallocReturns ==
  LET n == kregs[cur][IntRegs[1]] IN
  /\ Runs(Malloc)
  /\ \/ /\ Mapped(brk, n) /\ brk' = brk + n
        /\ Arrives(AfterReturn(kregs[cur], [rax |-> brk]))
     \/ /\ ~Mapped(brk, n) /\ brk' = brk
        /\ Arrives(AfterReturn(kregs[cur], [rax |-> 0]))
  /\ UNCHANGED <<alive, mem, cur, site, call, args, ptr, act, acc, results, count, history>>

(* The function takes its parameters and leaves its value.                 *)
FunctionReturns ==
  LET k     == kregs[cur]
      t     == call.ret
      inMem == t # "void" /\ AbiClasses(t) = InMemory
      v     == IF t = "void" THEN << >> ELSE [j \in 1 .. Words(t) |-> Returned(count, j)]
  IN  /\ Runs(Fn)
      /\ \E ps \in {AbiPlaces(call.params, IF inMem THEN 1 ELSE 0).places} :
           received' = [args |-> [i \in DOMAIN ps |-> [j \in DOMAIN ps[i] |-> Found(ps[i][j], k)]],
                        stack |-> \E i \in DOMAIN ps : ps[i][1].reg = None,
                        rsp |-> k["rsp"]]
      /\ truth' = [truth EXCEPT !.last = v]
      /\ IF inMem
         THEN /\ Mapped(k[IntRegs[1]], Words(t))
              /\ mem' = Store(mem, k[IntRegs[1]], v)
              /\ Arrives(AfterReturn(k, [rax |-> k[IntRegs[1]]]))
         ELSE /\ mem' = mem
              /\ Arrives(AfterReturn(k,
                   CASE t = "void" -> << >>
                     [] t # "void" /\ AbiClasses(t)[1] = "X87" -> [st0 |-> v]
                     [] OTHER -> [r \in {ReturnRegister(AbiClasses(t), j) : j \in DOMAIN v} |->
                                    v[CHOOSE j \in DOMAIN v : ReturnRegister(AbiClasses(t), j) = r]]))
      /\ UNCHANGED <<alive, brk, cur, site, call, args, ptr, act, acc, results, count, before, early>>

(* Something else stops the thread first: a breakpoint, a signal.          *)
StopsEarly ==
  /\ phase = "run"
  /\ \E rax \in {0, StackSlots, Junk} : kregs' = [kregs EXCEPT ![cur] = JunkRegs(rax)]
  /\ obj' = [obj EXCEPT ![cur].regs = kregs'[obj[cur].pid]]
  /\ phase' = "back" /\ early' = early \cup {Last(act).what}
  /\ UNCHANGED <<alive, mem, brk, cur, site, call, args, ptr, act, acc, results, count, before, received, truth>>

(* The function creates a thread, and that one stops first.                *)
OtherStops ==
  /\ Runs(Fn)
  /\ \E n \in Thread \ alive :
       /\ alive' = alive \cup {n} /\ cur' = n
       /\ kregs' = [kregs EXCEPT ![cur] = JunkRegs(Junk), ![n] = JunkRegs(0)]
       /\ obj' = [obj EXCEPT ![cur].regs = kregs'[obj[cur].pid], ![n] = [pid |-> n, regs |-> JunkRegs(0)]]
  /\ phase' = "back" /\ early' = early \cup {"call", "other"}
  /\ UNCHANGED <<mem, brk, site, call, args, ptr, act, acc, results, count, before, received, truth>>

Exits ==
  /\ phase = "run" /\ phase' = "gone"
  /\ UNCHANGED <<inferior, obj, cur, site, call, args, ptr, act, acc, results, count, history>>

-----------------------------------------------------------------------------
Init ==
  /\ \E sp \in Stacks :
       kregs = [t \in Thread |-> [r \in Reg |-> CASE r = "rip" -> User [] r = "rsp" -> sp
                                                  [] r = "st0" -> <<0, 0>> [] OTHER -> 0]]
  /\ obj = [t \in Thread |-> [pid |-> t, regs |-> kregs[t]]]
  /\ alive = {Main} /\ cur = Main
  /\ mem = [a \in Addr |-> 3000 + a] /\ brk = StackSlots + 1
  /\ site \in EntrySites
  /\ phase = "idle" /\ call = None /\ args = << >> /\ ptr = 0 /\ act = << >>
  /\ acc = None /\ results = << >> /\ count = 0
  /\ before = None /\ received = None /\ truth = [last |-> None, list |-> << >>] /\ early = {}

Debugger ==
  \/ Evaluate \/ ParseArgument \/ StringArgument \/ StringWritten \/ PrepareCall \/ ReturnSlot
  \/ SetupArguments \/ AssignArgument \/ PushArguments \/ Fail \/ MallocBack \/ CallBack \/ SetCurrentThread
Inferior == MallocReturns \/ FunctionReturns \/ StopsEarly \/ OtherStops \/ Exits
Over     == (phase = "gone" \/ (phase = "idle" /\ count = MaxCalls)) /\ UNCHANGED vars

Next == Debugger \/ Inferior \/ Over
Spec == Init /\ [][Next]_vars

-----------------------------------------------------------------------------
(* Properties                                                              *)

(* Where the code is known to differ from the ABI; the README has each.    *)
(* A literal whose form is not of the class of the parameter; a field that *)
(* is an aggregate and goes from one eightbyte to the next; a long double  *)
(* behind an odd number of eightbytes on the stack.                        *)
KnownWrong ==
  \/ \E i \in DOMAIN call.params :
       \/ Straddles(call.params[i])
       \/ i \in DOMAIN call.args /\ call.args[i].k \in {"int", "float", "string"}
            /\ AbiClasses(call.params[i])[1] # LiteralClass(call.args[i].k)[1]
       \/ /\ Types[call.params[i]].kind = "x87"
          /\ AbiPlaces(SubSeq(call.params, 1, i - 1), IF SlotPassed THEN 1 ELSE 0).off % 2 = 1

WellTyped == \A i \in DOMAIN args : args[i].k = "value" => args[i].type = call.params[i]

(* The function finds the arguments of the expression where the ABI has    *)
(* its parameters, and the stack aligned when some are on it               *)
(* (setupArguments).                                                       *)
ArgumentsArrive ==
  received # None /\ early = {} /\ ~KnownWrong /\ WellTyped =>
    /\ \A i \in DOMAIN call.params : received.args[i] = args[i].data
    /\ received.stack => (received.rsp + 1) % 2 = 0

(* A result is the value the function returned, in registers or in memory, *)
(* then and whenever $N has been read again (readReturnValue,              *)
(* GetExpressionResult).  At the prompt its slot still has it: no later    *)
(* call, string or result lands on it, as long as malloc was not           *)
(* interrupted (inferiorMalloc).                                           *)
ResultsKept ==
  "malloc" \notin early =>
    /\ Len(truth.list) = Len(results)
    /\ \A i \in DOMAIN results : truth.list[i] # None =>
         /\ results[i].data = truth.list[i]
         /\ phase = "idle" => Load(results[i].slot, Len(truth.list[i])) = truth.list[i]

(* However the call and the calls of malloc in it ended, nothing of it is  *)
(* left (restoreExprState): the thread that made it has its registers      *)
(* back, and so has the debugger's copy, unless another thread's stop      *)
(* ended the call; the stack in use, at and above its rsp, is untouched    *)
(* (the red zone below is not spared); and the site at the entry point,    *)
(* which the return address borrows, has its handler, or is not there.     *)
CallerRestored ==
  phase = "idle" /\ before # None =>
    /\ act = << >> /\ site = before.site
    /\ ~before.mixed =>
         /\ kregs[before.cur] = before.kregs[before.cur]
         /\ "other" \notin early => obj[before.cur] = [pid |-> before.cur, regs |-> kregs[before.cur]]
         /\ "malloc" \notin early =>
              \A a \in before.kregs[before.cur]["rsp"] .. StackSlots : mem[a] = before.mem[a]
=============================================================================
