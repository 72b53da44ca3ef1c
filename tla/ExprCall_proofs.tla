-------------------------- MODULE ExprCall_proofs --------------------------
(***************************************************************************)
(* A call of a function of the inferior leaves nothing behind, for every   *)
(* set of types, calls, registers and stack sizes: proofs about ExprCall.  *)
(***************************************************************************)
EXTENDS ExprCall, FiniteSetTheorems, SequenceTheorems, TLAPS

-----------------------------------------------------------------------------
(* The inductive invariant                                                 *)

Prepared == {"slot", "setup", "assign", "fail"}
Busy     == {"args", "string", "run", "back"} \cup Prepared

IsSeq(s)  == s \in Seq(ToSet(s))
IsFile(f) == f = [r \in Reg |-> f[r]]

InCall   == Len(act) = 1 /\ act[1].what = "call"
InString == Len(act) = 1 /\ act[1].what = "malloc" /\ act[1].then = "string"
InSlot   == /\ Len(act) = 2 /\ act[1].what = "call"
            /\ act[2].what = "malloc" /\ act[2].then = "setup"
InMalloc == InString \/ InSlot

(* The calls in progress, by what EvaluateExpression is doing.             *)
PhaseInv ==
  /\ IsSeq(act)
  /\ phase \in Busy \cup {"idle", "gone"}
  /\ phase \in {"idle", "args", "string"} => act = << >>
  /\ phase \in Prepared => InCall
  /\ phase \in {"run", "back"} => InCall \/ InMalloc

(* The site at the entry point is the user's, or borrowed; the outer call  *)
(* knows how it was, the inner one that it is borrowed already.            *)
WellSite(s) ==
  /\ s \in [there : BOOLEAN, enabled : BOOLEAN, handler : STRING]
  /\ ~s.there => s = Absent
Borrowed ==
  [there |-> TRUE, enabled |-> IF before.site.there THEN before.site.enabled ELSE TRUE, handler |-> "stop"]
SiteInv ==
  /\ phase = "idle" => WellSite(site)
  /\ phase \in Busy => WellSite(before.site)
  /\ phase \in {"args", "string"} => site = before.site
  /\ phase \in Prepared \cup {"run", "back"} =>
       /\ site = Borrowed
       /\ act[1].existed = before.site.there /\ act[1].old = before.site.handler
       /\ InSlot => act[2].existed = TRUE /\ act[2].old = "stop"
  /\ phase = "idle" /\ before # None => site = before.site

(* The call, the arguments and the results are of known types.             *)
WellArg(a) == a.type \in DOMAIN Types \/ (a.type = None /\ Len(a.data) = 1)
ArgsInv ==
  phase \in Busy => /\ call \in Calls
                   /\ IsSeq(args)
                   /\ \A i \in DOMAIN args : WellArg(args[i])
SlotInv == phase = "slot" => HasSlot
ResultsInv ==
  /\ IsSeq(results)
  /\ \A i \in DOMAIN results :
       /\ results[i] = [slot |-> results[i].slot, type |-> results[i].type, data |-> results[i].data]
       /\ results[i].type \in DOMAIN Types
AccInv ==
  phase = "assign" =>
    /\ acc = [next |-> acc.next, int |-> acc.int, sse |-> acc.sse, stack |-> acc.stack]
    /\ acc.next \in Nat \ {0} /\ acc.int \in Nat /\ IsSeq(acc.stack)
    /\ SlotPassed => acc.int >= 1
DomainInv ==
  /\ mem = [b \in Addr |-> mem[b]]
  /\ kregs = [t \in Thread |-> kregs[t]] /\ obj = [t \in Thread |-> obj[t]]
  /\ alive \subseteq Thread

(* As long as no other thread's stop has ended a call, the object of a     *)
(* thread is its own, and as good as the kernel's unless the thread runs.  *)
Own(t) == [pid |-> t, regs |-> kregs[t]]
OwnInv ==
  "other" \notin early =>
    /\ cur \in Thread
    /\ \A t \in Thread : /\ obj[t] = [pid |-> t, regs |-> obj[t].regs]
                         /\ IsFile(obj[t].regs) /\ IsFile(kregs[t])
                         /\ phase \notin {"run", "gone"} \/ t # cur => obj[t] = Own(t)
                         /\ phase = "idle" \/ t # cur => kregs[t]["rsp"] \in 1 .. StackSlots
    /\ phase \in Busy => cur = before.cur /\ ~before.mixed
    /\ brk \in Int /\ brk > StackSlots

(* What the calls in progress saved is what the caller had.                *)
Caller == [pid |-> before.cur, regs |-> before.kregs[before.cur]]
CallerRsp == Caller.regs["rsp"]
SavedInv ==
  /\ phase \in Busy /\ ~before.mixed =>
       /\ before.cur \in Thread /\ IsFile(Caller.regs) /\ CallerRsp \in 1 .. StackSlots
       /\ "other" \in early => phase = "back" /\ InCall
       /\ phase \in {"args", "string", "slot", "setup"} => obj[cur] = Caller
       /\ phase = "assign" => /\ Regs["rsp"] = CallerRsp
                              /\ SlotPassed => Regs[IntRegs[1]] = ptr
       /\ phase \in Prepared \cup {"run", "back"} =>
            /\ act[1].saved = Caller
            /\ InSlot => act[2].saved = Caller
  /\ phase = "idle" /\ before # None /\ ~before.mixed =>
       before.cur \in Thread /\ kregs[before.cur] = Caller.regs

(* Where the thread that runs is: at the entry of malloc or of the         *)
(* function, with the entry point for its return address, or back.         *)
RunInv ==
  phase = "run" /\ ~before.mixed =>
    LET k == kregs[cur] IN
    /\ InMalloc => /\ k["rip"] \in {Malloc, Entry}
                   /\ k["rip"] = Malloc =>
                        /\ k["rsp"] \in Int /\ k[IntRegs[1]] \in Nat
                        /\ Mapped(k["rsp"], 1) => mem[k["rsp"]] = Entry
    /\ InCall => /\ k["rip"] \in {Fn, Entry}
                 /\ k["rip"] = Fn => /\ k["rsp"] \in Int /\ mem[k["rsp"]] = Entry
                                     /\ SlotPassed => k[IntRegs[1]] = ptr

(* Blocks that malloc returned lie in the heap, and what the call writes   *)
(* elsewhere is below the caller's stack.                                  *)
OnHeap(p)  == p \in Int /\ p > StackSlots
StackKept  == \A a \in CallerRsp .. StackSlots : mem[a] = before.mem[a]
MemInv ==
  /\ phase \in Busy /\ ~before.mixed /\ "malloc" \notin early =>
       /\ StackKept
       /\ phase = "string" => OnHeap(ptr)
       /\ phase \in {"setup", "assign", "run", "back"} /\ InCall /\ HasSlot => OnHeap(ptr)
       /\ phase = "back" /\ InMalloc => Regs["rax"] = 0 \/ OnHeap(Regs["rax"])
  /\ phase = "idle" /\ before # None /\ ~before.mixed /\ "malloc" \notin early => StackKept

RestoreInv == /\ PhaseInv /\ SiteInv /\ ArgsInv /\ SlotInv /\ ResultsInv /\ AccInv /\ DomainInv
              /\ OwnInv /\ SavedInv /\ RunInv /\ MemInv

-----------------------------------------------------------------------------
(* Sequences of calls in progress, and sequences in general.               *)

LEMMA SeqAppend ==
  ASSUME NEW s, NEW x, IsSeq(s)
  PROVE  /\ IsSeq(Append(s, x)) /\ Len(s) \in Nat /\ Len(Append(s, x)) = Len(s) + 1
         /\ DOMAIN s = 1 .. Len(s) /\ DOMAIN Append(s, x) = 1 .. Len(s) + 1
         /\ \A i \in 1 .. Len(s) : Append(s, x)[i] = s[i]
         /\ Append(s, x)[Len(s) + 1] = x
<1> DEFINE S == ToSet(s) \cup {x}
<1>1. s \in Seq(S)
  BY DEF IsSeq
<1>2. Append(s, x) \in Seq(S) /\ Len(s) \in Nat /\ Len(Append(s, x)) = Len(s) + 1
      /\ DOMAIN s = 1 .. Len(s)
      /\ DOMAIN Append(s, x) = 1 .. Len(s) + 1
      /\ \A i \in 1 .. Len(s) : Append(s, x)[i] = s[i]
      /\ Append(s, x)[Len(s) + 1] = x
  BY <1>1
<1>3. IsSeq(Append(s, x))
  <2> DEFINE t == Append(s, x)
  <2>1. t \in Seq(S) /\ Len(t) \in Nat /\ DOMAIN t = 1 .. Len(t)
    BY <1>2
  <2> HIDE DEF t
  <2>2. \A i \in 1 .. Len(t) : t[i] \in ToSet(t)
    BY <2>1 DEF ToSet
  <2>3. t \in Seq(ToSet(t))
    BY <2>1, <2>2
  <2> QED BY <2>3 DEF t, IsSeq
<1> QED BY <1>2, <1>3

LEMMA SeqFront ==
  ASSUME NEW s, IsSeq(s), Len(s) >= 1
  PROVE  /\ IsSeq(Front(s)) /\ Len(Front(s)) = Len(s) - 1
         /\ \A i \in 1 .. Len(s) - 1 : Front(s)[i] = s[i]
         /\ Last(s) = s[Len(s)]
         /\ Len(s) = 1 => Front(s) = << >>
         /\ Len(s) > 1 => Front(s) # << >>
<1> DEFINE t == Front(s)
<1>1. s \in Seq(ToSet(s)) /\ Len(s) \in Nat
  BY DEF IsSeq
<1>2. /\ t \in Seq(ToSet(s)) /\ Len(t) = Len(s) - 1 /\ DOMAIN t = 1 .. Len(t)
      /\ \A i \in 1 .. Len(s) - 1 : t[i] = s[i]
  <2>1. \A i \in 1 .. Len(s) - 1 : s[i] \in ToSet(s)
    BY <1>1
  <2> DEFINE n == Len(s) - 1
  <2>2. n \in Int /\ 1 \in Int /\ n >= 0 /\ \A i \in 1 .. n : s[i] \in ToSet(s)
    BY <1>1, <2>1
  <2>3. t = SubSeq(s, 1, n)
    BY DEF Front
  <2> HIDE DEF t, n
  <2>4. /\ t \in Seq(ToSet(s)) /\ Len(t) = IF 1 <= n THEN n - 1 + 1 ELSE 0
        /\ \A i \in 1 .. n - 1 + 1 : t[i] = s[1 + i - 1]
    BY <2>2, <2>3, SubSeqProperties
  <2>5. Len(t) = n /\ \A i \in 1 .. n : t[i] = s[i]
    BY <2>2, <2>4
  <2> QED BY <1>1, <2>4, <2>5 DEF n
<1> HIDE DEF t
<1>3. \A i \in 1 .. Len(t) : t[i] \in ToSet(t)
  BY <1>2 DEF ToSet
<1>4. IsSeq(t)
  BY <1>1, <1>2, <1>3 DEF IsSeq
<1>5. Len(s) = 1 => t = << >>
  BY <1>2
<1>6. Len(s) > 1 => t # << >>
  BY <1>1, <1>2
<1> QED BY <1>2, <1>4, <1>5, <1>6 DEF t, Last

LEMMA SeqEmpty == IsSeq(<< >>) /\ Len(<< >>) = 0
  BY DEF IsSeq

LEMMA PushFirst ==
  ASSUME NEW s, NEW x, s = << >>
  PROVE  IsSeq(Append(s, x)) /\ Len(Append(s, x)) = 1 /\ Append(s, x)[1] = x
<1>1. IsSeq(s) /\ Len(s) = 0
  BY SeqEmpty
<1>2. IsSeq(Append(s, x)) /\ Len(Append(s, x)) = Len(s) + 1 /\ Append(s, x)[Len(s) + 1] = x
  BY <1>1, SeqAppend, Zenon
<1>3. Len(s) + 1 = 1
  BY <1>1
<1> QED BY <1>2, <1>3, Zenon

LEMMA PushSecond ==
  ASSUME NEW s, NEW x, IsSeq(s), Len(s) = 1
  PROVE  /\ IsSeq(Append(s, x)) /\ Len(Append(s, x)) = 2
         /\ Append(s, x)[1] = s[1] /\ Append(s, x)[2] = x
<1>1. /\ IsSeq(Append(s, x)) /\ Len(Append(s, x)) = Len(s) + 1
      /\ \A i \in 1 .. Len(s) : Append(s, x)[i] = s[i]
      /\ Append(s, x)[Len(s) + 1] = x
  BY SeqAppend
<1>2. Len(s) + 1 = 2 /\ 1 \in 1 .. Len(s)
  OBVIOUS
<1> QED BY <1>1, <1>2

LEMMA PopFirst ==
  ASSUME NEW s, IsSeq(s), Len(s) = 1
  PROVE  Last(s) = s[1] /\ Front(s) = << >>
  BY SeqFront

LEMMA PopSecond ==
  ASSUME NEW s, IsSeq(s), Len(s) = 2
  PROVE  /\ Last(s) = s[2] /\ IsSeq(Front(s)) /\ Len(Front(s)) = 1 /\ Front(s)[1] = s[1]
         /\ Front(s) # << >>
<1>1. /\ IsSeq(Front(s)) /\ Len(Front(s)) = Len(s) - 1
      /\ \A i \in 1 .. Len(s) - 1 : Front(s)[i] = s[i]
      /\ Last(s) = s[Len(s)]
      /\ Len(s) > 1 => Front(s) # << >>
  <2>1. Len(s) >= 1
    OBVIOUS
  <2> QED BY <2>1, SeqFront, Zenon
<1>2. Len(s) - 1 = 1 /\ 1 \in 1 .. Len(s) - 1 /\ Len(s) > 1
  OBVIOUS
<1> QED BY <1>1, <1>2

LEMMA SeqConcat ==
  ASSUME NEW s, NEW f, NEW n \in Nat, IsSeq(s), f = [j \in 1 .. n |-> f[j]]
  PROVE  IsSeq(s \o f)
<1> DEFINE S == ToSet(s) \cup {f[j] : j \in 1 .. n}
           t == s \o f
<1>1. s \in Seq(S) /\ f \in Seq(S)
  BY DEF IsSeq
<1>2. t \in Seq(S) /\ Len(t) \in Nat /\ DOMAIN t = 1 .. Len(t)
  BY <1>1
<1> HIDE DEF t
<1>3. \A i \in 1 .. Len(t) : t[i] \in ToSet(t)
  BY <1>2 DEF ToSet
<1>4. t \in Seq(ToSet(t))
  BY <1>2, <1>3
<1> QED BY <1>4 DEF t, IsSeq

LEMMA NeededNat ==
  ASSUME NEW c, NEW k
  PROVE  Needed(c, k) \in Nat
<1> DEFINE S == {j \in {1, 2} : j \in DOMAIN c /\ c[j] = k}
<1>1. IsFiniteSet({1, 2})
  <2>1. IsFiniteSet({1})
    BY FS_Singleton
  <2>2. {1, 2} = {1} \cup {2}
    OBVIOUS
  <2> QED BY <2>1, <2>2, FS_AddElement
<1>2. IsFiniteSet(S)
  BY <1>1, FS_Subset, S \subseteq {1, 2}
<1> QED BY <1>2, FS_CardinalityType DEF Needed

-----------------------------------------------------------------------------
(* The phases and the borrowed site                                        *)

LEMMA BorrowAndReturn ==
  ASSUME NEW s, WellSite(s), NEW a, a.existed = s.there, a.old = s.handler,
         site = [there |-> TRUE, enabled |-> IF s.there THEN s.enabled ELSE TRUE, handler |-> "stop"]
  PROVE  Restored(a) = s
<1>1. CASE s.there
  <2>1. site.there = TRUE /\ site.enabled = s.enabled
    BY <1>1
  <2>2. Restored(a) = [there |-> TRUE, enabled |-> s.enabled, handler |-> s.handler]
    BY <1>1, <2>1 DEF Restored
  <2>3. s = [there |-> TRUE, enabled |-> s.enabled, handler |-> s.handler]
    BY <1>1 DEF WellSite
  <2> QED BY <2>2, <2>3
<1>2. CASE ~s.there
  BY <1>2 DEF Restored, WellSite
<1> QED BY <1>1, <1>2

LEMMA BorrowTwice ==
  ASSUME NEW b, site = [there |-> TRUE, enabled |-> b, handler |-> "stop"]
  PROVE  /\ \A a : a.existed = TRUE /\ a.old = "stop" => Restored(a) = site
         /\ PrepareSite => site' = site
         /\ site.there = TRUE /\ site.handler = "stop"
<1>1. site.there = TRUE /\ site.enabled = b /\ site.handler = "stop"
  OBVIOUS
<1>2. ASSUME NEW a, a.existed = TRUE, a.old = "stop" PROVE Restored(a) = site
  BY <1>1, <1>2 DEF Restored
<1>3. ASSUME PrepareSite PROVE site' = site
  BY <1>1, <1>3 DEF PrepareSite
<1> QED BY <1>1, <1>2, <1>3

(* How the stack of calls changes.                                         *)

LEMMA StringEffect ==
  ASSUME PhaseInv, StringArgument
  PROVE  /\ phase = "args" /\ phase' = "run" /\ IsSeq(act') /\ InString' /\ ~InSlot'
         /\ act'[1] = Activation("malloc", "string")
<1>1. act = << >> /\ act' = Append(act, Activation("malloc", "string")) /\ phase = "args" /\ phase' = "run"
  BY DEF StringArgument, Parsing, InferiorMalloc, PhaseInv
<1>2. Activation("malloc", "string").what = "malloc" /\ Activation("malloc", "string").then = "string"
  BY DEF Activation
<1>3. IsSeq(act') /\ Len(act') = 1 /\ act'[1] = Activation("malloc", "string")
  BY <1>1, PushFirst
<1> QED BY <1>1, <1>2, <1>3 DEF InString, InSlot

LEMMA CallEffect ==
  ASSUME PhaseInv, PrepareCall
  PROVE  /\ phase = "args" /\ phase' = IF HasSlot THEN "slot" ELSE "setup"
         /\ IsSeq(act') /\ InCall' /\ ~InSlot' /\ act'[1] = Activation("call", "none")
<1>1. /\ act = << >> /\ act' = Append(act, Activation("call", "none"))
      /\ phase = "args" /\ phase' = IF HasSlot THEN "slot" ELSE "setup"
  BY DEF PrepareCall, PhaseInv
<1>2. Activation("call", "none").what = "call"
  BY DEF Activation
<1>3. IsSeq(act') /\ Len(act') = 1 /\ act'[1] = Activation("call", "none")
  BY <1>1, PushFirst
<1> QED BY <1>1, <1>2, <1>3 DEF InCall, InSlot

LEMMA SlotEffect ==
  ASSUME PhaseInv, ReturnSlot
  PROVE  /\ phase = "slot" /\ phase' = "run" /\ IsSeq(act') /\ InSlot' /\ ~InCall' /\ ~InString'
         /\ act'[1] = act[1] /\ act'[2] = Activation("malloc", "setup")
<1>1. /\ IsSeq(act) /\ Len(act) = 1 /\ act[1].what = "call"
      /\ act' = Append(act, Activation("malloc", "setup")) /\ phase = "slot" /\ phase' = "run"
  BY DEF ReturnSlot, InferiorMalloc, PhaseInv, Prepared, InCall
<1>2. Activation("malloc", "setup").what = "malloc" /\ Activation("malloc", "setup").then = "setup"
  BY DEF Activation
<1>3. IsSeq(act') /\ Len(act') = 2 /\ act'[1] = act[1] /\ act'[2] = Activation("malloc", "setup")
  BY <1>1, PushSecond
<1> QED BY <1>1, <1>2, <1>3 DEF InCall, InString, InSlot

LEMMA FailEffect ==
  ASSUME PhaseInv, Fail
  PROVE  phase = "fail" /\ phase' = "idle" /\ InCall /\ ~InSlot /\ Last(act) = act[1] /\ act' = << >>
<1>1. IsSeq(act) /\ Len(act) = 1 /\ InCall /\ phase = "fail" /\ phase' = "idle" /\ act' = Front(act)
  BY DEF Fail, PhaseInv, Prepared, InCall
<1>2. act' = << >> /\ Last(act) = act[1]
  BY <1>1, PopFirst
<1> QED BY <1>1, <1>2 DEF InSlot

LEMMA MallocBackEffect ==
  ASSUME PhaseInv, MallocBack
  PROVE  /\ phase = "back"
         /\ \/ /\ InString /\ ~InSlot /\ Last(act) = act[1] /\ act' = << >>
               /\ phase' = IF ptr' # 0 THEN "string" ELSE "idle"
            \/ /\ InSlot /\ Last(act) = act[2] /\ IsSeq(act') /\ InCall' /\ ~InSlot' /\ act'[1] = act[1]
               /\ phase' = IF ptr' # 0 THEN "setup" ELSE "fail"
<1>1. /\ phase = "back" /\ act' = Front(act) /\ Last(act).what = "malloc" /\ IsSeq(act)
      /\ InCall \/ InString \/ InSlot
  BY DEF MallocBack, PhaseInv, InMalloc
<1>2. phase' = IF ptr' # 0 THEN Last(act).then ELSE IF Front(act) = << >> THEN "idle" ELSE "fail"
  BY DEF MallocBack
<1>3. CASE InCall
  BY <1>1, <1>3, PopFirst DEF InCall
<1>4. CASE InString
  <2>1. Len(act) = 1 /\ act[1].then = "string"
    BY <1>4 DEF InString
  <2>2. Last(act) = act[1] /\ Front(act) = << >>
    BY <1>1, <2>1, PopFirst
  <2> QED BY <1>1, <1>2, <1>4, <2>1, <2>2 DEF InSlot
<1>5. CASE InSlot
  <2>1. Len(act) = 2 /\ act[1].what = "call" /\ act[2].then = "setup"
    BY <1>5 DEF InSlot
  <2>2. Last(act) = act[2] /\ IsSeq(act') /\ act' # << >> /\ Len(act') = 1 /\ act'[1] = act[1]
    BY <1>1, <2>1, PopSecond
  <2>3. phase' = IF ptr' # 0 THEN "setup" ELSE "fail"
    BY <1>1, <1>2, <2>1, <2>2
  <2> QED BY <1>1, <1>5, <2>1, <2>2, <2>3 DEF InCall, InSlot
<1> QED BY <1>1, <1>3, <1>4, <1>5

LEMMA CallBackEffect ==
  ASSUME PhaseInv, CallBack
  PROVE  phase = "back" /\ phase' = "idle" /\ InCall /\ ~InSlot /\ Last(act) = act[1] /\ act' = << >>
<1>1. /\ phase = "back" /\ act' = Front(act) /\ Last(act).what = "call" /\ phase' = "idle" /\ IsSeq(act)
      /\ InCall \/ InString \/ InSlot
  BY DEF CallBack, PhaseInv, InMalloc
<1>2. CASE InCall
  <2>1. act' = << >> /\ Last(act) = act[1]
    BY <1>1, <1>2, PopFirst DEF InCall
  <2> QED BY <1>1, <1>2, <2>1 DEF InCall, InSlot
<1>3. CASE InString
  BY <1>1, <1>3, PopFirst DEF InString
<1>4. CASE InSlot
  <2>1. Last(act) = act[2]
    BY <1>1, <1>4, PopSecond DEF InSlot
  <2> QED BY <1>1, <1>4, <2>1 DEF InSlot
<1> QED BY <1>1, <1>2, <1>3, <1>4

LEMMA PhaseStep ==
  ASSUME PhaseInv, [Next]_vars
  PROVE  PhaseInv'
<1> USE DEF Busy, Prepared
<1>1. CASE UNCHANGED vars
  BY <1>1 DEF PhaseInv, InCall, InString, InSlot, InMalloc, vars, inferior, history
<1>2. CASE Evaluate
  BY <1>2 DEF PhaseInv, Evaluate
<1>3. CASE ParseArgument
  BY <1>3 DEF PhaseInv, ParseArgument, Parsing
<1>4. CASE StringArgument
  BY <1>4, StringEffect DEF PhaseInv, InMalloc
<1>5. CASE StringWritten
  BY <1>5 DEF PhaseInv, StringWritten
<1>6. CASE PrepareCall
  BY <1>6, CallEffect DEF PhaseInv
<1>7. CASE ReturnSlot
  BY <1>7, SlotEffect DEF PhaseInv, InMalloc
<1>8. CASE SetupArguments \/ AssignArgument \/ PushArguments
  BY <1>8 DEF PhaseInv, InCall, SetupArguments, AssignArgument, PushArguments
<1>9. CASE Fail
  BY <1>9, FailEffect, SeqEmpty DEF PhaseInv
<1>10. CASE MallocBack
  BY <1>10, MallocBackEffect, SeqEmpty DEF PhaseInv
<1>11. CASE CallBack
  BY <1>11, CallBackEffect, SeqEmpty DEF PhaseInv
<1>12. CASE SetCurrentThread
  BY <1>12 DEF PhaseInv, SetCurrentThread
<1>13. CASE MallocReturns
  BY <1>13 DEF PhaseInv, InCall, InString, InSlot, InMalloc, MallocReturns, Runs, Arrives
<1>14. CASE FunctionReturns
  BY <1>14 DEF PhaseInv, InCall, InString, InSlot, InMalloc, FunctionReturns, Runs, Arrives
<1>15. CASE StopsEarly \/ OtherStops \/ Exits
  BY <1>15 DEF PhaseInv, InCall, InString, InSlot, InMalloc, StopsEarly, OtherStops, Exits, Runs
<1> QED BY <1>1, <1>2, <1>3, <1>4, <1>5, <1>6, <1>7, <1>8, <1>9, <1>10, <1>11, <1>12, <1>13, <1>14, <1>15
        DEF Next, Debugger, Inferior, Over

LEMMA SiteStep ==
  ASSUME PhaseInv, PhaseInv', SiteInv, [Next]_vars
  PROVE  SiteInv'
<1> USE DEF Busy, Prepared
<1>1. CASE UNCHANGED vars
  BY <1>1 DEF SiteInv, WellSite, Borrowed, InSlot, vars, inferior, history
<1>2. CASE Evaluate
  <2>1. phase = "idle" /\ phase' = "args" /\ before'.site = site /\ site' = site
    BY <1>2 DEF Evaluate
  <2> QED BY <2>1 DEF SiteInv, WellSite
<1>3. CASE ParseArgument
  BY <1>3 DEF SiteInv, WellSite, ParseArgument, Parsing, history
<1>4. CASE StringArgument
  <2>1. site = before.site /\ before' = before /\ PrepareSite
    BY <1>4 DEF StringArgument, Parsing, InferiorMalloc, SiteInv, history
  <2>2. site' = Borrowed'
    BY <2>1 DEF PrepareSite, Borrowed
  <2>3. act'[1].existed = site.there /\ act'[1].old = site.handler
    BY <1>4, StringEffect DEF Activation
  <2> QED BY <1>4, <2>1, <2>2, <2>3, StringEffect DEF SiteInv, WellSite
<1>5. CASE StringWritten
  BY <1>5 DEF SiteInv, WellSite, StringWritten, history
<1>6. CASE PrepareCall
  <2>1. site = before.site /\ before' = before /\ PrepareSite
    BY <1>6 DEF PrepareCall, SiteInv, history
  <2>2. site' = Borrowed'
    BY <2>1 DEF PrepareSite, Borrowed
  <2>3. act'[1].existed = site.there /\ act'[1].old = site.handler
    BY <1>6, CallEffect DEF Activation
  <2> QED BY <1>6, <2>1, <2>2, <2>3, CallEffect DEF SiteInv, WellSite
<1>7. CASE ReturnSlot
  <2>1. site = Borrowed /\ before' = before /\ PrepareSite
    BY <1>7 DEF ReturnSlot, InferiorMalloc, SiteInv, history
  <2>2. site' = site /\ site.there = TRUE /\ site.handler = "stop"
    BY <2>1, BorrowTwice DEF Borrowed
  <2>3. act'[2].existed = site.there /\ act'[2].old = site.handler
    BY <1>7, SlotEffect DEF Activation
  <2> QED BY <1>7, <2>1, <2>2, <2>3, SlotEffect DEF SiteInv, WellSite, Borrowed
<1>8. CASE SetupArguments \/ AssignArgument \/ PushArguments
  BY <1>8 DEF SiteInv, WellSite, Borrowed, InSlot, SetupArguments, AssignArgument, PushArguments, history
<1>9. CASE Fail
  <2>1. site' = Restored(act[1]) /\ before' = before
    BY <1>9, FailEffect DEF Fail, RestoreExprState, history
  <2>2. site' = before.site
    BY <1>9, <2>1, FailEffect, BorrowAndReturn DEF SiteInv, Borrowed
  <2> QED BY <1>9, <2>1, <2>2, FailEffect DEF SiteInv, WellSite
<1>10. CASE MallocBack
  <2>1. site' = Restored(Last(act)) /\ before' = before /\ phase = "back"
    BY <1>10 DEF MallocBack, RestoreExprState, history
  <2>2. CASE InString
    <3>1. Last(act) = act[1] /\ phase' \in {"string", "idle"}
      BY <1>10, <2>2, MallocBackEffect DEF InString, InSlot
    <3>2. site' = before.site
      BY <2>1, <3>1, BorrowAndReturn DEF SiteInv, Borrowed
    <3> QED BY <2>1, <3>1, <3>2 DEF SiteInv, WellSite
  <2>3. CASE InSlot
    <3>1. Last(act) = act[2] /\ phase' \in {"setup", "fail"} /\ act'[1] = act[1] /\ ~InSlot'
      BY <1>10, <2>3, MallocBackEffect DEF InString, InSlot
    <3>2. site' = site
      BY <2>1, <2>3, <3>1, BorrowTwice DEF SiteInv, Borrowed
    <3> QED BY <2>1, <3>1, <3>2 DEF SiteInv, WellSite, Borrowed
  <2> QED BY <1>10, <2>2, <2>3, MallocBackEffect
<1>11. CASE CallBack
  <2>1. site' = Restored(act[1]) /\ before' = before
    BY <1>11, CallBackEffect DEF CallBack, RestoreExprState, history
  <2>2. site' = before.site
    BY <1>11, <2>1, CallBackEffect, BorrowAndReturn DEF SiteInv, Borrowed
  <2> QED BY <1>11, <2>1, <2>2, CallBackEffect DEF SiteInv, WellSite
<1>12. CASE SetCurrentThread
  BY <1>12 DEF SiteInv, WellSite, SetCurrentThread, history
<1>13. CASE MallocReturns
  BY <1>13 DEF SiteInv, WellSite, Borrowed, InSlot, MallocReturns, Runs, Arrives, history
<1>14. CASE FunctionReturns
  BY <1>14 DEF SiteInv, WellSite, Borrowed, InSlot, FunctionReturns, Runs, Arrives
<1>15. CASE StopsEarly \/ OtherStops \/ Exits
  BY <1>15 DEF SiteInv, WellSite, Borrowed, InSlot, StopsEarly, OtherStops, Exits, Runs, history
<1> QED BY <1>1, <1>2, <1>3, <1>4, <1>5, <1>6, <1>7, <1>8, <1>9, <1>10, <1>11, <1>12, <1>13, <1>14, <1>15
        DEF Next, Debugger, Inferior, Over

-----------------------------------------------------------------------------
(* Types, arguments and results                                            *)

LEMMA ResultsStep ==
  ASSUME PhaseInv, ArgsInv, ResultsInv, [Next]_vars
  PROVE  ResultsInv'
<1>1. CASE UNCHANGED vars \/ Evaluate \/ StringArgument \/ StringWritten \/ PrepareCall \/ ReturnSlot \/ SetupArguments \/ AssignArgument \/ PushArguments \/ Fail \/ MallocBack \/ SetCurrentThread
  <2>1. results' = results
    BY <1>1 DEF vars, Evaluate, StringArgument, StringWritten, PrepareCall, ReturnSlot, SetupArguments,
                AssignArgument, PushArguments, Fail, MallocBack, SetCurrentThread
  <2> QED BY <2>1 DEF ResultsInv
<1>2. CASE MallocReturns \/ FunctionReturns \/ StopsEarly \/ OtherStops \/ Exits
  <2>1. results' = results
    BY <1>2 DEF MallocReturns, FunctionReturns, StopsEarly, OtherStops, Exits
  <2> QED BY <2>1 DEF ResultsInv
<1>3. CASE ParseArgument
  <2>1. CASE results' = results
    BY <2>1 DEF ResultsInv
  <2>2. CASE results' # results
    <3>1. PICK n, d : n \in DOMAIN results /\ results' = [results EXCEPT ![n].data = d]
      BY <1>3, <2>2 DEF ParseArgument
    <3>2. DOMAIN results' = DOMAIN results /\ DOMAIN results = 1 .. Len(results) /\ Len(results) \in Nat
      BY <3>1 DEF ResultsInv, IsSeq
    <3>3. \A i \in DOMAIN results : i # n => results'[i] = results[i]
      BY <3>1, <3>2
    <3>4. results'[n] = [slot |-> results[n].slot, type |-> results[n].type, data |-> d]
      BY <3>1, <3>2 DEF ResultsInv
    <3>5. IsSeq(results')
      <4>1. results' = [i \in 1 .. Len(results) |-> results'[i]]
        BY <3>1, <3>2
      <4>2. \A i \in 1 .. Len(results) : results'[i] \in ToSet(results')
        BY <3>2 DEF ToSet
      <4> QED BY <3>2, <4>1, <4>2 DEF IsSeq
    <3> QED BY <3>2, <3>3, <3>4, <3>5 DEF ResultsInv
  <2> QED BY <2>1, <2>2
<1>4. CASE CallBack
  <2>1. CASE results' = results
    BY <2>1 DEF ResultsInv
  <2>2. CASE results' # results
    <3>1. PICK d : results' = Append(results, [slot |-> ptr, type |-> call.ret, data |-> d]) /\ HasSlot
      BY <1>4, <2>2 DEF CallBack
    <3>2. call.ret \in DOMAIN Types
      BY <1>4, <3>1, CallBackEffect, TypesAssumption DEF ArgsInv, Busy, HasSlot
    <3> DEFINE r == [slot |-> ptr, type |-> call.ret, data |-> d]
    <3>3. /\ IsSeq(results') /\ Len(results) \in Nat /\ DOMAIN results' = 1 .. Len(results) + 1
          /\ DOMAIN results = 1 .. Len(results)
          /\ \A i \in 1 .. Len(results) : results'[i] = results[i]
          /\ results'[Len(results) + 1] = r
      <4>1. IsSeq(results) /\ results' = Append(results, r)
        BY <3>1 DEF ResultsInv
      <4> HIDE DEF r
      <4> QED BY <4>1, SeqAppend
    <3>4. ASSUME NEW i \in DOMAIN results', i # Len(results) + 1 PROVE i \in DOMAIN results /\ results'[i] = results[i]
      BY <3>3, <3>4
    <3>5. r = [slot |-> r.slot, type |-> r.type, data |-> r.data] /\ r.type = call.ret
      OBVIOUS
    <3> HIDE DEF r
    <3> QED BY <3>2, <3>3, <3>4, <3>5 DEF ResultsInv
  <2> QED BY <2>1, <2>2
<1> QED BY <1>1, <1>2, <1>3, <1>4
        DEF Next, Debugger, Inferior, Over

LEMMA ArgsStep ==
  ASSUME PhaseInv, ArgsInv, ResultsInv, [Next]_vars
  PROVE  ArgsInv'
<1>1. CASE UNCHANGED vars \/ StringArgument \/ PrepareCall \/ ReturnSlot \/ SetupArguments \/ AssignArgument \/ PushArguments
  <2>1. args' = args /\ call' = call /\ (phase' = phase \/ phase \in Busy)
    BY <1>1 DEF vars, StringArgument, Parsing, PrepareCall, ReturnSlot, SetupArguments,
                AssignArgument, PushArguments, Busy, Prepared
  <2> QED BY <2>1 DEF ArgsInv
<1>2. CASE Fail \/ MallocBack \/ CallBack \/ SetCurrentThread \/ MallocReturns \/ FunctionReturns \/ StopsEarly \/ OtherStops \/ Exits
  <2>1. args' = args /\ call' = call /\ (phase' = phase \/ phase \in Busy)
    BY <1>2 DEF Fail, MallocBack, CallBack, SetCurrentThread, MallocReturns, FunctionReturns, Runs, StopsEarly,
                OtherStops, Exits, Busy, Prepared
  <2> QED BY <2>1 DEF ArgsInv
<1>3. CASE Evaluate
  <2>1. call' \in Calls /\ args' = << >>
    BY <1>3 DEF Evaluate
  <2> QED BY <2>1, SeqEmpty DEF ArgsInv
<1>4. CASE ParseArgument
  <2>1. phase = "args" /\ call \in Calls /\ call' = call /\ IsSeq(args) /\ Len(args) < Len(call.args)
    BY <1>4 DEF ParseArgument, Parsing, ArgsInv, Busy
  <2>2. CASE phase' = "idle"
    BY <2>2 DEF ArgsInv, Busy, Prepared
  <2>3. CASE phase' # "idle"
    <3>1. PICK x : args' = Append(args, x) /\ WellArg(x)
      <4> DEFINE a == Next1
      <4>1. a.k = "value" => a.type \in DOMAIN Types
        <5>1. Len(args) \in Nat
          BY <2>1 DEF IsSeq
        <5> DEFINE q == call.args
                   R == [k : {"int", "float", "string", "value", "result"},
                         type : DOMAIN Types \cup {None}, n : Nat]
        <5>2. q \in Seq(R) /\ \A i \in DOMAIN q : q[i].k = "value" => q[i].type # None
          BY <2>1, TypesAssumption
        <5>3. a = q[Len(args) + 1] /\ Len(args) < Len(q)
          BY <2>1 DEF Next1
        <5>4. \A r \in R : r.type \in DOMAIN Types \cup {None}
          OBVIOUS
        <5> HIDE DEF q, a, R
        <5>5. Len(args) + 1 \in DOMAIN q /\ q[Len(args) + 1] \in R
          BY <5>1, <5>2, <5>3
        <5> QED BY <5>2, <5>3, <5>4, <5>5
      <4>2. CASE a.k \in {"int", "float"}
        <5> DEFINE x == Arg(a.k, None, <<Datum(Len(args) + 1, 1)>>)
        <5>1. args' = Append(args, x)
          BY <1>4, <2>3, <4>2 DEF ParseArgument
        <5>2. WellArg(x)
          BY DEF WellArg, Arg
        <5> QED BY <5>1, <5>2
      <4>3. CASE a.k = "value"
        <5> DEFINE x == Arg("value", a.type, [j \in 1 .. Words(a.type) |-> Datum(Len(args) + 1, j)])
        <5>1. args' = Append(args, x)
          BY <1>4, <2>3, <4>3 DEF ParseArgument
        <5>2. WellArg(x)
          BY <4>1, <4>3 DEF WellArg, Arg
        <5> QED BY <5>1, <5>2
      <4>4. CASE a.k = "result" /\ a.n \in DOMAIN results
        <5>1. PICK d : args' = Append(args, Arg("value", results[a.n].type, d))
          BY <1>4, <2>3, <4>4 DEF ParseArgument
        <5>2. WellArg(Arg("value", results[a.n].type, d))
          BY <4>4 DEF WellArg, Arg, ResultsInv
        <5> QED BY <5>1, <5>2
      <4> QED BY <1>4, <2>3, <4>2, <4>3, <4>4 DEF ParseArgument
    <3> QED BY <2>1, <3>1, SeqAppend DEF ArgsInv, Busy
  <2> QED BY <2>2, <2>3
<1>5. CASE StringWritten
  <2>1. call' = call /\ phase = "string"
    BY <1>5 DEF StringWritten
  <2>2. CASE phase' = "idle"
    BY <2>2 DEF ArgsInv, Busy, Prepared
  <2>3. CASE phase' # "idle"
    <3> DEFINE x == Arg("string", None, <<ptr>>)
    <3>1. args' = Append(args, x)
      BY <1>5, <2>3 DEF StringWritten
    <3>2. WellArg(x)
      BY DEF WellArg, Arg
    <3>3. IsSeq(args) /\ call \in Calls /\ \A i \in DOMAIN args : WellArg(args[i])
      BY <2>1 DEF ArgsInv, Busy
    <3> HIDE DEF x
    <3> QED BY <2>1, <3>1, <3>2, <3>3, SeqAppend DEF ArgsInv, Busy
  <2> QED BY <2>2, <2>3
<1> QED BY <1>1, <1>2, <1>3, <1>4, <1>5
        DEF Next, Debugger, Inferior, Over

LEMMA WordsNat ==
  ASSUME phase \in Busy, ArgsInv, NEW i \in DOMAIN args
  PROVE  ArgWords(i) \in Nat
<1>1. call \in Calls /\ WellArg(args[i])
  BY DEF ArgsInv
<1>2. \A t \in DOMAIN Types : Words(t) \in Nat
  BY TypesAssumption DEF Words
<1>3. CASE ArgType(i) = None
  <2>1. args[i].type = None
    BY <1>1, <1>3, TypesAssumption DEF ArgType, ArgsInv, IsSeq
  <2> QED BY <1>1, <1>3, <2>1, TypesAssumption DEF WellArg, ArgWords
<1>4. CASE ArgType(i) # None
  <2>1. ArgType(i) \in DOMAIN Types
    BY <1>1, <1>4, TypesAssumption DEF ArgType, ArgsInv, IsSeq, WellArg
  <2> QED BY <1>2, <1>4, <2>1 DEF ArgWords
<1> QED BY <1>3, <1>4

LEMMA AccStep ==
  ASSUME PhaseInv, ArgsInv, AccInv, [Next]_vars
  PROVE  AccInv'
<1>1. CASE UNCHANGED vars \/ Evaluate \/ ParseArgument \/ StringArgument \/ StringWritten \/ PrepareCall \/ ReturnSlot \/ PushArguments \/ Fail \/ CallBack \/ SetCurrentThread \/ MallocReturns \/ FunctionReturns \/ StopsEarly \/ OtherStops \/ Exits
  <2>1. phase' # "assign" \/ UNCHANGED <<phase, acc, call>>
    BY <1>1 DEF vars, Evaluate, ParseArgument, Parsing, StringArgument, InferiorMalloc, StringWritten, PrepareCall,
                ReturnSlot, PushArguments, Fail, CallBack, SetCurrentThread, MallocReturns, FunctionReturns, Runs,
                Arrives, StopsEarly, OtherStops, Exits
  <2> QED BY <2>1 DEF AccInv, SlotPassed, HasSlot, ClassOf
<1>2. CASE MallocBack
  <2>1. phase' # "assign"
    BY <1>2, MallocBackEffect
  <2> QED BY <2>1 DEF AccInv
<1>3. CASE SetupArguments
  <2>1. /\ acc' = [next |-> 1, int |-> IF SlotPassed THEN 1 ELSE 0, sse |-> 0, stack |-> << >>]
        /\ call' = call
    BY <1>3 DEF SetupArguments
  <2>2. SlotPassed' = SlotPassed
    BY <2>1 DEF SlotPassed, HasSlot, ClassOf
  <2>3. acc'.next = 1 /\ acc'.int = (IF SlotPassed THEN 1 ELSE 0) /\ acc'.stack = << >> /\ acc'.sse = 0
    BY <2>1
  <2>4. acc' = [next |-> acc'.next, int |-> acc'.int, sse |-> acc'.sse, stack |-> acc'.stack]
    BY <2>1, <2>3
  <2> QED BY <2>2, <2>3, <2>4, SeqEmpty DEF AccInv
<1>4. CASE AssignArgument
  <2>1. phase = "assign" /\ call' = call /\ acc.next <= Len(args)
    BY <1>4 DEF AssignArgument
  <2>2. SlotPassed' = SlotPassed
    BY <2>1 DEF SlotPassed, HasSlot, ClassOf
  <2>3. acc.next \in DOMAIN args
    BY <2>1 DEF AccInv, ArgsInv, Busy, Prepared, IsSeq
  <2> DEFINE c == ArgClass(acc.next)
  <2>4. CASE Fits(c)
    <3>1. acc' = [acc EXCEPT !.next = @ + 1, !.int = @ + Needed(c, "INTEGER"), !.sse = @ + Needed(c, "SSE")]
      BY <1>4, <2>4 DEF AssignArgument
    <3>2. Needed(c, "INTEGER") \in Nat
      BY NeededNat
    <3> HIDE DEF c
    <3>3. acc' = [next |-> acc.next + 1, int |-> acc.int + Needed(c, "INTEGER"),
                  sse |-> acc.sse + Needed(c, "SSE"), stack |-> acc.stack]
      BY <2>1, <3>1 DEF AccInv
    <3>4. /\ acc'.next = acc.next + 1 /\ acc'.int = acc.int + Needed(c, "INTEGER")
          /\ acc'.sse = acc.sse + Needed(c, "SSE") /\ acc'.stack = acc.stack
      BY <3>3
    <3> QED BY <2>1, <2>2, <3>2, <3>3, <3>4 DEF AccInv
  <2>5. CASE ~Fits(c)
    <3> DEFINE n == ArgWords(acc.next)
               f == [j \in 1 .. n |-> Word(args[acc.next].data, j)]
    <3>1. acc' = [acc EXCEPT !.next = @ + 1, !.stack = @ \o f]
      BY <1>4, <2>5 DEF AssignArgument
    <3>2. n \in Nat
      BY <2>1, <2>3, WordsNat DEF Busy, Prepared
    <3>3. f = [j \in 1 .. n |-> f[j]]
      OBVIOUS
    <3> HIDE DEF f, n
    <3>4. IsSeq(acc.stack \o f)
      BY <2>1, <3>2, <3>3, SeqConcat DEF AccInv
    <3>5. acc' = [next |-> acc.next + 1, int |-> acc.int, sse |-> acc.sse, stack |-> acc.stack \o f]
      BY <2>1, <3>1 DEF AccInv
    <3>6. /\ acc'.next = acc.next + 1 /\ acc'.int = acc.int
          /\ acc'.sse = acc.sse /\ acc'.stack = acc.stack \o f
      BY <3>5
    <3> QED BY <2>1, <2>2, <3>4, <3>5, <3>6 DEF AccInv
  <2> QED BY <2>4, <2>5
<1> QED BY <1>1, <1>2, <1>3, <1>4
        DEF Next, Debugger, Inferior, Over

-----------------------------------------------------------------------------
(* Registers                                                               *)

LEMMA FirstReg ==
  /\ 1 \in DOMAIN IntRegs
  /\ IntRegs[1] \in Reg /\ IntRegs[1] \notin {"rip", "rsp", "rax", "st0"}
  /\ {"rip", "rsp", "rax"} \subseteq Reg
<1>1. 1 \in DOMAIN IntRegs
  BY RegsAssumption
<1> QED BY <1>1, RegsAssumption DEF Reg, ToSet

LEMMA DomainStep ==
  ASSUME DomainInv, [Next]_vars
  PROVE  DomainInv'
<1>1. CASE UNCHANGED <<kregs, obj, mem, alive>>
  BY <1>1 DEF DomainInv
<1>2. CASE ~UNCHANGED <<kregs, obj, mem, alive>>
  <2>1. mem' = [b \in Addr |-> mem'[b]]
    <3>1. CASE mem' = mem
      BY <3>1 DEF DomainInv
    <3>2. CASE mem' # mem
      <4>1. \E m, a, d : mem' = Store(m, a, d)
        BY <3>2 DEF Next, Debugger, Inferior, Over, vars, inferior, history, Evaluate, ParseArgument,
             StringArgument, InferiorMalloc, StringWritten, PrepareCall, ReturnSlot, SetupArguments,
             AssignArgument, PushArguments, Fail, MallocBack, CallBack, SetCurrentThread, MallocReturns,
             FunctionReturns, StopsEarly, OtherStops, Exits
      <4> QED BY <4>1 DEF Store
    <3> QED BY <3>1, <3>2
  <2>0. \/ UNCHANGED <<kregs, obj>> \/ (\E f : WriteRegs(f)) \/ (\E a : RestoreExprState(a))
        \/ (\E f : Arrives(f)) \/ StopsEarly \/ OtherStops
    <3>1. CASE UNCHANGED vars \/ Evaluate \/ ParseArgument \/ StringWritten \/ PrepareCall \/ SetCurrentThread \/ Exits
      BY <3>1 DEF vars, inferior, Evaluate, ParseArgument, StringWritten, PrepareCall, SetCurrentThread, Exits
    <3>2. CASE StringArgument \/ ReturnSlot \/ SetupArguments \/ AssignArgument \/ PushArguments
      BY <3>2 DEF StringArgument, ReturnSlot, InferiorMalloc, SetupArguments, AssignArgument, PushArguments
    <3>3. CASE Fail \/ MallocBack \/ CallBack
      BY <3>3 DEF Fail, MallocBack, CallBack
    <3>4. CASE MallocReturns \/ FunctionReturns
      BY <3>4 DEF MallocReturns, FunctionReturns
    <3> QED BY <3>1, <3>2, <3>3, <3>4 DEF Next, Debugger, Inferior, Over
  <2>2. kregs' = [t \in Thread |-> kregs'[t]]
    <3>1. ASSUME NEW t, NEW f, kregs' = [kregs EXCEPT ![t] = f] PROVE kregs' = [u \in Thread |-> kregs'[u]]
      BY <3>1 DEF DomainInv
    <3>2. CASE OtherStops
      BY <3>2 DEF OtherStops, DomainInv
    <3>3. CASE StopsEarly
      BY <3>1, <3>3 DEF StopsEarly
    <3>4. ASSUME NEW f, WriteRegs(f) PROVE kregs' = [u \in Thread |-> kregs'[u]]
      BY <3>1, <3>4 DEF WriteRegs
    <3>5. ASSUME NEW a, RestoreExprState(a) PROVE kregs' = [u \in Thread |-> kregs'[u]]
      BY <3>1, <3>5 DEF RestoreExprState
    <3>6. ASSUME NEW f, Arrives(f) PROVE kregs' = [u \in Thread |-> kregs'[u]]
      BY <3>1, <3>6 DEF Arrives
    <3>7. CASE UNCHANGED <<kregs, obj>>
      BY <3>7 DEF DomainInv
    <3> QED BY <2>0, <3>2, <3>3, <3>4, <3>5, <3>6, <3>7
  <2>3. obj' = [t \in Thread |-> obj'[t]]
    <3>1. ASSUME NEW t, NEW f, obj' = [obj EXCEPT ![t].regs = f] PROVE obj' = [u \in Thread |-> obj'[u]]
      BY <3>1 DEF DomainInv
    <3>2. CASE OtherStops
      BY <3>2 DEF OtherStops, DomainInv
    <3>3. CASE StopsEarly
      BY <3>1, <3>3 DEF StopsEarly
    <3>4. ASSUME NEW f, WriteRegs(f) PROVE obj' = [u \in Thread |-> obj'[u]]
      BY <3>1, <3>4 DEF WriteRegs
    <3>5. ASSUME NEW a, RestoreExprState(a) PROVE obj' = [u \in Thread |-> obj'[u]]
      BY <3>5 DEF RestoreExprState, DomainInv
    <3>6. ASSUME NEW f, Arrives(f) PROVE obj' = [u \in Thread |-> obj'[u]]
      BY <3>1, <3>6 DEF Arrives, DomainInv
    <3>7. CASE UNCHANGED <<kregs, obj>>
      BY <3>7 DEF DomainInv
    <3> QED BY <2>0, <3>2, <3>3, <3>4, <3>5, <3>6, <3>7
  <2>4. alive' \subseteq Thread
    BY DEF DomainInv, Next, Debugger, Inferior, Over, vars, inferior, history, Evaluate, ParseArgument,
           StringArgument, InferiorMalloc, StringWritten, PrepareCall, ReturnSlot, SetupArguments,
           AssignArgument, PushArguments, Fail, MallocBack, CallBack, SetCurrentThread, MallocReturns,
           FunctionReturns, StopsEarly, OtherStops, Exits
  <2> QED BY <2>1, <2>2, <2>3, <2>4 DEF DomainInv
<1> QED BY <1>1, <1>2

LEMMA WriteEffect ==
  ASSUME DomainInv, cur \in Thread, obj[cur] = [pid |-> cur, regs |-> obj[cur].regs],
         NEW f, WriteRegs(f)
  PROVE  /\ obj'[cur] = [pid |-> cur, regs |-> f] /\ kregs'[cur] = f
         /\ \A t \in Thread : t # cur => obj'[t] = obj[t] /\ kregs'[t] = kregs[t]
<1>1. obj[cur].pid = cur
  OBVIOUS
<1>2. obj' = [obj EXCEPT ![cur].regs = f] /\ kregs' = [kregs EXCEPT ![cur] = f]
  BY <1>1 DEF WriteRegs
<1>3. obj'[cur] = [obj[cur] EXCEPT !.regs = f]
  BY <1>2 DEF DomainInv
<1>4. [obj[cur] EXCEPT !.regs = f] = [pid |-> cur, regs |-> f]
  OBVIOUS
<1>5. kregs'[cur] = f /\ \A t \in Thread : t # cur => obj'[t] = obj[t] /\ kregs'[t] = kregs[t]
  BY <1>2 DEF DomainInv
<1> QED BY <1>3, <1>4, <1>5

LEMMA RestoreEffect ==
  ASSUME DomainInv, before.cur \in Thread, NEW a, a.saved = Caller, RestoreExprState(a)
  PROVE  /\ kregs'[before.cur] = Caller.regs
         /\ \A t \in Thread : t # before.cur => kregs'[t] = kregs[t]
         /\ cur \in Thread => obj'[cur] = Caller
         /\ \A t \in Thread : t # cur => obj'[t] = obj[t]
<1>1. a.saved.pid = before.cur /\ SavedBy(a) = Caller
  BY DEF Caller, SavedBy
<1>2. obj' = [obj EXCEPT ![cur] = Caller] /\ kregs' = [kregs EXCEPT ![before.cur] = Caller.regs]
  BY <1>1 DEF RestoreExprState
<1> QED BY <1>2 DEF DomainInv

(* While a call is in progress and no other thread's stop has ended it.    *)
LEMMA Alone ==
  ASSUME OwnInv, SavedInv, phase \in Busy, ~before.mixed, phase # "back" \/ ~InCall
  PROVE  /\ "other" \notin early /\ cur = before.cur /\ cur \in Thread
         /\ obj[cur] = [pid |-> cur, regs |-> obj[cur].regs] /\ IsFile(Regs) /\ IsFile(kregs[cur])
         /\ phase # "run" => Regs = kregs[cur]
<1>1. "other" \notin early
  BY DEF SavedInv
<1>2. cur = before.cur /\ cur \in Thread /\ obj[cur] = [pid |-> cur, regs |-> obj[cur].regs] /\ IsFile(Regs)
      /\ IsFile(kregs[cur])
  BY <1>1 DEF OwnInv, Regs
<1>3. ASSUME phase # "run" PROVE Regs = kregs[cur]
  <2>1. obj[cur] = [pid |-> cur, regs |-> kregs[cur]]
    BY <1>1, <1>2, <1>3 DEF OwnInv, Own, Busy, Prepared
  <2> QED BY <2>1 DEF Regs
<1> QED BY <1>1, <1>2, <1>3

LEMMA ArrivesEffect ==
  ASSUME DomainInv, cur \in Thread, obj[cur] = [pid |-> cur, regs |-> obj[cur].regs],
         NEW f, Arrives(f), phase = "run"
  PROVE  /\ kregs'[cur] = f
         /\ \A t \in Thread : t # cur => obj'[t] = obj[t] /\ kregs'[t] = kregs[t]
         /\ \/ phase' = "run" /\ obj'[cur] = obj[cur]
            \/ phase' = "back" /\ obj'[cur] = [pid |-> cur, regs |-> f]
<1>1. kregs' = [kregs EXCEPT ![cur] = f] /\ obj[cur].pid = cur
  BY DEF Arrives
<1>2. kregs'[cur] = f /\ \A t \in Thread : t # cur => kregs'[t] = kregs[t]
  BY <1>1 DEF DomainInv
<1>3. CASE phase' = phase /\ obj' = obj
  BY <1>2, <1>3
<1>4. CASE phase' = "back" /\ obj' = [obj EXCEPT ![cur].regs = f]
  <2>1. obj'[cur] = [obj[cur] EXCEPT !.regs = f]
    BY <1>4 DEF DomainInv
  <2>2. [obj[cur] EXCEPT !.regs = f] = [pid |-> cur, regs |-> f]
    OBVIOUS
  <2>3. \A t \in Thread : t # cur => obj'[t] = obj[t]
    BY <1>4 DEF DomainInv
  <2> QED BY <1>2, <1>4, <2>1, <2>2, <2>3
<1>5. \/ phase' = phase /\ obj' = obj
      \/ phase' = "back" /\ obj' = [obj EXCEPT ![cur].regs = kregs'[obj[cur].pid]]
  BY DEF Arrives
<1> QED BY <1>1, <1>2, <1>3, <1>4, <1>5

LEMMA OwnKept ==
  ASSUME OwnInv, "other" \notin early, cur' = cur, UNCHANGED before,
         \A t \in Thread : t # cur => obj'[t] = obj[t] /\ kregs'[t] = kregs[t],
         NEW g, obj'[cur] = [pid |-> cur, regs |-> g], IsFile(g), IsFile(kregs'[cur]),
         phase' \notin {"run", "gone"} => g = kregs'[cur],
         phase' = "idle" => kregs'[cur]["rsp"] \in 1 .. StackSlots,
         phase \in Busy, brk' \in Int, brk' > StackSlots
  PROVE  OwnInv'
<1>1. cur \in Thread /\ cur = before.cur /\ ~before.mixed
  BY DEF OwnInv
<1>2. ASSUME NEW t \in Thread, t # cur
      PROVE  /\ obj'[t] = [pid |-> t, regs |-> obj'[t].regs] /\ IsFile(obj'[t].regs) /\ IsFile(kregs'[t])
             /\ obj'[t] = Own(t)' /\ kregs'[t]["rsp"] \in 1 .. StackSlots
  <2>1. obj'[t] = obj[t] /\ kregs'[t] = kregs[t]
    BY <1>2
  <2> QED BY <1>2, <2>1 DEF OwnInv, Own
<1>3. obj'[cur].regs = g
  OBVIOUS
<1> QED BY <1>1, <1>2, <1>3 DEF OwnInv, Own

LEMMA RunPlace ==
  ASSUME PhaseInv, OwnInv, SavedInv, RunInv, phase = "run", ~before.mixed
  PROVE  /\ Runs(Malloc) => InMalloc /\ ~InCall /\ kregs[cur][IntRegs[1]] \in Nat /\ mem[kregs[cur]["rsp"]] = Entry
                            /\ kregs[cur]["rsp"] \in Int
         /\ Runs(Fn) => InCall /\ ~InMalloc /\ mem[kregs[cur]["rsp"]] = Entry /\ kregs[cur]["rsp"] \in Int
<1>1. (InCall /\ ~InMalloc) \/ (InMalloc /\ ~InCall)
  BY DEF PhaseInv, InCall, InMalloc, InString, InSlot
<1> QED BY <1>1 DEF RunInv, Runs, Malloc, Fn, Entry

LEMMA OwnStep ==
  ASSUME PhaseInv, ArgsInv, DomainInv, OwnInv, SavedInv, RunInv, [Next]_vars
  PROVE  OwnInv'
<1> SUFFICES ASSUME "other" \notin early' PROVE OwnInv'
  BY DEF OwnInv
<1>0. "other" \notin early
  BY DEF Next, Debugger, Inferior, Over, vars, inferior, history, Evaluate, ParseArgument,
         StringArgument, StringWritten, PrepareCall, ReturnSlot, SetupArguments,
         AssignArgument, PushArguments, Fail, MallocBack, CallBack, SetCurrentThread, MallocReturns,
         FunctionReturns, StopsEarly, OtherStops, Exits
<1>00. cur \in Thread /\ brk \in Int /\ brk > StackSlots /\ (phase \in Busy => cur = before.cur /\ ~before.mixed)
  BY <1>0 DEF OwnInv
<1>000. /\ obj[cur] = [pid |-> cur, regs |-> obj[cur].regs] /\ IsFile(obj[cur].regs) /\ IsFile(kregs[cur])
        /\ phase \notin {"run", "gone"} => obj[cur].regs = kregs[cur]
  <2>1. phase \notin {"run", "gone"} => obj[cur] = [pid |-> cur, regs |-> kregs[cur]]
    BY <1>0, <1>00 DEF OwnInv, Own
  <2> QED BY <1>0, <1>00, <2>1 DEF OwnInv
<1>1. CASE UNCHANGED vars
  BY <1>1 DEF OwnInv, Own, vars, inferior, history
<1>2. CASE Evaluate
  <2>1. /\ UNCHANGED <<kregs, obj, cur, brk>> /\ phase = "idle" /\ phase' = "args"
        /\ before'.cur = cur /\ before'.mixed = ("other" \in early)
    BY <1>2 DEF Evaluate, inferior
  <2> QED BY <1>0, <2>1 DEF OwnInv, Own
<1>3. CASE ParseArgument \/ StringWritten \/ PrepareCall
  <2>1. /\ UNCHANGED <<kregs, obj, cur, brk, before>> /\ phase \in {"args", "string"}
        /\ phase' \in {"args", "idle", "slot", "setup"}
    BY <1>3 DEF ParseArgument, Parsing, StringWritten, PrepareCall, inferior, history
  <2>2. obj[cur] = Caller /\ CallerRsp \in 1 .. StackSlots
    BY <1>00, <2>1 DEF SavedInv, Busy
  <2>3. kregs[cur]["rsp"] \in 1 .. StackSlots
    BY <1>000, <2>1, <2>2 DEF CallerRsp
  <2> QED BY <1>0, <1>00, <1>000, <2>1, <2>3, OwnKept DEF Busy
<1>4. CASE StringArgument \/ ReturnSlot
  <2>1. PICK f : WriteRegs(f) /\ f = [Regs EXCEPT ![IntRegs[1]] = f[IntRegs[1]], !["rip"] = f["rip"],
                                                   !["rsp"] = f["rsp"], !["rax"] = f["rax"]]
    <3> DEFINE n == IF StringArgument THEN 1 ELSE Words(call.ret)
               f == [Regs EXCEPT ![IntRegs[1]] = MallocSize(n), !["rip"] = Malloc, !["rsp"] = @ - 1, !["rax"] = 0]
    <3>1. WriteRegs(f)
      BY <1>4 DEF StringArgument, ReturnSlot, InferiorMalloc, Parsing
    <3>2. f = [Regs EXCEPT ![IntRegs[1]] = f[IntRegs[1]], !["rip"] = f["rip"], !["rsp"] = f["rsp"], !["rax"] = f["rax"]]
      BY <1>000, FirstReg DEF IsFile, Regs
    <3> QED BY <3>1, <3>2
  <2>2. IsFile(f)
    BY <1>000, <2>1, FirstReg DEF IsFile, Regs
  <2>3. /\ UNCHANGED <<cur, brk, before>> /\ phase' = "run" /\ phase \in Busy
    BY <1>4 DEF StringArgument, ReturnSlot, InferiorMalloc, Parsing, history, Busy, Prepared
  <2>4. /\ obj'[cur] = [pid |-> cur, regs |-> f] /\ kregs'[cur] = f
        /\ \A t \in Thread : t # cur => obj'[t] = obj[t] /\ kregs'[t] = kregs[t]
    BY <1>00, <1>000, <2>1, WriteEffect
  <2> QED BY <1>0, <1>00, <2>2, <2>3, <2>4, OwnKept
<1>5. CASE SetupArguments \/ AssignArgument \/ PushArguments
  <2>1. /\ UNCHANGED <<cur, brk, before>> /\ phase \in Busy /\ phase \notin {"run", "gone"}
        /\ phase' \in {"assign", "run", "fail"}
    BY <1>5 DEF SetupArguments, AssignArgument, PushArguments, history, Busy, Prepared
  <2>2. CASE UNCHANGED <<kregs, obj>>
    BY <1>0, <1>00, <1>000, <2>1, <2>2, OwnKept
  <2>3. CASE ~UNCHANGED <<kregs, obj>>
    <3>1. PICK f : WriteRegs(f) /\ IsFile(f)
      <4>1. IsFile(Regs)
        BY <1>000 DEF Regs
      <4>2. CASE SetupArguments
        <5> DEFINE f == IF SlotPassed THEN [Regs EXCEPT ![IntRegs[1]] = ptr] ELSE Regs
        <5>1. IsFile(f)
          BY <4>1 DEF IsFile
        <5>2. WriteRegs(f)
          BY <4>2 DEF SetupArguments
        <5> QED BY <5>1, <5>2
      <4>3. CASE AssignArgument
        <5> DEFINE c == ArgClass(acc.next)
                   n == ArgWords(acc.next)
                   d == args[acc.next].data
                   f == [r \in Reg |-> IF Goes(c, n, r) = {} THEN Regs[r]
                                       ELSE Word(d, CHOOSE j \in Goes(c, n, r) : TRUE)]
        <5>1. IsFile(f)
          BY DEF IsFile
        <5>2. WriteRegs(f)
          BY <2>3, <4>3 DEF AssignArgument
        <5> QED BY <5>1, <5>2
      <4>4. CASE PushArguments
        <5>1. PICK sp : WriteRegs([Regs EXCEPT !["rax"] = acc.sse, !["rip"] = Fn, !["rsp"] = sp - 1])
          BY <2>3, <4>4 DEF PushArguments
        <5>2. IsFile([Regs EXCEPT !["rax"] = acc.sse, !["rip"] = Fn, !["rsp"] = sp - 1])
          BY <4>1 DEF IsFile
        <5> QED BY <5>1, <5>2
      <4> QED BY <1>5, <4>2, <4>3, <4>4
    <3>2. /\ obj'[cur] = [pid |-> cur, regs |-> f] /\ kregs'[cur] = f
          /\ \A t \in Thread : t # cur => obj'[t] = obj[t] /\ kregs'[t] = kregs[t]
      BY <1>00, <1>000, <3>1, WriteEffect
    <3> QED BY <1>0, <1>00, <2>1, <3>1, <3>2, OwnKept
  <2> QED BY <2>2, <2>3
<1>6. CASE Fail \/ MallocBack \/ CallBack
  <2>1. /\ UNCHANGED <<cur, brk, before>> /\ phase \in {"fail", "back"} /\ RestoreExprState(Last(act))
    BY <1>6 DEF Fail, MallocBack, CallBack, history
  <2>2. Last(act).saved = Caller
    BY <1>6, <1>00, FailEffect, MallocBackEffect, CallBackEffect DEF SavedInv, Busy, Prepared
  <2>3. cur = before.cur /\ phase \in Busy /\ IsFile(Caller.regs) /\ CallerRsp \in 1 .. StackSlots
    BY <1>00, <2>1 DEF SavedInv, Busy, Prepared
  <2>4. /\ kregs'[cur] = Caller.regs /\ obj'[cur] = Caller
        /\ \A t \in Thread : t # cur => obj'[t] = obj[t] /\ kregs'[t] = kregs[t]
    BY <1>00, <2>1, <2>2, <2>3, RestoreEffect
  <2>5. obj'[cur] = [pid |-> cur, regs |-> Caller.regs] /\ kregs'[cur]["rsp"] \in 1 .. StackSlots
    BY <2>3, <2>4 DEF Caller, CallerRsp
  <2> QED BY <1>0, <1>00, <2>1, <2>3, <2>4, <2>5, OwnKept
<1>7. CASE SetCurrentThread
  <2>1. UNCHANGED <<kregs, obj, brk, phase, before>> /\ phase = "idle" /\ cur' \in Thread
    BY <1>7 DEF SetCurrentThread, inferior, history, DomainInv
  <2> QED BY <1>0, <2>1 DEF OwnInv, Own, Busy, Prepared
<1>8. CASE MallocReturns \/ FunctionReturns
  <2>1. PICK f : Arrives(f) /\ IsFile(f)
    <3>1. \A k, set : IsFile(AfterReturn(k, set))
      BY DEF AfterReturn, IsFile
    <3>2. \E k, set : Arrives(AfterReturn(k, set))
      BY <1>8 DEF MallocReturns, FunctionReturns
    <3> QED BY <3>1, <3>2
  <2>2. UNCHANGED <<cur, before>> /\ phase = "run" /\ phase \in Busy
    BY <1>8 DEF MallocReturns, FunctionReturns, Runs, history, Busy
  <2>3. brk' \in Int /\ brk' > StackSlots
    <3>1. CASE MallocReturns
      <4>1. kregs[cur][IntRegs[1]] \in Nat
        BY <1>00, <2>2, <3>1, RunPlace DEF MallocReturns
      <4> QED BY <1>00, <3>1, <4>1, CallAssumption DEF MallocReturns
    <3>2. CASE FunctionReturns
      BY <1>00, <3>2 DEF FunctionReturns
    <3> QED BY <1>8, <3>1, <3>2
  <2>4. /\ kregs'[cur] = f
        /\ \A t \in Thread : t # cur => obj'[t] = obj[t] /\ kregs'[t] = kregs[t]
        /\ \/ phase' = "run" /\ obj'[cur] = obj[cur]
           \/ phase' = "back" /\ obj'[cur] = [pid |-> cur, regs |-> f]
    BY <1>00, <1>000, <2>1, <2>2, ArrivesEffect
  <2>5. CASE phase' = "run" /\ obj'[cur] = obj[cur]
    BY <1>0, <1>00, <1>000, <2>1, <2>2, <2>3, <2>4, <2>5, OwnKept
  <2>6. CASE phase' = "back" /\ obj'[cur] = [pid |-> cur, regs |-> f]
    BY <1>0, <1>00, <2>1, <2>2, <2>3, <2>4, <2>6, OwnKept
  <2> QED BY <2>4, <2>5, <2>6
<1>9. CASE StopsEarly
  <2>1. UNCHANGED <<cur, brk, before>> /\ phase \in Busy /\ phase' = "back"
    BY <1>9 DEF StopsEarly, Busy
  <2>2. PICK rax : kregs' = [kregs EXCEPT ![cur] = JunkRegs(rax)]
    BY <1>9 DEF StopsEarly
  <2>3. IsFile(JunkRegs(rax))
    BY DEF JunkRegs, IsFile
  <2>4. kregs'[cur] = JunkRegs(rax) /\ \A t \in Thread : t # cur => kregs'[t] = kregs[t]
    BY <1>00, <2>2 DEF DomainInv
  <2>5. obj' = [obj EXCEPT ![cur].regs = kregs'[cur]]
    <3>1. obj[cur].pid = cur
      BY <1>000
    <3> QED BY <1>9, <3>1 DEF StopsEarly
  <2>6. obj'[cur] = [obj[cur] EXCEPT !.regs = kregs'[cur]] /\ \A t \in Thread : t # cur => obj'[t] = obj[t]
    BY <1>00, <2>5 DEF DomainInv
  <2>7. [obj[cur] EXCEPT !.regs = kregs'[cur]] = [pid |-> cur, regs |-> kregs'[cur]]
    BY <1>000
  <2> QED BY <1>0, <1>00, <2>1, <2>3, <2>4, <2>6, <2>7, OwnKept
<1>10. CASE OtherStops
  BY <1>10 DEF OtherStops
<1>11. CASE Exits
  <2>1. UNCHANGED <<kregs, obj, cur, brk, before>> /\ phase = "run" /\ phase' = "gone"
    BY <1>11 DEF Exits, inferior, history
  <2> QED BY <1>0, <1>00, <1>000, <2>1, OwnKept DEF Busy
<1> QED BY <1>1, <1>2, <1>3, <1>4, <1>5, <1>6, <1>7, <1>8, <1>9, <1>10, <1>11
        DEF Next, Debugger, Inferior, Over

LEMMA NotAssigned ==
  ASSUME acc.int \in Nat, NEW c, NEW n
  PROVE  /\ Goes(c, n, "rsp") = {}
         /\ acc.int >= 1 => Goes(c, n, IntRegs[1]) = {}
<1>1. \A j : Rank(c, j) \in {1, 2}
  BY DEF Rank
<1>2. Goes(c, n, "rsp") = {}
  BY RegsAssumption DEF Goes
<1>3. ASSUME acc.int >= 1, NEW j \in {1, 2}
      PROVE  /\ acc.int + Rank(c, j) \in DOMAIN IntRegs => IntRegs[acc.int + Rank(c, j)] # IntRegs[1]
             /\ acc.sse + Rank(c, j) \in DOMAIN SseRegs => SseRegs[acc.sse + Rank(c, j)] # IntRegs[1]
  <2>1. acc.int + Rank(c, j) # 1
    BY <1>1, <1>3
  <2> QED BY <2>1, FirstReg, RegsAssumption
<1> QED BY <1>2, <1>3 DEF Goes

LEMMA LastWhat ==
  ASSUME PhaseInv, phase \in {"run", "back"}
  PROVE  /\ Last(act).what \in {"call", "malloc"}
         /\ InMalloc => Last(act).what = "malloc"
<1>1. IsSeq(act) /\ (InCall \/ InString \/ InSlot)
  BY DEF PhaseInv, InMalloc
<1>2. CASE InCall
  BY <1>1, <1>2, PopFirst DEF InCall, InString, InSlot, InMalloc
<1>3. CASE InString
  BY <1>1, <1>3, PopFirst DEF InCall, InString, InSlot, InMalloc
<1>4. CASE InSlot
  BY <1>1, <1>4, PopSecond DEF InCall, InString, InSlot, InMalloc
<1> QED BY <1>1, <1>2, <1>3, <1>4

(* The conjuncts of SavedInv when only the phase changes.                  *)
LEMMA SavedKept ==
  ASSUME SavedInv, UNCHANGED <<before, act, early>>, ~before.mixed,
         phase \in {"assign", "run"}, phase' \in {"run", "back", "fail"}
  PROVE  SavedInv'
<1>1. phase \in Busy
  BY DEF Busy, Prepared
<1>2. "other" \notin early
  BY <1>1 DEF SavedInv
<1> QED BY <1>1, <1>2 DEF SavedInv, Caller, CallerRsp, InSlot, InCall, Busy, Prepared

LEMMA SavedStep ==
  ASSUME PhaseInv, AccInv, DomainInv, OwnInv, SavedInv, RunInv, [Next]_vars
  PROVE  SavedInv'
<1> USE DEF Busy, Prepared
<1>1. CASE UNCHANGED vars
  BY <1>1 DEF SavedInv, Caller, CallerRsp, InSlot, InCall, SlotPassed, HasSlot, ClassOf, Regs,
              vars, inferior, history
<1>2. CASE Evaluate
  <2>1. /\ UNCHANGED <<kregs, obj, cur>> /\ phase = "idle" /\ phase' = "args"
        /\ early' = early \ {"call"}
        /\ before'.cur = cur /\ before'.mixed = ("other" \in early) /\ before'.kregs = kregs
    BY <1>2 DEF Evaluate, inferior
  <2> SUFFICES ASSUME "other" \notin early
               PROVE  /\ before'.cur \in Thread /\ IsFile(Caller'.regs) /\ CallerRsp' \in 1 .. StackSlots
                      /\ obj'[cur'] = Caller'
    BY <2>1 DEF SavedInv
  <2>2. cur \in Thread /\ IsFile(kregs[cur]) /\ kregs[cur]["rsp"] \in 1 .. StackSlots /\ obj[cur] = [pid |-> cur, regs |-> kregs[cur]]
    BY <2>1 DEF OwnInv, Own
  <2>3. Caller' = [pid |-> cur, regs |-> kregs[cur]] /\ Caller'.regs = kregs[cur]
    BY <2>1 DEF Caller
  <2> QED BY <2>1, <2>2, <2>3 DEF CallerRsp
<1>3. CASE ParseArgument \/ StringWritten
  <2>1. /\ UNCHANGED <<kregs, obj, cur, before, early, act>> /\ phase \in {"args", "string"}
        /\ phase' \in {"args", "idle"}
    BY <1>3 DEF ParseArgument, Parsing, StringWritten, inferior, history
  <2>2. ~before.mixed => kregs[before.cur] = Caller.regs
    BY <2>1, Alone DEF SavedInv, Regs
  <2> QED BY <2>1, <2>2 DEF SavedInv, Caller, CallerRsp
<1>4. CASE StringArgument \/ PrepareCall
  <2>1. /\ UNCHANGED <<cur, before, early>> /\ phase = "args" /\ phase' \in {"run", "slot", "setup"}
        /\ act'[1].saved = obj[cur] /\ ~InSlot'
    BY <1>4, StringEffect, CallEffect DEF StringArgument, PrepareCall, Activation, history
  <2>2. CASE PrepareCall
    BY <2>1, <2>2 DEF SavedInv, Caller, CallerRsp, PrepareCall
  <2>3. CASE StringArgument
    <3>1. phase' = "run"
      BY <2>3, StringEffect
    <3> QED BY <2>1, <3>1 DEF SavedInv, Caller, CallerRsp
  <2> QED BY <1>4, <2>2, <2>3
<1>5. CASE ReturnSlot
  <2>1. /\ UNCHANGED <<cur, before, early>> /\ phase = "slot" /\ phase' = "run"
        /\ act'[1] = act[1] /\ act'[2].saved = obj[cur]
    BY <1>5, SlotEffect DEF ReturnSlot, Activation, history
  <2> QED BY <2>1 DEF SavedInv, Caller, CallerRsp
<1>6. CASE SetupArguments \/ AssignArgument
  <2>1. /\ UNCHANGED <<cur, before, early, act, ptr, call>> /\ phase \in {"setup", "assign"} /\ phase' = "assign"
    BY <1>6 DEF SetupArguments, AssignArgument, history
  <2>2. SlotPassed' = SlotPassed
    BY <2>1 DEF SlotPassed, HasSlot, ClassOf
  <2>3. ASSUME ~before.mixed PROVE Regs'["rsp"] = CallerRsp /\ (SlotPassed => Regs'[IntRegs[1]] = ptr)
    <3>1. cur \in Thread /\ obj[cur] = [pid |-> cur, regs |-> obj[cur].regs] /\ IsFile(Regs)
      BY <2>1, <2>3, Alone
    <3>2. ASSUME NEW f, WriteRegs(f) PROVE Regs' = f
      <4>1. obj'[cur] = [pid |-> cur, regs |-> f]
        BY <3>1, <3>2, WriteEffect
      <4> QED BY <2>1, <4>1 DEF Regs
    <3>3. CASE SetupArguments
      <4> DEFINE f == IF SlotPassed THEN [Regs EXCEPT ![IntRegs[1]] = ptr] ELSE Regs
      <4>1. Regs' = f
        BY <3>2, <3>3 DEF SetupArguments
      <4>2. Regs["rsp"] = CallerRsp
        BY <2>3, <3>3 DEF SetupArguments, SavedInv, CallerRsp, Caller, Regs
      <4>3. f["rsp"] = Regs["rsp"] /\ (SlotPassed => f[IntRegs[1]] = ptr)
        BY <3>1, FirstReg DEF IsFile
      <4> QED BY <4>1, <4>2, <4>3
    <3>4. CASE AssignArgument
      <4> DEFINE c == ArgClass(acc.next)
                 n == ArgWords(acc.next)
                 d == args[acc.next].data
                 f == [r \in Reg |-> IF Goes(c, n, r) = {} THEN Regs[r]
                                     ELSE Word(d, CHOOSE j \in Goes(c, n, r) : TRUE)]
      <4>1. phase = "assign" /\ Regs["rsp"] = CallerRsp /\ (SlotPassed => Regs[IntRegs[1]] = ptr)
        BY <2>3, <3>4 DEF AssignArgument, SavedInv
      <4>2. acc.int \in Nat /\ (SlotPassed => acc.int >= 1)
        BY <4>1 DEF AccInv
      <4>3. CASE UNCHANGED <<kregs, obj>>
        BY <2>1, <4>1, <4>3 DEF Regs
      <4>4. CASE WriteRegs(f)
        <5>1. Regs' = f
          BY <3>2, <4>4
        <5>2. Goes(c, n, "rsp") = {} /\ (SlotPassed => Goes(c, n, IntRegs[1]) = {})
          BY <4>2, NotAssigned
        <5> HIDE DEF c, n, d
        <5>3. f["rsp"] = Regs["rsp"] /\ (SlotPassed => f[IntRegs[1]] = Regs[IntRegs[1]])
          BY <5>2, FirstReg
        <5> QED BY <4>1, <5>1, <5>3
      <4> QED BY <3>4, <4>3, <4>4 DEF AssignArgument
    <3> QED BY <1>6, <3>3, <3>4
  <2> QED BY <2>1, <2>2, <2>3 DEF SavedInv, Caller, CallerRsp, InSlot
<1>7. CASE PushArguments \/ MallocReturns \/ FunctionReturns
  <2>1. /\ UNCHANGED <<before, early, act>> /\ phase \in {"assign", "run"} /\ phase' \in {"run", "back", "fail"}
    BY <1>7 DEF PushArguments, MallocReturns, FunctionReturns, Runs, Arrives, history
  <2>2. CASE before.mixed
    BY <2>1, <2>2 DEF SavedInv
  <2> QED BY <2>1, <2>2, SavedKept
<1>8. CASE Fail \/ MallocBack \/ CallBack
  <2>1. /\ UNCHANGED <<cur, before, early>> /\ phase \in {"fail", "back"} /\ RestoreExprState(Last(act))
        /\ phase' \in {"idle", "string", "setup", "fail"}
    BY <1>8, FailEffect, MallocBackEffect, CallBackEffect DEF Fail, MallocBack, CallBack, history
  <2>2. CASE before.mixed
    BY <2>1, <2>2 DEF SavedInv
  <2>3. CASE ~before.mixed
    <3>1. Last(act).saved = Caller /\ before.cur \in Thread /\ IsFile(Caller.regs) /\ CallerRsp \in 1 .. StackSlots
      BY <1>8, <2>1, <2>3, FailEffect, MallocBackEffect, CallBackEffect DEF SavedInv
    <3>2. kregs'[before.cur] = Caller.regs /\ (cur \in Thread => obj'[cur] = Caller)
      BY <2>1, <3>1, RestoreEffect
    <3>3. CASE phase' = "idle"
      BY <2>1, <3>1, <3>2, <3>3 DEF SavedInv, Caller
    <3>4. CASE phase' # "idle"
      <4>1. phase = "back" /\ ~InCall /\ (phase' # "string" => InSlot /\ ~InSlot' /\ act'[1] = act[1])
        BY <1>8, <3>4, FailEffect, MallocBackEffect, CallBackEffect DEF InSlot, InString, InCall
      <4>2. "other" \notin early /\ cur \in Thread
        BY <2>1, <2>3, <4>1, Alone
      <4>3. phase' # "string" => act'[1].saved = Caller
        BY <2>3, <4>1 DEF SavedInv
      <4> QED BY <2>1, <3>1, <3>2, <3>4, <4>1, <4>2, <4>3 DEF SavedInv, Caller, CallerRsp
    <3> QED BY <3>3, <3>4
  <2> QED BY <2>2, <2>3
<1>9. CASE SetCurrentThread
  <2>1. UNCHANGED <<kregs, phase, before>> /\ phase = "idle"
    BY <1>9 DEF SetCurrentThread, inferior, history
  <2> QED BY <2>1 DEF SavedInv, Caller
<1>10. CASE StopsEarly
  <2>1. UNCHANGED <<before, act>> /\ phase = "run" /\ phase' = "back" /\ early' = early \cup {Last(act).what}
    BY <1>10 DEF StopsEarly
  <2>2. "other" \in early' => "other" \in early
    BY <2>1, LastWhat
  <2> QED BY <2>1, <2>2 DEF SavedInv, Caller, CallerRsp, InSlot, InCall
<1>11. CASE OtherStops
  <2>1. UNCHANGED <<before, act>> /\ phase = "run" /\ phase' = "back" /\ Runs(Fn)
    BY <1>11 DEF OtherStops, Runs
  <2>2. ~before.mixed => InCall
    BY <2>1, RunPlace
  <2> QED BY <2>1, <2>2 DEF SavedInv, Caller, CallerRsp, InSlot, InCall
<1>12. CASE Exits
  BY <1>12 DEF Exits, SavedInv
<1> QED BY <1>1, <1>2, <1>3, <1>4, <1>5, <1>6, <1>7, <1>8, <1>9, <1>10, <1>11, <1>12
        DEF Next, Debugger, Inferior, Over

-----------------------------------------------------------------------------
(* Memory                                                                  *)

LEMMA SlotStep ==
  ASSUME PhaseInv, SlotInv, [Next]_vars
  PROVE  SlotInv'
<1>1. CASE UNCHANGED vars \/ Evaluate \/ ParseArgument \/ StringArgument \/ StringWritten \/ ReturnSlot \/ SetupArguments \/ AssignArgument \/ PushArguments \/ Fail \/ CallBack \/ SetCurrentThread \/ MallocReturns \/ FunctionReturns \/ StopsEarly \/ OtherStops \/ Exits
  <2>1. phase' # "slot" \/ UNCHANGED <<phase, call>>
    BY <1>1 DEF vars, Evaluate, ParseArgument, Parsing, StringArgument, InferiorMalloc, StringWritten, ReturnSlot,
                SetupArguments, AssignArgument, PushArguments, Fail, CallBack, SetCurrentThread, MallocReturns,
                FunctionReturns, Runs, Arrives, StopsEarly, OtherStops, Exits
  <2> QED BY <2>1 DEF SlotInv, HasSlot
<1>2. CASE PrepareCall
  BY <1>2 DEF PrepareCall, SlotInv, HasSlot
<1>3. CASE MallocBack
  BY <1>3, MallocBackEffect DEF SlotInv
<1> QED BY <1>1, <1>2, <1>3
        DEF Next, Debugger, Inferior, Over

LEMMA StoreOne ==
  ASSUME NEW m, NEW d, Len(d) = 1, NEW a \in Addr
  PROVE  /\ Store(m, a, d)[a] = d[1]
         /\ \A b \in Addr : b # a => Store(m, a, d)[b] = m[b]
<1>1. Addr \subseteq Int
  BY DEF Addr
<1> QED BY <1>1 DEF Store

LEMMA StoreAbove ==
  ASSUME NEW m, NEW d, NEW a \in Int
  PROVE  \A b \in Addr : b < a => Store(m, a, d)[b] = m[b]
  BY DEF Store, Addr

LEMMA StoreBelow ==
  ASSUME NEW m, NEW d, NEW a \in Int, Len(d) \in Nat
  PROVE  \A b \in Addr : b >= a + Len(d) => Store(m, a, d)[b] = m[b]
  BY CallAssumption DEF Store, Addr

LEMMA StackForBound ==
  ASSUME NEW rsp \in Int, NEW n \in Nat
  PROVE  StackFor(rsp, n) \in Int /\ StackFor(rsp, n) + n <= rsp
  BY DEF StackFor

LEMMA WordsOfResult ==
  ASSUME ArgsInv, phase \in Busy, HasSlot
  PROVE  call.ret \in DOMAIN Types /\ Words(call.ret) \in Nat
<1>1. call.ret \in DOMAIN Types
  BY TypesAssumption DEF ArgsInv, HasSlot
<1> QED BY <1>1, TypesAssumption DEF Words

(* What InferiorMalloc and PushArguments leave for the thread that runs.   *)
LEMMA MallocStarts ==
  ASSUME DomainInv, OwnInv, SavedInv, phase \in {"args", "slot"}, ~before.mixed,
         NEW n \in Nat, NEW then, InferiorMalloc(n, then), cur' = cur
  PROVE  LET k == kregs'[cur'] IN
         /\ k["rip"] = Malloc /\ k["rsp"] = CallerRsp - 1 /\ k[IntRegs[1]] = n
         /\ Mapped(k["rsp"], 1) => mem'[k["rsp"]] = Entry
         /\ \A b \in Addr : b >= CallerRsp => mem'[b] = mem[b]
<1>1. /\ cur \in Thread /\ obj[cur] = [pid |-> cur, regs |-> obj[cur].regs] /\ IsFile(Regs)
      /\ Regs["rsp"] = CallerRsp /\ CallerRsp \in Int
  <2>1. /\ cur \in Thread /\ obj[cur] = [pid |-> cur, regs |-> obj[cur].regs] /\ IsFile(Regs)
    BY Alone DEF Busy, Prepared
  <2>2. obj[cur] = Caller /\ CallerRsp \in Int
    BY CallAssumption DEF SavedInv, Busy, Prepared
  <2> QED BY <2>1, <2>2 DEF Regs, CallerRsp
<1> DEFINE f == [Regs EXCEPT ![IntRegs[1]] = MallocSize(n), !["rip"] = Malloc, !["rsp"] = @ - 1, !["rax"] = 0]
<1>2. kregs'[cur] = f
  BY <1>1, WriteEffect DEF InferiorMalloc
<1>3. f["rip"] = Malloc /\ f["rsp"] = Regs["rsp"] - 1 /\ f[IntRegs[1]] = n
  BY <1>1, FirstReg DEF IsFile, MallocSize
<1>4. mem' = IF Mapped(CallerRsp - 1, 1) THEN Store(mem, CallerRsp - 1, <<Entry>>) ELSE mem
  BY <1>1 DEF InferiorMalloc
<1> HIDE DEF f
<1>5. Mapped(CallerRsp - 1, 1) => CallerRsp - 1 \in Addr
  BY <1>1, CallAssumption DEF Mapped, Addr
<1>8. ASSUME Mapped(CallerRsp - 1, 1)
      PROVE  mem'[CallerRsp - 1] = Entry /\ \A b \in Addr : b # CallerRsp - 1 => mem'[b] = mem[b]
  <2> DEFINE a == CallerRsp - 1
             d == <<Entry>>
  <2>1. a \in Addr /\ mem' = Store(mem, a, d) /\ Len(d) = 1 /\ d[1] = Entry
    BY <1>4, <1>5, <1>8
  <2> HIDE DEF a, d
  <2>2. mem'[a] = Entry /\ \A b \in Addr : b # a => mem'[b] = mem[b]
    BY <2>1, StoreOne
  <2> QED BY <2>2 DEF a
<1>6. Mapped(CallerRsp - 1, 1) => mem'[CallerRsp - 1] = Entry
  BY <1>8
<1>7. \A b \in Addr : b >= CallerRsp => mem'[b] = mem[b]
  <2>1. Addr \subseteq Int
    BY DEF Addr
  <2>2. \A b \in Addr : b >= CallerRsp => b # CallerRsp - 1
    BY <1>1, <2>1
  <2> QED BY <1>4, <1>8, <2>2
<1> QED BY <1>1, <1>2, <1>3, <1>6, <1>7

LEMMA FunctionStarts ==
  ASSUME DomainInv, AccInv, OwnInv, SavedInv, ~before.mixed, PushArguments
  PROVE  /\ phase' = "run" =>
              LET k == kregs'[cur'] IN
              /\ k["rip"] = Fn /\ k["rsp"] \in Int /\ mem'[k["rsp"]] = Entry
              /\ SlotPassed => k[IntRegs[1]] = ptr
         /\ \A b \in Addr : b >= CallerRsp => mem'[b] = mem[b]
<1>1. /\ cur \in Thread /\ obj[cur] = [pid |-> cur, regs |-> obj[cur].regs] /\ IsFile(Regs)
      /\ phase = "assign" /\ cur' = cur
  BY Alone DEF Busy, Prepared, PushArguments
<1>2. /\ Regs["rsp"] = CallerRsp /\ CallerRsp \in 1 .. StackSlots
      /\ SlotPassed => Regs[IntRegs[1]] = ptr
  BY <1>1 DEF SavedInv, Busy, Prepared
<1>3. Len(acc.stack) \in Nat
  BY <1>1 DEF AccInv, IsSeq
<1> DEFINE sp == StackFor(Regs["rsp"], Len(acc.stack))
<1>4. sp \in Int /\ sp + Len(acc.stack) <= CallerRsp /\ CallerRsp \in Int /\ CallerRsp <= StackSlots
  <2>1. CallerRsp \in Int /\ CallerRsp <= StackSlots /\ sp = StackFor(CallerRsp, Len(acc.stack))
    BY <1>2, CallAssumption
  <2> HIDE DEF sp
  <2> QED BY <1>3, <2>1, StackForBound
<1>5. \/ /\ sp - 1 >= 1
         /\ mem' = Store(Store(mem, sp, acc.stack), sp - 1, <<Entry>>)
         /\ WriteRegs([Regs EXCEPT !["rax"] = acc.sse, !["rip"] = Fn, !["rsp"] = sp - 1])
      \/ /\ mem' = (IF sp >= 1 THEN Store(mem, sp, acc.stack) ELSE mem) /\ phase' = "fail"
  BY DEF PushArguments
<1> HIDE DEF sp
<1>6. \A b \in Addr : b >= CallerRsp => Store(mem, sp, acc.stack)[b] = mem[b]
  <2>1. Addr \subseteq Int
    BY DEF Addr
  <2> DEFINE d == acc.stack
  <2>2. Len(d) \in Nat /\ sp + Len(d) <= CallerRsp /\ sp \in Int
    BY <1>3, <1>4
  <2> HIDE DEF d
  <2>3. \A b \in Addr : b >= sp + Len(d) => Store(mem, sp, d)[b] = mem[b]
    BY <2>2, StoreBelow
  <2>4. \A b \in Addr : b >= CallerRsp => b >= sp + Len(d)
    BY <1>4, <2>1, <2>2
  <2> QED BY <2>3, <2>4 DEF d
<1>7. CASE /\ sp - 1 >= 1
           /\ mem' = Store(Store(mem, sp, acc.stack), sp - 1, <<Entry>>)
           /\ WriteRegs([Regs EXCEPT !["rax"] = acc.sse, !["rip"] = Fn, !["rsp"] = sp - 1])
  <2> DEFINE f == [Regs EXCEPT !["rax"] = acc.sse, !["rip"] = Fn, !["rsp"] = sp - 1]
             m == Store(mem, sp, acc.stack)
  <2>1. kregs'[cur] = f
    BY <1>1, <1>7, WriteEffect
  <2>2. f["rip"] = Fn /\ f["rsp"] = sp - 1 /\ f[IntRegs[1]] = Regs[IntRegs[1]]
    BY <1>1, FirstReg DEF IsFile
  <2>3. sp - 1 \in Addr /\ sp - 1 \in Int /\ sp - 1 < CallerRsp
    BY <1>3, <1>4, <1>7, CallAssumption DEF Addr
  <2>4. mem' = Store(m, sp - 1, <<Entry>>)
    BY <1>7
  <2> HIDE DEF f, m
  <2>5. mem'[sp - 1] = Entry /\ \A b \in Addr : b # sp - 1 => mem'[b] = m[b]
    <3> DEFINE a == sp - 1
               d == <<Entry>>
    <3>1. a \in Addr /\ mem' = Store(m, a, d) /\ Len(d) = 1 /\ d[1] = Entry
      BY <2>3, <2>4
    <3> HIDE DEF a, d
    <3>2. mem'[a] = Entry /\ \A b \in Addr : b # a => mem'[b] = m[b]
      BY <3>1, StoreOne
    <3> QED BY <3>2 DEF a
  <2>6. \A b \in Addr : b >= CallerRsp => b # sp - 1
    BY <1>4, <2>3
  <2>7. \A b \in Addr : b >= CallerRsp => mem'[b] = mem[b]
    BY <1>6, <2>5, <2>6 DEF m
  <2> QED BY <1>1, <1>2, <2>1, <2>2, <2>3, <2>5, <2>7
<1>8. CASE mem' = (IF sp >= 1 THEN Store(mem, sp, acc.stack) ELSE mem) /\ phase' = "fail"
  BY <1>6, <1>8
<1> QED BY <1>5, <1>7, <1>8

LEMMA Returned1 ==
  ASSUME NEW k, NEW set
  PROVE  /\ AfterReturn(k, set)["rip"] = mem[k["rsp"]]
         /\ "rax" \in DOMAIN set => AfterReturn(k, set)["rax"] = set["rax"]
<1>1. AfterReturn(k, set)["rip"] = mem[k["rsp"]]
  BY FirstReg DEF AfterReturn
<1>2. ASSUME "rax" \in DOMAIN set PROVE AfterReturn(k, set)["rax"] = set["rax"]
  BY <1>2, FirstReg DEF AfterReturn
<1> QED BY <1>1, <1>2

LEMMA RunStep ==
  ASSUME PhaseInv, ArgsInv, SlotInv, AccInv, DomainInv, OwnInv, SavedInv, RunInv, [Next]_vars
  PROVE  RunInv'
<1> SUFFICES ASSUME phase' = "run", ~before'.mixed PROVE RunInv'
  BY DEF RunInv
<1>1. CASE UNCHANGED vars
  BY <1>1 DEF RunInv, InMalloc, InCall, InSlot, InString, SlotPassed, HasSlot, ClassOf, Mapped, vars, inferior, history
<1>2. CASE Evaluate \/ ParseArgument \/ StringWritten \/ PrepareCall \/ SetupArguments \/ AssignArgument \/ SetCurrentThread \/ StopsEarly \/ OtherStops \/ Exits
  BY <1>2 DEF Evaluate, ParseArgument, Parsing, StringWritten, PrepareCall, SetupArguments, AssignArgument,
              SetCurrentThread, StopsEarly, OtherStops, Exits
<1>3. CASE Fail \/ MallocBack \/ CallBack
  BY <1>3, FailEffect, MallocBackEffect, CallBackEffect
<1>4. CASE StringArgument \/ ReturnSlot
  <2>1. PICK n, then : n \in Nat /\ InferiorMalloc(n, then)
    <3>1. CASE StringArgument
      BY <3>1 DEF StringArgument
    <3>2. CASE ReturnSlot
      BY <3>2, WordsOfResult DEF ReturnSlot, SlotInv, Busy, Prepared
    <3> QED BY <1>4, <3>1, <3>2
  <2>2. phase \in {"args", "slot"} /\ UNCHANGED <<before, cur>> /\ ~InCall'
    BY <1>4, StringEffect, SlotEffect DEF StringArgument, ReturnSlot, Parsing, history, InCall, InString
  <2>3. LET k == kregs'[cur'] IN
         /\ k["rip"] = Malloc /\ k["rsp"] = CallerRsp - 1 /\ k[IntRegs[1]] = n
         /\ Mapped(k["rsp"], 1) => mem'[k["rsp"]] = Entry
    BY <2>1, <2>2, MallocStarts
  <2>4. CallerRsp \in Int
    BY <2>2 DEF SavedInv, Busy, Prepared
  <2> QED BY <2>1, <2>2, <2>3, <2>4 DEF RunInv, Mapped
<1>5. CASE PushArguments
  <2>1. UNCHANGED <<before, act, call, ptr>> /\ phase = "assign"
    BY <1>5 DEF PushArguments, history
  <2>2. LET k == kregs'[cur'] IN
        /\ k["rip"] = Fn /\ k["rsp"] \in Int /\ mem'[k["rsp"]] = Entry
        /\ SlotPassed => k[IntRegs[1]] = ptr
    BY <1>5, <2>1, FunctionStarts
  <2>3. ~InMalloc'
    BY <2>1 DEF PhaseInv, Prepared, InCall, InMalloc, InString, InSlot
  <2>4. SlotPassed' = SlotPassed
    BY <2>1 DEF SlotPassed, HasSlot, ClassOf
  <2> QED BY <2>1, <2>2, <2>3, <2>4 DEF RunInv
<1>6. CASE MallocReturns \/ FunctionReturns
  <2>1. /\ UNCHANGED <<before, act, cur>> /\ phase = "run" /\ (Runs(Malloc) \/ Runs(Fn))
    BY <1>6 DEF MallocReturns, FunctionReturns, Runs, history
  <2>2. PICK set : Arrives(AfterReturn(kregs[cur], set))
    BY <1>6 DEF MallocReturns, FunctionReturns
  <2>3. cur \in Thread /\ obj[cur] = [pid |-> cur, regs |-> obj[cur].regs]
    BY <2>1, Alone DEF Busy
  <2>4. kregs'[cur] = AfterReturn(kregs[cur], set)
    BY <2>1, <2>2, <2>3, ArrivesEffect
  <2>5. kregs'[cur]["rip"] = Entry
    BY <2>1, <2>4, RunPlace, Returned1
  <2> QED BY <2>1, <2>5 DEF RunInv, Entry, Malloc, Fn
<1> QED BY <1>1, <1>2, <1>3, <1>4, <1>5, <1>6
        DEF Next, Debugger, Inferior, Over

(* A function without debugging information gets no return slot: one that  *)
(* returns its value in memory would write wherever rdi points.            *)
KnownReturns == \A c \in Calls : c.dwarf \/ c.ret = "void" \/ Types[c.ret].size <= 16

LEMMA MemKept ==
  ASSUME SavedInv, MemInv, phase \in Busy, UNCHANGED before, ~before.mixed, "malloc" \notin early,
         \A b \in Addr : b >= CallerRsp => mem'[b] = mem[b]
  PROVE  StackKept'
<1>1. CallerRsp \in 1 .. StackSlots /\ CallerRsp' = CallerRsp /\ StackKept
  BY DEF SavedInv, MemInv, CallerRsp, Caller
<1>2. \A a \in CallerRsp .. StackSlots : a \in Addr /\ a >= CallerRsp
  BY <1>1, CallAssumption DEF Addr
<1> QED BY <1>1, <1>2 DEF StackKept

LEMMA HeapStore ==
  ASSUME SavedInv, MemInv, phase \in Busy, UNCHANGED before, ~before.mixed, "malloc" \notin early,
         OnHeap(ptr), NEW d, mem' = Store(mem, ptr, d)
  PROVE  StackKept'
<1>1. ptr \in Int /\ ptr > StackSlots /\ CallerRsp \in 1 .. StackSlots /\ StackKept /\ CallerRsp' = CallerRsp
  BY DEF OnHeap, SavedInv, MemInv, CallerRsp, Caller
<1>2. \A b \in Addr : b < ptr => mem'[b] = mem[b]
  BY <1>1, StoreAbove
<1>3. \A a \in CallerRsp .. StackSlots : a \in Addr /\ a < ptr
  BY <1>1, CallAssumption DEF Addr
<1> QED BY <1>1, <1>2, <1>3 DEF StackKept

(* A value that the ABI returns in memory has its slot passed.             *)
LEMMA ReturnedInMemory ==
  ASSUME KnownReturns, ArgsInv, phase \in Busy, call.ret # "void", AbiClasses(call.ret) = InMemory
  PROVE  SlotPassed
<1>1. call \in Calls /\ call.ret \in DOMAIN Types
  BY TypesAssumption DEF ArgsInv
<1>2. Types[call.ret].size > 16
  <2>1. \A k : <<"X87", "X87UP">> # InMemory /\ [h \in 1 .. Words(call.ret) |-> IF "int" \in k[h] THEN "INTEGER" ELSE "SSE"] # InMemory
    <3>1. <<"X87", "X87UP">> # InMemory
      BY DEF InMemory
    <3>2. ASSUME NEW k, [h \in 1 .. Words(call.ret) |-> IF "int" \in k[h] THEN "INTEGER" ELSE "SSE"] = InMemory PROVE FALSE
      <4> DEFINE f == [h \in 1 .. Words(call.ret) |-> IF "int" \in k[h] THEN "INTEGER" ELSE "SSE"]
      <4>1. f[1] = "MEMORY" /\ 1 \in DOMAIN f
        BY <3>2 DEF InMemory
      <4>2. f[1] \in {"INTEGER", "SSE"}
        BY <4>1
      <4> QED BY <4>1, <4>2
    <3> QED BY <3>1, <3>2
  <2> SUFFICES ASSUME ~(Types[call.ret].size > 16) PROVE FALSE
    OBVIOUS
  <2> DEFINE kinds(h) == {l.kind : l \in {m \in Leaves[call.ret] : m.off < 8 * h /\ m.off + m.size > 8 * (h - 1)}}
             ks == [h \in 1 .. Words(call.ret) |-> kinds(h)]
  <2>2. AbiClasses(call.ret) = IF "x87" \in kinds(1) THEN <<"X87", "X87UP">>
                               ELSE [h \in 1 .. Words(call.ret) |-> IF "int" \in kinds(h) THEN "INTEGER" ELSE "SSE"]
    BY DEF AbiClasses
  <2>3. [h \in 1 .. Words(call.ret) |-> IF "int" \in kinds(h) THEN "INTEGER" ELSE "SSE"]
          = [h \in 1 .. Words(call.ret) |-> IF "int" \in ks[h] THEN "INTEGER" ELSE "SSE"]
    <3>1. \A h \in 1 .. Words(call.ret) : kinds(h) = ks[h]
      OBVIOUS
    <3> HIDE DEF kinds, ks
    <3> QED BY <3>1
  <2> HIDE DEF kinds, ks
  <2> QED BY <2>1, <2>2, <2>3
<1>3. HasSlot
  BY <1>1, <1>2, TypesAssumption DEF KnownReturns, HasSlot
<1>4. ClassOf(call.ret)[1] = "MEMORY"
  BY <1>1, <1>2, TypesAssumption DEF ClassOf, Large, InMemory
<1> QED BY <1>3, <1>4 DEF SlotPassed

LEMMA MemStep ==
  ASSUME KnownReturns, PhaseInv, ArgsInv, SlotInv, AccInv, DomainInv, OwnInv, SavedInv, RunInv, MemInv, [Next]_vars
  PROVE  MemInv'
<1> SUFFICES ASSUME ~before'.mixed, "malloc" \notin early' PROVE MemInv'
  BY DEF MemInv
<1>1. CASE UNCHANGED vars
  BY <1>1 DEF MemInv, StackKept, CallerRsp, Caller, InMalloc, InCall, InSlot, InString, HasSlot, Regs, vars, inferior, history
<1>2. CASE Evaluate
  <2>1. phase' = "args" /\ before'.mem = mem /\ mem' = mem
    BY <1>2 DEF Evaluate, inferior
  <2> QED BY <2>1 DEF MemInv, StackKept
<1>3. CASE SetCurrentThread \/ Exits
  <2>1. UNCHANGED <<before, early, mem>> /\ (phase' = "gone" \/ (phase = "idle" /\ phase' = "idle"))
    BY <1>3 DEF SetCurrentThread, Exits, inferior, history
  <2> QED BY <2>1 DEF MemInv, StackKept, CallerRsp, Caller, Busy, Prepared
<1>4. CASE ParseArgument
  <2>1. UNCHANGED <<before, early, mem>> /\ phase = "args" /\ phase' \in {"args", "idle"}
    BY <1>4 DEF ParseArgument, Parsing, inferior, history
  <2>2. StackKept'
    BY <2>1, MemKept DEF Busy
  <2> QED BY <2>1, <2>2 DEF MemInv
<1>5. CASE StringArgument \/ ReturnSlot
  <2>1. PICK n, then : n \in Nat /\ InferiorMalloc(n, then)
    <3>1. CASE StringArgument
      BY <3>1 DEF StringArgument
    <3>2. CASE ReturnSlot
      BY <3>2, WordsOfResult DEF ReturnSlot, SlotInv, Busy, Prepared
    <3> QED BY <1>5, <3>1, <3>2
  <2>2. phase \in {"args", "slot"} /\ phase' = "run" /\ UNCHANGED <<before, early, cur>> /\ ~InCall'
    BY <1>5, StringEffect, SlotEffect DEF StringArgument, ReturnSlot, Parsing, history, InCall, InString
  <2>3. \A b \in Addr : b >= CallerRsp => mem'[b] = mem[b]
    BY <2>1, <2>2, MallocStarts
  <2>4. StackKept'
    BY <2>2, <2>3, MemKept DEF Busy, Prepared
  <2> QED BY <2>2, <2>4 DEF MemInv
<1>6. CASE StringWritten
  <2>1. UNCHANGED <<before, early>> /\ phase = "string" /\ phase' \in {"args", "idle"}
    BY <1>6 DEF StringWritten, history
  <2>2. OnHeap(ptr) /\ CallerRsp \in 1 .. StackSlots
    BY <2>1 DEF MemInv, SavedInv, Busy
  <2>3. StackKept'
    <3>1. CASE mem' = mem
      BY <2>1, <3>1, MemKept DEF Busy
    <3>2. CASE mem' # mem
      <4>1. PICK d : mem' = Store(mem, ptr, d)
        BY <1>6, <3>2 DEF StringWritten
      <4> QED BY <2>1, <2>2, <4>1, HeapStore DEF Busy
    <3> QED BY <3>1, <3>2
  <2> QED BY <2>1, <2>3 DEF MemInv
<1>7. CASE PrepareCall
  <2>1. UNCHANGED <<before, early, mem, call>> /\ phase = "args" /\ phase' = IF HasSlot THEN "slot" ELSE "setup"
    BY <1>7, CallEffect DEF PrepareCall, inferior, history
  <2>2. StackKept'
    BY <2>1, MemKept DEF Busy
  <2>3. HasSlot' = HasSlot
    BY <2>1 DEF HasSlot
  <2> QED BY <2>1, <2>2, <2>3 DEF MemInv
<1>8. CASE SetupArguments \/ AssignArgument
  <2>1. UNCHANGED <<before, early, mem, call, act, ptr>> /\ phase \in {"setup", "assign"} /\ phase' = "assign"
    BY <1>8 DEF SetupArguments, AssignArgument, history
  <2>2. StackKept'
    BY <2>1, MemKept DEF Busy, Prepared
  <2> QED BY <2>1, <2>2 DEF MemInv, HasSlot, InCall, Busy, Prepared
<1>9. CASE PushArguments
  <2>1. UNCHANGED <<before, early, call, act, ptr>> /\ phase = "assign" /\ phase' \in {"run", "fail"}
    BY <1>9 DEF PushArguments, history
  <2>2. StackKept'
    BY <1>9, <2>1, FunctionStarts, MemKept DEF Busy, Prepared
  <2> QED BY <2>1, <2>2 DEF MemInv, HasSlot, InCall, Busy, Prepared
<1>10. CASE Fail
  <2>1. UNCHANGED <<before, early, mem>> /\ phase = "fail" /\ phase' = "idle"
    BY <1>10 DEF Fail, history
  <2>2. StackKept'
    BY <2>1, MemKept DEF Busy, Prepared
  <2> QED BY <2>1, <2>2 DEF MemInv, Busy, Prepared
<1>11. CASE MallocBack
  <2>1. UNCHANGED <<before, early, mem>> /\ ptr' = Regs["rax"] /\ phase = "back" /\ InMalloc
    BY <1>11, MallocBackEffect DEF MallocBack, history, InMalloc
  <2>2. StackKept'
    BY <2>1, MemKept DEF Busy
  <2>3. ptr' = 0 \/ OnHeap(ptr')
    BY <2>1 DEF MemInv, Busy, OnHeap
  <2>4. phase' \in {"idle", "fail"} \/ (phase' \in {"string", "setup"} /\ ptr' # 0)
    BY <1>11, MallocBackEffect
  <2> QED BY <2>2, <2>3, <2>4 DEF MemInv
<1>12. CASE CallBack
  <2>1. UNCHANGED <<before, early>> /\ phase = "back" /\ phase' = "idle" /\ InCall
    BY <1>12, CallBackEffect DEF CallBack
  <2>2. StackKept'
    <3>1. CASE mem' = mem
      BY <2>1, <3>1, MemKept DEF Busy
    <3>2. CASE mem' # mem
      <4>1. HasSlot /\ \E d : mem' = Store(mem, ptr, d)
        BY <1>12, <3>2 DEF CallBack
      <4>2. OnHeap(ptr)
        BY <2>1, <4>1 DEF MemInv, Busy
      <4> QED BY <2>1, <4>1, <4>2, HeapStore DEF Busy
    <3> QED BY <3>1, <3>2
  <2> QED BY <2>1, <2>2 DEF MemInv, Busy, Prepared
<1>13. CASE MallocReturns
  <2>1. UNCHANGED <<before, early, mem, act, cur>> /\ phase = "run" /\ Runs(Malloc)
    BY <1>13 DEF MallocReturns, Runs, history
  <2>2. StackKept'
    BY <2>1, MemKept DEF Busy
  <2>3. InMalloc /\ ~InCall
    BY <2>1, RunPlace
  <2>4. /\ cur \in Thread /\ obj[cur] = [pid |-> cur, regs |-> obj[cur].regs] /\ OnHeap(brk)
    BY <2>1, Alone DEF Busy, OwnInv, OnHeap
  <2>5. PICK r \in {0, brk} : Arrives(AfterReturn(kregs[cur], [rax |-> r]))
    BY <1>13 DEF MallocReturns
  <2> DEFINE set == [rax |-> r]
             f == AfterReturn(kregs[cur], set)
  <2>6. f["rax"] = r
    <3>1. "rax" \in DOMAIN set /\ set["rax"] = r
      OBVIOUS
    <3> HIDE DEF set
    <3> QED BY <3>1, Returned1
  <2>7. Arrives(f)
    BY <2>5
  <2> HIDE DEF set, f
  <2>8. phase' = "run" \/ (phase' = "back" /\ Regs' = f)
    <3>1. phase' = "run" \/ (phase' = "back" /\ obj'[cur] = [pid |-> cur, regs |-> f])
      BY <2>1, <2>4, <2>7, ArrivesEffect
    <3>2. obj'[cur'] = obj'[cur]
      BY <2>1
    <3> QED BY <3>1, <3>2 DEF Regs
  <2>9. ~InCall'
    BY <2>1, <2>3 DEF InCall
  <2> QED BY <2>2, <2>4, <2>6, <2>8, <2>9 DEF MemInv
<1>14. CASE FunctionReturns
  <2>1. UNCHANGED <<before, early, call, act, cur, ptr>> /\ phase = "run" /\ Runs(Fn)
    BY <1>14 DEF FunctionReturns, Runs
  <2>2. InCall /\ ~InMalloc
    BY <2>1, RunPlace
  <2>3. StackKept'
    <3>1. CASE mem' = mem
      BY <2>1, <3>1, MemKept DEF Busy
    <3>2. CASE mem' # mem
      <4>1. /\ call.ret # "void" /\ AbiClasses(call.ret) = InMemory
            /\ \E d : mem' = Store(mem, kregs[cur][IntRegs[1]], d)
        BY <1>14, <3>2 DEF FunctionReturns
      <4>2. SlotPassed
        BY <2>1, <4>1, ReturnedInMemory DEF Busy
      <4>3. kregs[cur][IntRegs[1]] = ptr
        BY <2>1, <2>2, <4>2 DEF RunInv, Runs
      <4>4. OnHeap(ptr)
        BY <2>1, <2>2, <4>2 DEF MemInv, SlotPassed, Busy
      <4> QED BY <2>1, <4>1, <4>3, <4>4, HeapStore DEF Busy
    <3> QED BY <3>1, <3>2
  <2>4. ~InMalloc' /\ HasSlot' = HasSlot /\ (phase' \in {"run", "back"})
    <3>1. phase' \in {"run", "back"}
      BY <1>14, <2>1 DEF FunctionReturns, Arrives
    <3> QED BY <2>1, <2>2, <3>1 DEF InMalloc, InString, InSlot, HasSlot
  <2> QED BY <2>1, <2>2, <2>3, <2>4 DEF MemInv, Busy
<1>15. CASE StopsEarly
  <2>1. UNCHANGED <<before, mem, call, act, ptr>> /\ phase = "run" /\ phase' = "back" /\ early' = early \cup {Last(act).what}
    BY <1>15 DEF StopsEarly
  <2>2. ~InMalloc /\ "malloc" \notin early
    BY <2>1, LastWhat
  <2>3. StackKept'
    BY <2>1, <2>2, MemKept DEF Busy
  <2>4. ~InMalloc'
    BY <2>1, <2>2 DEF InMalloc, InString, InSlot
  <2> QED BY <2>1, <2>2, <2>3, <2>4 DEF MemInv, HasSlot, InCall, Busy
<1>16. CASE OtherStops
  <2>1. UNCHANGED <<before, mem, call, act, ptr>> /\ phase = "run" /\ phase' = "back" /\ early \subseteq early' /\ Runs(Fn)
    BY <1>16 DEF OtherStops, Runs
  <2>2. ~InMalloc /\ "malloc" \notin early
    BY <2>1, RunPlace
  <2>3. StackKept'
    BY <2>1, <2>2, MemKept DEF Busy
  <2>4. ~InMalloc'
    BY <2>1, <2>2 DEF InMalloc, InString, InSlot
  <2> QED BY <2>1, <2>2, <2>3, <2>4 DEF MemInv, HasSlot, InCall, Busy
<1> QED BY <1>1, <1>2, <1>3, <1>4, <1>5, <1>6, <1>7, <1>8, <1>9, <1>10, <1>11, <1>12, <1>13, <1>14, <1>15, <1>16
        DEF Next, Debugger, Inferior, Over

-----------------------------------------------------------------------------
(* The theorem                                                             *)

LEMMA InitRestore ==
  ASSUME Init
  PROVE  RestoreInv
<1>1. PICK sp \in Stacks : kregs = [t \in Thread |-> [r \in Reg |-> CASE r = "rip" -> User [] r = "rsp" -> sp
                                                  [] r = "st0" -> <<0, 0>> [] OTHER -> 0]]
  BY DEF Init
<1>2. \A t \in Thread : IsFile(kregs[t]) /\ kregs[t]["rsp"] = sp
  <2>1. \A t \in Thread : kregs[t] = [r \in Reg |-> CASE r = "rip" -> User [] r = "rsp" -> sp
                                                  [] r = "st0" -> <<0, 0>> [] OTHER -> 0]
    BY <1>1
  <2>2. \A t \in Thread : kregs[t] = [r \in Reg |-> kregs[t][r]]
    BY <2>1
  <2>3. \A t \in Thread : kregs[t]["rsp"] = sp
    BY <2>1, FirstReg
  <2> QED BY <2>2, <2>3 DEF IsFile
<1>3. /\ obj = [t \in Thread |-> [pid |-> t, regs |-> kregs[t]]] /\ kregs = [t \in Thread |-> kregs[t]]
      /\ alive = {Main} /\ cur = Main /\ mem = [a \in Addr |-> 3000 + a] /\ brk = StackSlots + 1
      /\ site \in EntrySites /\ phase = "idle" /\ act = << >> /\ results = << >> /\ before = None
  BY <1>1 DEF Init
<1>4. PhaseInv /\ ArgsInv /\ SlotInv /\ ResultsInv /\ AccInv /\ RunInv
  <2>1. IsSeq(<< >>)
    BY DEF IsSeq
  <2> QED BY <1>3, <2>1 DEF PhaseInv, ArgsInv, SlotInv, ResultsInv, AccInv, RunInv, Busy, Prepared
<1>5. SiteInv /\ SavedInv /\ MemInv
  <2>1. WellSite(site)
    BY <1>3, SitesAssumption DEF WellSite, Absent
  <2> QED BY <1>3, <2>1 DEF SiteInv, SavedInv, MemInv, Busy, Prepared
<1>6. DomainInv
  BY <1>3, CallAssumption DEF DomainInv
<1>7. OwnInv
  <2>1. sp \in 1 .. StackSlots /\ brk \in Int /\ brk > StackSlots
    BY <1>3, CallAssumption
  <2>2. \A t \in Thread : obj[t] = [pid |-> t, regs |-> kregs[t]]
    BY <1>3
  <2> QED BY <1>2, <1>3, <2>1, <2>2, CallAssumption DEF OwnInv, Own, Busy, Prepared
<1> QED BY <1>4, <1>5, <1>6, <1>7 DEF RestoreInv

LEMMA RestoreStep ==
  ASSUME KnownReturns, RestoreInv, [Next]_vars
  PROVE  RestoreInv'
<1> USE DEF RestoreInv
<1>1. PhaseInv' /\ ArgsInv' /\ ResultsInv' /\ AccInv' /\ DomainInv'
  BY PhaseStep, ArgsStep, ResultsStep, AccStep, DomainStep
<1>2. SiteInv' /\ SlotInv'
  BY <1>1, SiteStep, SlotStep
<1>3. OwnInv' /\ SavedInv' /\ RunInv' /\ MemInv'
  BY OwnStep, SavedStep, RunStep, MemStep
<1> QED BY <1>1, <1>2, <1>3

LEMMA RestoreMeans ==
  ASSUME RestoreInv
  PROVE  CallerRestored
<1> SUFFICES ASSUME phase = "idle", before # None
             PROVE  /\ act = << >> /\ site = before.site
                    /\ ~before.mixed =>
                         /\ kregs[before.cur] = before.kregs[before.cur]
                         /\ "other" \notin early => obj[before.cur] = [pid |-> before.cur, regs |-> kregs[before.cur]]
                         /\ "malloc" \notin early =>
                              \A a \in before.kregs[before.cur]["rsp"] .. StackSlots : mem[a] = before.mem[a]
  BY DEF CallerRestored
<1> USE DEF RestoreInv
<1>1. act = << >> /\ site = before.site
  BY DEF PhaseInv, SiteInv
<1>2. ASSUME ~before.mixed
      PROVE  before.cur \in Thread /\ kregs[before.cur] = before.kregs[before.cur]
  BY <1>2 DEF SavedInv, Caller
<1>3. ASSUME ~before.mixed, "other" \notin early
      PROVE  obj[before.cur] = [pid |-> before.cur, regs |-> kregs[before.cur]]
  BY <1>2, <1>3 DEF OwnInv, Own
<1>4. ASSUME ~before.mixed, "malloc" \notin early
      PROVE  \A a \in before.kregs[before.cur]["rsp"] .. StackSlots : mem[a] = before.mem[a]
  BY <1>4 DEF MemInv, StackKept, CallerRsp, Caller
<1> QED BY <1>1, <1>2, <1>3, <1>4

(* However a call and the calls of malloc in it end, restoreExprState      *)
(* leaves nothing of it: the registers, the debugger's copy, the stack in  *)
(* use and the site at the entry point are those of before, for every set  *)
(* of types, calls and threads, as long as a function that returns a value *)
(* in memory has debugging information.                                    *)
THEOREM CallLeavesNothing ==
  ASSUME KnownReturns
  PROVE  Spec => []CallerRestored
<1>1. Init => RestoreInv
  BY InitRestore
<1>2. RestoreInv /\ [Next]_vars => RestoreInv'
  BY RestoreStep
<1>3. RestoreInv => CallerRestored
  BY RestoreMeans
<1> QED BY <1>1, <1>2, <1>3, PTL DEF Spec

=============================================================================
