--------------------------- MODULE DebugRegisters ---------------------------
(***************************************************************************)
(* Hardware breakpoints and watchpoints: the stoppoints of                 *)
(* debugger/watchpoint.go and breakpoint_site.go, and the debug registers  *)
(* of every thread that process.go programs for them.                      *)
(*                                                                         *)
(* A stoppoint is an address with a condition; there is at most one        *)
(* watchpoint and one hardware breakpoint per address.                     *)
(*                                                                         *)
(* A run is cut where the debugger waits: a thread that traps stays        *)
(* stopped until handleSignal or stopRunningThreads comes to its status,   *)
(* and the others go on writing meanwhile.  Left out are threads that      *)
(* exit, and a single step that ends in a clone event.                     *)
(***************************************************************************)
EXTENDS Integers

CONSTANTS
  Thread,    \* thread ids
  Addr,      \* addresses that are watched or broken at
  Value,     \* values of the memory that is watched
  Watch,     \* watchpoints the user may set
  Exec,      \* hardware breakpoints the user may set
  AddrOf,    \* the address of each
  None,      \* an absent stoppoint, a cleared register, a disabled slot
  Registers, \* how many address registers there are: DR0 .. DR3
  Toggles,   \* the user enables and disables stoppoints
  Rearm      \* ... also enabled and disabled ones

Point == Watch \cup Exec
Slot  == 0 .. Registers - 1
Cond  == {"x", "w"}

(* isEnabled and hardwareRegisterIndex of a stoppoint.                     *)
FieldsOf == [on : BOOLEAN, idx : -1 .. Registers - 1]

ASSUME RegistersAssumption ==
  /\ Watch \cap Exec = {}
  /\ AddrOf \in [Point -> Addr]
  /\ \A p, q \in Watch : AddrOf[p] = AddrOf[q] => p = q
  /\ \A p, q \in Exec  : AddrOf[p] = AddrOf[q] => p = q
  /\ Registers \in Nat \ {0}
  /\ None \notin Addr \cup Cond \cup FieldsOf \cup Point \cup Slot \cup Thread
  /\ Value # {}
  /\ Toggles \in BOOLEAN /\ Rearm \in BOOLEAN

VARIABLES
  live,     \* p.threads
  current,  \* p.currentThread
  phase,    \* prompt, resuming, stepping, running, stopping
  todo,     \* the threads the loop the debugger is in has yet to visit
  me,       \* the thread that is stepped, or whose stop is reported; None
  held,     \* the hardware breakpoint it is stepped over
  runs,     \* the threads that are resumed, and have not stopped since
  hit,      \* the slot for which a thread has trapped, until wait4 returns it
  dr,       \* DR0 .. DR3 of each thread
  dr7,      \* the condition of each enabled slot of each thread
  point,    \* the two collections: None, or the stoppoint's fields
  mem,      \* the value at the address of each watchpoint
  data,     \* Watchpoint.data
  prev,     \* Watchpoint.previousData
  steady,   \* history: the watchpoints enabled, and not written to in a
            \* single step, ever since data was read
  late,     \* history: a thread was created while a stoppoint was enabled
  wrote,    \* history: the writes of this run; 2: several, or not steady
  old       \* history: the value that the only one of them replaced

wait    == <<phase, todo, me, held, runs, hit>>
history == <<steady, late, wrote, old>>
vars    == <<live, current, wait, dr, dr7, point, mem, data, prev, history>>

Present(p) == point[p] # None
Enabled(p) == Present(p) /\ point[p].on

(* The mode of a watchpoint is fixed at creation; "w" stands for write and *)
(* for read/write, which both trap on a write.                             *)
CondOf(p) == IF p \in Exec THEN "x" ELSE "w"

-----------------------------------------------------------------------------
(* The debug registers                                                     *)

(* findFreeStoppointRegister on the DR7 of the current thread.             *)
FreeSlots    == {i \in Slot : dr7[current][i] = None}
IsFirstFree(i) == i \in FreeSlots /\ \A j \in FreeSlots : i <= j

(* Operators named Faulty... are variants with one bug each; the properties *)
(* are checked to fail when one of them stands in for the definition it     *)
(* precedes.  No action uses them.                                          *)
FaultySetStoppoint(a, c, i) ==            \* not replicated
  /\ dr'  = [dr EXCEPT ![current][i] = a]
  /\ dr7' = [dr7 EXCEPT ![current][i] = c]

(* setHardwareStoppoint: the address register of slot i is written in      *)
(* every thread, and DR7 of every thread becomes that of the current one.  *)
SetStoppoint(a, c, i) ==
  LET control == [dr7[current] EXCEPT ![i] = c] IN
  /\ dr'  = [t \in Thread |-> IF t \in live THEN [dr[t] EXCEPT ![i] = a] ELSE dr[t]]
  /\ dr7' = [t \in Thread |-> IF t \in live THEN control ELSE dr7[t]]

FaultyClearStoppoint(i) ==                \* not written to the other threads
  /\ i \in Slot
  /\ dr'  = [dr EXCEPT ![current][i] = None]
  /\ dr7' = [dr7 EXCEPT ![current][i] = None]

(* ClearHardwareStoppoint; an index that is not a slot is an error.        *)
ClearStoppoint(i) ==
  LET control == [dr7[current] EXCEPT ![i] = None] IN
  /\ i \in Slot
  /\ dr'  = [t \in Thread |-> IF t \in live THEN [dr[t] EXCEPT ![i] = None] ELSE dr[t]]
  /\ dr7' = [t \in Thread |-> IF t \in live THEN control ELSE dr7[t]]

-----------------------------------------------------------------------------
(* Commands                                                                *)

AtPrompt == phase = "prompt" /\ UNCHANGED <<wait, wrote, old>>

(* watchpoint set: CreateWatchpoint, which takes the first value.          *)
CreateWatchpoint(p, i) ==
  /\ AtPrompt
  /\ p \in Watch /\ ~Present(p)
  /\ IsFirstFree(i)
  /\ SetStoppoint(AddrOf[p], CondOf(p), i)
  /\ point' = [point EXCEPT ![p] = [on |-> TRUE, idx |-> i]]
  /\ data' = [data EXCEPT ![p] = mem[p]]
  /\ steady' = steady \cup {p}
  /\ UNCHANGED <<live, current, mem, prev, late>>

(* breakpoint set -h: CreateBreakpointSite and Enable.  With no register   *)
(* free a breakpoint set by address stays in the collection, disabled.     *)
CreateBreakpoint(p, i) ==
  /\ AtPrompt
  /\ p \in Exec /\ ~Present(p)
  /\ IsFirstFree(i)
  /\ SetStoppoint(AddrOf[p], CondOf(p), i)
  /\ point' = [point EXCEPT ![p] = [on |-> TRUE, idx |-> i]]
  /\ UNCHANGED <<live, current, mem, data, prev, steady, late>>

CreateBreakpointFails(p) ==
  /\ AtPrompt
  /\ p \in Exec /\ ~Present(p)
  /\ FreeSlots = {}
  /\ point' = [point EXCEPT ![p] = [on |-> FALSE, idx |-> -1]]
  /\ UNCHANGED <<live, current, dr, dr7, mem, data, prev, steady, late>>

Enable(p, i) ==
  /\ AtPrompt
  /\ Toggles /\ Present(p)
  /\ Rearm \/ ~point[p].on
  /\ IsFirstFree(i)
  /\ SetStoppoint(AddrOf[p], CondOf(p), i)
  /\ point' = [point EXCEPT ![p] = [on |-> TRUE, idx |-> i]]
  /\ UNCHANGED <<live, current, mem, data, prev, steady, late>>

Disable(p) ==
  /\ AtPrompt
  /\ Toggles /\ Present(p)
  /\ Rearm \/ point[p].on
  /\ ClearStoppoint(point[p].idx)
  /\ point' = [point EXCEPT ![p] = [@ EXCEPT !.on = FALSE]]
  /\ steady' = steady \ {p}
  /\ UNCHANGED <<live, current, mem, data, prev, late>>

Forgotten(p) ==
  /\ point' = [point EXCEPT ![p] = None]
  /\ data' = [q \in Watch |-> IF q = p THEN None ELSE data[q]]
  /\ prev' = [q \in Watch |-> IF q = p THEN None ELSE prev[q]]
  /\ wrote' = [q \in Watch |-> IF q = p THEN 0 ELSE wrote[q]]
  /\ old' = [q \in Watch |-> IF q = p THEN None ELSE old[q]]
  /\ steady' = steady \ {p}
  /\ UNCHANGED <<live, current, wait, mem, late>>

FaultyDelete(p) ==                        \* not disabled first
  /\ phase = "prompt" /\ Present(p)
  /\ UNCHANGED <<dr, dr7>>
  /\ Forgotten(p)

(* RemoveWatchpoint and RemoveBreakpointSite.                              *)
Delete(p) ==
  /\ phase = "prompt" /\ Present(p)
  /\ IF point[p].on THEN ClearStoppoint(point[p].idx) ELSE UNCHANGED <<dr, dr7>>
  /\ Forgotten(p)

SelectThread(t) ==
  /\ AtPrompt
  /\ t \in live
  /\ current' = t
  /\ UNCHANGED <<live, dr, dr7, point, mem, data, prev, steady, late>>

-----------------------------------------------------------------------------
(* Resuming                                                                *)

NewRun == wrote' = [p \in Watch |-> 0] /\ old' = [p \in Watch |-> None]

(* ResumeAllThreads, and Resume of the current thread alone.               *)
Resume ==
  /\ phase = "prompt" /\ phase' = "resuming"
  /\ runs' \in {live, {current}} /\ todo' = runs'
  /\ NewRun
  /\ UNCHANGED <<live, current, me, held, hit, dr, dr7, point, mem, data, prev, steady, late>>

(* stepOverBreakpointForThread, and StepInstruction on the current thread: *)
(* a hardware breakpoint at the program counter is disabled for the step.  *)
BeginStep(t) ==
  /\ \/ phase = "resuming" /\ t \in todo /\ UNCHANGED <<wrote, old>>
     \/ phase = "prompt" /\ t = current /\ NewRun
  /\ phase' = "stepping" /\ me' = t
  /\ \/ held' = None /\ UNCHANGED <<dr, dr7, point>>
     \/ \E p \in Exec :
          /\ Enabled(p) /\ held' = p
          /\ ClearStoppoint(point[p].idx)
          /\ point' = [point EXCEPT ![p] = [@ EXCEPT !.on = FALSE]]
  /\ UNCHANGED <<live, current, todo, runs, hit, mem, data, prev, steady, late>>

(* The step ends in a TRAP_TRACE stop, whatever else its instruction has   *)
(* triggered: no watchpoint reads the value it wrote.                      *)
StepWrites(p, v) ==
  /\ mem' = [mem EXCEPT ![p] = v]
  /\ steady' = steady \ {p}
  /\ wrote' = IF Present(p) THEN [wrote EXCEPT ![p] = 2] ELSE wrote

(* Enable takes the first register that is free, perhaps another one.      *)
EndStep ==
  /\ phase = "stepping"
  /\ phase' = IF runs = {} THEN "prompt" ELSE "resuming"
  /\ todo' = todo \ {me}
  /\ \/ held = None /\ UNCHANGED <<dr, dr7, point>>
     \/ \E i \in Slot :
          /\ held # None /\ IsFirstFree(i)
          /\ SetStoppoint(AddrOf[held], "x", i)
          /\ point' = [point EXCEPT ![held] = [on |-> TRUE, idx |-> i]]
  /\ held' = None /\ me' = None
  /\ \/ UNCHANGED <<mem, steady, wrote>>
     \/ \E p \in Watch, v \in Value : StepWrites(p, v)
  /\ UNCHANGED <<live, current, runs, hit, data, prev, late, old>>

(* The second pass; a thread that was not on a breakpoint was not stepped. *)
Continue ==
  /\ phase = "resuming" /\ phase' = "running"
  /\ todo' = {}
  /\ UNCHANGED <<live, current, me, held, runs, hit, dr, dr7, point, mem, data, prev, history>>

-----------------------------------------------------------------------------
(* The program runs                                                        *)

(* The slots of thread t that an access of kind c to a triggers.           *)
Triggered(t, a, c) == {i \in Slot : dr[t][i] = a /\ dr7[t][i] = c}

(* The thread stops for the lowest of them, the one handleSignal reads     *)
(* from DR6, or does not stop.                                             *)
Accesses(t, a, c) ==
  LET slots == Triggered(t, a, c) IN
  \/ slots = {} /\ UNCHANGED <<hit, runs>>
  \/ \E i \in slots :
       /\ \A j \in slots : i <= j
       /\ hit' = [hit EXCEPT ![t] = i] /\ runs' = runs \ {t}

Executes(t) == phase \in {"running", "stopping"} /\ t \in runs

Write(t, p, v) ==
  /\ Executes(t)
  /\ mem' = [mem EXCEPT ![p] = v]
  /\ Accesses(t, AddrOf[p], "w")
  /\ IF Present(p)
     THEN LET first == wrote[p] = 0 /\ p \in steady IN
          /\ wrote' = [wrote EXCEPT ![p] = IF first THEN 1 ELSE 2]
          /\ old' = [old EXCEPT ![p] = IF first THEN mem[p] ELSE None]
     ELSE UNCHANGED <<wrote, old>>
  /\ UNCHANGED <<live, current, phase, todo, me, held, dr, dr7, point, data, prev, steady, late>>

(* The instruction at a hardware breakpoint.                               *)
Break(t, p) ==
  /\ Executes(t) /\ Triggered(t, AddrOf[p], "x") # {}
  /\ Accesses(t, AddrOf[p], "x")
  /\ UNCHANGED <<live, current, phase, todo, me, held, dr, dr7, point, mem, data, prev, history>>

(* The kernel gives a new thread no hardware breakpoints; whether its DR7  *)
(* reads as its parent's or as zero is up to the kernel.                   *)
NewThread(t) ==
  /\ phase = "running" /\ t \notin live
  /\ live' = live \cup {t} /\ runs' = runs \cup {t}
  /\ dr' = [dr EXCEPT ![t] = [i \in Slot |-> None]]
  /\ \E image \in {dr7[u] : u \in live} \cup {[i \in Slot |-> None]} :
        dr7' = [dr7 EXCEPT ![t] = image]
  /\ late' = (late \/ \E p \in Point : Enabled(p))
  /\ UNCHANGED <<current, phase, todo, me, held, hit, point, mem, data, prev, steady, wrote, old>>

-----------------------------------------------------------------------------
(* Waiting                                                                 *)

FaultyFound(t, i) ==                      \* the index is not compared
  {p \in Watch : Present(p) /\ AddrOf[p] = dr[t][i]}

(* The stoppoint a trap in slot i of thread t is attributed to: the first  *)
(* watchpoint with the slot's address and index, else such a breakpoint.   *)
Found(t, i) ==
  LET match(S) == {p \in S : Present(p) /\ AddrOf[p] = dr[t][i] /\ point[p].idx = i}
  IN  IF match(Watch) # {} THEN match(Watch) ELSE match(Exec)

Refreshed(p) == IF Enabled(p) THEN steady \cup {p} ELSE steady

FaultyUpdateData(p) ==                    \* the old value is not shifted
  /\ data' = [data EXCEPT ![p] = mem[p]]
  /\ steady' = Refreshed(p)
  /\ UNCHANGED prev

(* The value is the one in memory now, not the one that was written.       *)
UpdateData(p) ==
  /\ data' = [data EXCEPT ![p] = mem[p]]
  /\ prev' = [prev EXCEPT ![p] = data[p]]
  /\ steady' = Refreshed(p)

(* The watchpoint that the trap of t is attributed to, if it is one.       *)
Trapped(t) == IF hit[t] = None THEN {} ELSE Found(t, hit[t]) \cap Watch

(* What handleSignal does with the status of a thread that has stopped,    *)
(* for its own stop and for one that stopRunningThreads collects alike.    *)
HandleSignal(t) ==
  /\ \/ \E p \in Trapped(t) : UpdateData(p)
     \/ Trapped(t) = {} /\ UNCHANGED <<data, prev, steady>>
  /\ hit' = [hit EXCEPT ![t] = None] /\ runs' = runs \ {t}

Stopping == {t \in live : t \in runs \/ hit[t] # None}

(* waitOnSignalFor: a trap, or any other stop of a thread.                 *)
ReportStop(t) ==
  /\ phase = "running" /\ t \in Stopping
  /\ HandleSignal(t)
  /\ phase' = "stopping" /\ me' = t /\ todo' = Stopping \ {t}
  /\ UNCHANGED <<live, current, held, dr, dr7, point, mem, late, wrote, old>>

(* stopRunningThreads: a trap that came before the SIGSTOP, or the SIGSTOP. *)
CollectStop(t) ==
  /\ phase = "stopping" /\ t \in todo
  /\ HandleSignal(t)
  /\ todo' = todo \ {t}
  /\ UNCHANGED <<live, current, phase, me, held, dr, dr7, point, mem, late, wrote, old>>

Return ==
  /\ phase = "stopping" /\ todo = {}
  /\ phase' = "prompt" /\ current' = me /\ me' = None
  /\ UNCHANGED <<live, todo, held, runs, hit, dr, dr7, point, mem, data, prev, history>>

-----------------------------------------------------------------------------
Init ==
  /\ live \in SUBSET Thread \ {{}} /\ current \in live
  /\ phase = "prompt" /\ todo = {} /\ me = None /\ held = None
  /\ runs = {} /\ hit = [t \in Thread |-> None]
  /\ dr  = [t \in Thread |-> [i \in Slot |-> None]]
  /\ dr7 = [t \in Thread |-> [i \in Slot |-> None]]
  /\ point = [p \in Point |-> None]
  /\ mem \in [Watch -> Value]
  /\ data = [p \in Watch |-> None] /\ prev = [p \in Watch |-> None]
  /\ steady = {} /\ late = FALSE
  /\ wrote = [p \in Watch |-> 0] /\ old = [p \in Watch |-> None]

Next ==
  \/ \E p \in Point, i \in Slot :
       CreateWatchpoint(p, i) \/ CreateBreakpoint(p, i) \/ Enable(p, i)
  \/ \E p \in Point : CreateBreakpointFails(p) \/ Disable(p) \/ Delete(p)
  \/ Resume \/ EndStep \/ Continue \/ Return
  \/ \E t \in Thread : \/ SelectThread(t) \/ BeginStep(t) \/ NewThread(t)
                       \/ ReportStop(t) \/ CollectStop(t)
  \/ \E t \in Thread, p \in Exec : Break(t, p)
  \/ \E t \in Thread, p \in Watch, v \in Value : Write(t, p, v)

Spec == Init /\ [][Next]_vars

-----------------------------------------------------------------------------
(* Properties                                                              *)

(* Types of the stoppoint collections and of the debug registers.          *)
TypeOK ==
  /\ live \subseteq Thread /\ current \in live
  /\ phase \in {"prompt", "resuming", "stepping", "running", "stopping"}
  /\ todo \subseteq live /\ runs \subseteq live /\ me \in live \cup {None} /\ held \in Exec \cup {None}
  /\ hit \in [Thread -> Slot \cup {None}]
  /\ dr  \in [Thread -> [Slot -> Addr \cup {None}]]
  /\ dr7 \in [Thread -> [Slot -> Cond \cup {None}]]
  /\ point \in [Point -> FieldsOf \cup {None}]
  /\ mem \in [Watch -> Value]
  /\ data \in [Watch -> Value \cup {None}] /\ prev \in [Watch -> Value \cup {None}]
  /\ steady \subseteq Watch /\ late \in BOOLEAN
  /\ wrote \in [Watch -> 0 .. 2] /\ old \in [Watch -> Value \cup {None}]

(* Slot i of thread t is programmed for p.                                 *)
Programmed(t, p, i) == dr[t][i] = AddrOf[p] /\ dr7[t][i] = CondOf(p)

(* An enabled stoppoint stops every thread (setHardwareStoppoint): its     *)
(* slot is programmed for it in each of them, whichever thread was current *)
(* when it and the others were set, cleared or deleted, as long as no      *)
(* thread was created while a stoppoint was enabled: notifyThreadLifecycle *)
(* gives such a thread none.                                               *)
ArmedEverywhere ==
  ~late => \A p \in Point : Enabled(p) => \A t \in live : Programmed(t, p, point[p].idx)

(* A disabled or deleted stoppoint stops no thread                         *)
(* (ClearHardwareStoppoint): no slot of any thread is programmed for it.   *)
DisabledIsSilent ==
  \A p \in Point : ~Enabled(p) => \A t \in live, i \in Slot : ~Programmed(t, p, i)

(* A trap is attributed to the stoppoint that caused it                    *)
(* (GetCurrentHardwareStoppoint), under the same condition.                *)
HitsAreFound ==
  ~late => \A p \in Point : Enabled(p) => \A t \in live : Found(t, point[p].idx) = {p}

(* The value and the previous value that a stop shows (UpdateData), until  *)
(* a thread is created late.  However many threads wrote, and whenever     *)
(* each was stopped, Data is the value in memory, for a watchpoint in      *)
(* steady: Enable does not read the value again, nor does a single step or *)
(* a step-over that writes it.  If the run wrote it once, PreviousData is  *)
(* the value from before, also when other threads write elsewhere, trap    *)
(* and are collected in between.                                           *)
ChangeIsShown ==
  phase = "prompt" /\ ~late => \A p \in Watch :
    /\ p \in steady   => data[p] = mem[p]
    /\ wrote[p] = 1 => prev[p] = old[p]
=============================================================================
