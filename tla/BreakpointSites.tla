--------------------------- MODULE BreakpointSites ---------------------------
(***************************************************************************)
(* The breakpoint sites of a traced process and the bytes they patch:      *)
(* debugger/breakpoint_site.go, the site operations of process.go, and the *)
(* commands that use them (cmd/toydbg, RunUntilAddress of stepping.go, the *)
(* one-shot entry breakpoint of target.go, the _dl_debug_state breakpoint  *)
(* of dynlib.go, the return breakpoint of EvaluateExpression in expr.go).  *)
(*                                                                         *)
(* A Go pointer to a site is modelled by the site's address: no two sites  *)
(* of the collection have the same one.  The order of the collection is    *)
(* the order of creation, kept in the field ord.                           *)
(***************************************************************************)
EXTENDS Integers

CONSTANTS
  Addr,        \* addresses of the tracee the commands name
  Mapped,      \* the ones PTRACE_PEEKDATA and POKEDATA can reach
  Byte,        \* byte values
  Patch,       \* the ones the user writes with memory write
  Int3,        \* 0xCC
  Zero,        \* 0x00, the initial savedData of a Go struct
  Text0,       \* the bytes of the program before the debugger touches it
  Entry,       \* AT_ENTRY
  DlState,     \* _dl_debug_state (r_debug.r_brk)
  NoSite,      \* no site at this address
  MaxSites,    \* bound: calls of nextBreakpointID
  Dynamic,     \* the program has a PT_INTERP segment
  Rearm,       \* the user may enable an enabled site or disable a disabled one
  PatchTraps   \* the user may write memory under an enabled software site

ASSUME SitesAssumption ==
  /\ Mapped \subseteq Addr
  /\ Int3 \in Byte /\ Zero \in Byte /\ Patch \subseteq Byte
  /\ Text0 \in [Addr -> Byte]
  /\ Entry \in Mapped /\ DlState \in Mapped /\ Entry # DlState
  /\ MaxSites \in Nat
  /\ Dynamic \in BOOLEAN /\ Rearm \in BOOLEAN /\ PatchTraps \in BOOLEAN

(* The hit handlers: none, the one-shot entry handler, the library reload. *)
Handler == {"none", "entry", "dl"}

SiteRec == [id : Int, ord : Nat, enabled : BOOLEAN, saved : Byte,
            hardware : BOOLEAN, internal : BOOLEAN, onHit : Handler]

ASSUME NoSiteAssumption == NoSite \notin SiteRec

VARIABLES
  mem,      \* the bytes in the tracee's memory
  text,     \* history: the bytes the program and the user's writes put there
  site,     \* the collection: a site or NoSite for each address
  counter,  \* breakpointIDCounter
  pc,       \* cached program counter of the current thread
  phase,    \* where the debugger is inside its current command
  cmd,      \* the command that is running
  at,       \* the address of the site RunUntilAddress or the call holds
  own,      \* whether that command created the site
  old,      \* oldHandler of EvaluateExpression
  savedPC,  \* rip in savedRegs of EvaluateExpression
  before    \* history: the collection when the running command began

vars == <<mem, text, site, counter, pc, phase, cmd, at, own, old, savedPC, before>>
run  == <<cmd, at, own, old, savedPC, before>>

-----------------------------------------------------------------------------
(* Sites and the collection                                                *)

Present(a)    == site[a] # NoSite
EnabledAt(a)  == Present(a) /\ site[a].enabled
SoftwareAt(a) == EnabledAt(a) /\ ~site[a].hardware

(* getByID and removeByID work on the first site of the collection that    *)
(* has the id.                                                             *)
FirstWithID(a, id) ==
  /\ Present(a) /\ site[a].id = id
  /\ \A b \in Addr : Present(b) /\ site[b].id = id => site[a].ord <= site[b].ord

NewSite(hw, internal, handler) ==
  [id |-> IF internal THEN -1 ELSE counter + 1, ord |-> counter + 1,
   enabled |-> FALSE, saved |-> Zero, hardware |-> hw, internal |-> internal,
   onHit |-> handler]

(* Enable reads the byte at the address into savedData and writes int3,    *)
(* whether or not the site is enabled already; a hardware site programs a  *)
(* debug register and leaves memory alone.                                 *)
EnabledSite(s, a)  == IF s.hardware THEN [s EXCEPT !.enabled = TRUE]
                      ELSE [s EXCEPT !.enabled = TRUE, !.saved = mem[a]]
MemEnabled(s, a)   == IF s.hardware THEN mem ELSE [mem EXCEPT ![a] = Int3]

(* Operators named Faulty... are variants with one bug each; the properties *)
(* are checked to fail when one of them stands in for the definition it     *)
(* precedes.  No action uses them.                                          *)
FaultyDisabledSite(s) == s                \* isEnabled is not cleared

DisabledSite(s)    == [s EXCEPT !.enabled = FALSE]

FaultyMemDisabled(s, a) == mem            \* the saved byte is not restored

MemDisabled(s, a)  == IF s.hardware THEN mem ELSE [mem EXCEPT ![a] = s.saved]

(* Enable can fail: the page is not mapped, or no debug register is free.  *)
CanEnable(a, hw) == hw \/ a \in Mapped

FaultyCreateEnabled(a, s) ==              \* the id counter is not advanced
  /\ ~Present(a)
  /\ counter < MaxSites
  /\ CanEnable(a, s.hardware)
  /\ site' = [site EXCEPT ![a] = EnabledSite(s, a)]
  /\ mem' = MemEnabled(s, a)
  /\ UNCHANGED counter

(* CreateBreakpointSite followed by Enable.                                *)
CreateEnabled(a, s) ==
  /\ ~Present(a)
  /\ counter < MaxSites
  /\ counter' = counter + 1
  /\ CanEnable(a, s.hardware)
  /\ site' = [site EXCEPT ![a] = EnabledSite(s, a)]
  /\ mem' = MemEnabled(s, a)

EnableAt(a) ==
  /\ CanEnable(a, site[a].hardware)
  /\ site' = [site EXCEPT ![a] = EnabledSite(site[a], a)]
  /\ mem' = MemEnabled(site[a], a)

DisableAt(a) ==
  /\ CanEnable(a, site[a].hardware)
  /\ site' = [site EXCEPT ![a] = DisabledSite(site[a])]
  /\ mem' = MemDisabled(site[a], a)

DisableAndRemove(a) ==
  /\ mem' = MemDisabled(site[a], a)
  /\ site' = [site EXCEPT ![a] = NoSite]

Goto(p) == phase' = p

(* A command that runs the tracee begins, holding the site at a or not.    *)
Begin(c, a, owned, handler) ==
  /\ cmd' = c /\ at' = a /\ own' = owned /\ old' = handler
  /\ savedPC' = IF c = "call" THEN pc ELSE Entry
  /\ before' = site
  /\ phase' = "resuming"

NoCollection == [a \in Addr |-> NoSite]

End ==
  /\ cmd' = "none" /\ at' = Entry /\ own' = FALSE /\ old' = "none"
  /\ savedPC' = Entry
  /\ before' = NoCollection
  /\ phase' = "prompt"

-----------------------------------------------------------------------------
(* Commands of the prompt that edit the collection                         *)

(* breakpoint set <addr>, <function> or <file:line>, when Enable succeeds. *)
SetBreakpoint(a, hw) ==
  /\ phase = "prompt"
  /\ CreateEnabled(a, NewSite(hw, FALSE, "none"))
  /\ UNCHANGED <<text, pc, phase, run>>

(* breakpoint set <addr>, when Enable fails: the disabled site stays.      *)
SetAddressFails(a, hw) ==
  /\ phase = "prompt"
  /\ ~Present(a)
  /\ counter < MaxSites
  /\ hw \/ a \notin Mapped
  /\ counter' = counter + 1
  /\ site' = [site EXCEPT ![a] = NewSite(hw, FALSE, "none")]
  /\ UNCHANGED <<mem, text, pc, phase, run>>

(* breakpoint set <function> or <file:line>, when Enable fails: the site   *)
(* is removed by its id, which is fresh, so only the counter moves.        *)
SetLocationFails(a, hw) ==
  /\ phase = "prompt"
  /\ ~Present(a)
  /\ counter < MaxSites
  /\ hw \/ a \notin Mapped
  /\ counter' = counter + 1
  /\ UNCHANGED <<mem, text, site, pc, phase, run>>

EnableCommand(a, id) ==
  /\ phase = "prompt"
  /\ FirstWithID(a, id)
  /\ Rearm \/ ~site[a].enabled
  /\ EnableAt(a)
  /\ UNCHANGED <<text, counter, pc, phase, run>>

DisableCommand(a, id) ==
  /\ phase = "prompt"
  /\ FirstWithID(a, id)
  /\ Rearm \/ site[a].enabled
  /\ DisableAt(a)
  /\ UNCHANGED <<text, counter, pc, phase, run>>

(* breakpoint delete: RemoveBreakpointSite.                                *)
DeleteCommand(a, id) ==
  /\ phase = "prompt"
  /\ FirstWithID(a, id)
  /\ site' = [site EXCEPT ![a] = NoSite]
  /\ mem' = IF site[a].enabled THEN MemDisabled(site[a], a) ELSE mem
  /\ UNCHANGED <<text, counter, pc, phase, run>>

(* memory write: WriteMemory takes no account of the sites.                *)
WriteMemory(a, v) ==
  /\ phase = "prompt"
  /\ a \in Mapped
  /\ PatchTraps \/ ~SoftwareAt(a)
  /\ mem' = [mem EXCEPT ![a] = v]
  /\ text' = [text EXCEPT ![a] = v]
  /\ UNCHANGED <<site, counter, pc, phase, run>>

-----------------------------------------------------------------------------
(* Commands that run the tracee                                            *)

(* installEntryPointBreakpoint and the Resume of LaunchTarget.             *)
InstallEntryPointBreakpoint ==
  /\ phase = "launch"
  /\ CreateEnabled(Entry, NewSite(FALSE, TRUE, "entry"))
  /\ Begin("cont", Entry, FALSE, "none")
  /\ UNCHANGED <<text, pc>>

(* continue, and RunUntilAddress when an enabled site is at the address.   *)
Continue ==
  /\ phase = "prompt"
  /\ Begin("cont", Entry, FALSE, "none")
  /\ UNCHANGED <<mem, text, site, counter, pc>>

(* RunUntilAddress with a temporary internal site.  A disabled site at the *)
(* address makes CreateBreakpointSite, and the command, fail.              *)
RunUntilAddress(a) ==
  /\ phase = "prompt"
  /\ CreateEnabled(a, NewSite(FALSE, TRUE, "none"))
  /\ Begin("until", a, TRUE, "none")
  /\ UNCHANGED <<text, pc>>

(* RunUntilAddress, when Enable fails: the new site is removed by its id,  *)
(* which is -1, so the first internal site goes in its place, trap and     *)
(* all; with no other internal site that is the new site itself.           *)
NoInternal == \A b \in Addr : ~(Present(b) /\ site[b].id = -1)

RunUntilAddressFails(a) ==
  /\ phase = "prompt"
  /\ ~Present(a) /\ a \notin Mapped
  /\ counter < MaxSites
  /\ counter' = counter + 1
  /\ NoInternal
  /\ UNCHANGED <<mem, text, site, pc, phase, run>>

RunUntilAddressDrops(a, b) ==
  /\ phase = "prompt"
  /\ ~Present(a) /\ a \notin Mapped
  /\ counter < MaxSites
  /\ counter' = counter + 1
  /\ FirstWithID(b, -1)
  /\ site' = [[site EXCEPT ![a] = NewSite(FALSE, TRUE, "none")] EXCEPT ![b] = NoSite]
  /\ UNCHANGED <<mem, text, pc, phase, run>>

(* EvaluateExpression and inferiorMalloc: a site at the entry point        *)
(* catches the return; one that is there already is borrowed, enabled or   *)
(* not, and only its handler is replaced.  f is the function called.       *)
CallWithOwnSite(f) ==
  /\ phase = "prompt"
  /\ CreateEnabled(Entry, NewSite(FALSE, TRUE, "none"))
  /\ Begin("call", Entry, TRUE, "none")
  /\ pc' = f
  /\ UNCHANGED text

CallWithBorrowedSite(f) ==
  /\ phase = "prompt"
  /\ Present(Entry)
  /\ Begin("call", Entry, FALSE, site[Entry].onHit)
  /\ site' = [site EXCEPT ![Entry] = [site[Entry] EXCEPT !.onHit = "none"]]
  /\ pc' = f
  /\ UNCHANGED <<mem, text, counter>>

(* Resume: step over the enabled site at the program counter, if any.      *)
ResumeStepsOver ==
  /\ phase = "resuming"
  /\ EnabledAt(pc)
  /\ DisableAt(pc)
  /\ Goto("stepover")
  /\ UNCHANGED <<text, counter, pc, run>>

FaultyFinishStepOver ==                   \* the site is not enabled again
  /\ phase = "stepover"
  /\ Goto("running")
  /\ UNCHANGED <<mem, text, site, counter, pc, run>>

FinishStepOver ==
  /\ phase = "stepover"
  /\ EnableAt(pc)
  /\ Goto("running")
  /\ UNCHANGED <<text, counter, pc, run>>

ResumeRuns ==
  /\ phase = "resuming"
  /\ ~EnabledAt(pc)
  /\ Goto("running")
  /\ UNCHANGED <<mem, text, site, counter, pc, run>>

(* WaitOnSignal returns with the (rewound) program counter at a, and no    *)
(* handler has edited the collection.                                      *)
Stop(a) ==
  /\ phase = "running"
  /\ pc' = a
  /\ Goto("returning")
  /\ UNCHANGED <<mem, text, site, counter, run>>

(* The tracee hits the entry breakpoint while its one-shot handler is on.  *)
HitEntry ==
  /\ phase = "running"
  /\ SoftwareAt(Entry) /\ site[Entry].onHit = "entry"
  /\ pc' = Entry
  /\ Goto("resolve")
  /\ UNCHANGED <<mem, text, site, counter, run>>

(* resolveRendezvous, called by the entry handler or by AttachTarget: a    *)
(* site at r_brk, unless there is no rendezvous or a site exists already.  *)
AfterResolve == IF phase = "attach" THEN "prompt" ELSE "oneshot"

ResolveRendezvous ==
  /\ phase \in {"resolve", "attach"}
  /\ CreateEnabled(DlState, NewSite(FALSE, TRUE, "dl"))
  /\ Goto(AfterResolve)
  /\ UNCHANGED <<text, pc, run>>

NoRendezvous ==
  /\ phase \in {"resolve", "attach"}
  /\ Goto(AfterResolve)
  /\ UNCHANGED <<mem, text, site, counter, pc, run>>

(* The entry handler disables its site and removes it by address.          *)
RemoveEntryBreakpoint ==
  /\ phase = "oneshot"
  /\ DisableAndRemove(Entry)
  /\ Goto("returning")
  /\ UNCHANGED <<text, counter, pc, run>>

FaultyCleanUpTemporary(a) ==              \* disabled but not removed
  /\ phase = "returning" /\ cmd = "until"
  /\ FirstWithID(a, -1)
  /\ mem' = MemDisabled(site[at], at)
  /\ site' = [site EXCEPT ![at] = DisabledSite(site[at])]
  /\ End
  /\ UNCHANGED <<text, counter, pc>>

(* RunUntilAddress disables its own site and then removes BY ID: the first *)
(* site with id -1, which every internal site has.                         *)
CleanUpTemporary(a) ==
  /\ phase = "returning" /\ cmd = "until"
  /\ FirstWithID(a, -1)
  /\ mem' = MemDisabled(site[at], at)
  /\ site' = [[site EXCEPT ![at] = DisabledSite(site[at])] EXCEPT ![a] = NoSite]
  /\ End
  /\ UNCHANGED <<text, counter, pc>>

(* restoreExprState.                                                       *)
RestoreExprState ==
  /\ phase = "returning" /\ cmd = "call"
  /\ IF own THEN DisableAndRemove(Entry)
     ELSE /\ site' = [site EXCEPT ![Entry] = [site[Entry] EXCEPT !.onHit = old]]
          /\ UNCHANGED mem
  /\ pc' = savedPC
  /\ End
  /\ UNCHANGED <<text, counter>>

ReturnFromContinue ==
  /\ phase = "returning" /\ cmd = "cont"
  /\ End
  /\ UNCHANGED <<mem, text, site, counter, pc>>

-----------------------------------------------------------------------------
Init ==
  /\ mem = Text0 /\ text = Text0
  /\ site = NoCollection
  /\ counter = 0
  /\ pc \in Addr
  /\ phase \in IF Dynamic THEN {"launch", "attach"} ELSE {"prompt"}
  /\ cmd = "none" /\ at = Entry /\ own = FALSE /\ old = "none"
  /\ savedPC = Entry /\ before = NoCollection

Ids == -1 .. MaxSites

Next ==
  \/ \E a \in Addr, hw \in BOOLEAN :
        SetBreakpoint(a, hw) \/ SetAddressFails(a, hw) \/ SetLocationFails(a, hw)
  \/ \E a \in Addr, id \in Ids :
        EnableCommand(a, id) \/ DisableCommand(a, id) \/ DeleteCommand(a, id)
  \/ \E a \in Addr, v \in Patch : WriteMemory(a, v)
  \/ InstallEntryPointBreakpoint
  \/ Continue
  \/ \E a \in Addr : RunUntilAddress(a) \/ Stop(a) \/ CleanUpTemporary(a)
  \/ \E a \in Addr : RunUntilAddressFails(a) \/ \E b \in Addr : RunUntilAddressDrops(a, b)
  \/ \E f \in Addr : CallWithOwnSite(f) \/ CallWithBorrowedSite(f)
  \/ ResumeStepsOver \/ FinishStepOver \/ ResumeRuns
  \/ HitEntry \/ ResolveRendezvous \/ NoRendezvous \/ RemoveEntryBreakpoint
  \/ RestoreExprState \/ ReturnFromContinue

Spec == Init /\ [][Next]_vars

-----------------------------------------------------------------------------
(* Properties                                                              *)

Phase == {"launch", "attach", "prompt", "resuming", "stepover", "running",
          "resolve", "oneshot", "returning"}

(* Types of the site collection (breakpoint_site.go) and of the control    *)
(* state of the running command.                                           *)
TypeOK ==
  /\ mem \in [Addr -> Byte] /\ text \in [Addr -> Byte]
  /\ site \in [Addr -> SiteRec \cup {NoSite}]
  /\ before \in [Addr -> SiteRec \cup {NoSite}]
  /\ counter \in 0 .. MaxSites
  /\ pc \in Addr /\ savedPC \in Addr /\ at \in Addr
  /\ phase \in Phase
  /\ cmd \in {"none", "cont", "until", "call"}
  /\ own \in BOOLEAN /\ old \in Handler

(* ReadMemoryWithoutTraps, one byte: the enabled software sites of the     *)
(* region are patched out.                                                 *)
View(a) == IF SoftwareAt(a) THEN site[a].saved ELSE mem[a]

(* What ReadMemoryWithoutTraps returns is the program as it would be with  *)
(* no breakpoints: neither setting, stepping over, deleting nor the        *)
(* temporary sites of step, finish and expression calls may change it.     *)
ViewIsText == \A a \in Mapped : View(a) = text[a]

(* An enabled software site has its int3 in memory (Enable, Disable): a    *)
(* breakpoint the list command shows as enabled stops the program.         *)
TrapInPlace == \A a \in Addr : SoftwareAt(a) => mem[a] = Int3

(* At the prompt the only internal sites are the entry breakpoint and the  *)
(* one on _dl_debug_state: RunUntilAddress and EvaluateExpression leave no *)
(* temporary site behind.                                                  *)
NoTemporaryLeft ==
  phase = "prompt" => \A a \in Addr :
    Present(a) /\ site[a].internal => site[a].onHit # "none"

(* The ids the user types name one site each: no two user-visible sites    *)
(* share one, and none has the -1 of the internal sites.                   *)
UserSite(s) == s # NoSite /\ ~s.internal
UserIDsUnique ==
  \A a, b \in Addr : UserSite(site[a]) /\ UserSite(site[b]) =>
    /\ site[a].id > 0
    /\ site[a].id = site[b].id => a = b

(* A command that runs the tracee (continue, step, finish, an expression)  *)
(* gives back the user's sites as it found them, and a call gives back     *)
(* every site, its hit handler included (restoreExprState).                *)
RunsKeepSites ==
  [][phase # "prompt" /\ phase' = "prompt" =>
       \A a \in Addr : UserSite(before[a]) \/ cmd = "call" => site'[a] = before[a]]_vars
=============================================================================
