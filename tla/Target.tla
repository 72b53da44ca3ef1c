------------------------------- MODULE Target -------------------------------
(***************************************************************************)
(* A session from its first system call to its last: Launch or Attach      *)
(* with populateExistingThreads and EnableThreadTracking (process.go), the *)
(* list of shared libraries that resolveRendezvous and                     *)
(* reloadDynamicLibraries keep (dynlib.go, elf_collection.go), and Close.  *)
(* The threads that are not attached yet go on: they create threads, exit, *)
(* and open and close libraries.                                           *)
(*                                                                         *)
(* While the program runs the waiting and the all-stop of ThreadControl    *)
(* are one step here; a hit handler that resumes leaves the thread on its  *)
(* site, as it does there.                                                 *)
(***************************************************************************)
EXTENDS Naturals, FiniteSets, Sequences, SequencesExt

CONSTANTS
  Thread, Main,     \* the threads there may be; the one that is the process
  Lib, Base,        \* libraries; addresses they are mapped at
  Broken,           \* those whose file OpenELF cannot open
  Startup,          \* those mapped before the entry point, with their base
  Plugins,          \* those that dlopen may map, with their base
  MaxDl,            \* bound: uses of dlopen and dlclose
  None

ASSUME TargetAssumption ==
  /\ Main \in Thread /\ Broken \subseteq Lib /\ MaxDl \in Nat
  /\ ToSet(Startup) \cup Plugins \subseteq [lib : Lib, base : Base]

(* The linker maps a library once, and no two at one address.              *)
ASSUME StartupAssumption ==
  /\ Startup \in Seq([lib : Lib, base : Base])
  /\ \A i, j \in DOMAIN Startup :
       Startup[i].lib = Startup[j].lib \/ Startup[i].base = Startup[j].base => i = j
  /\ \A e \in Plugins, i \in DOMAIN Startup : Startup[i].lib # e.lib /\ Startup[i].base # e.base

VARIABLES
  \* the process, in the kernel
  run,      \* each thread: none, run, stop (a ptrace stop), zombie, gone
  ev,       \* what the stop is for
  traced,   \* the threads the debugger traces
  follow,   \* those with PTRACE_O_TRACECLONE
  asked,    \* those with a PTRACE_INTERRUPT to come
  stops,    \* those with a SIGSTOP queued
  group,    \* the process: running, stopped, or killed by a trap
  \* the process, in the dynamic linker
  kind,     \* static, early (the linker has not set DT_DEBUG), dynamic
  map,      \* the link map
  dl,       \* the call of dlopen or dlclose in progress
  uses,     \* the number of those calls
  trap,     \* whether the int3 at r_brk is in memory
  \* the debugger
  phase,    \* the step it is at
  todo,     \* what is left of the loop it is in
  me,       \* the thread it is about
  st,       \* p.threads: each thread unlisted, stopped or running
  owned,    \* terminateOnEnd
  found,    \* whether rendezvousAddr is known
  elves,    \* the libraries of the ELFCollection
  \* history
  late,     \* threads made, after the list was read, by one not followed
  lost,     \* threads that exited while Attach was on them
  closed,   \* the entries that dlclose removed
  missed    \* a change of the link map went by unseen, in the step over the
            \* trap or before Attach had planted it

kernel   == <<run, ev, traced, follow, asked, stops, group>>
linker   == <<kind, map, dl, uses, trap>>
debugger == <<phase, todo, me, st, owned, found, elves>>
history  == <<late, lost, closed, missed>>
vars     == <<kernel, linker, debugger, history>>

Listed      == {t \in Thread : st[t] # "unlisted"}
Alive       == {t \in Thread : run[t] \in {"run", "stop"}}
Executes(t) == run[t] = "run" /\ group = "running"
Active      == kind # "early" /\ phase \notin {"entry", "closed"}  \* past the entry point, before the end
NoDl        == [by |-> None, open |-> FALSE, entry |-> None, at |-> "idle", seen |-> FALSE]
AtBrk(t)    == dl.by = t /\ dl.at \in {"before", "after"}     \* its pc is r_brk
Attaching   == phase \in {"seize", "interrupt", "wait", "list", "next", "track", "resolve", "plant"}
Closing     == phase \in {"closing", "closewait", "detach", "sigcont", "kill"}

-----------------------------------------------------------------------------
(* The kernel, and the program's threads                                   *)

(* clone: a parent with TRACECLONE stops, its child is traced and stops    *)
(* before its first instruction.                                           *)
Clone(t, u) ==
  /\ Executes(t) /\ Active /\ dl.by # t /\ run[u] = "none"
  /\ \/ /\ t \in traced \cap follow
        /\ run' = [run EXCEPT ![t] = "stop", ![u] = "stop"]
        /\ ev' = [ev EXCEPT ![t] = "clone", ![u] = "new"]
        /\ traced' = traced \cup {u} /\ follow' = follow \cup {u} /\ late' = late
     \/ /\ t \notin traced \cap follow
        /\ run' = [run EXCEPT ![u] = "run"]
        /\ late' = IF t \notin traced \/ Attaching \/ lost # {} THEN late \cup {u} ELSE late
        /\ UNCHANGED <<ev, traced, follow>>
  /\ UNCHANGED <<asked, stops, group, linker, debugger, lost, closed, missed>>

ThreadExits(t) ==
  /\ Executes(t) /\ Active /\ t # Main /\ dl.by # t
  /\ run' = [run EXCEPT ![t] = IF t \in traced THEN "zombie" ELSE "gone"]
  /\ asked' = asked \ {t} /\ stops' = stops \ {t}
  /\ lost' = IF t = me /\ phase \in {"interrupt", "wait"} THEN lost \cup {t} ELSE lost
  /\ UNCHANGED <<ev, traced, follow, group, linker, debugger, late, closed, missed>>

(* A traced thread stops for PTRACE_INTERRUPT or for a SIGSTOP.            *)
Stop(t) ==
  /\ run[t] = "run" /\ t \in traced /\ group # "killed"
  /\ \/ /\ t \in asked /\ asked' = asked \ {t} /\ stops' = stops
        /\ ev' = [ev EXCEPT ![t] = "interrupt"]
     \/ /\ t \in stops /\ stops' = stops \ {t} /\ asked' = asked
        /\ ev' = [ev EXCEPT ![t] = "sigstop"]
  /\ run' = [run EXCEPT ![t] = "stop"]
  /\ UNCHANGED <<traced, follow, group, linker, debugger, history>>

(* One that is no longer traced stops the process with it.                 *)
GroupStop(t) ==
  /\ Executes(t) /\ t \in stops \ traced
  /\ stops' = stops \ {t} /\ group' = "stopped"
  /\ UNCHANGED <<run, ev, traced, follow, asked, linker, debugger, history>>

-----------------------------------------------------------------------------
(* The dynamic linker: r_brk is called before and after the link map       *)
(* changes, under the linker's lock.                                       *)

LinkerDone ==
  /\ kind = "early" /\ Executes(Main)
  /\ kind' = "dynamic" /\ map' = Startup
  /\ UNCHANGED <<kernel, dl, uses, trap, debugger, history>>

DlCall(t) ==
  /\ Executes(t) /\ Active /\ kind = "dynamic" /\ dl = NoDl /\ uses < MaxDl
  /\ \/ \E e \in Plugins :
          /\ \A i \in DOMAIN map : map[i].lib # e.lib /\ map[i].base # e.base
          /\ dl' = [by |-> t, open |-> TRUE, entry |-> e, at |-> "before", seen |-> FALSE]
     \/ \E e \in ToSet(map) \ ToSet(Startup) :
          dl' = [by |-> t, open |-> FALSE, entry |-> e, at |-> "before", seen |-> FALSE]
  /\ uses' = uses + 1
  /\ UNCHANGED <<kernel, kind, map, trap, debugger, history>>

DlMap(t) ==
  /\ Executes(t) /\ dl.by = t /\ dl.at = "mid"
  /\ dl' = [dl EXCEPT !.at = "after"]
  /\ \/ dl.open /\ map' = Append(map, dl.entry) /\ closed' = closed
     \/ /\ ~dl.open /\ closed' = closed \cup {dl.entry}
        /\ \E i \in DOMAIN map : map[i] = dl.entry /\ map' = RemoveAt(map, i)
  /\ UNCHANGED <<kernel, kind, uses, trap, debugger, late, lost, missed>>

Past(d) == IF d.at = "before" THEN [d EXCEPT !.at = "mid"] ELSE NoDl

(* It is passed with no handler called.  A change that no reload has seen  *)
(* is missed, if there is a list already and the program is not resumed.   *)
Unseen ==
  /\ dl' = Past(dl)
  /\ missed' = (missed \/ (found /\ phase # "running" /\ dl.at = "after" /\ ~dl.seen))

(* The instruction at r_brk.  The int3 stops a traced thread; SIGTRAP      *)
(* kills the process of one that is not.                                   *)
DlBrk(t) ==
  /\ Executes(t) /\ AtBrk(t)
  /\ \/ /\ ~trap /\ Unseen /\ UNCHANGED <<run, ev, group>>
     \/ /\ trap /\ t \in traced /\ UNCHANGED <<dl, missed>>
        /\ run' = [run EXCEPT ![t] = "stop"] /\ ev' = [ev EXCEPT ![t] = "trap"]
        /\ group' = group
     \/ /\ trap /\ t \notin traced /\ UNCHANGED <<dl, missed>>
        /\ run' = [u \in Thread |-> "gone"] /\ group' = "killed" /\ ev' = ev
  /\ UNCHANGED <<traced, follow, asked, stops, kind, map, uses, trap, debugger, late, lost, closed>>

-----------------------------------------------------------------------------
(* The collection of ELF files                                             *)

Has(es, l) == \E i \in DOMAIN es : es[i].lib = l

(* One entry of the link map; a file that cannot be opened is passed over. *)
Loaded(es, e) == IF Has(es, e.lib) \/ e.lib \in Broken THEN es ELSE Append(es, e)

FaultyReloadDynamicLibraries ==           \* break for continue
  IF map # << >> /\ Has(elves, Head(map).lib) THEN elves ELSE FoldLeft(Loaded, elves, map)

(* reloadDynamicLibraries: all of the link map; nothing is ever removed.   *)
ReloadDynamicLibraries ==
  LET after[n \in 0 .. Len(map)] == IF n = 0 THEN elves ELSE Loaded(after[n - 1], map[n])
  IN  after[Len(map)]

Reload ==
  /\ elves' = ReloadDynamicLibraries
  /\ dl' = [dl EXCEPT !.seen = (dl.at = "after")] /\ missed' = FALSE

(* resolveRendezvous, up to the list: once DT_DEBUG is set it is read.  The *)
(* walk of it is one step.                                                 *)
ReadRendezvous == kind = "dynamic" /\ found' = TRUE /\ Reload

NoRendezvous == kind # "dynamic" /\ UNCHANGED <<found, elves, dl, missed>>

ELFContainingAddress(a) ==
  LET hits == {i \in DOMAIN elves : elves[i].base = a}
  IN  IF hits = {} THEN None ELSE elves[Min(hits)]

-----------------------------------------------------------------------------
(* Launch                                                                  *)

(* The program has stopped in exec.  With a dynamic linker it is resumed   *)
(* to the trap at its entry point.                                         *)
LaunchTarget ==
  /\ phase = "launch"
  /\ follow' = {Main}
  /\ \/ kind = "static" /\ phase' = "prompt" /\ UNCHANGED <<run, st>>
     \/ /\ kind = "early" /\ phase' = "entry"
        /\ run' = [run EXCEPT ![Main] = "run"] /\ st' = [st EXCEPT ![Main] = "running"]
  /\ UNCHANGED <<ev, traced, asked, stops, group, linker, todo, me, owned, found, elves, history>>

(* The handler of the entry point's site, which stops there.  The process  *)
(* has no other thread, so the trap at r_brk is there with the list.       *)
EntryHit ==
  /\ phase = "entry" /\ kind = "dynamic"
  /\ run' = [run EXCEPT ![Main] = "stop"] /\ st' = [st EXCEPT ![Main] = "stopped"]
  /\ ReadRendezvous /\ trap' = TRUE
  /\ phase' = "prompt"
  /\ UNCHANGED <<ev, traced, follow, asked, stops, group, kind, map, uses, todo, me, owned,
                 late, lost, closed>>

-----------------------------------------------------------------------------
(* Attach                                                                  *)

(* PTRACE_SEIZE; a thread that has gone is passed over.                    *)
Seize ==
  /\ phase = "seize"
  /\ \/ me \in Alive /\ traced' = traced \cup {me} /\ phase' = "interrupt"
     \/ me \notin Alive /\ traced' = traced /\ phase' = "next"
  /\ UNCHANGED <<run, ev, follow, asked, stops, group, linker, todo, me, st, owned, found, elves, history>>

FaultyInterrupt ==                        \* SEIZE taken to stop the thread
  /\ phase = "interrupt" /\ phase' = "wait"
  /\ UNCHANGED <<kernel, linker, todo, me, st, owned, found, elves, history>>

Interrupt ==
  /\ phase = "interrupt"
  /\ \/ me \in Alive /\ asked' = asked \cup {me} /\ phase' = "wait"
     \/ me \notin Alive /\ asked' = asked /\ phase' = "next"
  /\ UNCHANGED <<run, ev, traced, follow, stops, group, linker, todo, me, st, owned, found, elves, history>>

(* wait4 returns for a stop and for an exit; the status is not looked at.  *)
WaitAttached ==
  /\ phase = "wait"
  /\ \/ run[me] = "stop" /\ ev' = [ev EXCEPT ![me] = "none"] /\ run' = run
     \/ run[me] = "zombie" /\ run' = [run EXCEPT ![me] = "gone"] /\ ev' = ev
  /\ st' = [st EXCEPT ![me] = "stopped"]
  /\ phase' = IF me = Main THEN "list" ELSE "next"
  /\ UNCHANGED <<traced, follow, asked, stops, group, linker, todo, me, owned, found, elves, history>>

(* populateExistingThreads: /proc/<pid>/task is read once; no thread that  *)
(* is there then is late.                                                  *)
ReadTasks ==
  /\ phase = "list"
  /\ todo' = Alive \ Listed /\ phase' = "next"
  /\ late' = {}
  /\ UNCHANGED <<kernel, linker, me, st, owned, found, elves, lost, closed, missed>>

NextTask ==
  /\ phase = "next"
  /\ \/ \E t \in todo : me' = t /\ todo' = todo \ {t} /\ phase' = "seize"
     \/ todo = {} /\ phase' = "track" /\ me' = Main /\ todo' = todo
  /\ UNCHANGED <<kernel, linker, st, owned, found, elves, history>>

FaultyEnableThreadTracking == phase = "track" /\ follow' = {Main}   \* on the process only

(* PTRACE_SETOPTIONS for the threads in no particular order, up to the     *)
(* first for which it fails; the error is dropped.                         *)
EnableThreadTracking ==
  /\ phase = "track"
  /\ \/ Listed \subseteq Alive /\ follow' = Listed
     \/ ~(Listed \subseteq Alive) /\ follow' \in SUBSET (Listed \cap Alive)

Track ==
  /\ EnableThreadTracking
  /\ phase' = "resolve"
  /\ UNCHANGED <<run, ev, traced, asked, stops, group, linker, todo, me, st, owned, found, elves, history>>

Resolve ==
  /\ phase = "resolve"
  /\ \/ ReadRendezvous /\ phase' = "plant"
     \/ NoRendezvous /\ phase' = "prompt"
  /\ UNCHANGED <<kernel, kind, map, uses, trap, todo, me, st, owned, late, lost, closed>>

(* The rest of resolveRendezvous.  A late thread may change the list and   *)
(* pass r_brk after it was read and before the trap is there.              *)
PlantTrap ==
  /\ phase = "plant" /\ trap' = TRUE /\ phase' = "prompt"
  /\ UNCHANGED <<kernel, kind, map, dl, uses, todo, me, st, owned, found, elves, history>>

-----------------------------------------------------------------------------
(* The session                                                             *)

(* ResumeAllThreads: a thread on the trap is stepped over it first; a      *)
(* listed thread that does not exist ends the command when its turn comes. *)
Stopped  == {t \in Listed : st[t] = "stopped"}
Continue ==
  /\ phase \in {"prompt", "failed"} /\ group # "killed"
  /\ \E go \in SUBSET (Stopped \cap Alive) :
       /\ Stopped \subseteq Alive => go = Stopped
       /\ run' = [t \in Thread |-> IF t \in go THEN "run" ELSE run[t]]
       /\ st' = [t \in Thread |-> IF t \in go THEN "running" ELSE st[t]]
  /\ phase' = IF Stopped \subseteq Alive THEN "running" ELSE "failed"
  /\ IF trap /\ \E t \in Stopped : AtBrk(t)
     THEN Unseen
     ELSE UNCHANGED <<dl, missed>>
  /\ UNCHANGED <<ev, traced, follow, asked, stops, group, kind, map, uses, trap, todo, me, owned, found, elves,
                 late, lost, closed>>

(* What waitOnSignalFor deals with itself: clone, a new thread, a hit at   *)
(* r_brk, a late SIGSTOP, an exit.                                         *)
HandleSignal(t) ==
  /\ phase = "running"
  /\ \/ /\ t \in traced /\ run[t] = "stop"
        /\ run' = [run EXCEPT ![t] = "run"] /\ ev' = [ev EXCEPT ![t] = "none"]
        /\ st' = [st EXCEPT ![t] = "running"] /\ follow' = follow \cup {t}
        /\ IF ev[t] = "trap" THEN Reload ELSE UNCHANGED <<elves, dl, missed>>
     \/ /\ run[t] = "zombie"
        /\ run' = [run EXCEPT ![t] = "gone"] /\ st' = [st EXCEPT ![t] = "unlisted"]
        /\ UNCHANGED <<ev, follow, elves, dl, missed>>
  /\ UNCHANGED <<traced, asked, stops, group, kind, map, uses, trap, phase, todo, me, owned, found,
                 late, lost, closed>>

(* A stop that is reported: stopRunningThreads collects the others.  The   *)
(* SIGSTOP of one that had stopped for something else stays queued.        *)
ReportStop ==
  /\ phase = "running" /\ \E t \in Listed : run[t] = "run"
  /\ run' = [t \in Thread |-> CASE t \notin Listed -> run[t]
                                [] t \in Listed \cap Alive -> "stop"
                                [] t \in Listed \ Alive -> "gone"]
  /\ st' = [t \in Thread |-> IF t \in Listed \cap Alive THEN "stopped" ELSE "unlisted"]
  /\ ev' = [t \in Thread |-> IF t \in Listed THEN "none" ELSE ev[t]]
  /\ stops' = stops \cup {t \in Listed : run[t] = "stop"}
  /\ IF \E t \in Listed : ev[t] = "trap" /\ run[t] = "stop" THEN Reload ELSE UNCHANGED <<elves, dl, missed>>
  /\ phase' = "prompt"
  /\ UNCHANGED <<traced, follow, asked, group, kind, map, uses, trap, todo, me, owned, found, late, lost, closed>>

-----------------------------------------------------------------------------
(* Close                                                                   *)

CloseBegins ==
  /\ phase \in {"prompt", "failed", "running"} /\ group # "killed"
  /\ todo' = {t \in Thread : st[t] = "running"} /\ phase' = "closing"
  /\ UNCHANGED <<kernel, linker, me, st, owned, found, elves, history>>

CloseStops ==
  /\ phase = "closing" /\ todo # {}
  /\ \E t \in todo :
       /\ me' = t /\ todo' = todo \ {t}
       /\ stops' = IF t \in Alive THEN stops \cup {t} ELSE stops
  /\ phase' = "closewait"
  /\ UNCHANGED <<run, ev, traced, follow, asked, group, linker, st, owned, found, elves, history>>

(* Any stop of the thread will do, or its exit, or that it is gone.        *)
CloseWaits ==
  /\ phase = "closewait" /\ run[me] # "run"
  /\ run' = IF run[me] = "zombie" THEN [run EXCEPT ![me] = "gone"] ELSE run
  /\ phase' = "closing"
  /\ UNCHANGED <<ev, traced, follow, asked, stops, group, linker, todo, me, st, owned, found, elves, history>>

CloseStopped ==
  /\ phase = "closing" /\ todo = {}
  /\ todo' = Listed /\ phase' = "detach" /\ me' = Main
  /\ UNCHANGED <<kernel, linker, st, owned, found, elves, history>>

(* PTRACE_DETACH fails for a thread that is not stopped.                   *)
Detach ==
  /\ phase = "detach"
  /\ \/ \E t \in todo :
          /\ todo' = todo \ {t} /\ phase' = phase
          /\ IF run[t] = "stop"
             THEN /\ run' = [run EXCEPT ![t] = "run"] /\ ev' = [ev EXCEPT ![t] = "none"]
                  /\ traced' = traced \ {t}
             ELSE UNCHANGED <<run, ev, traced>>
     \/ todo = {} /\ phase' = "sigcont" /\ UNCHANGED <<todo, run, ev, traced>>
  /\ UNCHANGED <<follow, asked, stops, group, linker, me, st, owned, found, elves, history>>

FaultyContinued == UNCHANGED <<stops, group>>      \* SIGCONT is not sent

(* SIGCONT removes the SIGSTOPs that are queued and undoes a group stop.   *)
Continued == stops' = {} /\ group' = IF group = "killed" THEN group ELSE "running"

SendSigcont ==
  /\ phase = "sigcont" /\ Continued
  /\ phase' = IF owned THEN "kill" ELSE "closed"
  /\ UNCHANGED <<run, ev, traced, follow, asked, linker, todo, me, st, owned, found, elves, history>>

Kill ==
  /\ phase = "kill"
  /\ run' = [t \in Thread |-> IF run[t] = "none" THEN "none" ELSE "gone"]
  /\ phase' = "closed"
  /\ UNCHANGED <<ev, traced, follow, asked, stops, group, linker, todo, me, st, owned, found, elves, history>>

-----------------------------------------------------------------------------
Init ==
  /\ ev = [t \in Thread |-> "none"] /\ follow = {} /\ asked = {} /\ stops = {} /\ group = "running"
  /\ dl = NoDl /\ uses = 0 /\ trap = FALSE
  /\ todo = {} /\ me = Main /\ found = FALSE /\ elves = << >>
  /\ late = {} /\ lost = {} /\ closed = {} /\ missed = FALSE
  /\ \/ /\ phase = "launch" /\ owned = TRUE /\ kind \in {"static", "early"} /\ map = << >>
        /\ run = [t \in Thread |-> IF t = Main THEN "stop" ELSE "none"]
        /\ traced = {Main} /\ st = [t \in Thread |-> IF t = Main THEN "stopped" ELSE "unlisted"]
     \/ /\ phase = "seize" /\ owned = FALSE /\ kind \in {"early", "dynamic"}
        /\ map \in IF kind = "dynamic" THEN {Startup} \cup {Append(Startup, e) : e \in Plugins} ELSE {<< >>}
        /\ run = [t \in Thread |-> IF t = Main THEN "run" ELSE "none"]
        /\ traced = {} /\ st = [t \in Thread |-> "unlisted"]

Attaches == Seize \/ Interrupt \/ WaitAttached \/ ReadTasks \/ NextTask \/ Track \/ Resolve \/ PlantTrap
Closes   == CloseStops \/ CloseWaits \/ CloseStopped \/ Detach \/ SendSigcont \/ Kill
Session  == \/ LaunchTarget \/ EntryHit \/ Continue \/ ReportStop \/ CloseBegins
            \/ \E t \in Thread : HandleSignal(t)
Process  ==
  \/ LinkerDone
  \/ \E t \in Thread : \/ ThreadExits(t) \/ Stop(t) \/ GroupStop(t) \/ DlCall(t) \/ DlMap(t) \/ DlBrk(t)
                       \/ \E u \in Thread : Clone(t, u)
Over     == (phase = "closed" \/ group = "killed") /\ UNCHANGED vars
Computes == (\E t \in Thread : Executes(t)) /\ UNCHANGED vars    \* a program need not do more

Next == Attaches \/ Closes \/ Session \/ Process \/ Over \/ Computes
Spec == Init /\ [][Next]_vars

(* The debugger goes on with Attach and Close, and the kernel stops the    *)
(* threads it is asked to stop.                                            *)
FairSpec ==
  /\ Spec
  /\ WF_vars(Attaches) /\ WF_vars(Closes)
  /\ \A t \in Thread : WF_vars(Stop(t))

-----------------------------------------------------------------------------
(* Properties                                                              *)

(* At the prompt of an attached or launched process no thread runs: each   *)
(* is traced and stopped, and in p.threads or about to be met.  Only a     *)
(* thread escapes that was made, after /proc/<pid>/task was read, by one   *)
(* not under control (populateExistingThreads, EnableThreadTracking).      *)
PromptHoldsAll ==
  phase = "prompt" /\ group # "killed" =>
    /\ \A t \in Alive \ late : run[t] = "stop" /\ t \in traced /\ (t \in Listed \/ ev[t] = "new")
    /\ Listed \ lost \subseteq Alive

(* While no call of the linker is under way, the address of a library      *)
(* finds that library in the collection: after startup or Attach, also one *)
(* in the middle of a dlopen, and after every dlopen, with other libraries *)
(* that cannot be opened in the list; and none is there twice              *)
(* (reloadDynamicLibraries).  The exception is a change that was missed    *)
(* (see there), until the list is read again: by a late thread that passes *)
(* r_brk between the two halves of resolveRendezvous, or by one stepped    *)
(* over the trap.                                                          *)
LibrariesKnown ==
  /\ \A i, j \in DOMAIN elves : elves[i].lib = elves[j].lib => i = j
  /\ found /\ dl = NoDl /\ ~missed /\ phase \in {"prompt", "running"} =>
       \A e \in ToSet(map) :
         e.lib \notin Broken /\ (\A c \in closed : c.lib # e.lib /\ c.base # e.base)
           => ELFContainingAddress(e.base) = e

(* Close leaves no thread of p.threads traced, stopped or with a SIGSTOP   *)
(* queued, whatever each was doing when its own SIGSTOP was sent; a        *)
(* launched process does not outlive it.                                   *)
ReleasedAfterClose ==
  phase = "closed" /\ group # "killed" =>
    /\ owned => Alive = {}
    /\ \A t \in Listed \cap Alive : Executes(t) /\ t \notin traced /\ t \notin stops

(* Attach and Close come to an end: no wait4 of theirs is for a thread     *)
(* that never stops, threads that exit meanwhile included.                 *)
SessionEnds ==
  /\ Attaching ~> (phase = "prompt" \/ group = "killed")
  /\ Closing ~> phase = "closed"
=============================================================================
