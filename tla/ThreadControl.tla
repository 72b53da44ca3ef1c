---------------------------- MODULE ThreadControl ----------------------------
(***************************************************************************)
(* All-stop control of the threads of a traced process: ResumeAllThreads,  *)
(* Resume, StepInstruction, WaitOnSignal, stopRunningThreads and the       *)
(* pending-SIGSTOP bookkeeping of debugger/process.go, over a model of     *)
(* what ptrace, wait4 and tgkill do to the threads.                        *)
(*                                                                         *)
(* The tracee has one software breakpoint site.  A thread is "at" the      *)
(* site's address, "past" it (it executed the int3 and its program counter *)
(* has not been moved back) or "else"where.                                *)
(***************************************************************************)
EXTENDS Naturals, FiniteSets

CONSTANTS
  Thread,      \* thread ids; a clone takes one that was never used
  Main,        \* the thread group leader, p.pid
  AnyThread,   \* the -1 of wait4
  World,       \* which of the events below the program and the user cause
  Commands,    \* which commands the user gives
  AutoResume,  \* the site's hit handler returns true
  MaxSent      \* bound: signals sent by the program and the user

ASSUME ThreadAssumption ==
  /\ Main \in Thread /\ AnyThread \notin Thread
  /\ World \subseteq {"clone", "user", "ctrlc", "exit", "exitgroup"}
  /\ Commands \subseteq {"continue", "resume", "stepi"}
  /\ AutoResume \in BOOLEAN /\ MaxSent \in Nat

VARIABLES
  run,      \* kernel: "none", "ret", "user", "stop", "zombie" or "gone"
  mode,     \* kernel: resumed by PTRACE_CONT or by PTRACE_SINGLESTEP
  ev,       \* kernel: the status wait4 has not yet returned, or "none"
  sig,      \* kernel: signals queued for the thread
  shared,   \* kernel: a SIGSTOP queued for the process (Ctrl-C)
  sent,     \* kernel: how many signals the program and the user have sent
  loc,      \* where the thread's program counter is
  armed,    \* the site is enabled and its int3 is in memory
  st,       \* ThreadState.State, "untracked" for a tid not in p.threads
  pend,     \* ThreadState.PendingSigstop
  current,  \* p.currentThread
  reason,   \* the StopReason last returned to the user
  phase,    \* where the debugger is
  cmd,      \* the command that is running
  todo,     \* the threads its loop has still to visit
  me,       \* the thread it works on
  tgt,      \* toAwait: a thread or AnyThread
  held      \* bpAtPC # nil in StepInstruction

kernel == <<run, mode, ev, sig, shared, sent, loc>>
dbg    == <<armed, st, pend, current, reason, phase, cmd, todo, me, tgt, held>>
vars   == <<kernel, dbg>>

Alive(t)   == run[t] \in {"ret", "user", "stop"}
Tracked(t) == st[t] # "untracked"

-----------------------------------------------------------------------------
(* The kernel and the program.                                             *)

Halt(t, e, l) ==
  /\ run' = [run EXCEPT ![t] = "stop"]
  /\ ev' = [ev EXCEPT ![t] = e]
  /\ loc' = [loc EXCEPT ![t] = l]

(* A thread resumed from a stop takes its queued signals before it         *)
(* executes anything.                                                      *)
EnterUser(t) ==
  /\ run[t] = "ret" /\ sig[t] = {} /\ ~shared
  /\ run' = [run EXCEPT ![t] = "user"]
  /\ UNCHANGED <<mode, ev, sig, shared, sent, loc, dbg>>

(* Signal-delivery-stop: the lowest number first, and SIGUSR1 < SIGSTOP.   *)
Deliver(t) ==
  LET s == IF "USR" \in sig[t] THEN "USR" ELSE "STOP" IN
  /\ run[t] \in {"ret", "user"} /\ sig[t] # {}
  /\ Halt(t, s, loc[t])
  /\ sig' = [sig EXCEPT ![t] = @ \ {s}]
  /\ UNCHANGED <<mode, shared, sent, dbg>>

DeliverShared(t) ==
  /\ run[t] \in {"ret", "user"} /\ sig[t] = {} /\ shared
  /\ Halt(t, "CTRLC", loc[t])
  /\ shared' = FALSE
  /\ UNCHANGED <<mode, sig, sent, dbg>>

Arrive(t) ==
  /\ run[t] = "user" /\ mode[t] = "cont" /\ loc[t] = "else"
  /\ loc' = [loc EXCEPT ![t] = "at"]
  /\ UNCHANGED <<run, mode, ev, sig, shared, sent, dbg>>

Hit(t) ==
  /\ run[t] = "user" /\ loc[t] = "at" /\ armed
  /\ Halt(t, "trap", "past")
  /\ UNCHANGED <<mode, sig, shared, sent, dbg>>

Execute(t) ==
  /\ run[t] = "user" /\ mode[t] = "cont" /\ loc[t] = "at" /\ ~armed
  /\ loc' = [loc EXCEPT ![t] = "else"]
  /\ UNCHANGED <<run, mode, ev, sig, shared, sent, dbg>>

StepDone(t) ==
  /\ run[t] = "user" /\ mode[t] = "step"
  /\ ~(loc[t] = "at" /\ armed)
  /\ \E l \in IF loc[t] = "at" THEN {"else"} ELSE {"else", "at"} : Halt(t, "step", l)
  /\ UNCHANGED <<mode, sig, shared, sent, dbg>>

(* PTRACE_O_TRACECLONE: the parent stops with the event, the child starts  *)
(* with a SIGSTOP queued.                                                  *)
Clone(t, c) ==
  /\ "clone" \in World
  /\ run[t] = "user" /\ ~(loc[t] = "at" /\ armed)
  /\ run[c] = "none"
  /\ run' = [run EXCEPT ![t] = "stop", ![c] = "ret"]
  /\ ev' = [ev EXCEPT ![t] = "clone"]
  /\ sig' = [sig EXCEPT ![c] = {"STOP"}]
  /\ loc' = [loc EXCEPT ![t] = "else"]
  /\ UNCHANGED <<mode, shared, sent, dbg>>

SendUser(t) ==
  /\ "user" \in World
  /\ Alive(t) /\ "USR" \notin sig[t] /\ sent < MaxSent
  /\ sig' = [sig EXCEPT ![t] = @ \cup {"USR"}]
  /\ sent' = sent + 1
  /\ UNCHANGED <<run, mode, ev, shared, loc, dbg>>

(* The SIGINT goroutine of main: kill(pid, SIGSTOP).                       *)
CtrlC ==
  /\ "ctrlc" \in World
  /\ ~shared /\ sent < MaxSent
  /\ shared' = TRUE
  /\ sent' = sent + 1
  /\ UNCHANGED <<run, mode, ev, sig, loc, dbg>>

Exit(t) ==
  /\ "exit" \in World
  /\ run[t] = "user"
  /\ run' = [run EXCEPT ![t] = "zombie"]
  /\ ev' = [ev EXCEPT ![t] = "exit"]
  /\ sig' = [sig EXCEPT ![t] = {}]
  /\ UNCHANGED <<mode, shared, sent, loc, dbg>>

(* exit_group kills every thread, the stopped ones too.                    *)
ExitGroup(t) ==
  /\ "exitgroup" \in World
  /\ run[t] = "user"
  /\ run' = [u \in Thread |-> IF Alive(u) THEN "zombie" ELSE run[u]]
  /\ ev'  = [u \in Thread |-> IF Alive(u) THEN "exit" ELSE ev[u]]
  /\ sig' = [u \in Thread |-> {}]
  /\ UNCHANGED <<mode, shared, sent, loc, dbg>>

Kernel(t) ==
  \/ EnterUser(t) \/ Deliver(t) \/ DeliverShared(t)
  \/ Arrive(t) \/ Hit(t) \/ Execute(t) \/ StepDone(t)
  \/ \E c \in Thread : Clone(t, c)
  \/ SendUser(t) \/ Exit(t) \/ ExitGroup(t)

-----------------------------------------------------------------------------
(* What the debugger asks of the kernel.                                   *)

(* wait4 can return t's status: the leader's exit only after every other   *)
(* thread has been reaped.                                                 *)
Reportable(t) ==
  /\ ev[t] # "none"
  /\ run[t] = "zombie" /\ t = Main =>
       \A u \in Thread \ {Main} : run[u] \in {"none", "gone"}

Reap(t) ==
  /\ ev' = [ev EXCEPT ![t] = "none"]
  /\ run' = [run EXCEPT ![t] = IF @ = "zombie" THEN "gone" ELSE @]

(* wait4 of t, then PTRACE_CONT of t.                                      *)
ReapAndContinue(t) ==
  /\ ev' = [ev EXCEPT ![t] = "none"]
  /\ run' = [run EXCEPT ![t] = "ret"]
  /\ mode' = [mode EXCEPT ![t] = "cont"]

(* PTRACE_CONT and PTRACE_SINGLESTEP of a thread in a ptrace-stop.         *)
Restart(t, m) ==
  /\ run[t] = "stop"
  /\ run' = [run EXCEPT ![t] = "ret"]
  /\ mode' = [mode EXCEPT ![t] = m]
  /\ ev' = [ev EXCEPT ![t] = "none"]

SetState(t, s) == st' = [st EXCEPT ![t] = s]

(* A stop for SIGSTOP looks the same whoever sent it.                      *)
IsSigstop(e) == e \in {"STOP", "CTRLC"}

(* Operators named Faulty... are variants with one bug each; the properties *)
(* are checked to fail when one of them stands in for the definition it     *)
(* precedes.  No action uses them.                                          *)
FaultyRewound(t, e) ==                    \* only for the thread that is reported
  IF phase = "wait" /\ e = "trap" /\ armed THEN "at" ELSE loc[t]

(* handleSignal moves the program counter back over an int3 whose site is  *)
(* enabled.                                                                *)
Rewound(t, e) == IF e = "trap" /\ armed /\ loc[t] = "past" THEN "at" ELSE loc[t]

-----------------------------------------------------------------------------
(* Commands                                                                *)

(* The prompt, after a reported stop or after a command that failed.       *)
AtPrompt == phase \in {"prompt", "error"}

Stopped == {t \in Thread : st[t] = "stopped"}

SelectThread(t) ==
  /\ AtPrompt
  /\ Tracked(t)
  /\ current' = t
  /\ UNCHANGED <<kernel, armed, st, pend, reason, phase, cmd, todo, me, tgt, held>>

(* continue: ResumeAllThreads, then WaitOnSignal.                          *)
ContinueCommand ==
  /\ AtPrompt /\ "continue" \in Commands
  /\ cmd' = "continue" /\ phase' = "pass1" /\ todo' = Stopped
  /\ UNCHANGED <<kernel, armed, st, pend, current, reason, me, tgt, held>>

(* RunUntilAddress and the calls of expressions: Resume, then WaitOnSignal. *)
ResumeCommand ==
  /\ AtPrompt /\ "resume" \in Commands
  /\ cmd' = "resume" /\ phase' = "pass1" /\ todo' = {current}
  /\ UNCHANGED <<kernel, armed, st, pend, current, reason, me, tgt, held>>

(* StepInstruction, up to swallowPendingSigstop.                           *)
StepInstruction ==
  /\ AtPrompt /\ "stepi" \in Commands
  /\ cmd' = "stepi" /\ phase' = "swallow" /\ me' = current
  /\ held' = (loc[current] = "at" /\ armed)
  /\ armed' = (armed /\ ~held')
  /\ UNCHANGED <<kernel, st, pend, current, reason, todo, tgt>>

(* stepOverBreakpointForThread: nothing to do, or disable the site.        *)
StepOverNothing(t) ==
  /\ phase = "pass1" /\ t \in todo
  /\ ~(loc[t] = "at" /\ armed)
  /\ todo' = todo \ {t}
  /\ UNCHANGED <<kernel, armed, st, pend, current, reason, phase, cmd, me, tgt, held>>

StepOverBreakpoint(t) ==
  /\ phase = "pass1" /\ t \in todo
  /\ loc[t] = "at" /\ armed
  /\ armed' = FALSE
  /\ me' = t /\ todo' = todo \ {t} /\ phase' = "swallow"
  /\ UNCHANGED <<kernel, st, pend, current, reason, cmd, tgt, held>>

FaultySwallowNothing ==                   \* the flag is not looked at
  /\ phase = "swallow"
  /\ phase' = "step"
  /\ UNCHANGED <<kernel, armed, st, pend, current, reason, cmd, todo, me, tgt, held>>

(* swallowPendingSigstop: PTRACE_CONT and wait4 if the flag is set.        *)
SwallowNothing ==
  /\ phase = "swallow"
  /\ ~pend[me]
  /\ phase' = "step"
  /\ UNCHANGED <<kernel, armed, st, pend, current, reason, cmd, todo, me, tgt, held>>

(* A PTRACE_CONT that fails, for the thread has been killed, goes unseen,  *)
(* and wait4 returns its exit, or that there is no such child.             *)
SwallowContinues ==
  /\ phase = "swallow"
  /\ pend[me]
  /\ \/ Restart(me, "cont")
     \/ run[me] # "stop" /\ UNCHANGED <<run, ev, mode>>
  /\ phase' = "swallowing"
  /\ UNCHANGED <<sig, shared, sent, loc, armed, st, pend, current, reason, cmd, todo, me, tgt, held>>

Swallowed ==
  /\ phase = "swallowing"
  /\ Reportable(me) \/ run[me] = "gone"
  /\ Reap(me)
  /\ pend' = [pend EXCEPT ![me] = FALSE]
  /\ phase' = "step"
  /\ UNCHANGED <<mode, sig, shared, sent, loc, armed, st, current, reason, cmd, todo, me, tgt, held>>

SingleStep ==
  /\ phase = "step"
  /\ Restart(me, "step")
  /\ IF cmd = "stepi"
     THEN SetState(me, "running") /\ phase' = "wait" /\ tgt' = me
     ELSE phase' = "stepwait" /\ UNCHANGED <<st, tgt>>
  /\ UNCHANGED <<sig, shared, sent, loc, armed, pend, current, reason, cmd, todo, me, held>>

(* PTRACE_SINGLESTEP fails: the thread is gone.  The site is enabled again *)
(* and the command ends with an error.                                     *)
SingleStepFails ==
  /\ phase = "step"
  /\ run[me] # "stop"
  /\ armed' = (armed \/ held \/ cmd # "stepi")
  /\ held' = FALSE
  /\ phase' = "error"
  /\ UNCHANGED <<kernel, st, pend, current, reason, cmd, todo, me, tgt>>

FaultyStepOverDone ==                     \* one pass: continued at once
  /\ phase = "stepwait"
  /\ Reportable(me)
  /\ ReapAndContinue(me)
  /\ SetState(me, "running")
  /\ armed' = TRUE
  /\ phase' = "pass1"
  /\ UNCHANGED <<sig, shared, sent, loc, pend, current, reason, cmd, todo, me, tgt, held>>

(* The wait4 of the step-over: whatever the status is, it is dropped.      *)
StepOverDone ==
  /\ phase = "stepwait"
  /\ Reportable(me)
  /\ Reap(me)
  /\ armed' = TRUE
  /\ phase' = "pass1"
  /\ UNCHANGED <<mode, sig, shared, sent, loc, st, pend, current, reason, cmd, todo, me, tgt, held>>

StartPass2 ==
  /\ phase = "pass1" /\ todo = {}
  /\ phase' = "pass2"
  /\ todo' = IF cmd = "continue" THEN Stopped ELSE {current}
  /\ UNCHANGED <<kernel, armed, st, pend, current, reason, cmd, me, tgt, held>>

FaultyContinueThread(t) ==                \* the state is not set
  /\ phase = "pass2" /\ t \in todo
  /\ Restart(t, "cont")
  /\ todo' = todo \ {t}
  /\ UNCHANGED <<sig, shared, sent, loc, armed, st, pend, current, reason, phase, cmd, me, tgt, held>>

(* sendContinue, and its failure, which ends the command with an error.    *)
ContinueThread(t) ==
  /\ phase = "pass2" /\ t \in todo
  /\ Restart(t, "cont")
  /\ SetState(t, "running")
  /\ todo' = todo \ {t}
  /\ UNCHANGED <<sig, shared, sent, loc, armed, pend, current, reason, phase, cmd, me, tgt, held>>

ContinueFails(t) ==
  /\ phase = "pass2" /\ t \in todo
  /\ run[t] # "stop"
  /\ todo' = {} /\ phase' = "error"
  /\ UNCHANGED <<kernel, armed, st, pend, current, reason, cmd, me, tgt, held>>

StartWait ==
  /\ phase = "pass2" /\ todo = {}
  /\ phase' = "wait" /\ tgt' = AnyThread
  /\ UNCHANGED <<kernel, armed, st, pend, current, reason, cmd, todo, me, held>>

-----------------------------------------------------------------------------
(* waitOnSignalFor: wait4 returns the status of t.                         *)
Waited(t) == phase = "wait" /\ tgt \in {t, AnyThread} /\ Reportable(t)

(* handleSignal returns nil: a clone event; the first stop of an unknown   *)
(* thread; the SIGSTOP the flag announces; a hit whose handler says so.    *)
(* The thread is continued and the wait starts again.                      *)
CloneEvent(t) ==
  /\ Waited(t) /\ ev[t] = "clone"
  /\ ReapAndContinue(t)
  /\ st' = IF Tracked(t) THEN [st EXCEPT ![t] = "running"] ELSE st
  /\ UNCHANGED <<sig, shared, sent, loc, armed, pend, current, reason, phase, cmd, todo, me, tgt, held>>

FaultyNewThread(t) ==                     \* not entered in p.threads
  /\ Waited(t) /\ ev[t] \notin {"clone", "exit"} /\ ~Tracked(t)
  /\ ReapAndContinue(t)
  /\ UNCHANGED <<sig, shared, sent, loc, dbg>>

NewThread(t) ==
  /\ Waited(t) /\ ev[t] \notin {"clone", "exit"} /\ ~Tracked(t)
  /\ ReapAndContinue(t)
  /\ SetState(t, "running")
  /\ UNCHANGED <<sig, shared, sent, loc, armed, pend, current, reason, phase, cmd, todo, me, tgt, held>>

FaultyPendingStop(t) ==                   \* the flag is not cleared
  /\ Waited(t) /\ IsSigstop(ev[t]) /\ Tracked(t) /\ pend[t]
  /\ ReapAndContinue(t)
  /\ SetState(t, "running")
  /\ UNCHANGED <<sig, shared, sent, loc, armed, pend, current, reason, phase, cmd, todo, me, tgt, held>>

FaultyAnyStop(t) ==                       \* every SIGSTOP is taken for the pending one
  /\ Waited(t) /\ IsSigstop(ev[t]) /\ Tracked(t)
  /\ ReapAndContinue(t)
  /\ SetState(t, "running")
  /\ UNCHANGED <<sig, shared, sent, loc, armed, pend, current, reason, phase, cmd, todo, me, tgt, held>>

PendingStop(t) ==
  /\ Waited(t) /\ IsSigstop(ev[t]) /\ Tracked(t) /\ pend[t]
  /\ ReapAndContinue(t)
  /\ SetState(t, "running")
  /\ pend' = [pend EXCEPT ![t] = FALSE]
  /\ UNCHANGED <<sig, shared, sent, loc, armed, current, reason, phase, cmd, todo, me, tgt, held>>

FaultyHandlerResumes(t) ==                \* not continued before the next wait
  /\ Waited(t) /\ ev[t] = "trap" /\ Tracked(t) /\ armed /\ AutoResume
  /\ loc' = [loc EXCEPT ![t] = Rewound(t, "trap")]
  /\ Reap(t)
  /\ SetState(t, "running")
  /\ UNCHANGED <<mode, sig, shared, sent, armed, pend, current, reason, phase, cmd, todo, me, tgt, held>>

HandlerResumes(t) ==
  /\ Waited(t) /\ ev[t] = "trap" /\ Tracked(t) /\ armed /\ AutoResume
  /\ loc' = [loc EXCEPT ![t] = Rewound(t, "trap")]
  /\ ReapAndContinue(t)
  /\ SetState(t, "running")
  /\ UNCHANGED <<sig, shared, sent, armed, pend, current, reason, phase, cmd, todo, me, tgt, held>>

FaultyReportStop(t) ==                    \* the answer of notifyHit is dropped
  /\ Waited(t) /\ Tracked(t) /\ ev[t] \notin {"clone", "exit"}
  /\ ~(IsSigstop(ev[t]) /\ pend[t])
  /\ Reap(t)
  /\ loc' = [loc EXCEPT ![t] = Rewound(t, ev[t])]
  /\ SetState(t, "stopped")
  /\ reason' = ev[t] /\ current' = t
  /\ todo' = {u \in Thread \ {t} : st[u] = "running"}
  /\ phase' = "stopping"
  /\ UNCHANGED <<mode, sig, shared, sent, armed, pend, cmd, me, tgt, held>>

(* A stop to report: the other running threads are to be stopped.          *)
ReportStop(t) ==
  /\ Waited(t) /\ Tracked(t) /\ ev[t] \notin {"clone", "exit"}
  /\ ~(IsSigstop(ev[t]) /\ pend[t])
  /\ ~(ev[t] = "trap" /\ armed /\ AutoResume)
  /\ Reap(t)
  /\ loc' = [loc EXCEPT ![t] = Rewound(t, ev[t])]
  /\ SetState(t, "stopped")
  /\ reason' = ev[t]
  /\ current' = t
  /\ todo' = {u \in Thread \ {t} : st[u] = "running"}
  /\ phase' = "stopping"
  /\ UNCHANGED <<mode, sig, shared, sent, armed, pend, cmd, me, tgt, held>>

(* An exit: the process is over, or the thread is dropped and the wait     *)
(* goes on for any thread.                                                 *)
MainExits ==
  /\ Waited(Main) /\ ev[Main] = "exit"
  /\ Reap(Main)
  /\ SetState(Main, "exited")
  /\ reason' = "exit" /\ phase' = "exited"
  /\ UNCHANGED <<mode, sig, shared, sent, loc, armed, pend, current, cmd, todo, me, tgt, held>>

ThreadExits(t) ==
  /\ t # Main
  /\ Waited(t) /\ ev[t] = "exit"
  /\ Reap(t)
  /\ SetState(t, "untracked")
  /\ pend' = [pend EXCEPT ![t] = FALSE]
  /\ tgt' = AnyThread
  /\ UNCHANGED <<mode, sig, shared, sent, loc, armed, current, reason, phase, cmd, todo, me, held>>

-----------------------------------------------------------------------------
(* stopRunningThreads and cleanupExitedThreads                             *)

FaultySendSigstop(t) ==                   \* sent only when one is pending
  /\ phase = "stopping" /\ t \in todo
  /\ sig' = IF pend[t] /\ Alive(t) THEN [sig EXCEPT ![t] = @ \cup {"STOP"}] ELSE sig
  /\ todo' = todo \ {t} /\ me' = t /\ phase' = "collect"
  /\ UNCHANGED <<run, mode, ev, shared, sent, loc, armed, st, pend, current, reason, cmd, tgt, held>>

SendSigstop(t) ==
  /\ phase = "stopping" /\ t \in todo
  /\ sig' = IF ~pend[t] /\ Alive(t) THEN [sig EXCEPT ![t] = @ \cup {"STOP"}] ELSE sig
  /\ todo' = todo \ {t} /\ me' = t /\ phase' = "collect"
  /\ UNCHANGED <<run, mode, ev, shared, sent, loc, armed, st, pend, current, reason, cmd, tgt, held>>

CollectStop ==
  /\ phase = "collect"
  /\ Reportable(me) /\ ev[me] # "exit"
  /\ Reap(me)
  /\ pend' = [pend EXCEPT ![me] = ~IsSigstop(ev[me])]
  /\ loc' = [loc EXCEPT ![me] = Rewound(me, ev[me])]
  /\ SetState(me, "stopped")
  /\ phase' = "stopping"
  /\ UNCHANGED <<mode, sig, shared, sent, armed, current, reason, cmd, todo, me, tgt, held>>

CollectExit ==
  /\ phase = "collect"
  /\ Reportable(me) /\ ev[me] = "exit"
  /\ Reap(me)
  /\ SetState(me, "exited")
  /\ phase' = "stopping"
  /\ UNCHANGED <<mode, sig, shared, sent, loc, armed, pend, current, reason, cmd, todo, me, tgt, held>>

(* wait4 fails: the thread was reaped before.                              *)
CollectFails ==
  /\ phase = "collect"
  /\ run[me] = "gone"
  /\ phase' = "stopping"
  /\ UNCHANGED <<kernel, armed, st, pend, current, reason, cmd, todo, me, tgt, held>>

(* Dropping the exited threads, and the return to the user; a single step  *)
(* enables the site it had disabled.                                       *)
Return ==
  LET gone == {t \in Thread \ {current} : st[t] = "exited"} IN
  /\ phase = "stopping" /\ todo = {}
  /\ st' = [t \in Thread |-> IF t \in gone THEN "untracked" ELSE st[t]]
  /\ pend' = [t \in Thread |-> pend[t] /\ t \notin gone]
  /\ IF Main \in gone THEN reason' = "exit" /\ phase' = "exited"
     ELSE UNCHANGED reason /\ phase' = "prompt"
  /\ armed' = (armed \/ held)
  /\ held' = FALSE
  /\ UNCHANGED <<kernel, current, cmd, todo, me, tgt>>

Debugger ==
  \/ \E t \in Thread :
       \/ StepOverNothing(t) \/ StepOverBreakpoint(t)
       \/ ContinueThread(t) \/ ContinueFails(t)
       \/ CloneEvent(t) \/ NewThread(t) \/ PendingStop(t) \/ HandlerResumes(t)
       \/ ReportStop(t) \/ ThreadExits(t)
       \/ SendSigstop(t)
  \/ SwallowNothing \/ SwallowContinues \/ Swallowed
  \/ SingleStep \/ SingleStepFails \/ StepOverDone \/ StartPass2 \/ StartWait
  \/ MainExits
  \/ CollectStop \/ CollectExit \/ CollectFails \/ Return

User ==
  \/ \E t \in Thread : SelectThread(t)
  \/ ContinueCommand \/ ResumeCommand \/ StepInstruction
  \/ CtrlC

-----------------------------------------------------------------------------
(* The state after Launch: one thread, stopped by the exec trap.           *)
Init ==
  /\ run = [t \in Thread |-> IF t = Main THEN "stop" ELSE "none"]
  /\ mode = [t \in Thread |-> "cont"]
  /\ ev = [t \in Thread |-> "none"]
  /\ sig = [t \in Thread |-> {}]
  /\ shared = FALSE /\ sent = 0
  /\ loc = [t \in Thread |-> "else"]
  /\ armed = TRUE
  /\ st = [t \in Thread |-> IF t = Main THEN "stopped" ELSE "untracked"]
  /\ pend = [t \in Thread |-> FALSE]
  /\ current = Main /\ reason = "none"
  /\ phase = "prompt" /\ cmd = "none" /\ todo = {} /\ me = Main /\ tgt = AnyThread
  /\ held = FALSE

Next == User \/ Debugger \/ \E t \in Thread : Kernel(t)

Spec == Init /\ [][Next]_vars

(* The debugger runs on; a resumed thread gets to run, takes its signals   *)
(* and finishes its single step.  Nothing is assumed of the user or of     *)
(* what a running program does.                                            *)
Fairness ==
  /\ WF_vars(Debugger)
  /\ \A t \in Thread : /\ WF_vars(EnterUser(t)) /\ WF_vars(Deliver(t))
                       /\ WF_vars(StepDone(t))  /\ WF_vars(Hit(t))
  /\ WF_vars(\E t \in Thread : DeliverShared(t))

FairSpec == Spec /\ Fairness

-----------------------------------------------------------------------------
(* Properties                                                              *)

(* All-stop (WaitOnSignal): at the prompt no thread of the process can     *)
(* execute an instruction, a thread the debugger has not met yet included. *)
CanExecute(t) == run[t] = "user" \/ (run[t] = "ret" /\ sig[t] = {})
AllStop == phase = "prompt" => \A t \in Thread : ~CanExecute(t)

(* PendingSigstop is set only while the SIGSTOP of stopRunningThreads is   *)
(* queued: swallowPendingSigstop never lets a thread run away, and         *)
(* handleSignal never eats a stop that is not the debugger's own.          *)
PendingIsQueued ==
  \A t \in Thread : Tracked(t) /\ pend[t] /\ Alive(t)
                    /\ ~(phase = "swallowing" /\ t = me) /\ ev[t] # "STOP"
                    => "STOP" \in sig[t]

(* Two-pass resume: while a site is disabled for a step-over no thread     *)
(* runs freely, so none passes the breakpoint unseen.                      *)
NoFreeRunPastTrap ==
  ~armed => \A t \in Thread : run[t] = "user" => mode[t] = "step"

(* At the prompt every program counter is on an instruction boundary of    *)
(* the program: each int3 a thread executed has been taken back, also on   *)
(* the threads that did not cause the stop (handleSignal).                 *)
RewoundAtPrompt ==
  phase = "prompt" => \A t \in Thread : Tracked(t) /\ Alive(t) => loc[t] # "past"

(* A hit whose handler says resume (_dl_debug_state) is never what brings  *)
(* the prompt back, also when it meets a Ctrl-C or another thread's stop.  *)
HandledHitsAreSilent == AutoResume /\ phase = "prompt" => reason # "trap"

(* swallowPendingSigstop: as long as nobody else sends signals, no SIGSTOP *)
(* of the debugger is left to cut short the single step that follows it.   *)
(* With a program signal or a Ctrl-C in between, the one wait4 of          *)
(* swallowPendingSigstop or stopRunningThreads may take that stop for it.  *)
SwallowLeavesNoSigstop == phase = "step" /\ sent = 0 => "STOP" \notin sig[me]

(* A thread that p.threads lists as stopped is stopped, the ones a failed  *)
(* ResumeAllThreads has not come to included: otherwise the next continue  *)
(* fails on it, or steps it over a site while it runs.  The thread whose   *)
(* step-over is awaited is the exception.                                  *)
StoppedMeansStopped ==
  \A t \in Thread :
    st[t] = "stopped" /\ ~(t = me /\ phase \in {"swallowing", "stepwait"})
      => run[t] \notin {"ret", "user"}

(* continue never waits for nothing (waitOnSignalFor): some thread runs or *)
(* has a status to return, also after exits, clones and hits that were     *)
(* resumed.                                                                *)
WaitHasCause ==
  cmd = "continue" /\ phase = "wait"
    => \E t \in Thread : run[t] \in {"ret", "user"} \/ Reportable(t)

(* Resuming and stopping the threads comes to an end: the debugger waits   *)
(* for the program or is back at the prompt.                               *)
Resting == {"prompt", "error", "wait", "exited"}
CommandsProgress == phase \notin Resting ~> phase \in Resting

(* Ctrl-C while the program runs brings the prompt back.                   *)
CtrlCInterrupts == (shared /\ phase = "wait") ~> phase \in {"prompt", "exited"}
(* The refinement mapping to AllStopSession.                               *)
SessionState ==
  CASE phase \in {"pass1", "swallow", "swallowing", "step", "stepwait"} -> "stepping"
    [] phase \in {"pass2", "wait"}        -> "running"
    [] phase \in {"stopping", "collect"}  -> "stopping"
    [] phase \in {"prompt", "error", "exited"} -> phase

Session == INSTANCE AllStopSession WITH
             state  <- SessionState,
             moving <- {t \in Thread : CanExecute(t)},
             onSite <- {t \in Thread : loc[t] \in {"at", "past"}},
             focus  <- current

(* The commands implement all-stop control as AllStopSession states it: a  *)
(* site is stepped over with every other thread at rest, a running thread  *)
(* never leaves the site unseen, and once a stop is being reported         *)
(* stopRunningThreads sets nothing going before the prompt is back.        *)
ImplementsSession == Session!Spec
=============================================================================
