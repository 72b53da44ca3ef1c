---------------------------- MODULE SyscallCatch ----------------------------
(***************************************************************************)
(* Syscall catchpoints: SyscallCatchPolicy, the entry/exit toggle of       *)
(* augmentStopReasonForThread and shouldResumeFromSyscall of               *)
(* debugger/process.go, with the requests that resume a thread.            *)
(*                                                                         *)
(* The kernel does not say whether a syscall-stop is an entry or an exit;  *)
(* ThreadState.ExpectingSyscallExit guesses.  Which threads are resumed    *)
(* and how the others are stopped is in ThreadControl.                     *)
(***************************************************************************)
EXTENDS Naturals

CONSTANTS
  Thread,    \* thread ids
  Call,      \* system call numbers
  NoCall,
  Policies,  \* the sets of calls the user catches; {} is "none"
  Steps,     \* the user steps a thread that is inside a system call
  Resets     \* the user changes the policy while one is

ASSUME CatchAssumption ==
  /\ Thread # {} /\ NoCall \notin Call
  /\ Policies \subseteq SUBSET Call
  /\ Steps \in BOOLEAN /\ Resets \in BOOLEAN

VARIABLES
  call,     \* kernel: orig_rax, the call the thread is in or was in last
  inside,   \* kernel: between the entry and the exit of a call
  req,      \* kernel: the request that resumed the thread last
  stop,     \* kernel: why the thread is stopped, or "run"
  fresh,    \* kernel: wait4 has not returned this stop yet
  caught,   \* syscallCatchPolicy
  expect,   \* ThreadState.ExpectingSyscallExit
  label,    \* SyscallInfo.Entry of ThreadState.Reason: "entry", "exit" or "none"
  told,     \* history: the thread's stop was reported to the user
  current,  \* p.currentThread
  alone,    \* waiting for the current thread only (StepInstruction)
  phase     \* where the debugger is

kernel == <<call, inside, req, stop, fresh>>
vars   == <<kernel, caught, expect, label, told, current, alone, phase>>

AtSyscall(t) == stop[t] \in {"entry", "exit"}

-----------------------------------------------------------------------------
(* The kernel                                                              *)

(* A system call: with PTRACE_SYSCALL the thread stops at its entry and at *)
(* its exit, with PTRACE_SINGLESTEP at its exit, as a single step.         *)
EnterSyscall(t, c) ==
  /\ stop[t] = "run" /\ ~inside[t]
  /\ call' = [call EXCEPT ![t] = c]
  /\ inside' = [inside EXCEPT ![t] = TRUE]
  /\ stop'  = [stop EXCEPT ![t] = IF req[t] = "syscall" THEN "entry" ELSE "run"]
  /\ fresh' = [fresh EXCEPT ![t] = req[t] = "syscall"]
  /\ UNCHANGED <<req, caught, expect, label, told, current, alone, phase>>

LeaveSyscall(t) ==
  /\ stop[t] = "run" /\ inside[t]
  /\ inside' = [inside EXCEPT ![t] = FALSE]
  /\ stop' = [stop EXCEPT ![t] = CASE req[t] = "syscall" -> "exit"
                                   [] req[t] = "step"    -> "step"
                                   [] req[t] = "cont"    -> "run"]
  /\ fresh' = [fresh EXCEPT ![t] = req[t] # "cont"]
  /\ UNCHANGED <<call, req, caught, expect, label, told, current, alone, phase>>

(* Any other stop: a single step, a breakpoint or a signal.  A signal      *)
(* first makes the thread leave its system call.                           *)
OtherStop(t) ==
  /\ stop[t] = "run" /\ ~inside[t]
  /\ stop'  = [stop EXCEPT ![t] = "step"]
  /\ fresh' = [fresh EXCEPT ![t] = TRUE]
  /\ UNCHANGED <<call, inside, req, caught, expect, label, told, current, alone, phase>>

-----------------------------------------------------------------------------
(* Commands                                                                *)

(* sendContinue.                                                           *)
Request == IF caught = {} THEN "cont" ELSE "syscall"

(* catchpoint syscall: SetSyscallCatchPolicy.                              *)
SetSyscallCatchPolicy(S) ==
  /\ phase = "prompt"
  /\ Resets \/ \A t \in Thread : ~inside[t]
  /\ caught' = S
  /\ expect' = [t \in Thread |-> FALSE]
  /\ UNCHANGED <<kernel, label, told, current, alone, phase>>

SelectThread(t) ==
  /\ phase = "prompt"
  /\ current' = t
  /\ UNCHANGED <<kernel, caught, expect, label, told, alone, phase>>

(* ResumeAllThreads: each thread goes on with Request; the threads of S    *)
(* are on a breakpoint and are stepped over it first, which takes them out *)
(* of their system call.                                                   *)
Continue(S) ==
  /\ phase = "prompt"
  /\ Steps \/ \A t \in S : ~inside[t]
  /\ inside' = [t \in Thread |-> inside[t] /\ t \notin S]
  /\ req'   = [t \in Thread |-> Request]
  /\ stop'  = [t \in Thread |-> "run"]
  /\ told'  = [t \in Thread |-> FALSE]
  /\ alone' = FALSE /\ phase' = "wait"
  /\ UNCHANGED <<call, fresh, caught, expect, label, current>>

StepInstruction ==
  /\ phase = "prompt"
  /\ Steps \/ ~inside[current]
  /\ req'   = [req EXCEPT ![current] = "step"]
  /\ stop'  = [stop EXCEPT ![current] = "run"]
  /\ told'  = [told EXCEPT ![current] = FALSE]
  /\ alone' = TRUE /\ phase' = "wait"
  /\ UNCHANGED <<call, inside, fresh, caught, expect, label, current>>

-----------------------------------------------------------------------------
(* WaitOnSignal                                                            *)

(* wait4 returns the stop of t; augmentStopReasonForThread labels a        *)
(* syscall-stop and flips the toggle.                                      *)
LabelOf(t) ==
  IF ~AtSyscall(t) THEN "none" ELSE IF expect[t] THEN "exit" ELSE "entry"

(* Operators named Faulty... are variants with one bug each; the properties *)
(* are checked to fail when one of them stands in for the definition it     *)
(* precedes.  No action uses them.                                          *)
FaultyAugmented(t) ==                     \* flipped by every stop
  /\ label'  = [label EXCEPT ![t] = LabelOf(t)]
  /\ expect' = [expect EXCEPT ![t] = ~@]

Augmented(t) ==
  /\ label'  = [label EXCEPT ![t] = LabelOf(t)]
  /\ expect' = [expect EXCEPT ![t] = IF AtSyscall(t) THEN ~@ ELSE @]

(* shouldResumeFromSyscall.                                                *)
ShouldResume(t) == AtSyscall(t) /\ call[t] \notin caught

(* A call the user does not catch: the thread goes on.                     *)
Filtered(t) ==
  /\ phase = "wait" /\ (alone => t = current)
  /\ fresh[t] /\ ShouldResume(t)
  /\ expect' = [expect EXCEPT ![t] = ~@]
  /\ stop'  = [stop EXCEPT ![t] = "run"]
  /\ fresh' = [fresh EXCEPT ![t] = FALSE]
  /\ req'   = [req EXCEPT ![t] = Request]
  /\ UNCHANGED <<call, inside, caught, label, told, current, alone, phase>>

Report(t) ==
  /\ phase = "wait" /\ (alone => t = current)
  /\ fresh[t] /\ ~ShouldResume(t)
  /\ Augmented(t)
  /\ fresh' = [fresh EXCEPT ![t] = FALSE]
  /\ told'  = [told EXCEPT ![t] = TRUE]
  /\ current' = t /\ phase' = "stopping"
  /\ UNCHANGED <<call, inside, req, stop, caught, alone>>

(* stopRunningThreads: whatever stopped the thread, it stays stopped.      *)
Collect(t) ==
  /\ phase = "stopping"
  /\ fresh[t]
  /\ Augmented(t)
  /\ fresh' = [fresh EXCEPT ![t] = FALSE]
  /\ UNCHANGED <<call, inside, req, stop, caught, told, current, alone, phase>>

Return ==
  /\ phase = "stopping"
  /\ \A t \in Thread : stop[t] # "run" /\ ~fresh[t]
  /\ phase' = "prompt"
  /\ UNCHANGED <<kernel, caught, expect, label, told, current, alone>>

-----------------------------------------------------------------------------
Init ==
  /\ call = [t \in Thread |-> NoCall]
  /\ inside = [t \in Thread |-> FALSE]
  /\ req = [t \in Thread |-> "cont"]
  /\ stop = [t \in Thread |-> "step"]
  /\ fresh = [t \in Thread |-> FALSE]
  /\ caught = {}
  /\ expect = [t \in Thread |-> FALSE]
  /\ label = [t \in Thread |-> "none"]
  /\ told = [t \in Thread |-> TRUE]
  /\ current \in Thread /\ alone = FALSE /\ phase = "prompt"

Next ==
  \/ \E t \in Thread :
       \/ \E c \in Call : EnterSyscall(t, c)
       \/ LeaveSyscall(t) \/ OtherStop(t)
       \/ SelectThread(t)
       \/ Filtered(t) \/ Report(t) \/ Collect(t)
  \/ \E S \in Policies : SetSyscallCatchPolicy(S)
  \/ \E S \in SUBSET Thread : Continue(S)
  \/ StepInstruction
  \/ Return

Spec == Init /\ [][Next]_vars

-----------------------------------------------------------------------------
(* Properties                                                              *)

(* Types of the catch policy, the toggles and the kernel's part.           *)
TypeOK ==
  /\ call \in [Thread -> Call \cup {NoCall}] /\ inside \in [Thread -> BOOLEAN]
  /\ req \in [Thread -> {"cont", "syscall", "step"}]
  /\ stop \in [Thread -> {"run", "entry", "exit", "step"}] /\ fresh \in [Thread -> BOOLEAN]
  /\ caught \subseteq Call
  /\ expect \in [Thread -> BOOLEAN] /\ label \in [Thread -> {"none", "entry", "exit"}]
  /\ told \in [Thread -> BOOLEAN]
  /\ current \in Thread /\ alone \in BOOLEAN
  /\ phase \in {"prompt", "wait", "stopping"}

(* A syscall-stop the user looks at is labelled as what it is: the toggle  *)
(* of augmentStopReasonForThread never gets out of step with the kernel,   *)
(* through filtered stops, stops collected from other threads, policies    *)
(* that come and go and single steps.                                      *)
LabelsAreRight == \A t \in Thread : AtSyscall(t) /\ ~fresh[t] => label[t] = stop[t]

(* Every entry and exit of a caught call is reported to the user           *)
(* (CatchAllSyscalls): none is still unreported when the prompt is back.   *)
CatchesAreReported ==
  phase = "prompt" => \A t \in Thread : AtSyscall(t) /\ call[t] \in caught => told[t]
=============================================================================
