------------------------- MODULE SyscallCatch_proofs -------------------------
(* The entry/exit toggle, for any number of threads and any policies.      *)
EXTENDS SyscallCatch, TLAPS

USE CatchAssumption

(* Every step keeps the types.                                             *)
LEMMA TypeStep == TypeOK /\ [Next]_vars => TypeOK'
<1> SUFFICES ASSUME TypeOK, [Next]_vars PROVE TypeOK'
  OBVIOUS
<1> USE DEF TypeOK, kernel
<1>1. ASSUME NEW t \in Thread, NEW c \in Call, EnterSyscall(t, c) PROVE TypeOK'
  BY <1>1 DEF EnterSyscall
<1>2. ASSUME NEW t \in Thread, LeaveSyscall(t) PROVE TypeOK'
  BY <1>2 DEF LeaveSyscall
<1>3. ASSUME NEW t \in Thread, OtherStop(t) PROVE TypeOK'
  BY <1>3 DEF OtherStop
<1>4. ASSUME NEW S \in Policies, SetSyscallCatchPolicy(S) PROVE TypeOK'
  BY <1>4 DEF SetSyscallCatchPolicy
<1>5. ASSUME NEW t \in Thread, SelectThread(t) PROVE TypeOK'
  BY <1>5 DEF SelectThread
<1>6. ASSUME NEW S \in SUBSET Thread, Continue(S) PROVE TypeOK'
  BY <1>6 DEF Continue, Request
<1>7. CASE StepInstruction
  BY <1>7 DEF StepInstruction
<1>8. ASSUME NEW t \in Thread, Filtered(t) PROVE TypeOK'
  BY <1>8 DEF Filtered, Request
<1>9. ASSUME NEW t \in Thread, Report(t) PROVE TypeOK'
  BY <1>9 DEF Report, Augmented, LabelOf
<1>10. ASSUME NEW t \in Thread, Collect(t) PROVE TypeOK'
  BY <1>10 DEF Collect, Augmented, LabelOf
<1>11. CASE Return
  BY <1>11 DEF Return
<1>12. CASE UNCHANGED vars
  BY <1>12 DEF vars
<1>. QED BY <1>1, <1>2, <1>3, <1>4, <1>5, <1>6, <1>7, <1>8, <1>9, <1>10, <1>11, <1>12 DEF Next

(* The catch policy and the toggles keep their types                       *)
(* (SetSyscallCatchPolicy, augmentStopReasonForThread).                    *)
THEOREM TypeCorrect == Spec => []TypeOK
<1>1. Init => TypeOK
  <2> SUFFICES ASSUME Init PROVE TypeOK
    OBVIOUS
  <2>1. /\ inside \in [Thread -> BOOLEAN] /\ fresh \in [Thread -> BOOLEAN]
        /\ expect \in [Thread -> BOOLEAN] /\ told \in [Thread -> BOOLEAN]
    BY Zenon DEF Init
  <2>2. /\ call \in [Thread -> Call \cup {NoCall}]
        /\ req \in [Thread -> {"cont", "syscall", "step"}]
        /\ stop \in [Thread -> {"run", "entry", "exit", "step"}]
        /\ label \in [Thread -> {"none", "entry", "exit"}]
    BY DEF Init
  <2>3. /\ caught \subseteq Call /\ current \in Thread /\ alone \in BOOLEAN
        /\ phase \in {"prompt", "wait", "stopping"}
    BY Zenon DEF Init
  <2>. QED BY <2>1, <2>2, <2>3 DEF TypeOK
<1>. QED BY <1>1, TypeStep, PTL DEF Spec

-----------------------------------------------------------------------------
(* What the toggle of a thread is: before wait4 returns a syscall-stop it  *)
(* says which one is next, afterwards whether the thread is inside a call; *)
(* while the thread runs, whether it is in one whose exit will be seen.    *)
Toggle(t) ==
  IF fresh[t] /\ AtSyscall(t) THEN stop[t] = "exit"
  ELSE inside[t] /\ (stop[t] = "run" => req[t] = "syscall")

(* The part of the invariant that is about one thread.  A thread inside a  *)
(* traced call keeps the policy from being "none": PTRACE_CONT would miss  *)
(* the exit.                                                               *)
InStep(t) ==
  /\ stop[t] = "entry" => inside[t]
  /\ stop[t] \in {"exit", "step"} => ~inside[t]
  /\ fresh[t] => stop[t] # "run"
  /\ expect[t] = Toggle(t)
  /\ stop[t] = "entry" \/ expect[t] => caught # {}
  /\ stop[t] = "run" /\ req[t] = "syscall" => caught # {}
  /\ AtSyscall(t) /\ ~fresh[t] => label[t] = stop[t]
  /\ phase = "prompt" => stop[t] # "run" /\ ~fresh[t]

LabelInv == \A t \in Thread : InStep(t)

(* A step that is not about a thread leaves its part alone.                *)
LEMMA Others ==
  ASSUME NEW u \in Thread, InStep(u), caught' = caught, phase' # "prompt",
         inside'[u] = inside[u], req'[u] = req[u], stop'[u] = stop[u], fresh'[u] = fresh[u],
         expect'[u] = expect[u], label'[u] = label[u]
  PROVE  InStep(u)'
  BY DEF InStep, Toggle, AtSyscall

(* Every step keeps the toggles in step with the kernel.                   *)
LEMMA LabelStep ==
  ASSUME ~Steps, ~Resets
  PROVE  TypeOK /\ LabelInv /\ [Next]_vars => LabelInv'
<1> SUFFICES ASSUME TypeOK, LabelInv, [Next]_vars, NEW u \in Thread PROVE InStep(u)'
  BY DEF LabelInv
<1>0. InStep(u)
  BY DEF LabelInv
<1> USE DEF TypeOK
<1>1. ASSUME NEW t \in Thread, NEW c \in Call, EnterSyscall(t, c) PROVE InStep(u)'
  <2>1. InStep(t) /\ phase # "prompt"
    BY <1>1 DEF LabelInv, InStep, EnterSyscall
  <2>2. CASE u = t
    BY <1>1, <2>1, <2>2 DEF EnterSyscall, InStep, Toggle, AtSyscall
  <2>. QED BY <1>0, <1>1, <2>1, <2>2, Others DEF EnterSyscall
<1>2. ASSUME NEW t \in Thread, LeaveSyscall(t) PROVE InStep(u)'
  <2>1. InStep(t) /\ phase # "prompt"
    BY <1>2 DEF LabelInv, InStep, LeaveSyscall
  <2>2. CASE u = t
    BY <1>2, <2>1, <2>2 DEF LeaveSyscall, InStep, Toggle, AtSyscall
  <2>. QED BY <1>0, <1>2, <2>1, <2>2, Others DEF LeaveSyscall
<1>3. ASSUME NEW t \in Thread, OtherStop(t) PROVE InStep(u)'
  <2>1. InStep(t) /\ phase # "prompt"
    BY <1>3 DEF LabelInv, InStep, OtherStop
  <2>2. CASE u = t
    BY <1>3, <2>1, <2>2 DEF OtherStop, InStep, Toggle, AtSyscall
  <2>. QED BY <1>0, <1>3, <2>1, <2>2, Others DEF OtherStop
<1>4. ASSUME NEW S \in Policies, SetSyscallCatchPolicy(S) PROVE InStep(u)'
  BY <1>0, <1>4 DEF SetSyscallCatchPolicy, kernel, InStep, Toggle, AtSyscall
<1>5. ASSUME NEW t \in Thread, SelectThread(t) PROVE InStep(u)'
  BY <1>0, <1>5 DEF SelectThread, kernel, InStep, Toggle, AtSyscall
<1>6. ASSUME NEW S \in SUBSET Thread, Continue(S) PROVE InStep(u)'
  BY <1>0, <1>6 DEF Continue, Request, InStep, Toggle, AtSyscall
<1>7. CASE StepInstruction
  <2>1. phase = "prompt" /\ phase' = "wait"
    BY <1>7 DEF StepInstruction
  <2>2. CASE u = current
    BY <1>0, <1>7, <2>2 DEF StepInstruction, InStep, Toggle, AtSyscall
  <2>. QED BY <1>0, <1>7, <2>1, <2>2, Others DEF StepInstruction
<1>8. ASSUME NEW t \in Thread, Filtered(t) PROVE InStep(u)'
  <2>1. phase' # "prompt"
    BY <1>8 DEF Filtered
  <2>2. CASE u = t
    BY <1>0, <1>8, <2>2 DEF Filtered, ShouldResume, Request, InStep, Toggle, AtSyscall
  <2>. QED BY <1>0, <1>8, <2>1, <2>2, Others DEF Filtered
<1>9. ASSUME NEW t \in Thread, Report(t) PROVE InStep(u)'
  <2>1. phase' # "prompt"
    BY <1>9 DEF Report
  <2>2. CASE u = t
    BY <1>0, <1>9, <2>2 DEF Report, Augmented, LabelOf, InStep, Toggle, AtSyscall
  <2>3. u # t => label'[u] = label[u] /\ expect'[u] = expect[u]
    BY <1>9 DEF Report, Augmented, LabelOf
  <2>. QED BY <1>0, <1>9, <2>1, <2>2, <2>3, Others DEF Report
<1>10. ASSUME NEW t \in Thread, Collect(t) PROVE InStep(u)'
  <2>1. phase' # "prompt"
    BY <1>10 DEF Collect
  <2>2. CASE u = t
    BY <1>0, <1>10, <2>2 DEF Collect, Augmented, LabelOf, InStep, Toggle, AtSyscall
  <2>3. u # t => label'[u] = label[u] /\ expect'[u] = expect[u]
    BY <1>10 DEF Collect, Augmented, LabelOf
  <2>. QED BY <1>0, <1>10, <2>1, <2>2, <2>3, Others DEF Collect
<1>11. CASE Return
  BY <1>0, <1>11 DEF Return, kernel, InStep, Toggle, AtSyscall
<1>12. CASE UNCHANGED vars
  BY <1>0, <1>12 DEF vars, kernel, InStep, Toggle, AtSyscall
<1>. QED BY <1>1, <1>2, <1>3, <1>4, <1>5, <1>6, <1>7, <1>8, <1>9, <1>10, <1>11, <1>12 DEF Next

(* Entries and exits are told apart correctly on every thread, for any     *)
(* policies, filtered calls and stops collected from other threads, as     *)
(* long as no thread that is inside a call is single-stepped and the       *)
(* policy does not change while one is (augmentStopReasonForThread).       *)
THEOREM Labels == ASSUME ~Steps, ~Resets PROVE Spec => []LabelsAreRight
<1>1. Init => LabelInv
  BY DEF Init, LabelInv, InStep, Toggle, AtSyscall
<1>2. LabelInv => LabelsAreRight
  BY DEF LabelInv, InStep, LabelsAreRight
<1>. QED BY <1>1, <1>2, TypeCorrect, LabelStep, PTL DEF Spec
=============================================================================
