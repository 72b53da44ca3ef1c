------------------------ MODULE ThreadControl_proofs ------------------------
(* Proofs about the all-stop control of threads, for any number of threads *)
(* and signals.                                                            *)
EXTENDS ThreadControl, TLAPS

USE ThreadAssumption

TypeOK ==
  /\ run \in [Thread -> {"none", "ret", "user", "stop", "zombie", "gone"}]
  /\ mode \in [Thread -> {"cont", "step"}]
  /\ ev \in [Thread -> {"none", "USR", "STOP", "CTRLC", "trap", "step", "clone", "exit"}]
  /\ sig \in [Thread -> SUBSET {"USR", "STOP"}]
  /\ shared \in BOOLEAN /\ sent \in Nat
  /\ loc \in [Thread -> {"else", "at", "past"}]
  /\ armed \in BOOLEAN
  /\ st \in [Thread -> {"untracked", "stopped", "running", "exited"}]
  /\ pend \in [Thread -> BOOLEAN]
  /\ current \in Thread
  /\ phase \in {"prompt", "error", "pass1", "swallow", "swallowing", "step", "stepwait",
                "pass2", "wait", "stopping", "collect", "exited"}
  /\ cmd \in {"none", "continue", "resume", "stepi"}
  /\ todo \subseteq Thread /\ me \in Thread
  /\ tgt \in Thread \cup {AnyThread}
  /\ held \in BOOLEAN

(* Every step keeps the types.                                             *)
LEMMA TypeStep == TypeOK /\ [Next]_vars => TypeOK'
<1> SUFFICES ASSUME TypeOK, [Next]_vars PROVE TypeOK'
  OBVIOUS
<1> USE DEF TypeOK, kernel, dbg
<1>1. ASSUME NEW t \in Thread, EnterUser(t) PROVE TypeOK'
  BY <1>1 DEF EnterUser
<1>2. ASSUME NEW t \in Thread, Deliver(t) PROVE TypeOK'
  BY <1>2 DEF Deliver, Halt
<1>3. ASSUME NEW t \in Thread, DeliverShared(t) PROVE TypeOK'
  BY <1>3 DEF DeliverShared, Halt
<1>4. ASSUME NEW t \in Thread, Arrive(t) PROVE TypeOK'
  BY <1>4 DEF Arrive
<1>5. ASSUME NEW t \in Thread, Hit(t) PROVE TypeOK'
  BY <1>5 DEF Hit, Halt
<1>6. ASSUME NEW t \in Thread, Execute(t) PROVE TypeOK'
  BY <1>6 DEF Execute
<1>7. ASSUME NEW t \in Thread, StepDone(t) PROVE TypeOK'
  BY <1>7 DEF StepDone, Halt
<1>8. ASSUME NEW t \in Thread, NEW c \in Thread, Clone(t, c) PROVE TypeOK'
  BY <1>8 DEF Clone
<1>9. ASSUME NEW t \in Thread, SendUser(t) PROVE TypeOK'
  BY <1>9 DEF SendUser, Alive
<1>10. ASSUME NEW t \in Thread, Exit(t) PROVE TypeOK'
  BY <1>10 DEF Exit
<1>11. ASSUME NEW t \in Thread, ExitGroup(t) PROVE TypeOK'
  BY <1>11 DEF ExitGroup, Alive
<1>12. ASSUME NEW t \in Thread, SelectThread(t) PROVE TypeOK'
  BY <1>12 DEF SelectThread, AtPrompt, Tracked
<1>13. CASE ContinueCommand
  BY <1>13 DEF ContinueCommand, AtPrompt, Stopped
<1>14. CASE ResumeCommand
  BY <1>14 DEF ResumeCommand, AtPrompt
<1>15. CASE StepInstruction
  BY <1>15 DEF StepInstruction, AtPrompt
<1>16. CASE CtrlC
  BY <1>16 DEF CtrlC
<1>17. ASSUME NEW t \in Thread, StepOverNothing(t) PROVE TypeOK'
  BY <1>17 DEF StepOverNothing
<1>18. ASSUME NEW t \in Thread, StepOverBreakpoint(t) PROVE TypeOK'
  BY <1>18 DEF StepOverBreakpoint
<1>19. ASSUME NEW t \in Thread, ContinueThread(t) PROVE TypeOK'
  BY <1>19 DEF ContinueThread, Restart, SetState
<1>20. ASSUME NEW t \in Thread, ContinueFails(t) PROVE TypeOK'
  BY <1>20 DEF ContinueFails
<1>21. ASSUME NEW t \in Thread, CloneEvent(t) PROVE TypeOK'
  BY <1>21 DEF CloneEvent, Waited, Reportable, ReapAndContinue, Tracked
<1>22. ASSUME NEW t \in Thread, NewThread(t) PROVE TypeOK'
  BY <1>22 DEF NewThread, Waited, Reportable, ReapAndContinue, SetState, Tracked
<1>23. ASSUME NEW t \in Thread, PendingStop(t) PROVE TypeOK'
  BY <1>23 DEF PendingStop, Waited, Reportable, ReapAndContinue, SetState, Tracked, IsSigstop
<1>24. ASSUME NEW t \in Thread, HandlerResumes(t) PROVE TypeOK'
  BY <1>24 DEF HandlerResumes, Waited, Reportable, ReapAndContinue, SetState, Tracked, Rewound
<1>25. ASSUME NEW t \in Thread, ReportStop(t) PROVE TypeOK'
  BY <1>25 DEF ReportStop, Waited, Reportable, Reap, SetState, Tracked, IsSigstop, Rewound
<1>26. ASSUME NEW t \in Thread, ThreadExits(t) PROVE TypeOK'
  BY <1>26 DEF ThreadExits, Waited, Reportable, Reap, SetState
<1>27. ASSUME NEW t \in Thread, SendSigstop(t) PROVE TypeOK'
  BY <1>27 DEF SendSigstop, Alive
<1>28. CASE SwallowNothing
  BY <1>28 DEF SwallowNothing
<1>29. CASE SwallowContinues
  BY <1>29 DEF SwallowContinues, Restart
<1>30. CASE Swallowed
  BY <1>30 DEF Swallowed, Reportable, Reap
<1>31. CASE SingleStep
  BY <1>31 DEF SingleStep, Restart, SetState
<1>32. CASE SingleStepFails
  BY <1>32 DEF SingleStepFails
<1>33. CASE StepOverDone
  BY <1>33 DEF StepOverDone, Reportable, Reap
<1>34. CASE StartPass2
  BY <1>34 DEF StartPass2, Stopped
<1>35. CASE StartWait
  BY <1>35 DEF StartWait
<1>36. CASE MainExits
  BY <1>36 DEF MainExits, Waited, Reportable, Reap, SetState
<1>37. CASE CollectStop
  BY <1>37 DEF CollectStop, Reportable, Reap, SetState, IsSigstop, Rewound
<1>38. CASE CollectExit
  BY <1>38 DEF CollectExit, Reportable, Reap, SetState
<1>39. CASE CollectFails
  BY <1>39 DEF CollectFails
<1>40. CASE Return
  BY <1>40 DEF Return
<1>41. CASE UNCHANGED vars
  BY <1>41 DEF vars
<1>. QED BY <1>1, <1>2, <1>3, <1>4, <1>5, <1>6, <1>7, <1>8, <1>9, <1>10, 
         <1>11, <1>12, <1>13, <1>14, <1>15, <1>16, <1>17, <1>18, <1>19, 
         <1>20, <1>21, <1>22, <1>23, <1>24, <1>25, <1>26, <1>27, <1>28, 
         <1>29, <1>30, <1>31, <1>32, <1>33, <1>34, <1>35, <1>36, <1>37, 
         <1>38, <1>39, <1>40, <1>41
         DEF Next, User, Debugger, Kernel

(* The bookkeeping of the debugger and of the kernel keeps its types: the  *)
(* thread a loop works on is always one that exists.                       *)
THEOREM TypeCorrect == Spec => []TypeOK
<1>1. Init => TypeOK
  <2> SUFFICES ASSUME Init PROVE TypeOK
    OBVIOUS
  <2>1. /\ run \in [Thread -> {"none", "ret", "user", "stop", "zombie", "gone"}]
        /\ st \in [Thread -> {"untracked", "stopped", "running", "exited"}]
    BY DEF Init
  <2>2. sig \in [Thread -> SUBSET {"USR", "STOP"}]
    BY DEF Init
  <2>. QED BY <2>1, <2>2 DEF Init, TypeOK
<1>. QED BY <1>1, TypeStep, PTL DEF Spec
-----------------------------------------------------------------------------
(* A status that wait4 has not returned belongs to a thread in a           *)
(* ptrace-stop or to a zombie, and a zombie has one.                       *)
StatusInv ==
  \A t \in Thread : /\ ev[t] # "none" => run[t] \in {"stop", "zombie"}
                    /\ ev[t] = "exit" <=> run[t] = "zombie"

(* The step-over of a thread that p.threads lists as stopped.              *)
StepOverPhases == {"swallow", "swallowing", "step", "stepwait"}

(* A thread the debugger has not met is held by the SIGSTOP it was created *)
(* with, and its first stop waits to be taken; one it has seen the end of  *)
(* is gone.                                                                *)
UnmetInv ==
  \A t \in Thread :
    /\ run[t] = "none" => st[t] = "untracked"
    /\ st[t] = "untracked" =>
         /\ run[t] # "user"
         /\ run[t] = "ret"  => "STOP" \in sig[t]
         /\ run[t] = "stop" => ev[t] \notin {"none", "clone"}
    /\ st[t] = "exited" => run[t] = "gone" /\ phase \in {"stopping", "collect", "exited"}

(* What the loops work on is in p.threads.                                 *)
LoopInv ==
  /\ phase \notin {"wait", "exited"} => Tracked(current)
  /\ phase \in {"error", "pass1", "pass2"} \cup StepOverPhases => \A t \in todo : Tracked(t)
  /\ phase \in StepOverPhases => Tracked(me)
  /\ phase = "prompt" => todo = {}

(* While a stop is being reported, a thread that is listed as running is   *)
(* one stopRunningThreads has still to collect, or was reaped before.      *)
CollectInv ==
  /\ phase \in {"stopping", "collect", "prompt"} =>
       \A t \in Thread : st[t] = "running" => \/ t \in todo
                                              \/ phase = "collect" /\ t = me
                                              \/ run[t] = "gone"
  /\ phase \in {"stopping", "collect"} =>
       st[current] = "stopped" /\ current \notin todo /\ (phase = "collect" => me # current)

ControlInv == StatusInv /\ UnmetInv /\ LoopInv /\ CollectInv /\ StoppedMeansStopped

(* The steps that enable or disable the site with a Boolean expression,    *)
(* without it.                                                             *)
LEMMA StepInstructionEffect ==
  ASSUME StepInstruction
  PROVE  /\ AtPrompt /\ phase' = "swallow" /\ me' = current /\ cmd' = "stepi"
         /\ UNCHANGED <<kernel, st, pend, current, todo, tgt, reason>>
  BY DEF StepInstruction

LEMMA ReturnEffect ==
  ASSUME Return
  PROVE  /\ phase = "stopping" /\ todo = {}
         /\ phase' \in {"prompt", "exited"}
         /\ st[Main] = "exited" /\ Main # current <=> phase' = "exited"
         /\ phase' = "prompt" => reason' = reason
         /\ st' = [t \in Thread |-> IF t # current /\ st[t] = "exited" THEN "untracked" ELSE st[t]]
         /\ UNCHANGED <<kernel, current, cmd, todo, me, tgt>>
<1>1. Main \in {t \in Thread \ {current} : st[t] = "exited"} <=> st[Main] = "exited" /\ Main # current
  OBVIOUS
<1>2. \A t \in Thread : t \in {u \in Thread \ {current} : st[u] = "exited"}
                          <=> t # current /\ st[t] = "exited"
  OBVIOUS
<1>. QED BY <1>1, <1>2 DEF Return

(* Every step keeps it.                                                    *)
LEMMA ControlStep == TypeOK /\ ControlInv /\ [Next]_vars => ControlInv'
<1> SUFFICES ASSUME TypeOK, ControlInv, [Next]_vars PROVE ControlInv'
  OBVIOUS
<1> USE DEF TypeOK, ControlInv, StatusInv, UnmetInv, LoopInv, CollectInv, StoppedMeansStopped,
            StepOverPhases, Tracked, kernel, dbg
<1>1. ASSUME NEW t \in Thread, EnterUser(t) PROVE ControlInv'
  BY <1>1 DEF EnterUser
<1>2. ASSUME NEW t \in Thread, Deliver(t) PROVE ControlInv'
  BY <1>2 DEF Deliver, Halt
<1>3. ASSUME NEW t \in Thread, DeliverShared(t) PROVE ControlInv'
  BY <1>3 DEF DeliverShared, Halt
<1>4. ASSUME NEW t \in Thread, Arrive(t) PROVE ControlInv'
  BY <1>4 DEF Arrive
<1>5. ASSUME NEW t \in Thread, Hit(t) PROVE ControlInv'
  BY <1>5 DEF Hit, Halt
<1>6. ASSUME NEW t \in Thread, Execute(t) PROVE ControlInv'
  BY <1>6 DEF Execute
<1>7. ASSUME NEW t \in Thread, StepDone(t) PROVE ControlInv'
  BY <1>7 DEF StepDone, Halt
<1>8. ASSUME NEW t \in Thread, NEW c \in Thread, Clone(t, c) PROVE ControlInv'
  BY <1>8 DEF Clone
<1>9. ASSUME NEW t \in Thread, SendUser(t) PROVE ControlInv'
  BY <1>9 DEF SendUser, Alive
<1>10. ASSUME NEW t \in Thread, Exit(t) PROVE ControlInv'
  BY <1>10 DEF Exit
<1>11. ASSUME NEW t \in Thread, ExitGroup(t) PROVE ControlInv'
  BY <1>11 DEF ExitGroup, Alive
<1>12. ASSUME NEW t \in Thread, SelectThread(t) PROVE ControlInv'
  BY <1>12 DEF SelectThread, AtPrompt, Tracked
<1>13. CASE ContinueCommand
  BY <1>13 DEF ContinueCommand, AtPrompt, Stopped
<1>14. CASE ResumeCommand
  BY <1>14 DEF ResumeCommand, AtPrompt
<1>15. CASE StepInstruction
  BY <1>15, StepInstructionEffect DEF AtPrompt
<1>16. CASE CtrlC
  BY <1>16 DEF CtrlC
<1>17. ASSUME NEW t \in Thread, StepOverNothing(t) PROVE ControlInv'
  BY <1>17 DEF StepOverNothing
<1>18. ASSUME NEW t \in Thread, StepOverBreakpoint(t) PROVE ControlInv'
  BY <1>18 DEF StepOverBreakpoint
<1>19. ASSUME NEW t \in Thread, ContinueThread(t) PROVE ControlInv'
  BY <1>19 DEF ContinueThread, Restart, SetState
<1>20. ASSUME NEW t \in Thread, ContinueFails(t) PROVE ControlInv'
  BY <1>20 DEF ContinueFails
<1>21. ASSUME NEW t \in Thread, CloneEvent(t) PROVE ControlInv'
  BY <1>21 DEF CloneEvent, Waited, Reportable, ReapAndContinue, Tracked
<1>22. ASSUME NEW t \in Thread, NewThread(t) PROVE ControlInv'
  BY <1>22 DEF NewThread, Waited, Reportable, ReapAndContinue, SetState, Tracked
<1>23. ASSUME NEW t \in Thread, PendingStop(t) PROVE ControlInv'
  BY <1>23 DEF PendingStop, Waited, Reportable, ReapAndContinue, SetState, Tracked, IsSigstop
<1>24. ASSUME NEW t \in Thread, HandlerResumes(t) PROVE ControlInv'
  BY <1>24 DEF HandlerResumes, Waited, Reportable, ReapAndContinue, SetState, Tracked, Rewound
<1>25. ASSUME NEW t \in Thread, ReportStop(t) PROVE ControlInv'
  BY <1>25 DEF ReportStop, Waited, Reportable, Reap, SetState, Tracked, IsSigstop, Rewound
<1>26. ASSUME NEW t \in Thread, ThreadExits(t) PROVE ControlInv'
  BY <1>26 DEF ThreadExits, Waited, Reportable, Reap, SetState
<1>27. ASSUME NEW t \in Thread, SendSigstop(t) PROVE ControlInv'
  BY <1>27 DEF SendSigstop, Alive
<1>28. CASE SwallowNothing
  BY <1>28 DEF SwallowNothing
<1>29. CASE SwallowContinues
  BY <1>29 DEF SwallowContinues, Restart
<1>30. CASE Swallowed
  BY <1>30 DEF Swallowed, Reportable, Reap
<1>31. CASE SingleStep
  BY <1>31 DEF SingleStep, Restart, SetState
<1>32. CASE SingleStepFails
  BY <1>32 DEF SingleStepFails
<1>33. CASE StepOverDone
  BY <1>33 DEF StepOverDone, Reportable, Reap
<1>34. CASE StartPass2
  BY <1>34 DEF StartPass2, Stopped
<1>35. CASE StartWait
  BY <1>35 DEF StartWait
<1>36. CASE MainExits
  BY <1>36 DEF MainExits, Waited, Reportable, Reap, SetState
<1>37. CASE CollectStop
  BY <1>37 DEF CollectStop, Reportable, Reap, SetState, IsSigstop, Rewound
<1>38. CASE CollectExit
  BY <1>38 DEF CollectExit, Reportable, Reap, SetState
<1>39. CASE CollectFails
  BY <1>39 DEF CollectFails
<1>40. CASE Return
  BY <1>40, ReturnEffect
<1>41. CASE UNCHANGED vars
  BY <1>41 DEF vars
<1>. QED BY <1>1, <1>2, <1>3, <1>4, <1>5, <1>6, <1>7, <1>8, <1>9, <1>10, 
         <1>11, <1>12, <1>13, <1>14, <1>15, <1>16, <1>17, <1>18, <1>19, 
         <1>20, <1>21, <1>22, <1>23, <1>24, <1>25, <1>26, <1>27, <1>28, 
         <1>29, <1>30, <1>31, <1>32, <1>33, <1>34, <1>35, <1>36, <1>37, 
         <1>38, <1>39, <1>40, <1>41
         DEF Next, User, Debugger, Kernel

(* Init establishes it.                                                    *)
LEMMA ControlInit == Init => ControlInv
  BY DEF Init, ControlInv, StatusInv, UnmetInv, LoopInv, CollectInv, StoppedMeansStopped,
         StepOverPhases, Tracked

LEMMA ControlCorrect == Spec => [](TypeOK /\ ControlInv)
  BY TypeCorrect, ControlInit, ControlStep, PTL DEF Spec

(* A thread that p.threads lists as stopped is stopped or has ended,       *)
(* whatever the program does and however commands failed before.           *)
THEOREM StoppedStay == Spec => []StoppedMeansStopped
<1>1. ControlInv => StoppedMeansStopped
  BY DEF ControlInv
<1>. QED BY <1>1, ControlCorrect, PTL

(* All-stop: when the prompt is back after a reported stop, no thread of   *)
(* the process can execute, met or not.                                    *)
THEOREM AllStopped == Spec => []AllStop
<1>1. TypeOK /\ ControlInv => AllStop
  <2> SUFFICES ASSUME TypeOK, ControlInv, phase = "prompt", NEW t \in Thread PROVE ~CanExecute(t)
    BY DEF AllStop
  <2>1. CASE st[t] = "untracked"
    BY <2>1 DEF ControlInv, UnmetInv, CanExecute
  <2>2. CASE st[t] = "stopped"
    BY <2>2 DEF ControlInv, StoppedMeansStopped, CanExecute
  <2>3. CASE st[t] \in {"running", "exited"}
    BY <2>3 DEF ControlInv, CollectInv, LoopInv, UnmetInv, CanExecute
  <2>. QED BY <2>1, <2>2, <2>3 DEF TypeOK
<1>. QED BY <1>1, ControlCorrect, PTL

-----------------------------------------------------------------------------
(* What a command that failed leaves behind.  A thread that is listed as   *)
(* stopped and has ended makes every continue fail when its turn comes; no *)
(* step makes it anything else once it is reaped.                          *)
Ended(t)    == st[t] = "stopped" /\ run[t] \in {"zombie", "gone"}
Lost(t)     == st[t] = "stopped" /\ run[t] = "gone"
NobodyAlive == \A t \in Thread : ~Alive(t)

(* Which threads the loops of a command have still to visit.               *)
VisitInv ==
  /\ phase \in {"pass1", "pass2", "stepwait"} => cmd \in {"continue", "resume"}
  /\ phase \in {"pass1"} \cup StepOverPhases =>
       /\ cmd = "continue" => \A t \in todo : st[t] = "stopped"
       /\ cmd = "resume" => todo \subseteq {current}
  /\ phase \in StepOverPhases => /\ cmd # "none"
                                 /\ cmd = "continue" => st[me] = "stopped"
                                 /\ cmd # "continue" => me = current
  /\ phase = "pass2" => /\ cmd = "continue" => todo = Stopped
                        /\ cmd = "resume" => todo \subseteq {current}
  /\ phase = "wait" /\ cmd = "continue" => Stopped = {}

(* A thread that was stopped when it became a zombie was killed by         *)
(* exit_group, and then all were.                                          *)
KilledInv ==
  \A t \in Thread :
    /\ st[t] = "stopped" /\ run[t] = "zombie"
    /\ ~(t = me /\ phase \in {"swallowing", "stepwait"})
    => NobodyAlive

(* Before the threads are continued one is listed as running only after a  *)
(* command that failed; a running thread that was reaped by a step-over    *)
(* leaves another one lost.                                                *)
FailedInv ==
  /\ phase \in {"prompt", "error", "pass1"} \cup StepOverPhases
       \/ (phase = "pass2" /\ cmd = "resume" /\ todo # {})
     => \A t \in Thread : st[t] = "running" => \E u \in Thread : Ended(u)
  /\ phase # "exited" =>
       \A t \in Thread : st[t] = "running" /\ run[t] = "gone" =>
         /\ \E u \in Thread : Ended(u)
         /\ phase \in {"wait", "stopping", "collect"} \/ (phase = "pass2" /\ todo = {})
              => \E u \in Thread : Lost(u)

(* A stopped thread that is listed as running has a status to return, but  *)
(* for the one a command is about to let go.                               *)
RunningInv ==
  /\ \A t \in Thread : st[t] = "running" /\ run[t] = "stop" /\ ev[t] = "none" =>
       /\ cmd \in {"resume", "stepi"} /\ t = current
       /\ phase \in {"swallow", "step", "pass1"} \/ (phase = "pass2" /\ t \in todo)
  /\ st[Main] = "untracked" => phase = "exited"

WaitInv == VisitInv /\ KilledInv /\ FailedInv /\ RunningInv

(* The answer that swallowPendingSigstop waits for, without its flag.      *)
LEMMA SwallowedEffect ==
  ASSUME Swallowed
  PROVE  /\ phase = "swallowing" /\ phase' = "step"
         /\ ev' = [ev EXCEPT ![me] = "none"]
         /\ run' = [run EXCEPT ![me] = IF run[me] = "zombie" THEN "gone" ELSE run[me]]
         /\ UNCHANGED <<mode, sig, shared, sent, loc, armed, st, current, cmd, todo, me, tgt, held>>
  BY DEF Swallowed, Reap

(* Every step keeps it.                                                    *)
LEMMA WaitStep == TypeOK /\ ControlInv /\ WaitInv /\ [Next]_vars => WaitInv'
<1> SUFFICES ASSUME TypeOK, ControlInv, WaitInv, [Next]_vars PROVE WaitInv'
  OBVIOUS
<1> USE DEF TypeOK, ControlInv, StatusInv, UnmetInv, LoopInv, CollectInv, StoppedMeansStopped,
            WaitInv, VisitInv, KilledInv, FailedInv, RunningInv, Ended, Lost, NobodyAlive, Alive, Stopped,
            StepOverPhases, Tracked, kernel, dbg
<1>1. ASSUME NEW t \in Thread, EnterUser(t) PROVE WaitInv'
  BY <1>1 DEF EnterUser
<1>2. ASSUME NEW t \in Thread, Deliver(t) PROVE WaitInv'
  BY <1>2 DEF Deliver, Halt
<1>3. ASSUME NEW t \in Thread, DeliverShared(t) PROVE WaitInv'
  BY <1>3 DEF DeliverShared, Halt
<1>4. ASSUME NEW t \in Thread, Arrive(t) PROVE WaitInv'
  BY <1>4 DEF Arrive
<1>5. ASSUME NEW t \in Thread, Hit(t) PROVE WaitInv'
  BY <1>5 DEF Hit, Halt
<1>6. ASSUME NEW t \in Thread, Execute(t) PROVE WaitInv'
  BY <1>6 DEF Execute
<1>7. ASSUME NEW t \in Thread, StepDone(t) PROVE WaitInv'
  BY <1>7 DEF StepDone, Halt
<1>8. ASSUME NEW t \in Thread, NEW c \in Thread, Clone(t, c) PROVE WaitInv'
  BY <1>8 DEF Clone
<1>9. ASSUME NEW t \in Thread, SendUser(t) PROVE WaitInv'
  BY <1>9 DEF SendUser, Alive
<1>10. ASSUME NEW t \in Thread, Exit(t) PROVE WaitInv'
  BY <1>10 DEF Exit
<1>11. ASSUME NEW t \in Thread, ExitGroup(t) PROVE WaitInv'
  BY <1>11 DEF ExitGroup, Alive
<1>12. ASSUME NEW t \in Thread, SelectThread(t) PROVE WaitInv'
  BY <1>12 DEF SelectThread, AtPrompt, Tracked
<1>13. CASE ContinueCommand
  BY <1>13 DEF ContinueCommand, AtPrompt, Stopped
<1>14. CASE ResumeCommand
  BY <1>14 DEF ResumeCommand, AtPrompt
<1>15. CASE StepInstruction
  BY <1>15, StepInstructionEffect DEF AtPrompt
<1>16. CASE CtrlC
  BY <1>16 DEF CtrlC
<1>17. ASSUME NEW t \in Thread, StepOverNothing(t) PROVE WaitInv'
  BY <1>17 DEF StepOverNothing
<1>18. ASSUME NEW t \in Thread, StepOverBreakpoint(t) PROVE WaitInv'
  BY <1>18 DEF StepOverBreakpoint
<1>19. ASSUME NEW t \in Thread, ContinueThread(t) PROVE WaitInv'
  BY <1>19 DEF ContinueThread, Restart, SetState
<1>20. ASSUME NEW t \in Thread, ContinueFails(t) PROVE WaitInv'
  BY <1>20 DEF ContinueFails
<1>21. ASSUME NEW t \in Thread, CloneEvent(t) PROVE WaitInv'
  BY <1>21 DEF CloneEvent, Waited, Reportable, ReapAndContinue, Tracked
<1>22. ASSUME NEW t \in Thread, NewThread(t) PROVE WaitInv'
  BY <1>22 DEF NewThread, Waited, Reportable, ReapAndContinue, SetState, Tracked
<1>23. ASSUME NEW t \in Thread, PendingStop(t) PROVE WaitInv'
  BY <1>23 DEF PendingStop, Waited, Reportable, ReapAndContinue, SetState, Tracked, IsSigstop
<1>24. ASSUME NEW t \in Thread, HandlerResumes(t) PROVE WaitInv'
  BY <1>24 DEF HandlerResumes, Waited, Reportable, ReapAndContinue, SetState, Tracked, Rewound
<1>25. ASSUME NEW t \in Thread, ReportStop(t) PROVE WaitInv'
  BY <1>25 DEF ReportStop, Waited, Reportable, Reap, SetState, Tracked, IsSigstop, Rewound
<1>26. ASSUME NEW t \in Thread, ThreadExits(t) PROVE WaitInv'
  BY <1>26 DEF ThreadExits, Waited, Reportable, Reap, SetState
<1>27. ASSUME NEW t \in Thread, SendSigstop(t) PROVE WaitInv'
  BY <1>27 DEF SendSigstop, Alive
<1>28. CASE SwallowNothing
  BY <1>28 DEF SwallowNothing
<1>29. CASE SwallowContinues
  BY <1>29 DEF SwallowContinues, Restart
<1>30. CASE Swallowed
  <2>1. /\ ev' = [ev EXCEPT ![me] = "none"] /\ phase = "swallowing" /\ phase' = "step"
        /\ run' = [run EXCEPT ![me] = IF run[me] = "zombie" THEN "gone" ELSE run[me]]
        /\ UNCHANGED <<st, current, cmd, todo, me>>
    BY <1>30, SwallowedEffect
  <2>2. \A t \in Thread : /\ Alive(t)' => Alive(t)
                          /\ Ended(t) => Ended(t)'
    BY <2>1
  <2>3. VisitInv' /\ KilledInv'
    BY <2>1, <2>2
  <2>4. FailedInv'
    BY <2>1, <2>2
  <2>5. RunningInv'
    BY <2>1
  <2>. QED BY <2>3, <2>4, <2>5
<1>31. CASE SingleStep
  <2>1. /\ ev' = [ev EXCEPT ![me] = "none"] /\ phase = "step" /\ run[me] = "stop"
        /\ run' = [run EXCEPT ![me] = "ret"]
        /\ UNCHANGED <<current, cmd, todo, me>>
        /\ cmd = "stepi" => st' = [st EXCEPT ![me] = "running"] /\ phase' = "wait"
        /\ cmd # "stepi" => st' = st /\ phase' = "stepwait"
    BY <1>31 DEF SingleStep, Restart, SetState
  <2>2. \A t \in Thread : /\ Ended(t) => Lost(t) /\ t # me
                          /\ Lost(t) => Lost(t)'
    BY <2>1
  <2>3. VisitInv' /\ KilledInv'
    BY <2>1, <2>2
  <2>4. FailedInv'
    BY <2>1, <2>2
  <2>5. RunningInv'
    BY <2>1
  <2>. QED BY <2>3, <2>4, <2>5
<1>32. CASE SingleStepFails
  BY <1>32 DEF SingleStepFails
<1>33. CASE StepOverDone
  BY <1>33 DEF StepOverDone, Reportable, Reap
<1>34. CASE StartPass2
  BY <1>34 DEF StartPass2, Stopped
<1>35. CASE StartWait
  BY <1>35 DEF StartWait
<1>36. CASE MainExits
  BY <1>36 DEF MainExits, Waited, Reportable, Reap, SetState
<1>37. CASE CollectStop
  BY <1>37 DEF CollectStop, Reportable, Reap, SetState, IsSigstop, Rewound
<1>38. CASE CollectExit
  BY <1>38 DEF CollectExit, Reportable, Reap, SetState
<1>39. CASE CollectFails
  BY <1>39 DEF CollectFails
<1>40. CASE Return
  BY <1>40, ReturnEffect
<1>41. CASE UNCHANGED vars
  BY <1>41 DEF vars
<1>. QED BY <1>1, <1>2, <1>3, <1>4, <1>5, <1>6, <1>7, <1>8, <1>9, <1>10, 
         <1>11, <1>12, <1>13, <1>14, <1>15, <1>16, <1>17, <1>18, <1>19, 
         <1>20, <1>21, <1>22, <1>23, <1>24, <1>25, <1>26, <1>27, <1>28, 
         <1>29, <1>30, <1>31, <1>32, <1>33, <1>34, <1>35, <1>36, <1>37, 
         <1>38, <1>39, <1>40, <1>41
         DEF Next, User, Debugger, Kernel

(* Init establishes it.                                                    *)
LEMMA WaitInit == Init => WaitInv
  BY DEF Init, WaitInv, VisitInv, KilledInv, FailedInv, RunningInv, Ended, Lost, NobodyAlive,
         Alive, Stopped, StepOverPhases

LEMMA WaitCorrect == Spec => [](TypeOK /\ ControlInv /\ WaitInv)
  BY ControlCorrect, WaitInit, WaitStep, PTL DEF Spec

(* continue never waits for nothing: if the leader is not what wakes it,   *)
(* it is a zombie that waits for another thread, and that one does.        *)
THEOREM ContinueHasCause == Spec => []WaitHasCause
<1>1. TypeOK /\ ControlInv /\ WaitInv => WaitHasCause
  <2> SUFFICES ASSUME TypeOK, ControlInv, WaitInv, cmd = "continue", phase = "wait",
                      \A t \in Thread : run[t] \notin {"ret", "user"}
               PROVE  \E t \in Thread : Reportable(t)
    BY DEF WaitHasCause
  <2>1. \A t \in Thread : st[t] # "stopped"
    BY DEF WaitInv, VisitInv, Stopped
  <2>2. \A t \in Thread : st[t] = "running" => run[t] # "gone"
    BY <2>1 DEF WaitInv, FailedInv, Lost
  <2>3. \A t \in Thread : run[t] \in {"stop", "zombie"} => ev[t] # "none"
    BY <2>1 DEF TypeOK, ControlInv, StatusInv, UnmetInv, WaitInv, RunningInv
  <2>4. run[Main] \in {"stop", "zombie"}
    BY <2>1, <2>2 DEF TypeOK, ControlInv, UnmetInv, WaitInv, RunningInv
  <2>5. CASE Reportable(Main)
    BY <2>5
  <2>6. CASE ~Reportable(Main)
    <3>1. PICK u \in Thread \ {Main} : run[u] \notin {"none", "gone"}
      BY <2>3, <2>4, <2>6 DEF Reportable
    <3>2. run[u] \in {"stop", "zombie"}
      BY <3>1 DEF TypeOK
    <3>. QED BY <3>1, <3>2, <2>3 DEF Reportable
  <2>. QED BY <2>5, <2>6
<1>. QED BY <1>1, WaitCorrect, PTL
-----------------------------------------------------------------------------
(* The flags and the queues.  A thread listed as stopped has no status     *)
(* left to return; only a thread of p.threads has a pending SIGSTOP, and   *)
(* the one that is stepped has none; stopRunningThreads works on threads   *)
(* that are listed as running; the first stop of a thread is for a signal. *)
ReapedInv ==
  /\ \A t \in Thread :
       /\ st[t] = "stopped" /\ run[t] = "stop" /\ ~(t = me /\ phase \in {"swallowing", "stepwait"})
            => ev[t] = "none"
       /\ st[t] = "untracked" /\ run[t] = "stop" => ev[t] \in {"USR", "STOP"}
       /\ run[t] \in {"none", "zombie", "gone"} => sig[t] = {}
  /\ phase \in {"stopping", "collect"} => \A t \in todo : st[t] = "running"
  /\ phase = "collect" => st[me] = "running" /\ me \notin todo

FlagInv ==
  /\ \A t \in Thread : st[t] = "untracked" => pend[t] = FALSE
  /\ phase \in {"step", "stepwait"} => pend[me] = FALSE

(* The site is disabled only for a step-over, or by the single step that   *)
(* holds it; in a step-over it is, so no int3 ends one.                    *)
SiteInv ==
  /\ phase \in {"prompt", "error", "pass1", "pass2"} => armed = TRUE
  /\ armed = FALSE /\ phase \in {"wait", "stopping", "collect", "exited"} => cmd = "stepi"
  /\ armed = FALSE /\ phase \in {"wait", "stopping", "collect"} => held = TRUE
  /\ cmd # "stepi" /\ phase \in StepOverPhases => armed = FALSE
  /\ armed = FALSE /\ cmd = "stepi" /\ phase \in StepOverPhases => held = TRUE
  /\ cmd \in Commands \cup {"none"}
  /\ phase = "stepwait" => mode[me] = "step" /\ ev[me] # "trap"

(* As long as nobody else has sent a signal: no other stop is there to be  *)
(* taken for the debugger's own, so a SIGSTOP is outstanding once at most  *)
(* and, for a thread that is in p.threads, announced by the flag; only the *)
(* thread that is being collected runs its program with one queued.        *)
Outstanding(t) == "STOP" \in sig[t] \/ ev[t] = "STOP"
QuietInv ==
  /\ shared = FALSE
  /\ \A t \in Thread :
       /\ "USR" \notin sig[t] /\ ev[t] \notin {"USR", "CTRLC"}
       /\ ev[t] = "STOP" => "STOP" \notin sig[t]
       /\ Outstanding(t) /\ Tracked(t) => pend[t] = TRUE \/ (phase = "collect" /\ t = me)
       /\ run[t] = "user" /\ "STOP" \in sig[t] => phase = "collect" /\ t = me
  /\ phase = "swallowing" /\ "STOP" \in sig[me] => run[me] = "ret"
  /\ phase = "step" => "STOP" \notin sig[me]

(* As long as threads end only all together: once one has ended nobody is  *)
(* alive.                                                                  *)
GroupInv == \A t \in Thread : run[t] \in {"zombie", "gone"} => NobodyAlive

(* The SIGSTOP that a loop waits for is on its way.                        *)
QueuedInv ==
  /\ PendingIsQueued
  /\ phase = "collect" /\ Alive(me) => Outstanding(me)
  /\ phase = "swallowing" /\ Alive(me) =>
       \/ run[me] = "ret" /\ "STOP" \in sig[me]
       \/ run[me] = "stop" /\ ev[me] \in {"USR", "STOP"}

(* A program counter is behind the int3 only until the trap is taken, and  *)
(* no trap is left to be taken while the site is disabled.                 *)
TrapInv ==
  \A t \in Thread : /\ Alive(t) => /\ loc[t] = "past" => ev[t] = "trap"
                                   /\ ev[t] = "trap" => armed = TRUE
                    /\ run[t] = "none" => loc[t] = "else"

(* What StepInstruction does to an enabled site, and Return to the flags   *)
(* and to a site that is held.                                             *)
LEMMA StepInstructionSite ==
  ASSUME TypeOK, StepInstruction, armed = TRUE
  PROVE  /\ "stepi" \in Commands
         /\ armed' = FALSE => held' = TRUE
<1>1. held' = (loc[current] = "at" /\ armed) /\ armed' = (armed /\ ~held') /\ "stepi" \in Commands
  BY DEF StepInstruction
<1>2. CASE loc[current] = "at"
  <2>1. held' = TRUE
    BY <1>1, <1>2
  <2>. QED BY <1>1, <2>1
<1>3. CASE loc[current] # "at"
  <2>1. held' = FALSE
    BY <1>1, <1>3
  <2>2. armed' = TRUE
    BY <1>1, <2>1
  <2>. QED BY <1>1, <2>2
<1>. QED BY <1>2, <1>3

LEMMA ReturnSite ==
  ASSUME Return, armed = TRUE \/ held = TRUE
  PROVE  armed' = TRUE
  BY DEF Return

LEMMA ReturnFlags ==
  ASSUME Return
  PROVE  \A t \in Thread : /\ st'[t] = "untracked" => st[t] = "untracked" \/ pend'[t] = FALSE
                           /\ st'[t] # "untracked" /\ pend[t] = TRUE => pend'[t] = TRUE
                           /\ pend[t] = FALSE => pend'[t] = FALSE
<1> DEFINE gone == {t \in Thread \ {current} : st[t] = "exited"}
<1>1. /\ pend' = [t \in Thread |-> pend[t] /\ t \notin gone]
      /\ st' = [t \in Thread |-> IF t \in gone THEN "untracked" ELSE st[t]]
  BY DEF Return
<1> HIDE DEF gone
<1>2. ASSUME NEW t \in Thread, pend[t] = FALSE PROVE pend'[t] = FALSE
  BY <1>1, <1>2
<1>3. ASSUME NEW t \in Thread, st'[t] = "untracked" PROVE st[t] = "untracked" \/ pend'[t] = FALSE
  <2>1. CASE t \in gone
    BY <1>1, <2>1
  <2>2. CASE t \notin gone
    BY <1>1, <1>3, <2>2
  <2>. QED BY <2>1, <2>2
<1>4. ASSUME NEW t \in Thread, st'[t] # "untracked", pend[t] = TRUE PROVE pend'[t] = TRUE
  <2>1. t \notin gone
    BY <1>1, <1>4
  <2>. QED BY <1>1, <1>4, <2>1
<1>. QED BY <1>2, <1>3, <1>4

(* A collected stop: the flag is set unless the stop is for a SIGSTOP.     *)
LEMMA CollectStopFlags ==
  ASSUME TypeOK, CollectStop
  PROVE  /\ \A t \in Thread : t # me /\ pend[t] = TRUE => pend'[t] = TRUE
         /\ \A t \in Thread : t # me /\ pend[t] = FALSE => pend'[t] = FALSE
         /\ ev[me] \in {"STOP", "CTRLC"} => pend'[me] = FALSE
         /\ ev[me] \notin {"STOP", "CTRLC"} => pend'[me] = TRUE
<1>1. pend' = [pend EXCEPT ![me] = ~IsSigstop(ev[me])]
  BY DEF CollectStop
<1>2. CASE ev[me] \in {"STOP", "CTRLC"}
  <2>1. pend' = [pend EXCEPT ![me] = FALSE]
    BY <1>1, <1>2 DEF IsSigstop
  <2>. QED BY <1>2, <2>1 DEF TypeOK
<1>3. CASE ev[me] \notin {"STOP", "CTRLC"}
  <2>1. pend' = [pend EXCEPT ![me] = TRUE]
    BY <1>1, <1>3 DEF IsSigstop
  <2>. QED BY <1>3, <2>1 DEF TypeOK
<1>. QED BY <1>2, <1>3

LEMMA CollectStopEffect ==
  ASSUME CollectStop
  PROVE  /\ phase = "collect" /\ phase' = "stopping" /\ Reportable(me) /\ ev[me] # "exit"
         /\ Reap(me)
         /\ loc' = [loc EXCEPT ![me] = Rewound(me, ev[me])]
         /\ st' = [st EXCEPT ![me] = "stopped"]
         /\ UNCHANGED <<mode, sig, shared, sent, armed, current, reason, cmd, todo, me, tgt, held>>
  BY DEF CollectStop, SetState

LEMMA FlagIsBoolean ==
  ASSUME TypeOK, NEW t \in Thread, pend[t] # FALSE
  PROVE  pend[t] = TRUE
<1>1. pend[t] \in BOOLEAN
  BY DEF TypeOK
<1>2. pend[t] \in BOOLEAN /\ pend[t] # FALSE => pend[t] = TRUE
  BY Zenon
<1>. QED BY <1>1, <1>2

(* Every step keeps what is said of the statuses.                          *)
LEMMA ReapedStep == TypeOK /\ ControlInv /\ ReapedInv /\ [Next]_vars => ReapedInv'
<1> SUFFICES ASSUME TypeOK, ControlInv, ReapedInv, [Next]_vars PROVE ReapedInv'
  OBVIOUS
<1> USE DEF TypeOK, ControlInv, StatusInv, UnmetInv, LoopInv, CollectInv, StoppedMeansStopped,
            ReapedInv, StepOverPhases, Tracked, kernel, dbg
<1>1. ASSUME NEW t \in Thread, EnterUser(t) PROVE ReapedInv'
  BY <1>1 DEF EnterUser
<1>2. ASSUME NEW t \in Thread, Deliver(t) PROVE ReapedInv'
  BY <1>2 DEF Deliver, Halt
<1>3. ASSUME NEW t \in Thread, DeliverShared(t) PROVE ReapedInv'
  BY <1>3 DEF DeliverShared, Halt
<1>4. ASSUME NEW t \in Thread, Arrive(t) PROVE ReapedInv'
  BY <1>4 DEF Arrive
<1>5. ASSUME NEW t \in Thread, Hit(t) PROVE ReapedInv'
  BY <1>5 DEF Hit, Halt
<1>6. ASSUME NEW t \in Thread, Execute(t) PROVE ReapedInv'
  BY <1>6 DEF Execute
<1>7. ASSUME NEW t \in Thread, StepDone(t) PROVE ReapedInv'
  BY <1>7 DEF StepDone, Halt
<1>8. ASSUME NEW t \in Thread, NEW c \in Thread, Clone(t, c) PROVE ReapedInv'
  BY <1>8 DEF Clone
<1>9. ASSUME NEW t \in Thread, SendUser(t) PROVE ReapedInv'
  BY <1>9 DEF SendUser, Alive
<1>10. ASSUME NEW t \in Thread, Exit(t) PROVE ReapedInv'
  BY <1>10 DEF Exit
<1>11. ASSUME NEW t \in Thread, ExitGroup(t) PROVE ReapedInv'
  BY <1>11 DEF ExitGroup, Alive
<1>12. ASSUME NEW t \in Thread, SelectThread(t) PROVE ReapedInv'
  BY <1>12 DEF SelectThread, AtPrompt, Tracked
<1>13. CASE ContinueCommand
  BY <1>13 DEF ContinueCommand, AtPrompt, Stopped
<1>14. CASE ResumeCommand
  BY <1>14 DEF ResumeCommand, AtPrompt
<1>15. CASE StepInstruction
  BY <1>15, StepInstructionEffect, StepInstructionSite DEF AtPrompt
<1>16. CASE CtrlC
  BY <1>16 DEF CtrlC
<1>17. ASSUME NEW t \in Thread, StepOverNothing(t) PROVE ReapedInv'
  BY <1>17 DEF StepOverNothing
<1>18. ASSUME NEW t \in Thread, StepOverBreakpoint(t) PROVE ReapedInv'
  BY <1>18 DEF StepOverBreakpoint
<1>19. ASSUME NEW t \in Thread, ContinueThread(t) PROVE ReapedInv'
  BY <1>19 DEF ContinueThread, Restart, SetState
<1>20. ASSUME NEW t \in Thread, ContinueFails(t) PROVE ReapedInv'
  BY <1>20 DEF ContinueFails
<1>21. ASSUME NEW t \in Thread, CloneEvent(t) PROVE ReapedInv'
  BY <1>21 DEF CloneEvent, Waited, Reportable, ReapAndContinue, Tracked
<1>22. ASSUME NEW t \in Thread, NewThread(t) PROVE ReapedInv'
  BY <1>22 DEF NewThread, Waited, Reportable, ReapAndContinue, SetState, Tracked
<1>23. ASSUME NEW t \in Thread, PendingStop(t) PROVE ReapedInv'
  BY <1>23 DEF PendingStop, Waited, Reportable, ReapAndContinue, SetState, Tracked, IsSigstop
<1>24. ASSUME NEW t \in Thread, HandlerResumes(t) PROVE ReapedInv'
  BY <1>24 DEF HandlerResumes, Waited, Reportable, ReapAndContinue, SetState, Tracked, Rewound
<1>25. ASSUME NEW t \in Thread, ReportStop(t) PROVE ReapedInv'
  BY <1>25 DEF ReportStop, Waited, Reportable, Reap, SetState, Tracked, IsSigstop, Rewound
<1>26. ASSUME NEW t \in Thread, ThreadExits(t) PROVE ReapedInv'
  BY <1>26 DEF ThreadExits, Waited, Reportable, Reap, SetState
<1>27. ASSUME NEW t \in Thread, SendSigstop(t) PROVE ReapedInv'
  BY <1>27 DEF SendSigstop, Alive
<1>28. CASE SwallowNothing
  BY <1>28 DEF SwallowNothing
<1>29. CASE SwallowContinues
  BY <1>29 DEF SwallowContinues, Restart
<1>30. CASE Swallowed
  BY <1>30 DEF Swallowed, Reportable, Reap
<1>31. CASE SingleStep
  BY <1>31 DEF SingleStep, Restart, SetState
<1>32. CASE SingleStepFails
  BY <1>32 DEF SingleStepFails
<1>33. CASE StepOverDone
  BY <1>33 DEF StepOverDone, Reportable, Reap
<1>34. CASE StartPass2
  BY <1>34 DEF StartPass2, Stopped
<1>35. CASE StartWait
  BY <1>35 DEF StartWait
<1>36. CASE MainExits
  BY <1>36 DEF MainExits, Waited, Reportable, Reap, SetState
<1>37. CASE CollectStop
  BY <1>37 DEF CollectStop, Reportable, Reap, SetState, IsSigstop, Rewound
<1>38. CASE CollectExit
  BY <1>38 DEF CollectExit, Reportable, Reap, SetState
<1>39. CASE CollectFails
  BY <1>39 DEF CollectFails
<1>40. CASE Return
  BY <1>40, ReturnEffect, ReturnSite, ReturnFlags
<1>41. CASE UNCHANGED vars
  BY <1>41 DEF vars
<1>. QED BY <1>1, <1>2, <1>3, <1>4, <1>5, <1>6, <1>7, <1>8, <1>9, <1>10, 
         <1>11, <1>12, <1>13, <1>14, <1>15, <1>16, <1>17, <1>18, <1>19, 
         <1>20, <1>21, <1>22, <1>23, <1>24, <1>25, <1>26, <1>27, <1>28, 
         <1>29, <1>30, <1>31, <1>32, <1>33, <1>34, <1>35, <1>36, <1>37, 
         <1>38, <1>39, <1>40, <1>41
         DEF Next, User, Debugger, Kernel

(* Every step keeps what is said of the flags.                             *)
LEMMA FlagStep == TypeOK /\ ControlInv /\ FlagInv /\ [Next]_vars => FlagInv'
<1> SUFFICES ASSUME TypeOK, ControlInv, FlagInv, [Next]_vars PROVE FlagInv'
  OBVIOUS
<1> USE DEF TypeOK, ControlInv, UnmetInv, LoopInv,
            FlagInv, StepOverPhases, Tracked, kernel, dbg
<1>1. ASSUME NEW t \in Thread, EnterUser(t) PROVE FlagInv'
  BY <1>1 DEF EnterUser
<1>2. ASSUME NEW t \in Thread, Deliver(t) PROVE FlagInv'
  BY <1>2 DEF Deliver, Halt
<1>3. ASSUME NEW t \in Thread, DeliverShared(t) PROVE FlagInv'
  BY <1>3 DEF DeliverShared, Halt
<1>4. ASSUME NEW t \in Thread, Arrive(t) PROVE FlagInv'
  BY <1>4 DEF Arrive
<1>5. ASSUME NEW t \in Thread, Hit(t) PROVE FlagInv'
  BY <1>5 DEF Hit, Halt
<1>6. ASSUME NEW t \in Thread, Execute(t) PROVE FlagInv'
  BY <1>6 DEF Execute
<1>7. ASSUME NEW t \in Thread, StepDone(t) PROVE FlagInv'
  BY <1>7 DEF StepDone, Halt
<1>8. ASSUME NEW t \in Thread, NEW c \in Thread, Clone(t, c) PROVE FlagInv'
  BY <1>8 DEF Clone
<1>9. ASSUME NEW t \in Thread, SendUser(t) PROVE FlagInv'
  BY <1>9 DEF SendUser, Alive
<1>10. ASSUME NEW t \in Thread, Exit(t) PROVE FlagInv'
  BY <1>10 DEF Exit
<1>11. ASSUME NEW t \in Thread, ExitGroup(t) PROVE FlagInv'
  BY <1>11 DEF ExitGroup, Alive
<1>12. ASSUME NEW t \in Thread, SelectThread(t) PROVE FlagInv'
  BY <1>12 DEF SelectThread, AtPrompt, Tracked
<1>13. CASE ContinueCommand
  BY <1>13 DEF ContinueCommand, AtPrompt, Stopped
<1>14. CASE ResumeCommand
  BY <1>14 DEF ResumeCommand, AtPrompt
<1>15. CASE StepInstruction
  BY <1>15, StepInstructionEffect, StepInstructionSite DEF AtPrompt
<1>16. CASE CtrlC
  BY <1>16 DEF CtrlC
<1>17. ASSUME NEW t \in Thread, StepOverNothing(t) PROVE FlagInv'
  BY <1>17 DEF StepOverNothing
<1>18. ASSUME NEW t \in Thread, StepOverBreakpoint(t) PROVE FlagInv'
  BY <1>18 DEF StepOverBreakpoint
<1>19. ASSUME NEW t \in Thread, ContinueThread(t) PROVE FlagInv'
  BY <1>19 DEF ContinueThread, Restart, SetState
<1>20. ASSUME NEW t \in Thread, ContinueFails(t) PROVE FlagInv'
  BY <1>20 DEF ContinueFails
<1>21. ASSUME NEW t \in Thread, CloneEvent(t) PROVE FlagInv'
  BY <1>21 DEF CloneEvent, Waited, Reportable, ReapAndContinue, Tracked
<1>22. ASSUME NEW t \in Thread, NewThread(t) PROVE FlagInv'
  BY <1>22 DEF NewThread, Waited, Reportable, ReapAndContinue, SetState, Tracked
<1>23. ASSUME NEW t \in Thread, PendingStop(t) PROVE FlagInv'
  BY <1>23 DEF PendingStop, Waited, Reportable, ReapAndContinue, SetState, Tracked, IsSigstop
<1>24. ASSUME NEW t \in Thread, HandlerResumes(t) PROVE FlagInv'
  BY <1>24 DEF HandlerResumes, Waited, Reportable, ReapAndContinue, SetState, Tracked, Rewound
<1>25. ASSUME NEW t \in Thread, ReportStop(t) PROVE FlagInv'
  BY <1>25 DEF ReportStop, Waited, Reportable, Reap, SetState, Tracked, IsSigstop, Rewound
<1>26. ASSUME NEW t \in Thread, ThreadExits(t) PROVE FlagInv'
  BY <1>26 DEF ThreadExits, Waited, Reportable, Reap, SetState
<1>27. ASSUME NEW t \in Thread, SendSigstop(t) PROVE FlagInv'
  BY <1>27 DEF SendSigstop, Alive
<1>28. CASE SwallowNothing
  BY <1>28 DEF SwallowNothing
<1>29. CASE SwallowContinues
  BY <1>29 DEF SwallowContinues, Restart
<1>30. CASE Swallowed
  BY <1>30 DEF Swallowed, Reportable, Reap
<1>31. CASE SingleStep
  BY <1>31 DEF SingleStep, Restart, SetState
<1>32. CASE SingleStepFails
  BY <1>32 DEF SingleStepFails
<1>33. CASE StepOverDone
  BY <1>33 DEF StepOverDone, Reportable, Reap
<1>34. CASE StartPass2
  BY <1>34 DEF StartPass2, Stopped
<1>35. CASE StartWait
  BY <1>35 DEF StartWait
<1>36. CASE MainExits
  BY <1>36 DEF MainExits, Waited, Reportable, Reap, SetState
<1>37. CASE CollectStop
  BY <1>37 DEF CollectStop, Reportable, Reap, SetState, IsSigstop, Rewound
<1>38. CASE CollectExit
  BY <1>38 DEF CollectExit, Reportable, Reap, SetState
<1>39. CASE CollectFails
  BY <1>39 DEF CollectFails
<1>40. CASE Return
  BY <1>40, ReturnEffect, ReturnSite, ReturnFlags
<1>41. CASE UNCHANGED vars
  BY <1>41 DEF vars
<1>. QED BY <1>1, <1>2, <1>3, <1>4, <1>5, <1>6, <1>7, <1>8, <1>9, <1>10, 
         <1>11, <1>12, <1>13, <1>14, <1>15, <1>16, <1>17, <1>18, <1>19, 
         <1>20, <1>21, <1>22, <1>23, <1>24, <1>25, <1>26, <1>27, <1>28, 
         <1>29, <1>30, <1>31, <1>32, <1>33, <1>34, <1>35, <1>36, <1>37, 
         <1>38, <1>39, <1>40, <1>41
         DEF Next, User, Debugger, Kernel

(* Every step keeps what is said of the site.                              *)
LEMMA SiteStep == TypeOK /\ ControlInv /\ WaitInv /\ SiteInv /\ [Next]_vars => SiteInv'
<1> SUFFICES ASSUME TypeOK, ControlInv, WaitInv, SiteInv, [Next]_vars PROVE SiteInv'
  OBVIOUS
<1> USE DEF TypeOK, ControlInv, StatusInv, LoopInv, WaitInv, VisitInv,
            SiteInv, StepOverPhases, Tracked, kernel, dbg
<1>1. ASSUME NEW t \in Thread, EnterUser(t) PROVE SiteInv'
  BY <1>1 DEF EnterUser
<1>2. ASSUME NEW t \in Thread, Deliver(t) PROVE SiteInv'
  BY <1>2 DEF Deliver, Halt
<1>3. ASSUME NEW t \in Thread, DeliverShared(t) PROVE SiteInv'
  BY <1>3 DEF DeliverShared, Halt
<1>4. ASSUME NEW t \in Thread, Arrive(t) PROVE SiteInv'
  BY <1>4 DEF Arrive
<1>5. ASSUME NEW t \in Thread, Hit(t) PROVE SiteInv'
  BY <1>5 DEF Hit, Halt
<1>6. ASSUME NEW t \in Thread, Execute(t) PROVE SiteInv'
  BY <1>6 DEF Execute
<1>7. ASSUME NEW t \in Thread, StepDone(t) PROVE SiteInv'
  BY <1>7 DEF StepDone, Halt
<1>8. ASSUME NEW t \in Thread, NEW c \in Thread, Clone(t, c) PROVE SiteInv'
  BY <1>8 DEF Clone
<1>9. ASSUME NEW t \in Thread, SendUser(t) PROVE SiteInv'
  BY <1>9 DEF SendUser, Alive
<1>10. ASSUME NEW t \in Thread, Exit(t) PROVE SiteInv'
  BY <1>10 DEF Exit
<1>11. ASSUME NEW t \in Thread, ExitGroup(t) PROVE SiteInv'
  BY <1>11 DEF ExitGroup, Alive
<1>12. ASSUME NEW t \in Thread, SelectThread(t) PROVE SiteInv'
  BY <1>12 DEF SelectThread, AtPrompt, Tracked
<1>13. CASE ContinueCommand
  BY <1>13 DEF ContinueCommand, AtPrompt, Stopped
<1>14. CASE ResumeCommand
  BY <1>14 DEF ResumeCommand, AtPrompt
<1>15. CASE StepInstruction
  BY <1>15, StepInstructionEffect, StepInstructionSite DEF AtPrompt
<1>16. CASE CtrlC
  BY <1>16 DEF CtrlC
<1>17. ASSUME NEW t \in Thread, StepOverNothing(t) PROVE SiteInv'
  BY <1>17 DEF StepOverNothing
<1>18. ASSUME NEW t \in Thread, StepOverBreakpoint(t) PROVE SiteInv'
  BY <1>18 DEF StepOverBreakpoint
<1>19. ASSUME NEW t \in Thread, ContinueThread(t) PROVE SiteInv'
  BY <1>19 DEF ContinueThread, Restart, SetState
<1>20. ASSUME NEW t \in Thread, ContinueFails(t) PROVE SiteInv'
  BY <1>20 DEF ContinueFails
<1>21. ASSUME NEW t \in Thread, CloneEvent(t) PROVE SiteInv'
  BY <1>21 DEF CloneEvent, Waited, Reportable, ReapAndContinue, Tracked
<1>22. ASSUME NEW t \in Thread, NewThread(t) PROVE SiteInv'
  BY <1>22 DEF NewThread, Waited, Reportable, ReapAndContinue, SetState, Tracked
<1>23. ASSUME NEW t \in Thread, PendingStop(t) PROVE SiteInv'
  BY <1>23 DEF PendingStop, Waited, Reportable, ReapAndContinue, SetState, Tracked, IsSigstop
<1>24. ASSUME NEW t \in Thread, HandlerResumes(t) PROVE SiteInv'
  BY <1>24 DEF HandlerResumes, Waited, Reportable, ReapAndContinue, SetState, Tracked, Rewound
<1>25. ASSUME NEW t \in Thread, ReportStop(t) PROVE SiteInv'
  BY <1>25 DEF ReportStop, Waited, Reportable, Reap, SetState, Tracked, IsSigstop, Rewound
<1>26. ASSUME NEW t \in Thread, ThreadExits(t) PROVE SiteInv'
  BY <1>26 DEF ThreadExits, Waited, Reportable, Reap, SetState
<1>27. ASSUME NEW t \in Thread, SendSigstop(t) PROVE SiteInv'
  BY <1>27 DEF SendSigstop, Alive
<1>28. CASE SwallowNothing
  BY <1>28 DEF SwallowNothing
<1>29. CASE SwallowContinues
  BY <1>29 DEF SwallowContinues, Restart
<1>30. CASE Swallowed
  BY <1>30 DEF Swallowed, Reportable, Reap
<1>31. CASE SingleStep
  BY <1>31 DEF SingleStep, Restart, SetState
<1>32. CASE SingleStepFails
  BY <1>32 DEF SingleStepFails
<1>33. CASE StepOverDone
  BY <1>33 DEF StepOverDone, Reportable, Reap
<1>34. CASE StartPass2
  BY <1>34 DEF StartPass2, Stopped
<1>35. CASE StartWait
  BY <1>35 DEF StartWait
<1>36. CASE MainExits
  BY <1>36 DEF MainExits, Waited, Reportable, Reap, SetState
<1>37. CASE CollectStop
  BY <1>37 DEF CollectStop, Reportable, Reap, SetState, IsSigstop, Rewound
<1>38. CASE CollectExit
  BY <1>38 DEF CollectExit, Reportable, Reap, SetState
<1>39. CASE CollectFails
  BY <1>39 DEF CollectFails
<1>40. CASE Return
  BY <1>40, ReturnEffect, ReturnSite, ReturnFlags
<1>41. CASE UNCHANGED vars
  BY <1>41 DEF vars
<1>. QED BY <1>1, <1>2, <1>3, <1>4, <1>5, <1>6, <1>7, <1>8, <1>9, <1>10, 
         <1>11, <1>12, <1>13, <1>14, <1>15, <1>16, <1>17, <1>18, <1>19, 
         <1>20, <1>21, <1>22, <1>23, <1>24, <1>25, <1>26, <1>27, <1>28, 
         <1>29, <1>30, <1>31, <1>32, <1>33, <1>34, <1>35, <1>36, <1>37, 
         <1>38, <1>39, <1>40, <1>41
         DEF Next, User, Debugger, Kernel

BookInv == ReapedInv /\ FlagInv /\ SiteInv

(* Init establishes all of it.                                             *)
LEMMA BookInit == Init => BookInv
  BY DEF Init, BookInv, ReapedInv, FlagInv, SiteInv, StepOverPhases

LEMMA BookCorrect == Spec => [](TypeOK /\ ControlInv /\ WaitInv /\ BookInv)
<1>1. BookInv <=> ReapedInv /\ FlagInv /\ SiteInv
  BY DEF BookInv
<1>. QED BY <1>1, WaitCorrect, BookInit, ReapedStep, FlagStep, SiteStep, PTL DEF Spec

(* Every step keeps what is said of the debugger's own SIGSTOPs.           *)
LEMMA QuietStep ==
  TypeOK /\ ControlInv /\ ReapedInv /\ FlagInv /\ (sent = 0 => QuietInv) /\ [Next]_vars
    => (sent' = 0 => QuietInv')
<1> SUFFICES ASSUME TypeOK, ControlInv, ReapedInv, FlagInv, sent = 0 => QuietInv, [Next]_vars,
                    sent' = 0
             PROVE  QuietInv'
  OBVIOUS
<1> USE DEF TypeOK, ControlInv, StatusInv, UnmetInv, LoopInv, ReapedInv, FlagInv, QuietInv,
            Outstanding, StepOverPhases, Tracked, kernel, dbg
<1>1. ASSUME NEW t \in Thread, EnterUser(t) PROVE QuietInv'
  BY <1>1 DEF EnterUser
<1>2. ASSUME NEW t \in Thread, Deliver(t) PROVE QuietInv'
  BY <1>2 DEF Deliver, Halt
<1>3. ASSUME NEW t \in Thread, DeliverShared(t) PROVE QuietInv'
  BY <1>3 DEF DeliverShared, Halt
<1>4. ASSUME NEW t \in Thread, Arrive(t) PROVE QuietInv'
  BY <1>4 DEF Arrive
<1>5. ASSUME NEW t \in Thread, Hit(t) PROVE QuietInv'
  BY <1>5 DEF Hit, Halt
<1>6. ASSUME NEW t \in Thread, Execute(t) PROVE QuietInv'
  BY <1>6 DEF Execute
<1>7. ASSUME NEW t \in Thread, StepDone(t) PROVE QuietInv'
  BY <1>7 DEF StepDone, Halt
<1>8. ASSUME NEW t \in Thread, NEW c \in Thread, Clone(t, c) PROVE QuietInv'
  BY <1>8 DEF Clone
<1>9. ASSUME NEW t \in Thread, SendUser(t) PROVE QuietInv'
  BY <1>9 DEF SendUser, Alive
<1>10. ASSUME NEW t \in Thread, Exit(t) PROVE QuietInv'
  BY <1>10 DEF Exit
<1>11. ASSUME NEW t \in Thread, ExitGroup(t) PROVE QuietInv'
  BY <1>11 DEF ExitGroup, Alive
<1>12. ASSUME NEW t \in Thread, SelectThread(t) PROVE QuietInv'
  BY <1>12 DEF SelectThread, AtPrompt, Tracked
<1>13. CASE ContinueCommand
  BY <1>13 DEF ContinueCommand, AtPrompt, Stopped
<1>14. CASE ResumeCommand
  BY <1>14 DEF ResumeCommand, AtPrompt
<1>15. CASE StepInstruction
  BY <1>15, StepInstructionEffect, StepInstructionSite DEF AtPrompt
<1>16. CASE CtrlC
  BY <1>16 DEF CtrlC
<1>17. ASSUME NEW t \in Thread, StepOverNothing(t) PROVE QuietInv'
  BY <1>17 DEF StepOverNothing
<1>18. ASSUME NEW t \in Thread, StepOverBreakpoint(t) PROVE QuietInv'
  BY <1>18 DEF StepOverBreakpoint
<1>19. ASSUME NEW t \in Thread, ContinueThread(t) PROVE QuietInv'
  BY <1>19 DEF ContinueThread, Restart, SetState
<1>20. ASSUME NEW t \in Thread, ContinueFails(t) PROVE QuietInv'
  BY <1>20 DEF ContinueFails
<1>21. ASSUME NEW t \in Thread, CloneEvent(t) PROVE QuietInv'
  BY <1>21 DEF CloneEvent, Waited, Reportable, ReapAndContinue, Tracked
<1>22. ASSUME NEW t \in Thread, NewThread(t) PROVE QuietInv'
  BY <1>22 DEF NewThread, Waited, Reportable, ReapAndContinue, SetState, Tracked
<1>23. ASSUME NEW t \in Thread, PendingStop(t) PROVE QuietInv'
  BY <1>23 DEF PendingStop, Waited, Reportable, ReapAndContinue, SetState, Tracked, IsSigstop
<1>24. ASSUME NEW t \in Thread, HandlerResumes(t) PROVE QuietInv'
  BY <1>24 DEF HandlerResumes, Waited, Reportable, ReapAndContinue, SetState, Tracked, Rewound
<1>25. ASSUME NEW t \in Thread, ReportStop(t) PROVE QuietInv'
  BY <1>25 DEF ReportStop, Waited, Reportable, Reap, SetState, Tracked, IsSigstop, Rewound
<1>26. ASSUME NEW t \in Thread, ThreadExits(t) PROVE QuietInv'
  BY <1>26 DEF ThreadExits, Waited, Reportable, Reap, SetState
<1>27. ASSUME NEW t \in Thread, SendSigstop(t) PROVE QuietInv'
  BY <1>27 DEF SendSigstop, Alive
<1>28. CASE SwallowNothing
  BY <1>28 DEF SwallowNothing
<1>29. CASE SwallowContinues
  <2>1. CASE Restart(me, "cont")
    BY <1>29, <2>1 DEF SwallowContinues, Restart
  <2>2. CASE run[me] # "stop" /\ UNCHANGED <<run, ev, mode>>
    <3>1. "STOP" \in sig[me] => run[me] = "ret"
      BY <1>29, <2>2 DEF SwallowContinues
    <3>. QED BY <1>29, <2>2, <3>1 DEF SwallowContinues
  <2>. QED BY <1>29, <2>1, <2>2 DEF SwallowContinues
<1>30. CASE Swallowed
  BY <1>30 DEF Swallowed, Reportable, Reap
<1>31. CASE SingleStep
  BY <1>31 DEF SingleStep, Restart, SetState
<1>32. CASE SingleStepFails
  BY <1>32 DEF SingleStepFails
<1>33. CASE StepOverDone
  BY <1>33 DEF StepOverDone, Reportable, Reap
<1>34. CASE StartPass2
  BY <1>34 DEF StartPass2, Stopped
<1>35. CASE StartWait
  BY <1>35 DEF StartWait
<1>36. CASE MainExits
  BY <1>36 DEF MainExits, Waited, Reportable, Reap, SetState
<1>37. CASE CollectStop
  <2>1. /\ phase = "collect" /\ phase' = "stopping" /\ ev[me] # "none"
        /\ ev' = [ev EXCEPT ![me] = "none"] /\ st' = [st EXCEPT ![me] = "stopped"]
        /\ UNCHANGED <<sig, shared, sent, me>>
    BY <1>37, CollectStopEffect DEF Reap, Reportable
  <2>2. ASSUME NEW t \in Thread, Outstanding(t)', Tracked(t)' PROVE pend'[t] = TRUE
    <3>1. CASE t = me
      <4>1. ev[me] \notin {"STOP", "CTRLC"}
        BY <2>1, <2>2, <3>1
      <4>. QED BY <1>37, CollectStopFlags, <3>1, <4>1
    <3>2. CASE t # me
      <4>1. pend[t] = TRUE
        BY <2>1, <2>2, <3>2
      <4>. QED BY <1>37, CollectStopFlags, <3>2, <4>1
    <3>. QED BY <3>1, <3>2
  <2>3. \A t \in Thread : ev'[t] \in {ev[t], "none"}
    BY <2>1
  <2>4. \A t \in Thread : /\ "USR" \notin sig'[t] /\ ev'[t] \notin {"USR", "CTRLC"}
                          /\ ev'[t] = "STOP" => "STOP" \notin sig'[t]
    BY <2>1, <2>3
  <2>5. ASSUME NEW t \in Thread, run'[t] = "user", "STOP" \in sig'[t] PROVE FALSE
    <3>1. me \in Thread /\ run[me] = "stop"
      BY <1>37, CollectStopEffect DEF Reportable
    <3>2. run'[t] = run[t]
      BY <1>37, <3>1, CollectStopEffect DEF Reap
    <3>3. t = me
      BY <2>1, <2>5, <3>2
    <3>. QED BY <2>5, <3>1, <3>2, <3>3
  <2>. QED BY <2>1, <2>2, <2>4, <2>5
<1>38. CASE CollectExit
  BY <1>38 DEF CollectExit, Reportable, Reap, SetState
<1>39. CASE CollectFails
  BY <1>39 DEF CollectFails
<1>40. CASE Return
  <2>1. phase = "stopping" /\ phase' \in {"prompt", "exited"} /\ UNCHANGED <<ev, sig, shared, sent, me, run>>
    BY <1>40, ReturnEffect
  <2>2. ASSUME NEW t \in Thread, Outstanding(t)', Tracked(t)' PROVE pend'[t] = TRUE
    <3>1. st[t] # "untracked"
      BY <1>40, <2>2, ReturnEffect
    <3>2. pend[t] = TRUE
      BY <2>1, <2>2, <3>1
    <3>. QED BY <1>40, <2>2, <3>2, ReturnFlags
  <2>. QED BY <2>1, <2>2
<1>41. CASE UNCHANGED vars
  BY <1>41 DEF vars
<1>. QED BY <1>1, <1>2, <1>3, <1>4, <1>5, <1>6, <1>7, <1>8, <1>9, <1>10, 
         <1>11, <1>12, <1>13, <1>14, <1>15, <1>16, <1>17, <1>18, <1>19, 
         <1>20, <1>21, <1>22, <1>23, <1>24, <1>25, <1>26, <1>27, <1>28, 
         <1>29, <1>30, <1>31, <1>32, <1>33, <1>34, <1>35, <1>36, <1>37, 
         <1>38, <1>39, <1>40, <1>41
         DEF Next, User, Debugger, Kernel

(* The single step that follows swallowPendingSigstop is not cut short by  *)
(* a SIGSTOP of stopRunningThreads, as long as nobody else sends signals.  *)
THEOREM NoSigstopLeft == Spec => []SwallowLeavesNoSigstop
<1> DEFINE Quiet == sent = 0 => QuietInv
<1>1. Init => Quiet
  BY DEF Init, QuietInv, Outstanding, Tracked
<1>2. TypeOK /\ ControlInv /\ BookInv /\ Quiet /\ [Next]_vars => Quiet'
  BY QuietStep DEF BookInv
<1>3. Quiet => SwallowLeavesNoSigstop
  BY DEF QuietInv, SwallowLeavesNoSigstop
<1>. QED BY <1>1, <1>2, <1>3, BookCorrect, PTL DEF Spec

-----------------------------------------------------------------------------
(* Programs whose threads do not end one by one.                           *)

(* exit_group leaves nobody alive, and nobody comes to life after it.      *)
LEMMA GroupStep ==
  ASSUME "exit" \notin World
  PROVE  TypeOK /\ ControlInv /\ GroupInv /\ [Next]_vars => GroupInv'
<1> SUFFICES ASSUME TypeOK, ControlInv, GroupInv, [Next]_vars PROVE GroupInv'
  OBVIOUS
<1> USE DEF TypeOK, ControlInv, StatusInv, GroupInv, NobodyAlive, Alive, kernel, dbg
<1>1. ASSUME NEW t \in Thread, EnterUser(t) PROVE GroupInv'
  BY <1>1 DEF EnterUser
<1>2. ASSUME NEW t \in Thread, Deliver(t) PROVE GroupInv'
  BY <1>2 DEF Deliver, Halt
<1>3. ASSUME NEW t \in Thread, DeliverShared(t) PROVE GroupInv'
  BY <1>3 DEF DeliverShared, Halt
<1>4. ASSUME NEW t \in Thread, Arrive(t) PROVE GroupInv'
  BY <1>4 DEF Arrive
<1>5. ASSUME NEW t \in Thread, Hit(t) PROVE GroupInv'
  BY <1>5 DEF Hit, Halt
<1>6. ASSUME NEW t \in Thread, Execute(t) PROVE GroupInv'
  BY <1>6 DEF Execute
<1>7. ASSUME NEW t \in Thread, StepDone(t) PROVE GroupInv'
  BY <1>7 DEF StepDone, Halt
<1>8. ASSUME NEW t \in Thread, NEW c \in Thread, Clone(t, c) PROVE GroupInv'
  BY <1>8 DEF Clone
<1>9. ASSUME NEW t \in Thread, SendUser(t) PROVE GroupInv'
  BY <1>9 DEF SendUser, Alive
<1>10. ASSUME NEW t \in Thread, Exit(t) PROVE GroupInv'
  BY <1>10 DEF Exit
<1>11. ASSUME NEW t \in Thread, ExitGroup(t) PROVE GroupInv'
  BY <1>11 DEF ExitGroup, Alive
<1>12. ASSUME NEW t \in Thread, SelectThread(t) PROVE GroupInv'
  BY <1>12 DEF SelectThread, AtPrompt, Tracked
<1>13. CASE ContinueCommand
  BY <1>13 DEF ContinueCommand, AtPrompt, Stopped
<1>14. CASE ResumeCommand
  BY <1>14 DEF ResumeCommand, AtPrompt
<1>15. CASE StepInstruction
  BY <1>15, StepInstructionEffect DEF AtPrompt
<1>16. CASE CtrlC
  BY <1>16 DEF CtrlC
<1>17. ASSUME NEW t \in Thread, StepOverNothing(t) PROVE GroupInv'
  BY <1>17 DEF StepOverNothing
<1>18. ASSUME NEW t \in Thread, StepOverBreakpoint(t) PROVE GroupInv'
  BY <1>18 DEF StepOverBreakpoint
<1>19. ASSUME NEW t \in Thread, ContinueThread(t) PROVE GroupInv'
  BY <1>19 DEF ContinueThread, Restart, SetState
<1>20. ASSUME NEW t \in Thread, ContinueFails(t) PROVE GroupInv'
  BY <1>20 DEF ContinueFails
<1>21. ASSUME NEW t \in Thread, CloneEvent(t) PROVE GroupInv'
  BY <1>21 DEF CloneEvent, Waited, Reportable, ReapAndContinue, Tracked
<1>22. ASSUME NEW t \in Thread, NewThread(t) PROVE GroupInv'
  BY <1>22 DEF NewThread, Waited, Reportable, ReapAndContinue, SetState, Tracked
<1>23. ASSUME NEW t \in Thread, PendingStop(t) PROVE GroupInv'
  BY <1>23 DEF PendingStop, Waited, Reportable, ReapAndContinue, SetState, Tracked, IsSigstop
<1>24. ASSUME NEW t \in Thread, HandlerResumes(t) PROVE GroupInv'
  BY <1>24 DEF HandlerResumes, Waited, Reportable, ReapAndContinue, SetState, Tracked, Rewound
<1>25. ASSUME NEW t \in Thread, ReportStop(t) PROVE GroupInv'
  BY <1>25 DEF ReportStop, Waited, Reportable, Reap, SetState, Tracked, IsSigstop, Rewound
<1>26. ASSUME NEW t \in Thread, ThreadExits(t) PROVE GroupInv'
  BY <1>26 DEF ThreadExits, Waited, Reportable, Reap, SetState
<1>27. ASSUME NEW t \in Thread, SendSigstop(t) PROVE GroupInv'
  BY <1>27 DEF SendSigstop, Alive
<1>28. CASE SwallowNothing
  BY <1>28 DEF SwallowNothing
<1>29. CASE SwallowContinues
  BY <1>29 DEF SwallowContinues, Restart
<1>30. CASE Swallowed
  BY <1>30 DEF Swallowed, Reportable, Reap
<1>31. CASE SingleStep
  BY <1>31 DEF SingleStep, Restart, SetState
<1>32. CASE SingleStepFails
  BY <1>32 DEF SingleStepFails
<1>33. CASE StepOverDone
  BY <1>33 DEF StepOverDone, Reportable, Reap
<1>34. CASE StartPass2
  BY <1>34 DEF StartPass2, Stopped
<1>35. CASE StartWait
  BY <1>35 DEF StartWait
<1>36. CASE MainExits
  BY <1>36 DEF MainExits, Waited, Reportable, Reap, SetState
<1>37. CASE CollectStop
  BY <1>37 DEF CollectStop, Reportable, Reap, SetState, IsSigstop, Rewound
<1>38. CASE CollectExit
  BY <1>38 DEF CollectExit, Reportable, Reap, SetState
<1>39. CASE CollectFails
  BY <1>39 DEF CollectFails
<1>40. CASE Return
  BY <1>40, ReturnEffect
<1>41. CASE UNCHANGED vars
  BY <1>41 DEF vars
<1>. QED BY <1>1, <1>2, <1>3, <1>4, <1>5, <1>6, <1>7, <1>8, <1>9, <1>10, 
         <1>11, <1>12, <1>13, <1>14, <1>15, <1>16, <1>17, <1>18, <1>19, 
         <1>20, <1>21, <1>22, <1>23, <1>24, <1>25, <1>26, <1>27, <1>28, 
         <1>29, <1>30, <1>31, <1>32, <1>33, <1>34, <1>35, <1>36, <1>37, 
         <1>38, <1>39, <1>40, <1>41
         DEF Next, User, Debugger, Kernel

(* While somebody is alive no command has failed: before the threads are   *)
(* continued each one in p.threads is listed as stopped and waits with its *)
(* status taken.                                                           *)
LEMMA AtRest ==
  ASSUME TypeOK, ControlInv, WaitInv, BookInv, GroupInv, NEW t \in Thread, Alive(t), Tracked(t),
         \/ phase \in {"prompt", "error", "pass1"} \cup StepOverPhases
         \/ phase = "pass2" /\ t \in todo
  PROVE  /\ st[t] = "stopped"
         /\ ~(t = me /\ phase \in {"swallowing", "stepwait"}) => run[t] = "stop" /\ ev[t] = "none"
<1>1. \A u \in Thread : ~Ended(u)
  BY DEF GroupInv, NobodyAlive, Ended
<1>2. st[t] = "stopped"
  <2>1. st[t] # "exited"
    BY DEF ControlInv, UnmetInv, Alive
  <2>2. CASE phase = "pass2" /\ cmd = "continue"
    BY <2>2 DEF WaitInv, VisitInv, Stopped, StepOverPhases
  <2>3. CASE ~(phase = "pass2" /\ cmd = "continue")
    <3>1. phase = "pass2" => cmd = "resume" /\ todo # {}
      BY <2>3 DEF WaitInv, VisitInv, StepOverPhases
    <3>2. st[t] # "running"
      BY <1>1, <3>1 DEF WaitInv, FailedInv
    <3>. QED BY <2>1, <3>2 DEF TypeOK, Tracked
  <2>. QED BY <2>2, <2>3
<1>3. ~(t = me /\ phase \in {"swallowing", "stepwait"}) => run[t] = "stop"
  BY <1>2 DEF ControlInv, StoppedMeansStopped, Alive
<1>. QED BY <1>2, <1>3 DEF BookInv, ReapedInv

(* Every step keeps the SIGSTOPs that the flags announce queued.           *)
LEMMA QueuedStep ==
  TypeOK /\ ControlInv /\ WaitInv /\ BookInv /\ GroupInv /\ QueuedInv /\ [Next]_vars => QueuedInv'
<1> SUFFICES ASSUME TypeOK, ControlInv, WaitInv, BookInv, GroupInv, QueuedInv, [Next]_vars
             PROVE  QueuedInv'
  OBVIOUS
<1>0. \A t \in Thread :
        /\ Alive(t) /\ Tracked(t)
        /\ phase \in {"swallow", "step"} \/ (phase = "pass2" /\ t \in todo)
        => st[t] = "stopped" /\ run[t] = "stop" /\ ev[t] = "none"
  BY AtRest DEF StepOverPhases
<1> USE DEF TypeOK, ControlInv, StatusInv, UnmetInv, LoopInv, BookInv, ReapedInv, FlagInv, QueuedInv,
            PendingIsQueued, Outstanding, Alive, StepOverPhases, Tracked, kernel, dbg
<1>1. ASSUME NEW t \in Thread, EnterUser(t) PROVE QueuedInv'
  BY <1>1 DEF EnterUser
<1>2. ASSUME NEW t \in Thread, Deliver(t) PROVE QueuedInv'
  BY <1>2 DEF Deliver, Halt
<1>3. ASSUME NEW t \in Thread, DeliverShared(t) PROVE QueuedInv'
  BY <1>3 DEF DeliverShared, Halt
<1>4. ASSUME NEW t \in Thread, Arrive(t) PROVE QueuedInv'
  BY <1>4 DEF Arrive
<1>5. ASSUME NEW t \in Thread, Hit(t) PROVE QueuedInv'
  BY <1>5 DEF Hit, Halt
<1>6. ASSUME NEW t \in Thread, Execute(t) PROVE QueuedInv'
  BY <1>6 DEF Execute
<1>7. ASSUME NEW t \in Thread, StepDone(t) PROVE QueuedInv'
  BY <1>7 DEF StepDone, Halt
<1>8. ASSUME NEW t \in Thread, NEW c \in Thread, Clone(t, c) PROVE QueuedInv'
  BY <1>8 DEF Clone
<1>9. ASSUME NEW t \in Thread, SendUser(t) PROVE QueuedInv'
  BY <1>9 DEF SendUser, Alive
<1>10. ASSUME NEW t \in Thread, Exit(t) PROVE QueuedInv'
  BY <1>10 DEF Exit
<1>11. ASSUME NEW t \in Thread, ExitGroup(t) PROVE QueuedInv'
  BY <1>11 DEF ExitGroup, Alive
<1>12. ASSUME NEW t \in Thread, SelectThread(t) PROVE QueuedInv'
  BY <1>12 DEF SelectThread, AtPrompt, Tracked
<1>13. CASE ContinueCommand
  BY <1>13 DEF ContinueCommand, AtPrompt, Stopped
<1>14. CASE ResumeCommand
  BY <1>14 DEF ResumeCommand, AtPrompt
<1>15. CASE StepInstruction
  BY <1>15, StepInstructionEffect DEF AtPrompt
<1>16. CASE CtrlC
  BY <1>16 DEF CtrlC
<1>17. ASSUME NEW t \in Thread, StepOverNothing(t) PROVE QueuedInv'
  BY <1>17 DEF StepOverNothing
<1>18. ASSUME NEW t \in Thread, StepOverBreakpoint(t) PROVE QueuedInv'
  BY <1>18 DEF StepOverBreakpoint
<1>19. ASSUME NEW t \in Thread, ContinueThread(t) PROVE QueuedInv'
  BY <1>19, <1>0 DEF ContinueThread, Restart, SetState
<1>20. ASSUME NEW t \in Thread, ContinueFails(t) PROVE QueuedInv'
  BY <1>20 DEF ContinueFails
<1>21. ASSUME NEW t \in Thread, CloneEvent(t) PROVE QueuedInv'
  BY <1>21 DEF CloneEvent, Waited, Reportable, ReapAndContinue, Tracked
<1>22. ASSUME NEW t \in Thread, NewThread(t) PROVE QueuedInv'
  BY <1>22 DEF NewThread, Waited, Reportable, ReapAndContinue, SetState, Tracked
<1>23. ASSUME NEW t \in Thread, PendingStop(t) PROVE QueuedInv'
  BY <1>23 DEF PendingStop, Waited, Reportable, ReapAndContinue, SetState, Tracked, IsSigstop
<1>24. ASSUME NEW t \in Thread, HandlerResumes(t) PROVE QueuedInv'
  BY <1>24 DEF HandlerResumes, Waited, Reportable, ReapAndContinue, SetState, Tracked, Rewound
<1>25. ASSUME NEW t \in Thread, ReportStop(t) PROVE QueuedInv'
  BY <1>25 DEF ReportStop, Waited, Reportable, Reap, SetState, Tracked, IsSigstop, Rewound
<1>26. ASSUME NEW t \in Thread, ThreadExits(t) PROVE QueuedInv'
  BY <1>26 DEF ThreadExits, Waited, Reportable, Reap, SetState
<1>27. ASSUME NEW t \in Thread, SendSigstop(t) PROVE QueuedInv'
  BY <1>27 DEF SendSigstop, Alive
<1>28. CASE SwallowNothing
  BY <1>28 DEF SwallowNothing
<1>29. CASE SwallowContinues
  BY <1>29, <1>0 DEF SwallowContinues, Restart
<1>30. CASE Swallowed
  BY <1>30 DEF Swallowed, Reportable, Reap
<1>31. CASE SingleStep
  BY <1>31, <1>0 DEF SingleStep, Restart, SetState
<1>32. CASE SingleStepFails
  BY <1>32 DEF SingleStepFails
<1>33. CASE StepOverDone
  BY <1>33 DEF StepOverDone, Reportable, Reap
<1>34. CASE StartPass2
  BY <1>34 DEF StartPass2, Stopped
<1>35. CASE StartWait
  BY <1>35 DEF StartWait
<1>36. CASE MainExits
  BY <1>36 DEF MainExits, Waited, Reportable, Reap, SetState
<1>37. CASE CollectStop
  <2>1. /\ phase = "collect" /\ phase' = "stopping" /\ ev[me] \notin {"none", "exit"}
        /\ (\A t \in Thread : run'[t] = run[t]) /\ ev' = [ev EXCEPT ![me] = "none"] /\ st' = [st EXCEPT ![me] = "stopped"]
        /\ UNCHANGED <<sig, me>>
    BY <1>37, CollectStopEffect DEF Reap, Reportable
  <2>2. ASSUME NEW t \in Thread, Tracked(t)', pend'[t], Alive(t)', ev'[t] # "STOP"
        PROVE  "STOP" \in sig'[t]
    <3>1. CASE t = me
      <4>1. ev[me] \notin {"STOP", "CTRLC"}
        BY <1>37, <2>2, <3>1, CollectStopFlags
      <4>. QED BY <2>1, <2>2, <3>1, <4>1
    <3>2. CASE t # me
      <4>1. pend[t] # FALSE
        BY <1>37, <2>2, <3>2, CollectStopFlags
      <4>2. pend[t] = TRUE
        BY <4>1, FlagIsBoolean
      <4>. QED BY <2>1, <2>2, <3>2, <4>2
    <3>. QED BY <3>1, <3>2
  <2>. QED BY <2>1, <2>2
<1>38. CASE CollectExit
  BY <1>38 DEF CollectExit, Reportable, Reap, SetState
<1>39. CASE CollectFails
  BY <1>39 DEF CollectFails
<1>40. CASE Return
  <2>1. phase = "stopping" /\ phase' \in {"prompt", "exited"} /\ UNCHANGED <<ev, sig, run>>
    BY <1>40, ReturnEffect
  <2>2. ASSUME NEW t \in Thread, st'[t] # "untracked", pend'[t] PROVE st[t] # "untracked" /\ pend[t] = TRUE
    <3>1. st[t] # "untracked"
      BY <1>40, <2>2, ReturnEffect
    <3>2. pend[t] # FALSE
      BY <1>40, <2>2, ReturnFlags
    <3>. QED BY <3>1, <3>2, FlagIsBoolean
  <2>. QED BY <2>1, <2>2
<1>41. CASE UNCHANGED vars
  BY <1>41 DEF vars
<1>. QED BY <1>1, <1>2, <1>3, <1>4, <1>5, <1>6, <1>7, <1>8, <1>9, <1>10, 
         <1>11, <1>12, <1>13, <1>14, <1>15, <1>16, <1>17, <1>18, <1>19, 
         <1>20, <1>21, <1>22, <1>23, <1>24, <1>25, <1>26, <1>27, <1>28, 
         <1>29, <1>30, <1>31, <1>32, <1>33, <1>34, <1>35, <1>36, <1>37, 
         <1>38, <1>39, <1>40, <1>41
         DEF Next, User, Debugger, Kernel

(* Every step keeps what is said of the traps.                             *)
LEMMA TrapStep ==
  TypeOK /\ ControlInv /\ WaitInv /\ BookInv /\ GroupInv /\ QueuedInv /\ TrapInv /\ [Next]_vars
    => TrapInv'
<1> SUFFICES ASSUME TypeOK, ControlInv, WaitInv, BookInv, GroupInv, QueuedInv, TrapInv, [Next]_vars
             PROVE  TrapInv'
  OBVIOUS
<1>0. \A t \in Thread :
        /\ Alive(t)
        /\ phase \in {"prompt", "error", "pass1", "swallow", "step"} \/ (phase = "pass2" /\ t \in todo)
        => ev[t] # "trap" /\ loc[t] # "past"
  <2> SUFFICES ASSUME NEW t \in Thread, Alive(t),
                      phase \in {"prompt", "error", "pass1", "swallow", "step"}
                        \/ (phase = "pass2" /\ t \in todo)
               PROVE  ev[t] # "trap"
    BY DEF TrapInv
  <2>1. CASE Tracked(t)
    BY <2>1, AtRest DEF StepOverPhases
  <2>2. CASE ~Tracked(t)
    BY <2>2 DEF Tracked, Alive, BookInv, ReapedInv, ControlInv, StatusInv
  <2>. QED BY <2>1, <2>2
<1> USE DEF TypeOK, ControlInv, StatusInv, UnmetInv, LoopInv, BookInv, ReapedInv, SiteInv, QueuedInv,
            TrapInv, Alive, StepOverPhases, Tracked, kernel, dbg
<1>1. ASSUME NEW t \in Thread, EnterUser(t) PROVE TrapInv'
  BY <1>1 DEF EnterUser
<1>2. ASSUME NEW t \in Thread, Deliver(t) PROVE TrapInv'
  BY <1>2 DEF Deliver, Halt
<1>3. ASSUME NEW t \in Thread, DeliverShared(t) PROVE TrapInv'
  BY <1>3 DEF DeliverShared, Halt
<1>4. ASSUME NEW t \in Thread, Arrive(t) PROVE TrapInv'
  BY <1>4 DEF Arrive
<1>5. ASSUME NEW t \in Thread, Hit(t) PROVE TrapInv'
  BY <1>5 DEF Hit, Halt
<1>6. ASSUME NEW t \in Thread, Execute(t) PROVE TrapInv'
  BY <1>6 DEF Execute
<1>7. ASSUME NEW t \in Thread, StepDone(t) PROVE TrapInv'
  BY <1>7 DEF StepDone, Halt
<1>8. ASSUME NEW t \in Thread, NEW c \in Thread, Clone(t, c) PROVE TrapInv'
  BY <1>8 DEF Clone
<1>9. ASSUME NEW t \in Thread, SendUser(t) PROVE TrapInv'
  BY <1>9 DEF SendUser, Alive
<1>10. ASSUME NEW t \in Thread, Exit(t) PROVE TrapInv'
  BY <1>10 DEF Exit
<1>11. ASSUME NEW t \in Thread, ExitGroup(t) PROVE TrapInv'
  BY <1>11 DEF ExitGroup, Alive
<1>12. ASSUME NEW t \in Thread, SelectThread(t) PROVE TrapInv'
  BY <1>12 DEF SelectThread, AtPrompt, Tracked
<1>13. CASE ContinueCommand
  BY <1>13 DEF ContinueCommand, AtPrompt, Stopped
<1>14. CASE ResumeCommand
  BY <1>14 DEF ResumeCommand, AtPrompt
<1>15. CASE StepInstruction
  BY <1>15, <1>0, StepInstructionEffect DEF AtPrompt
<1>16. CASE CtrlC
  BY <1>16 DEF CtrlC
<1>17. ASSUME NEW t \in Thread, StepOverNothing(t) PROVE TrapInv'
  BY <1>17 DEF StepOverNothing
<1>18. ASSUME NEW t \in Thread, StepOverBreakpoint(t) PROVE TrapInv'
  BY <1>18, <1>0 DEF StepOverBreakpoint
<1>19. ASSUME NEW t \in Thread, ContinueThread(t) PROVE TrapInv'
  BY <1>19, <1>0 DEF ContinueThread, Restart, SetState
<1>20. ASSUME NEW t \in Thread, ContinueFails(t) PROVE TrapInv'
  BY <1>20 DEF ContinueFails
<1>21. ASSUME NEW t \in Thread, CloneEvent(t) PROVE TrapInv'
  BY <1>21 DEF CloneEvent, Waited, Reportable, ReapAndContinue, Tracked
<1>22. ASSUME NEW t \in Thread, NewThread(t) PROVE TrapInv'
  BY <1>22 DEF NewThread, Waited, Reportable, ReapAndContinue, SetState, Tracked
<1>23. ASSUME NEW t \in Thread, PendingStop(t) PROVE TrapInv'
  BY <1>23 DEF PendingStop, Waited, Reportable, ReapAndContinue, SetState, Tracked, IsSigstop
<1>24. ASSUME NEW t \in Thread, HandlerResumes(t) PROVE TrapInv'
  BY <1>24 DEF HandlerResumes, Waited, Reportable, ReapAndContinue, SetState, Tracked, Rewound
<1>25. ASSUME NEW t \in Thread, ReportStop(t) PROVE TrapInv'
  BY <1>25 DEF ReportStop, Waited, Reportable, Reap, SetState, Tracked, IsSigstop, Rewound
<1>26. ASSUME NEW t \in Thread, ThreadExits(t) PROVE TrapInv'
  BY <1>26 DEF ThreadExits, Waited, Reportable, Reap, SetState
<1>27. ASSUME NEW t \in Thread, SendSigstop(t) PROVE TrapInv'
  BY <1>27 DEF SendSigstop, Alive
<1>28. CASE SwallowNothing
  BY <1>28 DEF SwallowNothing
<1>29. CASE SwallowContinues
  BY <1>29, <1>0 DEF SwallowContinues, Restart
<1>30. CASE Swallowed
  BY <1>30 DEF Swallowed, Reportable, Reap
<1>31. CASE SingleStep
  BY <1>31, <1>0 DEF SingleStep, Restart, SetState
<1>32. CASE SingleStepFails
  BY <1>32, <1>0 DEF SingleStepFails
<1>33. CASE StepOverDone
  BY <1>33 DEF StepOverDone, Reportable, Reap
<1>34. CASE StartPass2
  BY <1>34 DEF StartPass2, Stopped
<1>35. CASE StartWait
  BY <1>35 DEF StartWait
<1>36. CASE MainExits
  BY <1>36 DEF MainExits, Waited, Reportable, Reap, SetState
<1>37. CASE CollectStop
  BY <1>37 DEF CollectStop, Reportable, Reap, SetState, IsSigstop, Rewound
<1>38. CASE CollectExit
  BY <1>38 DEF CollectExit, Reportable, Reap, SetState
<1>39. CASE CollectFails
  BY <1>39 DEF CollectFails
<1>40. CASE Return
  <2>1. UNCHANGED <<run, ev, loc>>
    BY <1>40, ReturnEffect
  <2>2. armed = TRUE => armed' = TRUE
    BY <1>40, ReturnSite
  <2>. QED BY <2>1, <2>2
<1>41. CASE UNCHANGED vars
  BY <1>41 DEF vars
<1>. QED BY <1>1, <1>2, <1>3, <1>4, <1>5, <1>6, <1>7, <1>8, <1>9, <1>10, 
         <1>11, <1>12, <1>13, <1>14, <1>15, <1>16, <1>17, <1>18, <1>19, 
         <1>20, <1>21, <1>22, <1>23, <1>24, <1>25, <1>26, <1>27, <1>28, 
         <1>29, <1>30, <1>31, <1>32, <1>33, <1>34, <1>35, <1>36, <1>37, 
         <1>38, <1>39, <1>40, <1>41
         DEF Next, User, Debugger, Kernel

(* All of it together.                                                     *)
LEMMA GroupCorrect ==
  ASSUME "exit" \notin World
  PROVE  Spec => []( /\ TypeOK /\ ControlInv /\ WaitInv /\ BookInv
                     /\ GroupInv /\ QueuedInv /\ TrapInv )
<1>1. Init => GroupInv /\ QueuedInv /\ TrapInv
  BY DEF Init, GroupInv, QueuedInv, TrapInv, PendingIsQueued, Tracked
<1>. QED BY <1>1, BookCorrect, GroupStep, QueuedStep, TrapStep, PTL DEF Spec

(* PendingSigstop is set only while the SIGSTOP it announces is queued, in *)
(* a program whose threads do not end one by one: the wait4 of             *)
(* swallowPendingSigstop comes back and handleSignal eats its own stop.    *)
THEOREM PendingQueued ==
  ASSUME "exit" \notin World
  PROVE  Spec => []PendingIsQueued
<1>1. QueuedInv => PendingIsQueued
  BY DEF QueuedInv
<1>. QED BY <1>1, GroupCorrect, PTL

(* In such a program every int3 that a thread executed has been taken back *)
(* when the prompt comes.                                                  *)
THEOREM PromptRewound ==
  ASSUME "exit" \notin World
  PROVE  Spec => []RewoundAtPrompt
<1>1. TypeOK /\ ControlInv /\ WaitInv /\ BookInv /\ GroupInv /\ TrapInv => RewoundAtPrompt
  <2> SUFFICES ASSUME TypeOK, ControlInv, WaitInv, BookInv, GroupInv, TrapInv, phase = "prompt",
                      NEW t \in Thread, Tracked(t), Alive(t)
               PROVE  loc[t] # "past"
    BY DEF RewoundAtPrompt
  <2>1. ev[t] = "none"
    BY AtRest
  <2>. QED BY <2>1 DEF TrapInv
<1>. QED BY <1>1, GroupCorrect, PTL

-----------------------------------------------------------------------------
(* A hit whose handler resumes is reported only if its trap is taken while *)
(* the site is disabled.                                                   *)
SilentInv   == AutoResume /\ phase # "exited" => reason # "trap"
TrapsHandled == phase = "wait" => \A t \in Thread : ev[t] = "trap" => armed = TRUE

LEMMA SilentStep == TypeOK /\ TrapsHandled /\ SilentInv /\ [Next]_vars => SilentInv'
<1> SUFFICES ASSUME TypeOK, TrapsHandled, SilentInv, [Next]_vars PROVE SilentInv'
  OBVIOUS
<1> USE DEF TypeOK, SilentInv, TrapsHandled, kernel, dbg
<1>1. ASSUME NEW t \in Thread, EnterUser(t) PROVE SilentInv'
  BY <1>1 DEF EnterUser
<1>2. ASSUME NEW t \in Thread, Deliver(t) PROVE SilentInv'
  BY <1>2 DEF Deliver, Halt
<1>3. ASSUME NEW t \in Thread, DeliverShared(t) PROVE SilentInv'
  BY <1>3 DEF DeliverShared, Halt
<1>4. ASSUME NEW t \in Thread, Arrive(t) PROVE SilentInv'
  BY <1>4 DEF Arrive
<1>5. ASSUME NEW t \in Thread, Hit(t) PROVE SilentInv'
  BY <1>5 DEF Hit, Halt
<1>6. ASSUME NEW t \in Thread, Execute(t) PROVE SilentInv'
  BY <1>6 DEF Execute
<1>7. ASSUME NEW t \in Thread, StepDone(t) PROVE SilentInv'
  BY <1>7 DEF StepDone, Halt
<1>8. ASSUME NEW t \in Thread, NEW c \in Thread, Clone(t, c) PROVE SilentInv'
  BY <1>8 DEF Clone
<1>9. ASSUME NEW t \in Thread, SendUser(t) PROVE SilentInv'
  BY <1>9 DEF SendUser, Alive
<1>10. ASSUME NEW t \in Thread, Exit(t) PROVE SilentInv'
  BY <1>10 DEF Exit
<1>11. ASSUME NEW t \in Thread, ExitGroup(t) PROVE SilentInv'
  BY <1>11 DEF ExitGroup, Alive
<1>12. ASSUME NEW t \in Thread, SelectThread(t) PROVE SilentInv'
  BY <1>12 DEF SelectThread, AtPrompt, Tracked
<1>13. CASE ContinueCommand
  BY <1>13 DEF ContinueCommand, AtPrompt, Stopped
<1>14. CASE ResumeCommand
  BY <1>14 DEF ResumeCommand, AtPrompt
<1>15. CASE StepInstruction
  BY <1>15, StepInstructionEffect DEF AtPrompt
<1>16. CASE CtrlC
  BY <1>16 DEF CtrlC
<1>17. ASSUME NEW t \in Thread, StepOverNothing(t) PROVE SilentInv'
  BY <1>17 DEF StepOverNothing
<1>18. ASSUME NEW t \in Thread, StepOverBreakpoint(t) PROVE SilentInv'
  BY <1>18 DEF StepOverBreakpoint
<1>19. ASSUME NEW t \in Thread, ContinueThread(t) PROVE SilentInv'
  BY <1>19 DEF ContinueThread, Restart, SetState
<1>20. ASSUME NEW t \in Thread, ContinueFails(t) PROVE SilentInv'
  BY <1>20 DEF ContinueFails
<1>21. ASSUME NEW t \in Thread, CloneEvent(t) PROVE SilentInv'
  BY <1>21 DEF CloneEvent, Waited, Reportable, ReapAndContinue, Tracked
<1>22. ASSUME NEW t \in Thread, NewThread(t) PROVE SilentInv'
  BY <1>22 DEF NewThread, Waited, Reportable, ReapAndContinue, SetState, Tracked
<1>23. ASSUME NEW t \in Thread, PendingStop(t) PROVE SilentInv'
  BY <1>23 DEF PendingStop, Waited, Reportable, ReapAndContinue, SetState, Tracked, IsSigstop
<1>24. ASSUME NEW t \in Thread, HandlerResumes(t) PROVE SilentInv'
  BY <1>24 DEF HandlerResumes, Waited, Reportable, ReapAndContinue, SetState, Tracked, Rewound
<1>25. ASSUME NEW t \in Thread, ReportStop(t) PROVE SilentInv'
  BY <1>25 DEF ReportStop, Waited, Reportable, Reap, SetState, Tracked, IsSigstop, Rewound
<1>26. ASSUME NEW t \in Thread, ThreadExits(t) PROVE SilentInv'
  BY <1>26 DEF ThreadExits, Waited, Reportable, Reap, SetState
<1>27. ASSUME NEW t \in Thread, SendSigstop(t) PROVE SilentInv'
  BY <1>27 DEF SendSigstop, Alive
<1>28. CASE SwallowNothing
  BY <1>28 DEF SwallowNothing
<1>29. CASE SwallowContinues
  BY <1>29 DEF SwallowContinues, Restart
<1>30. CASE Swallowed
  BY <1>30 DEF Swallowed, Reportable, Reap
<1>31. CASE SingleStep
  BY <1>31 DEF SingleStep, Restart, SetState
<1>32. CASE SingleStepFails
  BY <1>32 DEF SingleStepFails
<1>33. CASE StepOverDone
  BY <1>33 DEF StepOverDone, Reportable, Reap
<1>34. CASE StartPass2
  BY <1>34 DEF StartPass2, Stopped
<1>35. CASE StartWait
  BY <1>35 DEF StartWait
<1>36. CASE MainExits
  BY <1>36 DEF MainExits, Waited, Reportable, Reap, SetState
<1>37. CASE CollectStop
  BY <1>37 DEF CollectStop, Reportable, Reap, SetState, IsSigstop, Rewound
<1>38. CASE CollectExit
  BY <1>38 DEF CollectExit, Reportable, Reap, SetState
<1>39. CASE CollectFails
  BY <1>39 DEF CollectFails
<1>40. CASE Return
  BY <1>40, ReturnEffect
<1>41. CASE UNCHANGED vars
  BY <1>41 DEF vars
<1>. QED BY <1>1, <1>2, <1>3, <1>4, <1>5, <1>6, <1>7, <1>8, <1>9, <1>10, 
         <1>11, <1>12, <1>13, <1>14, <1>15, <1>16, <1>17, <1>18, <1>19, 
         <1>20, <1>21, <1>22, <1>23, <1>24, <1>25, <1>26, <1>27, <1>28, 
         <1>29, <1>30, <1>31, <1>32, <1>33, <1>34, <1>35, <1>36, <1>37, 
         <1>38, <1>39, <1>40, <1>41
         DEF Next, User, Debugger, Kernel

(* Such a hit never brings the prompt back, in a program whose threads do  *)
(* not end one by one or as long as no instruction is stepped: each of the *)
(* two keeps every trap from being taken while its site is disabled.       *)
THEOREM HandledHitsSilent ==
  ASSUME "exit" \notin World \/ "stepi" \notin Commands
  PROVE  Spec => []HandledHitsAreSilent
<1>1. Init => SilentInv
  BY DEF Init, SilentInv
<1>2. SilentInv => HandledHitsAreSilent
  BY DEF SilentInv, HandledHitsAreSilent
<1>3. CASE "exit" \notin World
  <2>1. TypeOK /\ ControlInv /\ TrapInv => TrapsHandled
    BY DEF TypeOK, ControlInv, StatusInv, TrapInv, TrapsHandled, Alive
  <2>. QED BY <1>1, <1>2, <1>3, <2>1, GroupCorrect, SilentStep, PTL DEF Spec
<1>4. CASE "stepi" \notin Commands
  <2>1. TypeOK /\ BookInv => TrapsHandled
    <3> SUFFICES ASSUME TypeOK, BookInv, phase = "wait" PROVE armed = TRUE
      BY DEF TrapsHandled
    <3>1. cmd # "stepi"
      BY <1>4 DEF BookInv, SiteInv
    <3>2. armed # FALSE
      BY <3>1 DEF BookInv, SiteInv
    <3>. QED BY <3>2 DEF TypeOK
  <2>. QED BY <1>1, <1>2, <2>1, BookCorrect, SilentStep, PTL DEF Spec
<1>. QED BY <1>3, <1>4

(* Two-pass resume: with a site disabled for a step-over nobody runs       *)
(* freely, so none passes it unseen.  A single instruction (stepi) that    *)
(* clones a thread is continued with the site disabled, and a thread that  *)
(* ended lets a command fail with others running: those are excluded.      *)
THEOREM NoFreeRun ==
  ASSUME "exit" \notin World, "stepi" \notin Commands
  PROVE  Spec => []NoFreeRunPastTrap
<1>1. TypeOK /\ ControlInv /\ WaitInv /\ BookInv /\ GroupInv /\ QueuedInv => NoFreeRunPastTrap
  <2> SUFFICES ASSUME TypeOK, ControlInv, WaitInv, BookInv, GroupInv, QueuedInv, armed = FALSE,
                      NEW t \in Thread, run[t] = "user"
               PROVE  mode[t] = "step"
    BY DEF NoFreeRunPastTrap, TypeOK
  <2>1. phase \in StepOverPhases
    BY DEF TypeOK, BookInv, SiteInv, StepOverPhases
  <2>2. Alive(t) /\ Tracked(t)
    BY DEF Alive, Tracked, ControlInv, UnmetInv
  <2>3. t = me /\ phase \in {"swallowing", "stepwait"}
    BY <2>1, <2>2, AtRest
  <2>4. phase # "swallowing"
    BY <2>2, <2>3 DEF QueuedInv
  <2>. QED BY <2>3, <2>4 DEF BookInv, SiteInv
<1>. QED BY <1>1, GroupCorrect, PTL
-----------------------------------------------------------------------------
(* The refinement.  A program that does not end, controlled with continue  *)
(* and resume: everybody who started lives on and no command fails; only   *)
(* the thread that is stepped over is in single-step mode, and it leaves   *)
(* the site by that step.                                                  *)
LiveInv ==
  /\ phase \notin {"error", "exited"}
  /\ \A t \in Thread : /\ run[t] \notin {"zombie", "gone"}
                       /\ run[t] = "none" => mode[t] = "cont"
                       /\ run[t] \in {"ret", "user"} /\ mode[t] = "step" => phase = "stepwait" /\ t = me
  /\ phase \in {"swallow", "swallowing", "step"} => loc[me] = "at"
  /\ phase = "stepwait" /\ run[me] \in {"ret", "user"} => loc[me] = "at"

(* Every step keeps it.                                                    *)
LEMMA LiveStep ==
  ASSUME "exit" \notin World, "exitgroup" \notin World, "stepi" \notin Commands
  PROVE  /\ TypeOK /\ ControlInv /\ WaitInv /\ BookInv /\ GroupInv /\ QueuedInv /\ TrapInv
         /\ LiveInv /\ [Next]_vars
         => LiveInv'
<1> SUFFICES ASSUME TypeOK, ControlInv, WaitInv, BookInv, GroupInv, QueuedInv, TrapInv, LiveInv,
                    [Next]_vars
             PROVE  LiveInv'
  OBVIOUS
<1>0. \A t \in Thread :
        /\ Tracked(t)
        /\ phase \in {"swallow", "step"} \/ (phase = "pass2" /\ t \in todo)
        => run[t] = "stop"
  <2> SUFFICES ASSUME NEW t \in Thread, Tracked(t),
                      phase \in {"swallow", "step"} \/ (phase = "pass2" /\ t \in todo)
               PROVE  run[t] = "stop"
    OBVIOUS
  <2>1. Alive(t)
    BY DEF TypeOK, Alive, LiveInv, ControlInv, UnmetInv, Tracked
  <2>. QED BY <2>1, AtRest DEF StepOverPhases
<1> USE DEF TypeOK, ControlInv, StatusInv, UnmetInv, LoopInv, SiteInv, BookInv, QueuedInv, WaitInv, VisitInv,
            LiveInv, Alive, StepOverPhases, Tracked, kernel, dbg
<1>1. ASSUME NEW t \in Thread, EnterUser(t) PROVE LiveInv'
  BY <1>1 DEF EnterUser
<1>2. ASSUME NEW t \in Thread, Deliver(t) PROVE LiveInv'
  BY <1>2 DEF Deliver, Halt
<1>3. ASSUME NEW t \in Thread, DeliverShared(t) PROVE LiveInv'
  BY <1>3 DEF DeliverShared, Halt
<1>4. ASSUME NEW t \in Thread, Arrive(t) PROVE LiveInv'
  BY <1>4 DEF Arrive
<1>5. ASSUME NEW t \in Thread, Hit(t) PROVE LiveInv'
  BY <1>5 DEF Hit, Halt
<1>6. ASSUME NEW t \in Thread, Execute(t) PROVE LiveInv'
  BY <1>6, <1>0 DEF Execute
<1>7. ASSUME NEW t \in Thread, StepDone(t) PROVE LiveInv'
  BY <1>7 DEF StepDone, Halt
<1>8. ASSUME NEW t \in Thread, NEW c \in Thread, Clone(t, c) PROVE LiveInv'
  BY <1>8, <1>0 DEF Clone
<1>9. ASSUME NEW t \in Thread, SendUser(t) PROVE LiveInv'
  BY <1>9 DEF SendUser, Alive
<1>10. ASSUME NEW t \in Thread, Exit(t) PROVE LiveInv'
  BY <1>10 DEF Exit
<1>11. ASSUME NEW t \in Thread, ExitGroup(t) PROVE LiveInv'
  BY <1>11 DEF ExitGroup
<1>12. ASSUME NEW t \in Thread, SelectThread(t) PROVE LiveInv'
  BY <1>12 DEF SelectThread, AtPrompt, Tracked
<1>13. CASE ContinueCommand
  BY <1>13 DEF ContinueCommand, AtPrompt, Stopped
<1>14. CASE ResumeCommand
  BY <1>14 DEF ResumeCommand, AtPrompt
<1>15. CASE StepInstruction
  BY <1>15 DEF StepInstruction
<1>16. CASE CtrlC
  BY <1>16 DEF CtrlC
<1>17. ASSUME NEW t \in Thread, StepOverNothing(t) PROVE LiveInv'
  BY <1>17 DEF StepOverNothing
<1>18. ASSUME NEW t \in Thread, StepOverBreakpoint(t) PROVE LiveInv'
  BY <1>18 DEF StepOverBreakpoint
<1>19. ASSUME NEW t \in Thread, ContinueThread(t) PROVE LiveInv'
  BY <1>19, <1>0 DEF ContinueThread, Restart, SetState
<1>20. ASSUME NEW t \in Thread, ContinueFails(t) PROVE LiveInv'
  BY <1>20, <1>0 DEF ContinueFails
<1>21. ASSUME NEW t \in Thread, CloneEvent(t) PROVE LiveInv'
  BY <1>21 DEF CloneEvent, Waited, Reportable, ReapAndContinue, Tracked
<1>22. ASSUME NEW t \in Thread, NewThread(t) PROVE LiveInv'
  BY <1>22 DEF NewThread, Waited, Reportable, ReapAndContinue, SetState, Tracked
<1>23. ASSUME NEW t \in Thread, PendingStop(t) PROVE LiveInv'
  BY <1>23 DEF PendingStop, Waited, Reportable, ReapAndContinue, SetState, Tracked, IsSigstop
<1>24. ASSUME NEW t \in Thread, HandlerResumes(t) PROVE LiveInv'
  BY <1>24 DEF HandlerResumes, Waited, Reportable, ReapAndContinue, SetState, Tracked, Rewound
<1>25. ASSUME NEW t \in Thread, ReportStop(t) PROVE LiveInv'
  BY <1>25 DEF ReportStop, Waited, Reportable, Reap, SetState, Tracked, IsSigstop, Rewound
<1>26. ASSUME NEW t \in Thread, ThreadExits(t) PROVE LiveInv'
  BY <1>26 DEF ThreadExits, Waited, Reportable, Reap, SetState
<1>27. ASSUME NEW t \in Thread, SendSigstop(t) PROVE LiveInv'
  BY <1>27 DEF SendSigstop, Alive
<1>28. CASE SwallowNothing
  BY <1>28 DEF SwallowNothing
<1>29. CASE SwallowContinues
  BY <1>29, <1>0 DEF SwallowContinues, Restart
<1>30. CASE Swallowed
  BY <1>30 DEF Swallowed, Reportable, Reap
<1>31. CASE SingleStep
  BY <1>31, <1>0 DEF SingleStep, Restart, SetState
<1>32. CASE SingleStepFails
  BY <1>32, <1>0 DEF SingleStepFails
<1>33. CASE StepOverDone
  BY <1>33 DEF StepOverDone, Reportable, Reap
<1>34. CASE StartPass2
  BY <1>34 DEF StartPass2, Stopped
<1>35. CASE StartWait
  BY <1>35 DEF StartWait
<1>36. CASE MainExits
  BY <1>36 DEF MainExits, Waited, Reportable, Reap, SetState
<1>37. CASE CollectStop
  BY <1>37 DEF CollectStop, Reportable, Reap, SetState, IsSigstop, Rewound
<1>38. CASE CollectExit
  BY <1>38 DEF CollectExit, Reportable, Reap, SetState
<1>39. CASE CollectFails
  BY <1>39 DEF CollectFails
<1>40. CASE Return
  BY <1>40, ReturnEffect
<1>41. CASE UNCHANGED vars
  BY <1>41 DEF vars
<1>. QED BY <1>1, <1>2, <1>3, <1>4, <1>5, <1>6, <1>7, <1>8, <1>9, <1>10, 
         <1>11, <1>12, <1>13, <1>14, <1>15, <1>16, <1>17, <1>18, <1>19, 
         <1>20, <1>21, <1>22, <1>23, <1>24, <1>25, <1>26, <1>27, <1>28, 
         <1>29, <1>30, <1>31, <1>32, <1>33, <1>34, <1>35, <1>36, <1>37, 
         <1>38, <1>39, <1>40, <1>41
         DEF Next, User, Debugger, Kernel

(* It holds throughout, with all the other invariants.                     *)
LEMMA LiveCorrect ==
  ASSUME "exit" \notin World, "exitgroup" \notin World, "stepi" \notin Commands
  PROVE  Spec => []( /\ TypeOK /\ ControlInv /\ WaitInv /\ BookInv
                     /\ GroupInv /\ QueuedInv /\ TrapInv /\ LiveInv )
<1>1. Init => LiveInv
  BY DEF Init, LiveInv
<1>. QED BY <1>1, GroupCorrect, LiveStep, PTL DEF Spec

(* The state of the session, phase by phase.                               *)
LEMMA SessionStates ==
  /\ phase \in {"pass1"} \cup StepOverPhases => SessionState = "stepping"
  /\ phase \in {"pass2", "wait"} => SessionState = "running"
  /\ phase \in {"stopping", "collect"} => SessionState = "stopping"
  /\ phase = "prompt" => SessionState = "prompt"
  BY DEF SessionState, StepOverPhases

LEMMA SessionStatesPrimed ==
  /\ phase' \in {"pass1"} \cup StepOverPhases => SessionState' = "stepping"
  /\ phase' \in {"pass2", "wait"} => SessionState' = "running"
  /\ phase' \in {"stopping", "collect"} => SessionState' = "stopping"
  /\ phase' = "prompt" => SessionState' = "prompt"
  BY DEF SessionState, StepOverPhases

(* A thread on the site, before or behind the int3; the steps of the       *)
(* session in terms of the threads one by one.                             *)
OnSite(t) == loc[t] \in {"at", "past"}
SessionStep == Session!Next \/ UNCHANGED Session!vars

LEMMA SessionStutters ==
  ASSUME SessionState' = SessionState, current' = current,
         \A t \in Thread : (CanExecute(t)' <=> CanExecute(t)) /\ (OnSite(t)' <=> OnSite(t))
  PROVE  SessionStep
<1>1. {t \in Thread : CanExecute(t)}' = {t \in Thread : CanExecute(t)}
  OBVIOUS
<1>2. {t \in Thread : loc[t] \in {"at", "past"}}' = {t \in Thread : loc[t] \in {"at", "past"}}
  BY DEF OnSite
<1>. QED BY <1>1, <1>2 DEF SessionStep, Session!vars

LEMMA SessionRuns ==
  ASSUME SessionState = "running", SessionState' = "running", current' = current,
         \A t \in Thread : /\ OnSite(t) => OnSite(t)'
                           /\ OnSite(t)' => OnSite(t) \/ CanExecute(t)
  PROVE  SessionStep
  BY DEF SessionStep, Session!Next, Session!Run, Session!Arrivals, OnSite

LEMMA SessionCalms ==
  ASSUME SessionState = "stopping", SessionState' = "stopping", current' = current,
         \A t \in Thread : /\ CanExecute(t)' => CanExecute(t)
                           /\ OnSite(t) => OnSite(t)'
                           /\ OnSite(t)' => OnSite(t) \/ CanExecute(t)
  PROVE  SessionStep
  BY DEF SessionStep, Session!Next, Session!Calm, Session!Arrivals, OnSite

LEMMA SessionStepsOver ==
  ASSUME TypeOK, SessionState = "stepping", SessionState' = "stepping", current' = current,
         \A t \in Thread : t # me => ~CanExecute(t) /\ ~CanExecute(t)' /\ (OnSite(t) => OnSite(t)'),
         \A t \in Thread : OnSite(t)' => OnSite(t)
  PROVE  SessionStep
<1>1. PICK v \in Thread : v = me
  BY DEF TypeOK
<1>2. {t \in Thread : CanExecute(t)} \subseteq {v} /\ {t \in Thread : CanExecute(t)}' \subseteq {v}
  BY <1>1
<1> DEFINE site == {t \in Thread : loc[t] \in {"at", "past"}}
<1>3. site' \in {site, site \ {v}}
  <2>1. CASE OnSite(v)' <=> OnSite(v)
    BY <1>1, <2>1 DEF OnSite
  <2>2. CASE ~OnSite(v)'
    BY <1>1, <2>2 DEF OnSite
  <2>. QED BY <2>1, <2>2
<1>4. Session!StepOver(v)
  BY <1>2, <1>3 DEF Session!StepOver
<1>. QED BY <1>4 DEF SessionStep, Session!Next

LEMMA SessionSelects ==
  ASSUME SessionState = "prompt", SessionState' = "prompt", current' \in Thread,
         UNCHANGED <<run, sig, loc>>
  PROVE  SessionStep
<1>1. PICK v \in Thread : v = current'
  OBVIOUS
<1>2. {t \in Thread : CanExecute(t)}' = {t \in Thread : CanExecute(t)}
  BY DEF CanExecute
<1>3. Session!Select(v)
  BY <1>1, <1>2 DEF Session!Select
<1>. QED BY <1>3 DEF SessionStep, Session!Next

LEMMA SessionChanges ==
  ASSUME UNCHANGED <<run, sig, loc, current>>,
         \/ SessionState = "prompt" /\ SessionState' = "stepping"
         \/ /\ SessionState = "stepping" /\ SessionState' = "running"
            /\ \A t \in Thread : ~CanExecute(t)
         \/ /\ SessionState = "stopping" /\ SessionState' = "prompt"
            /\ \A t \in Thread : ~CanExecute(t)
  PROVE  SessionStep
<1>1. {t \in Thread : CanExecute(t)}' = {t \in Thread : CanExecute(t)}
  BY DEF CanExecute
<1>2. Session!Go \/ Session!Release \/ Session!Report
  BY <1>1 DEF Session!Go, Session!Release, Session!Report
<1>. QED BY <1>2 DEF SessionStep, Session!Next

LEMMA SessionStops ==
  ASSUME SessionState = "running", SessionState' = "stopping", NEW v \in Thread, current' = v,
         ~CanExecute(v),
         \A t \in Thread : (CanExecute(t)' <=> CanExecute(t)) /\ (OnSite(t)' <=> OnSite(t))
  PROVE  SessionStep
<1>1. {t \in Thread : CanExecute(t)}' = {t \in Thread : CanExecute(t)}
  OBVIOUS
<1>2. {t \in Thread : loc[t] \in {"at", "past"}}' = {t \in Thread : loc[t] \in {"at", "past"}}
  BY DEF OnSite
<1>3. Session!Stop(v)
  BY <1>1, <1>2 DEF Session!Stop
<1>. QED BY <1>3 DEF SessionStep, Session!Next

(* Who can execute, and where the site is enabled.                         *)
LEMMA SessionFacts ==
  ASSUME "exit" \notin World, "exitgroup" \notin World, "stepi" \notin Commands,
         TypeOK, ControlInv, WaitInv, BookInv, GroupInv, QueuedInv, TrapInv, LiveInv
  PROVE  /\ phase \in {"prompt", "pass1", "swallow", "swallowing", "step"} => \A t \in Thread : ~CanExecute(t)
         /\ phase = "stepwait" => \A t \in Thread \ {me} : ~CanExecute(t)
         /\ phase = "stopping" /\ todo = {} => \A t \in Thread : ~CanExecute(t)
         /\ phase \in {"prompt", "pass1", "pass2", "wait", "stopping", "collect"} => armed = TRUE
         /\ phase \in StepOverPhases => armed = FALSE
<1>1. \A t \in Thread : st[t] = "untracked" => ~CanExecute(t)
  BY DEF CanExecute, ControlInv, UnmetInv
<1>2. ASSUME NEW t \in Thread, Tracked(t), phase \in {"prompt", "pass1"} \cup StepOverPhases
      PROVE  CanExecute(t) => t = me /\ phase = "stepwait"
  <2>1. Alive(t)
    BY <1>2 DEF TypeOK, Alive, LiveInv, ControlInv, UnmetInv, Tracked
  <2>2. CanExecute(t) => t = me /\ phase \in {"swallowing", "stepwait"}
    BY <1>2, <2>1, AtRest DEF CanExecute
  <2>3. phase = "swallowing" => ~CanExecute(me)
    BY DEF CanExecute, QueuedInv, LiveInv, Alive
  <2>. QED BY <2>2, <2>3
<1>3. ASSUME NEW t \in Thread, Tracked(t), phase = "stopping", todo = {} PROVE ~CanExecute(t)
  BY <1>3 DEF TypeOK, Tracked, CanExecute, ControlInv, CollectInv, StoppedMeansStopped, UnmetInv
<1>4. cmd # "stepi"
  BY DEF BookInv, SiteInv
<1>5. phase \in {"prompt", "pass1", "pass2", "wait", "stopping", "collect"} => armed = TRUE
  BY <1>4 DEF TypeOK, BookInv, SiteInv
<1>6. phase \in StepOverPhases => armed = FALSE
  BY <1>4 DEF BookInv, SiteInv
<1>. QED BY <1>1, <1>2, <1>3, <1>5, <1>6 DEF Tracked, StepOverPhases

(* Every step is one of the session's, or none.                            *)
LEMMA SessionSimulated ==
  ASSUME "exit" \notin World, "exitgroup" \notin World, "stepi" \notin Commands,
         TypeOK, ControlInv, WaitInv, BookInv, GroupInv, QueuedInv, TrapInv, LiveInv, [Next]_vars
  PROVE  SessionStep
<1>0. /\ phase \in {"prompt", "pass1", "swallow", "swallowing", "step"} => \A t \in Thread : ~CanExecute(t)
      /\ phase = "stepwait" => \A t \in Thread \ {me} : ~CanExecute(t)
      /\ phase = "stopping" /\ todo = {} => \A t \in Thread : ~CanExecute(t)
      /\ phase \in {"prompt", "pass1", "pass2", "wait", "stopping", "collect"} => armed = TRUE
      /\ phase \in StepOverPhases => armed = FALSE
  BY SessionFacts
<1> USE SessionStates, SessionStatesPrimed
        DEF TypeOK, ControlInv, StatusInv, UnmetInv, LoopInv, BookInv, SiteInv, QueuedInv, TrapInv,
            LiveInv, StepOverPhases, Alive, CanExecute, OnSite, kernel, dbg
<1>1. ASSUME NEW t \in Thread, EnterUser(t) PROVE SessionStep
  <2>1. CASE phase = "prompt"
    BY <1>1, <1>0, <2>1, SessionStutters DEF EnterUser
  <2>2. CASE phase \in {"pass1"} \cup StepOverPhases
    BY <1>1, <1>0, <2>2, SessionStepsOver DEF EnterUser
  <2>3. CASE phase \in {"pass2", "wait"}
    BY <1>1, <1>0, <2>3, SessionRuns DEF EnterUser
  <2>4. CASE phase \in {"stopping", "collect"}
    BY <1>1, <1>0, <2>4, SessionCalms DEF EnterUser
  <2>. QED BY <2>1, <2>2, <2>3, <2>4
<1>2. ASSUME NEW t \in Thread, Deliver(t) PROVE SessionStep
  <2>1. CASE phase = "prompt"
    BY <1>2, <1>0, <2>1, SessionStutters DEF Deliver, Halt
  <2>2. CASE phase \in {"pass1"} \cup StepOverPhases
    BY <1>2, <1>0, <2>2, SessionStepsOver DEF Deliver, Halt
  <2>3. CASE phase \in {"pass2", "wait"}
    BY <1>2, <1>0, <2>3, SessionRuns DEF Deliver, Halt
  <2>4. CASE phase \in {"stopping", "collect"}
    BY <1>2, <1>0, <2>4, SessionCalms DEF Deliver, Halt
  <2>. QED BY <2>1, <2>2, <2>3, <2>4
<1>3. ASSUME NEW t \in Thread, DeliverShared(t) PROVE SessionStep
  <2>1. CASE phase = "prompt"
    BY <1>3, <1>0, <2>1, SessionStutters DEF DeliverShared, Halt
  <2>2. CASE phase \in {"pass1"} \cup StepOverPhases
    BY <1>3, <1>0, <2>2, SessionStepsOver DEF DeliverShared, Halt
  <2>3. CASE phase \in {"pass2", "wait"}
    BY <1>3, <1>0, <2>3, SessionRuns DEF DeliverShared, Halt
  <2>4. CASE phase \in {"stopping", "collect"}
    BY <1>3, <1>0, <2>4, SessionCalms DEF DeliverShared, Halt
  <2>. QED BY <2>1, <2>2, <2>3, <2>4
<1>4. ASSUME NEW t \in Thread, Arrive(t) PROVE SessionStep
  <2>1. CASE phase = "prompt"
    BY <1>4, <1>0, <2>1, SessionStutters DEF Arrive
  <2>2. CASE phase \in {"pass1"} \cup StepOverPhases
    BY <1>4, <1>0, <2>2, SessionStepsOver DEF Arrive
  <2>3. CASE phase \in {"pass2", "wait"}
    BY <1>4, <1>0, <2>3, SessionRuns DEF Arrive
  <2>4. CASE phase \in {"stopping", "collect"}
    BY <1>4, <1>0, <2>4, SessionCalms DEF Arrive
  <2>. QED BY <2>1, <2>2, <2>3, <2>4
<1>5. ASSUME NEW t \in Thread, Hit(t) PROVE SessionStep
  <2>1. CASE phase = "prompt"
    BY <1>5, <1>0, <2>1, SessionStutters DEF Hit, Halt
  <2>2. CASE phase \in {"pass1"} \cup StepOverPhases
    BY <1>5, <1>0, <2>2, SessionStepsOver DEF Hit, Halt
  <2>3. CASE phase \in {"pass2", "wait"}
    BY <1>5, <1>0, <2>3, SessionRuns DEF Hit, Halt
  <2>4. CASE phase \in {"stopping", "collect"}
    BY <1>5, <1>0, <2>4, SessionCalms DEF Hit, Halt
  <2>. QED BY <2>1, <2>2, <2>3, <2>4
<1>6. ASSUME NEW t \in Thread, Execute(t) PROVE SessionStep
  <2>1. CASE phase = "prompt"
    BY <1>6, <1>0, <2>1, SessionStutters DEF Execute
  <2>2. CASE phase \in {"pass1"} \cup StepOverPhases
    BY <1>6, <1>0, <2>2, SessionStepsOver DEF Execute
  <2>3. CASE phase \in {"pass2", "wait"}
    BY <1>6, <1>0, <2>3, SessionRuns DEF Execute
  <2>4. CASE phase \in {"stopping", "collect"}
    BY <1>6, <1>0, <2>4, SessionCalms DEF Execute
  <2>. QED BY <2>1, <2>2, <2>3, <2>4
<1>7. ASSUME NEW t \in Thread, StepDone(t) PROVE SessionStep
  <2>1. CASE phase = "prompt"
    BY <1>7, <1>0, <2>1, SessionStutters DEF StepDone, Halt
  <2>2. CASE phase \in {"pass1"} \cup StepOverPhases
    BY <1>7, <1>0, <2>2, SessionStepsOver DEF StepDone, Halt
  <2>3. CASE phase \in {"pass2", "wait"}
    BY <1>7, <1>0, <2>3, SessionRuns DEF StepDone, Halt
  <2>4. CASE phase \in {"stopping", "collect"}
    BY <1>7, <1>0, <2>4, SessionCalms DEF StepDone, Halt
  <2>. QED BY <2>1, <2>2, <2>3, <2>4
<1>8. ASSUME NEW t \in Thread, NEW c \in Thread, Clone(t, c) PROVE SessionStep
  <2>1. CASE phase = "prompt"
    BY <1>8, <1>0, <2>1, SessionStutters DEF Clone
  <2>2. CASE phase \in {"pass1"} \cup StepOverPhases
    BY <1>8, <1>0, <2>2, SessionStepsOver DEF Clone
  <2>3. CASE phase \in {"pass2", "wait"}
    BY <1>8, <1>0, <2>3, SessionRuns DEF Clone
  <2>4. CASE phase \in {"stopping", "collect"}
    BY <1>8, <1>0, <2>4, SessionCalms DEF Clone
  <2>. QED BY <2>1, <2>2, <2>3, <2>4
<1>9. ASSUME NEW t \in Thread, SendUser(t) PROVE SessionStep
  <2>1. CASE phase = "prompt"
    BY <1>9, <1>0, <2>1, SessionStutters DEF SendUser, Alive
  <2>2. CASE phase \in {"pass1"} \cup StepOverPhases
    BY <1>9, <1>0, <2>2, SessionStepsOver DEF SendUser, Alive
  <2>3. CASE phase \in {"pass2", "wait"}
    BY <1>9, <1>0, <2>3, SessionRuns DEF SendUser, Alive
  <2>4. CASE phase \in {"stopping", "collect"}
    BY <1>9, <1>0, <2>4, SessionCalms DEF SendUser, Alive
  <2>. QED BY <2>1, <2>2, <2>3, <2>4
<1>10. ASSUME NEW t \in Thread, Exit(t) PROVE SessionStep
  BY <1>10 DEF Exit
<1>11. ASSUME NEW t \in Thread, ExitGroup(t) PROVE SessionStep
  BY <1>11 DEF ExitGroup
<1>12. ASSUME NEW t \in Thread, SelectThread(t) PROVE SessionStep
  BY <1>12, <1>0, SessionSelects DEF SelectThread, AtPrompt
<1>13. CASE ContinueCommand
  BY <1>13, <1>0, SessionChanges DEF ContinueCommand, AtPrompt, Stopped
<1>14. CASE ResumeCommand
  BY <1>14, <1>0, SessionChanges DEF ResumeCommand, AtPrompt
<1>15. CASE StepInstruction
  BY <1>15 DEF StepInstruction
<1>16. CASE CtrlC
  BY <1>16, <1>0, SessionStutters DEF CtrlC
<1>17. ASSUME NEW t \in Thread, StepOverNothing(t) PROVE SessionStep
  BY <1>17, <1>0, SessionStutters DEF StepOverNothing
<1>18. ASSUME NEW t \in Thread, StepOverBreakpoint(t) PROVE SessionStep
  BY <1>18, <1>0, SessionStutters DEF StepOverBreakpoint
<1>19. ASSUME NEW t \in Thread, ContinueThread(t) PROVE SessionStep
  BY <1>19, <1>0, SessionRuns DEF ContinueThread, Restart, SetState
<1>20. ASSUME NEW t \in Thread, ContinueFails(t) PROVE SessionStep
  <2>1. Alive(t)
    BY <1>20 DEF ContinueFails, Tracked
  <2>. QED BY <1>20, <2>1, AtRest DEF ContinueFails, Tracked, WaitInv
<1>21. ASSUME NEW t \in Thread, CloneEvent(t) PROVE SessionStep
  BY <1>21, <1>0, SessionRuns DEF CloneEvent, Waited, Reportable, ReapAndContinue, Tracked
<1>22. ASSUME NEW t \in Thread, NewThread(t) PROVE SessionStep
  BY <1>22, <1>0, SessionRuns DEF NewThread, Waited, Reportable, ReapAndContinue, SetState, Tracked
<1>23. ASSUME NEW t \in Thread, PendingStop(t) PROVE SessionStep
  BY <1>23, <1>0, SessionRuns DEF PendingStop, Waited, Reportable, ReapAndContinue, SetState, Tracked, IsSigstop
<1>24. ASSUME NEW t \in Thread, HandlerResumes(t) PROVE SessionStep
  BY <1>24, <1>0, SessionRuns DEF HandlerResumes, Waited, Reportable, ReapAndContinue, SetState, Tracked, Rewound
<1>25. ASSUME NEW t \in Thread, ReportStop(t) PROVE SessionStep
  BY <1>25, <1>0, SessionStops DEF ReportStop, Waited, Reportable, Reap, SetState, Tracked, IsSigstop, Rewound
<1>26. ASSUME NEW t \in Thread, ThreadExits(t) PROVE SessionStep
  BY <1>26, <1>0 DEF ThreadExits, Waited, Reportable, Reap, SetState
<1>27. ASSUME NEW t \in Thread, SendSigstop(t) PROVE SessionStep
  BY <1>27, <1>0, SessionCalms DEF SendSigstop
<1>28. CASE SwallowNothing
  BY <1>28, <1>0, SessionStutters DEF SwallowNothing
<1>29. CASE SwallowContinues
  BY <1>29, <1>0, SessionStepsOver DEF SwallowContinues, Restart
<1>30. CASE Swallowed
  BY <1>30, <1>0, SessionStutters DEF Swallowed, Reportable, Reap
<1>31. CASE SingleStep
  BY <1>31, <1>0, SessionStepsOver DEF SingleStep, Restart, SetState
<1>32. CASE SingleStepFails
  <2>1. Alive(me)
    BY <1>32 DEF SingleStepFails, Tracked
  <2>. QED BY <1>32, <2>1, AtRest DEF SingleStepFails, Tracked, WaitInv
<1>33. CASE StepOverDone
  BY <1>33, <1>0, SessionStutters DEF StepOverDone, Reportable, Reap
<1>34. CASE StartPass2
  BY <1>34, <1>0, SessionChanges DEF StartPass2, Stopped
<1>35. CASE StartWait
  BY <1>35, <1>0, SessionStutters DEF StartWait
<1>36. CASE MainExits
  BY <1>36, <1>0 DEF MainExits, Waited, Reportable, Reap, SetState
<1>37. CASE CollectStop
  BY <1>37, <1>0, SessionStutters DEF CollectStop, Reportable, Reap, SetState, IsSigstop, Rewound
<1>38. CASE CollectExit
  BY <1>38, <1>0 DEF CollectExit, Reportable, Reap, SetState
<1>39. CASE CollectFails
  BY <1>39, <1>0 DEF CollectFails
<1>40. CASE Return
  <2>1. st[Main] # "exited"
    OBVIOUS
  <2>2. /\ phase = "stopping" /\ todo = {} /\ phase' = "prompt"
        /\ UNCHANGED <<run, sig, loc, current>>
    BY <1>40, <2>1, ReturnEffect
  <2>. QED BY <1>0, <2>2, SessionChanges
<1>41. CASE UNCHANGED vars
  BY <1>41, SessionStutters DEF vars, SessionState
<1>. QED BY <1>1, <1>2, <1>3, <1>4, <1>5, <1>6, <1>7, <1>8, <1>9, <1>10, 
         <1>11, <1>12, <1>13, <1>14, <1>15, <1>16, <1>17, <1>18, <1>19, 
         <1>20, <1>21, <1>22, <1>23, <1>24, <1>25, <1>26, <1>27, <1>28, 
         <1>29, <1>30, <1>31, <1>32, <1>33, <1>34, <1>35, <1>36, <1>37, 
         <1>38, <1>39, <1>40, <1>41
         DEF Next, User, Debugger, Kernel

(* A program whose threads live on, controlled with continue and resume,   *)
(* is controlled as AllStopSession promises: sites are stepped over with   *)
(* everything else at rest, no running thread leaves the site unseen, and  *)
(* while a stop is reported nothing is set going before the prompt is      *)
(* back.  Single instructions and threads that end are excluded because    *)
(* the code does not keep the promise for them (see NoFreeRun).            *)
THEOREM SessionImplemented ==
  ASSUME "exit" \notin World, "exitgroup" \notin World, "stepi" \notin Commands
  PROVE  Spec => ImplementsSession
<1>1. Init => Session!Init
  <2> SUFFICES ASSUME Init PROVE Session!Init
    OBVIOUS
  <2>1. SessionState = "prompt" /\ current \in Thread
    BY SessionStates DEF Init
  <2>2. \A t \in Thread : ~CanExecute(t)
    BY DEF Init, CanExecute
  <2>3. {t \in Thread : CanExecute(t)} = {}
    BY <2>2
  <2>. QED BY <2>1, <2>3 DEF Session!Init
<1>2. /\ TypeOK /\ ControlInv /\ WaitInv /\ BookInv
      /\ GroupInv /\ QueuedInv /\ TrapInv /\ LiveInv /\ [Next]_vars
      => [Session!Next]_(Session!vars)
  BY SessionSimulated DEF SessionStep
<1>. QED BY <1>1, <1>2, LiveCorrect, PTL DEF Spec, ImplementsSession, Session!Spec
=============================================================================
