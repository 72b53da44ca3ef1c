--------------------------- MODULE Target_proofs ---------------------------
(* Proofs about a session from Launch or Attach to Close, for any number   *)
(* of threads and any libraries.                                           *)
EXTENDS Target, SequenceTheorems, WellFoundedInduction, TLAPS

USE TargetAssumption

(* The types of what is kept about the threads.                            *)
ThreadsOK ==
  /\ run \in [Thread -> {"none", "run", "stop", "zombie", "gone"}]
  /\ ev \in [Thread -> {"none", "clone", "new", "interrupt", "sigstop", "trap"}]
  /\ traced \subseteq Thread /\ follow \subseteq Thread /\ asked \subseteq Thread /\ stops \subseteq Thread
  /\ group \in {"running", "stopped", "killed"}
  /\ kind \in {"static", "early", "dynamic"}
  /\ phase \in {"launch", "entry", "seize", "interrupt", "wait", "list", "next", "track", "resolve", "plant",
                "prompt", "failed", "running",
                "closing", "closewait", "detach", "sigcont", "kill", "closed"}
  /\ todo \subseteq Thread /\ me \in Thread
  /\ st \in [Thread -> {"unlisted", "stopped", "running"}]
  /\ owned \in BOOLEAN
  /\ late \subseteq Thread /\ lost \subseteq Thread

(* Every step keeps the types.                                             *)
LEMMA ThreadsStep == ThreadsOK /\ [Next]_vars => ThreadsOK'
<1> SUFFICES ASSUME ThreadsOK, [Next]_vars PROVE ThreadsOK'
  OBVIOUS
<1> USE DEF ThreadsOK, kernel, linker, debugger, history, Listed, Alive
<1>1. CASE LinkerDone
  BY <1>1 DEF LinkerDone
<1>2. ASSUME NEW t \in Thread, ThreadExits(t) PROVE ThreadsOK'
  BY <1>2 DEF ThreadExits
<1>3. ASSUME NEW t \in Thread, Stop(t) PROVE ThreadsOK'
  BY <1>3 DEF Stop
<1>4. ASSUME NEW t \in Thread, GroupStop(t) PROVE ThreadsOK'
  BY <1>4 DEF GroupStop
<1>5. ASSUME NEW t \in Thread, DlCall(t) PROVE ThreadsOK'
  BY <1>5 DEF DlCall
<1>6. ASSUME NEW t \in Thread, DlMap(t) PROVE ThreadsOK'
  BY <1>6 DEF DlMap
<1>7. ASSUME NEW t \in Thread, DlBrk(t) PROVE ThreadsOK'
  BY <1>7 DEF DlBrk
<1>8. ASSUME NEW t \in Thread, NEW u \in Thread, Clone(t, u) PROVE ThreadsOK'
  BY <1>8 DEF Clone
<1>9. CASE Seize
  BY <1>9 DEF Seize
<1>10. CASE Interrupt
  BY <1>10 DEF Interrupt
<1>11. CASE WaitAttached
  BY <1>11 DEF WaitAttached
<1>12. CASE ReadTasks
  BY <1>12 DEF ReadTasks
<1>13. CASE NextTask
  BY <1>13 DEF NextTask
<1>14. CASE Track
  BY <1>14 DEF Track, EnableThreadTracking
<1>15. CASE Resolve \/ PlantTrap
  BY <1>15 DEF Resolve, PlantTrap
<1>16. CASE CloseStops
  BY <1>16 DEF CloseStops
<1>17. CASE CloseWaits
  BY <1>17 DEF CloseWaits
<1>18. CASE CloseStopped
  BY <1>18 DEF CloseStopped
<1>19. CASE Detach
  BY <1>19 DEF Detach
<1>20. CASE SendSigcont
  BY <1>20 DEF SendSigcont, Continued
<1>21. CASE Kill
  BY <1>21 DEF Kill
<1>22. CASE LaunchTarget
  BY <1>22 DEF LaunchTarget
<1>23. CASE EntryHit
  BY <1>23 DEF EntryHit
<1>24. CASE Continue
  BY <1>24 DEF Continue, Stopped
<1>25. CASE ReportStop
  BY <1>25 DEF ReportStop
<1>26. CASE CloseBegins
  BY <1>26 DEF CloseBegins
<1>27. ASSUME NEW t \in Thread, HandleSignal(t) PROVE ThreadsOK'
  BY <1>27 DEF HandleSignal
<1>28. CASE Over
  BY <1>28 DEF Over, vars
<1>29. CASE Computes
  BY <1>29 DEF Computes, vars
<1>30. CASE UNCHANGED vars
  BY <1>30 DEF vars
<1>. QED BY <1>1, <1>2, <1>3, <1>4, <1>5, <1>6, <1>7, <1>8, <1>9, <1>10, 
         <1>11, <1>12, <1>13, <1>14, <1>15, <1>16, <1>17, <1>18, <1>19, 
         <1>20, <1>21, <1>22, <1>23, <1>24, <1>25, <1>26, <1>27, <1>28, 
         <1>29, <1>30
         DEF Next, Attaches, Closes, Session, Process

(* So what the debugger and the kernel keep about the threads has its type. *)
LEMMA ThreadsCorrect == Spec => []ThreadsOK
<1>1. Init => ThreadsOK
  BY DEF Init, ThreadsOK
<1>. QED BY <1>1, ThreadsStep, PTL DEF Spec
-----------------------------------------------------------------------------
(* The inductive invariant, part by part.                                  *)

InSession == phase \in {"prompt", "failed", "running"}

(* A thread that does not exist yet is neither listed nor traced.          *)
UnbornInv == \A t \in Thread : run[t] = "none" => t \notin Listed /\ t \notin traced

(* A launched process has one thread, under control, until the prompt.     *)
LaunchInv ==
  phase \in {"launch", "entry"} =>
    /\ \A t \in Thread \ {Main} : run[t] = "none" /\ st[t] = "unlisted"
    /\ Main \in traced /\ Main \in Alive /\ Main \in Listed
    /\ phase = "launch" => run[Main] = "stop"
    /\ phase = "entry" => Main \in follow
    /\ asked = {} /\ stops = {} /\ late = {} /\ lost = {} /\ group = "running" /\ ~trap

(* While Attach goes on nothing else touches the threads; Main is the      *)
(* first to be listed.                                                     *)
AttachQuiet ==
  Attaching =>
    /\ stops = {} /\ group = "running" /\ ~trap /\ Main \in Alive
    /\ phase \notin {"resolve", "plant"} => follow = {}
    /\ asked # {} => phase = "wait" /\ asked = {me}
    /\ phase \in {"list", "next", "track", "resolve", "plant"} => Main \in Listed
    /\ phase \in {"seize", "interrupt", "wait"} => me \notin Listed /\ (Main \notin Listed => me = Main)
    /\ phase \in {"track", "resolve", "plant"} => todo = {}

(* The thread Attach is on: traced, and lost if it exits before wait4      *)
(* returns.                                                                *)
AttachMe ==
  /\ phase \in {"interrupt", "wait"} => me \in traced /\ run[me] \in {"run", "stop", "zombie"}
  /\ phase = "interrupt" => run[me] # "stop"
  /\ phase = "wait" /\ run[me] # "run" => asked = {}
  /\ phase = "wait" /\ run[me] = "zombie" => me \in lost
  /\ Attaching => \A t \in Thread : run[t] = "stop" => t \in traced

(* Of the threads that /proc/<pid>/task listed each is dealt with, to be   *)
(* visited, or the one Attach is on; a traced one is listed or that one.   *)
AttachCovers ==
  Attaching =>
    /\ \A t \in Listed : st[t] = "stopped" /\ t \in traced
                         /\ (run[t] = "stop" \/ (t \in lost /\ t \notin Alive))
    /\ \A t \in traced \cap Alive : t \in Listed \/ (t = me /\ phase \in {"interrupt", "wait"})
    /\ Main \in Listed /\ phase # "list" =>
         \A t \in Alive \ late : \/ t \in Listed \/ t \in todo
                                 \/ t = me /\ phase \in {"seize", "interrupt", "wait"}
    /\ todo \cap Listed = {}
    /\ phase \in {"seize", "interrupt", "wait"} => me \notin todo
    /\ phase \in {"resolve", "plant"} /\ lost = {} => Listed \subseteq follow

(* In the session every thread that is not late is traced, and followed    *)
(* unless Attach lost one; one that is not listed has not been met.        *)
SessionInv ==
  InSession /\ group # "killed" =>
    /\ Alive \ late \subseteq traced
    /\ Listed \subseteq traced
    /\ lost = {} => Alive \cap traced \subseteq follow
    /\ \A t \in Alive \cap traced : t \in Listed \/ (run[t] = "stop" /\ ev[t] = "new")
    /\ \A t \in Listed \cap Alive : st[t] = "stopped" => run[t] = "stop"
    /\ phase = "prompt" => \A t \in Listed : run[t] = "stop" \/ (t \in lost /\ t \notin Alive)

(* Close: what is listed and lives is stopped, or its turn is to come;     *)
(* then it is stopped until it is detached, and free after it.             *)
CloseInv ==
  /\ phase \in {"closing", "closewait"} =>
       \A t \in Listed \cap Alive : run[t] = "stop" \/ t \in todo \/ (phase = "closewait" /\ t = me)
  /\ phase = "detach" =>
       \A t \in Listed \cap Alive : IF t \in todo THEN run[t] = "stop" ELSE run[t] = "run" /\ t \notin traced
  /\ phase \in {"sigcont", "kill", "closed"} => \A t \in Listed \cap Alive : run[t] = "run" /\ t \notin traced
  /\ phase \in {"kill", "closed"} => stops = {} /\ group # "stopped"
  /\ phase = "closed" /\ owned => Alive = {}

HoldInv == UnbornInv /\ LaunchInv /\ AttachQuiet /\ AttachMe /\ AttachCovers /\ SessionInv /\ CloseInv

(* Lists name threads that exist.                                          *)
LEMMA UnbornStep == ThreadsOK /\ HoldInv /\ [Next]_vars => UnbornInv'
<1> SUFFICES ASSUME ThreadsOK, HoldInv, [Next]_vars PROVE UnbornInv'
  OBVIOUS
<1> USE DEF ThreadsOK, HoldInv, UnbornInv, LaunchInv, Alive, Listed, Executes, Active, Attaching, InSession,
            kernel, linker, debugger, history
<1>1. CASE LinkerDone
  BY <1>1 DEF LinkerDone
<1>2. ASSUME NEW t \in Thread, ThreadExits(t) PROVE UnbornInv'
  BY <1>2 DEF ThreadExits
<1>3. ASSUME NEW t \in Thread, Stop(t) PROVE UnbornInv'
  BY <1>3 DEF Stop
<1>4. ASSUME NEW t \in Thread, GroupStop(t) PROVE UnbornInv'
  BY <1>4 DEF GroupStop
<1>5. ASSUME NEW t \in Thread, DlCall(t) PROVE UnbornInv'
  BY <1>5 DEF DlCall
<1>6. ASSUME NEW t \in Thread, DlMap(t) PROVE UnbornInv'
  BY <1>6 DEF DlMap
<1>7. ASSUME NEW t \in Thread, DlBrk(t) PROVE UnbornInv'
  BY <1>7 DEF DlBrk
<1>8. ASSUME NEW t \in Thread, NEW u \in Thread, Clone(t, u) PROVE UnbornInv'
  BY <1>8 DEF Clone
<1>9. CASE Seize
  BY <1>9 DEF Seize
<1>10. CASE Interrupt
  BY <1>10 DEF Interrupt
<1>11. CASE WaitAttached
  BY <1>11 DEF WaitAttached
<1>12. CASE ReadTasks
  BY <1>12 DEF ReadTasks
<1>13. CASE NextTask
  BY <1>13 DEF NextTask
<1>14. CASE Track
  BY <1>14 DEF Track, EnableThreadTracking
<1>15. CASE Resolve \/ PlantTrap
  BY <1>15 DEF Resolve, PlantTrap
<1>16. CASE CloseStops
  BY <1>16 DEF CloseStops
<1>17. CASE CloseWaits
  BY <1>17 DEF CloseWaits
<1>18. CASE CloseStopped
  BY <1>18 DEF CloseStopped
<1>19. CASE Detach
  BY <1>19 DEF Detach
<1>20. CASE SendSigcont
  BY <1>20 DEF SendSigcont, Continued
<1>21. CASE Kill
  BY <1>21 DEF Kill
<1>22. CASE LaunchTarget
  BY <1>22 DEF LaunchTarget
<1>23. CASE EntryHit
  BY <1>23 DEF EntryHit
<1>24. CASE Continue
  BY <1>24 DEF Continue, Stopped
<1>25. CASE ReportStop
  BY <1>25 DEF ReportStop
<1>26. CASE CloseBegins
  BY <1>26 DEF CloseBegins
<1>27. ASSUME NEW t \in Thread, HandleSignal(t) PROVE UnbornInv'
  BY <1>27 DEF HandleSignal
<1>28. CASE Over
  BY <1>28 DEF Over, vars
<1>29. CASE Computes
  BY <1>29 DEF Computes, vars
<1>30. CASE UNCHANGED vars
  BY <1>30 DEF vars
<1>. QED BY <1>1, <1>2, <1>3, <1>4, <1>5, <1>6, <1>7, <1>8, <1>9, <1>10, 
         <1>11, <1>12, <1>13, <1>14, <1>15, <1>16, <1>17, <1>18, <1>19, 
         <1>20, <1>21, <1>22, <1>23, <1>24, <1>25, <1>26, <1>27, <1>28, 
         <1>29, <1>30
         DEF Next, Attaches, Closes, Session, Process

(* A launched process.                                                     *)
LEMMA LaunchStep == ThreadsOK /\ HoldInv /\ [Next]_vars => LaunchInv'
<1> SUFFICES ASSUME ThreadsOK, HoldInv, [Next]_vars PROVE LaunchInv'
  OBVIOUS
<1> USE DEF ThreadsOK, HoldInv, LaunchInv, Alive, Listed, Executes, Active, Attaching, InSession,
            kernel, linker, debugger, history
<1>1. CASE LinkerDone
  BY <1>1 DEF LinkerDone
<1>2. ASSUME NEW t \in Thread, ThreadExits(t) PROVE LaunchInv'
  BY <1>2 DEF ThreadExits
<1>3. ASSUME NEW t \in Thread, Stop(t) PROVE LaunchInv'
  BY <1>3 DEF Stop
<1>4. ASSUME NEW t \in Thread, GroupStop(t) PROVE LaunchInv'
  BY <1>4 DEF GroupStop
<1>5. ASSUME NEW t \in Thread, DlCall(t) PROVE LaunchInv'
  BY <1>5 DEF DlCall
<1>6. ASSUME NEW t \in Thread, DlMap(t) PROVE LaunchInv'
  BY <1>6 DEF DlMap
<1>7. ASSUME NEW t \in Thread, DlBrk(t) PROVE LaunchInv'
  BY <1>7 DEF DlBrk
<1>8. ASSUME NEW t \in Thread, NEW u \in Thread, Clone(t, u) PROVE LaunchInv'
  BY <1>8 DEF Clone
<1>9. CASE Seize
  BY <1>9 DEF Seize
<1>10. CASE Interrupt
  BY <1>10 DEF Interrupt
<1>11. CASE WaitAttached
  BY <1>11 DEF WaitAttached
<1>12. CASE ReadTasks
  BY <1>12 DEF ReadTasks
<1>13. CASE NextTask
  BY <1>13 DEF NextTask
<1>14. CASE Track
  BY <1>14 DEF Track, EnableThreadTracking
<1>15. CASE Resolve \/ PlantTrap
  BY <1>15 DEF Resolve, PlantTrap
<1>16. CASE CloseStops
  BY <1>16 DEF CloseStops
<1>17. CASE CloseWaits
  BY <1>17 DEF CloseWaits
<1>18. CASE CloseStopped
  BY <1>18 DEF CloseStopped
<1>19. CASE Detach
  BY <1>19 DEF Detach
<1>20. CASE SendSigcont
  BY <1>20 DEF SendSigcont, Continued
<1>21. CASE Kill
  BY <1>21 DEF Kill
<1>22. CASE LaunchTarget
  BY <1>22 DEF LaunchTarget
<1>23. CASE EntryHit
  BY <1>23 DEF EntryHit
<1>24. CASE Continue
  BY <1>24 DEF Continue, Stopped
<1>25. CASE ReportStop
  BY <1>25 DEF ReportStop
<1>26. CASE CloseBegins
  BY <1>26 DEF CloseBegins
<1>27. ASSUME NEW t \in Thread, HandleSignal(t) PROVE LaunchInv'
  BY <1>27 DEF HandleSignal
<1>28. CASE Over
  BY <1>28 DEF Over, vars
<1>29. CASE Computes
  BY <1>29 DEF Computes, vars
<1>30. CASE UNCHANGED vars
  BY <1>30 DEF vars
<1>. QED BY <1>1, <1>2, <1>3, <1>4, <1>5, <1>6, <1>7, <1>8, <1>9, <1>10, 
         <1>11, <1>12, <1>13, <1>14, <1>15, <1>16, <1>17, <1>18, <1>19, 
         <1>20, <1>21, <1>22, <1>23, <1>24, <1>25, <1>26, <1>27, <1>28, 
         <1>29, <1>30
         DEF Next, Attaches, Closes, Session, Process

(* What holds while Attach goes on.                                        *)
LEMMA QuietStep == ThreadsOK /\ HoldInv /\ [Next]_vars => AttachQuiet'
<1> SUFFICES ASSUME ThreadsOK, HoldInv, [Next]_vars PROVE AttachQuiet'
  OBVIOUS
<1> USE DEF ThreadsOK, HoldInv, LaunchInv, AttachQuiet, AttachMe, AttachCovers, Alive, Listed, Executes, Active, Attaching, InSession,
            kernel, linker, debugger, history
<1>1. CASE LinkerDone
  BY <1>1 DEF LinkerDone
<1>2. ASSUME NEW t \in Thread, ThreadExits(t) PROVE AttachQuiet'
  BY <1>2 DEF ThreadExits
<1>3. ASSUME NEW t \in Thread, Stop(t) PROVE AttachQuiet'
  BY <1>3 DEF Stop
<1>4. ASSUME NEW t \in Thread, GroupStop(t) PROVE AttachQuiet'
  BY <1>4 DEF GroupStop
<1>5. ASSUME NEW t \in Thread, DlCall(t) PROVE AttachQuiet'
  BY <1>5 DEF DlCall
<1>6. ASSUME NEW t \in Thread, DlMap(t) PROVE AttachQuiet'
  BY <1>6 DEF DlMap
<1>7. ASSUME NEW t \in Thread, DlBrk(t) PROVE AttachQuiet'
  BY <1>7 DEF DlBrk
<1>8. ASSUME NEW t \in Thread, NEW u \in Thread, Clone(t, u) PROVE AttachQuiet'
  BY <1>8 DEF Clone
<1>9. CASE Seize
  BY <1>9 DEF Seize
<1>10. CASE Interrupt
  BY <1>10 DEF Interrupt
<1>11. CASE WaitAttached
  BY <1>11 DEF WaitAttached
<1>12. CASE ReadTasks
  BY <1>12 DEF ReadTasks
<1>13. CASE NextTask
  BY <1>13 DEF NextTask
<1>14. CASE Track
  BY <1>14 DEF Track, EnableThreadTracking
<1>15. CASE Resolve \/ PlantTrap
  BY <1>15 DEF Resolve, PlantTrap
<1>16. CASE CloseStops
  BY <1>16 DEF CloseStops
<1>17. CASE CloseWaits
  BY <1>17 DEF CloseWaits
<1>18. CASE CloseStopped
  BY <1>18 DEF CloseStopped
<1>19. CASE Detach
  BY <1>19 DEF Detach
<1>20. CASE SendSigcont
  BY <1>20 DEF SendSigcont, Continued
<1>21. CASE Kill
  BY <1>21 DEF Kill
<1>22. CASE LaunchTarget
  BY <1>22 DEF LaunchTarget
<1>23. CASE EntryHit
  BY <1>23 DEF EntryHit
<1>24. CASE Continue
  BY <1>24 DEF Continue, Stopped
<1>25. CASE ReportStop
  BY <1>25 DEF ReportStop
<1>26. CASE CloseBegins
  BY <1>26 DEF CloseBegins
<1>27. ASSUME NEW t \in Thread, HandleSignal(t) PROVE AttachQuiet'
  BY <1>27 DEF HandleSignal
<1>28. CASE Over
  BY <1>28 DEF Over, vars
<1>29. CASE Computes
  BY <1>29 DEF Computes, vars
<1>30. CASE UNCHANGED vars
  BY <1>30 DEF vars
<1>. QED BY <1>1, <1>2, <1>3, <1>4, <1>5, <1>6, <1>7, <1>8, <1>9, <1>10, 
         <1>11, <1>12, <1>13, <1>14, <1>15, <1>16, <1>17, <1>18, <1>19, 
         <1>20, <1>21, <1>22, <1>23, <1>24, <1>25, <1>26, <1>27, <1>28, 
         <1>29, <1>30
         DEF Next, Attaches, Closes, Session, Process

(* The thread Attach is on.                                                *)
LEMMA MeStep == ThreadsOK /\ HoldInv /\ [Next]_vars => AttachMe'
<1> SUFFICES ASSUME ThreadsOK, HoldInv, [Next]_vars PROVE AttachMe'
  OBVIOUS
<1> USE DEF ThreadsOK, HoldInv, LaunchInv, AttachQuiet, AttachMe, AttachCovers, Alive, Listed, Executes, Active, Attaching, InSession,
            kernel, linker, debugger, history
<1>1. CASE LinkerDone
  BY <1>1 DEF LinkerDone
<1>2. ASSUME NEW t \in Thread, ThreadExits(t) PROVE AttachMe'
  BY <1>2 DEF ThreadExits
<1>3. ASSUME NEW t \in Thread, Stop(t) PROVE AttachMe'
  BY <1>3 DEF Stop
<1>4. ASSUME NEW t \in Thread, GroupStop(t) PROVE AttachMe'
  BY <1>4 DEF GroupStop
<1>5. ASSUME NEW t \in Thread, DlCall(t) PROVE AttachMe'
  BY <1>5 DEF DlCall
<1>6. ASSUME NEW t \in Thread, DlMap(t) PROVE AttachMe'
  BY <1>6 DEF DlMap
<1>7. ASSUME NEW t \in Thread, DlBrk(t) PROVE AttachMe'
  BY <1>7 DEF DlBrk
<1>8. ASSUME NEW t \in Thread, NEW u \in Thread, Clone(t, u) PROVE AttachMe'
  BY <1>8 DEF Clone
<1>9. CASE Seize
  BY <1>9 DEF Seize
<1>10. CASE Interrupt
  BY <1>10 DEF Interrupt
<1>11. CASE WaitAttached
  BY <1>11 DEF WaitAttached
<1>12. CASE ReadTasks
  BY <1>12 DEF ReadTasks
<1>13. CASE NextTask
  BY <1>13 DEF NextTask
<1>14. CASE Track
  BY <1>14 DEF Track, EnableThreadTracking
<1>15. CASE Resolve \/ PlantTrap
  BY <1>15 DEF Resolve, PlantTrap
<1>16. CASE CloseStops
  BY <1>16 DEF CloseStops
<1>17. CASE CloseWaits
  BY <1>17 DEF CloseWaits
<1>18. CASE CloseStopped
  BY <1>18 DEF CloseStopped
<1>19. CASE Detach
  BY <1>19 DEF Detach
<1>20. CASE SendSigcont
  BY <1>20 DEF SendSigcont, Continued
<1>21. CASE Kill
  BY <1>21 DEF Kill
<1>22. CASE LaunchTarget
  BY <1>22 DEF LaunchTarget
<1>23. CASE EntryHit
  BY <1>23 DEF EntryHit
<1>24. CASE Continue
  BY <1>24 DEF Continue, Stopped
<1>25. CASE ReportStop
  BY <1>25 DEF ReportStop
<1>26. CASE CloseBegins
  BY <1>26 DEF CloseBegins
<1>27. ASSUME NEW t \in Thread, HandleSignal(t) PROVE AttachMe'
  BY <1>27 DEF HandleSignal
<1>28. CASE Over
  BY <1>28 DEF Over, vars
<1>29. CASE Computes
  BY <1>29 DEF Computes, vars
<1>30. CASE UNCHANGED vars
  BY <1>30 DEF vars
<1>. QED BY <1>1, <1>2, <1>3, <1>4, <1>5, <1>6, <1>7, <1>8, <1>9, <1>10, 
         <1>11, <1>12, <1>13, <1>14, <1>15, <1>16, <1>17, <1>18, <1>19, 
         <1>20, <1>21, <1>22, <1>23, <1>24, <1>25, <1>26, <1>27, <1>28, 
         <1>29, <1>30
         DEF Next, Attaches, Closes, Session, Process

(* The threads Attach has to deal with.                                    *)
LEMMA CoversStep == ThreadsOK /\ HoldInv /\ [Next]_vars => AttachCovers'
<1> SUFFICES ASSUME ThreadsOK, HoldInv, [Next]_vars PROVE AttachCovers'
  OBVIOUS
<1> USE DEF ThreadsOK, HoldInv, UnbornInv, LaunchInv, AttachQuiet, AttachMe, AttachCovers, Alive, Listed, Executes, Active, Attaching, InSession,
            kernel, linker, debugger, history
<1>1. CASE LinkerDone
  BY <1>1 DEF LinkerDone
<1>2. ASSUME NEW t \in Thread, ThreadExits(t) PROVE AttachCovers'
  BY <1>2 DEF ThreadExits
<1>3. ASSUME NEW t \in Thread, Stop(t) PROVE AttachCovers'
  BY <1>3 DEF Stop
<1>4. ASSUME NEW t \in Thread, GroupStop(t) PROVE AttachCovers'
  BY <1>4 DEF GroupStop
<1>5. ASSUME NEW t \in Thread, DlCall(t) PROVE AttachCovers'
  BY <1>5 DEF DlCall
<1>6. ASSUME NEW t \in Thread, DlMap(t) PROVE AttachCovers'
  BY <1>6 DEF DlMap
<1>7. ASSUME NEW t \in Thread, DlBrk(t) PROVE AttachCovers'
  BY <1>7 DEF DlBrk
<1>8. ASSUME NEW t \in Thread, NEW u \in Thread, Clone(t, u) PROVE AttachCovers'
  BY <1>8 DEF Clone
<1>9. CASE Seize
  BY <1>9 DEF Seize
<1>10. CASE Interrupt
  BY <1>10 DEF Interrupt
<1>11. CASE WaitAttached
  BY <1>11 DEF WaitAttached
<1>12. CASE ReadTasks
  BY <1>12 DEF ReadTasks
<1>13. CASE NextTask
  BY <1>13 DEF NextTask
<1>14. CASE Track
  BY <1>14 DEF Track, EnableThreadTracking
<1>15. CASE Resolve \/ PlantTrap
  BY <1>15 DEF Resolve, PlantTrap
<1>16. CASE CloseStops
  BY <1>16 DEF CloseStops
<1>17. CASE CloseWaits
  BY <1>17 DEF CloseWaits
<1>18. CASE CloseStopped
  BY <1>18 DEF CloseStopped
<1>19. CASE Detach
  BY <1>19 DEF Detach
<1>20. CASE SendSigcont
  BY <1>20 DEF SendSigcont, Continued
<1>21. CASE Kill
  BY <1>21 DEF Kill
<1>22. CASE LaunchTarget
  BY <1>22 DEF LaunchTarget
<1>23. CASE EntryHit
  BY <1>23 DEF EntryHit
<1>24. CASE Continue
  BY <1>24 DEF Continue, Stopped
<1>25. CASE ReportStop
  BY <1>25 DEF ReportStop
<1>26. CASE CloseBegins
  BY <1>26 DEF CloseBegins
<1>27. ASSUME NEW t \in Thread, HandleSignal(t) PROVE AttachCovers'
  BY <1>27 DEF HandleSignal
<1>28. CASE Over
  BY <1>28 DEF Over, vars
<1>29. CASE Computes
  BY <1>29 DEF Computes, vars
<1>30. CASE UNCHANGED vars
  BY <1>30 DEF vars
<1>. QED BY <1>1, <1>2, <1>3, <1>4, <1>5, <1>6, <1>7, <1>8, <1>9, <1>10, 
         <1>11, <1>12, <1>13, <1>14, <1>15, <1>16, <1>17, <1>18, <1>19, 
         <1>20, <1>21, <1>22, <1>23, <1>24, <1>25, <1>26, <1>27, <1>28, 
         <1>29, <1>30
         DEF Next, Attaches, Closes, Session, Process

(* The session.                                                            *)
LEMMA SessionStep == ThreadsOK /\ HoldInv /\ [Next]_vars => SessionInv'
<1> SUFFICES ASSUME ThreadsOK, HoldInv, [Next]_vars PROVE SessionInv'
  OBVIOUS
<1> USE DEF ThreadsOK, HoldInv, UnbornInv, LaunchInv, AttachQuiet, AttachCovers, SessionInv, Alive, Listed, Executes, Active, Attaching, InSession,
            kernel, linker, debugger, history
<1>1. CASE LinkerDone
  BY <1>1 DEF LinkerDone
<1>2. ASSUME NEW t \in Thread, ThreadExits(t) PROVE SessionInv'
  BY <1>2 DEF ThreadExits
<1>3. ASSUME NEW t \in Thread, Stop(t) PROVE SessionInv'
  BY <1>3 DEF Stop
<1>4. ASSUME NEW t \in Thread, GroupStop(t) PROVE SessionInv'
  BY <1>4 DEF GroupStop
<1>5. ASSUME NEW t \in Thread, DlCall(t) PROVE SessionInv'
  BY <1>5 DEF DlCall
<1>6. ASSUME NEW t \in Thread, DlMap(t) PROVE SessionInv'
  BY <1>6 DEF DlMap
<1>7. ASSUME NEW t \in Thread, DlBrk(t) PROVE SessionInv'
  BY <1>7 DEF DlBrk
<1>8. ASSUME NEW t \in Thread, NEW u \in Thread, Clone(t, u) PROVE SessionInv'
  BY <1>8 DEF Clone
<1>9. CASE Seize
  BY <1>9 DEF Seize
<1>10. CASE Interrupt
  BY <1>10 DEF Interrupt
<1>11. CASE WaitAttached
  BY <1>11 DEF WaitAttached
<1>12. CASE ReadTasks
  BY <1>12 DEF ReadTasks
<1>13. CASE NextTask
  BY <1>13 DEF NextTask
<1>14. CASE Track
  BY <1>14 DEF Track, EnableThreadTracking
<1>15. CASE Resolve \/ PlantTrap
  BY <1>15 DEF Resolve, PlantTrap
<1>16. CASE CloseStops
  BY <1>16 DEF CloseStops
<1>17. CASE CloseWaits
  BY <1>17 DEF CloseWaits
<1>18. CASE CloseStopped
  BY <1>18 DEF CloseStopped
<1>19. CASE Detach
  BY <1>19 DEF Detach
<1>20. CASE SendSigcont
  BY <1>20 DEF SendSigcont, Continued
<1>21. CASE Kill
  BY <1>21 DEF Kill
<1>22. CASE LaunchTarget
  BY <1>22 DEF LaunchTarget
<1>23. CASE EntryHit
  BY <1>23 DEF EntryHit
<1>24. CASE Continue
  BY <1>24 DEF Continue, Stopped
<1>25. CASE ReportStop
  BY <1>25 DEF ReportStop
<1>26. CASE CloseBegins
  BY <1>26 DEF CloseBegins
<1>27. ASSUME NEW t \in Thread, HandleSignal(t) PROVE SessionInv'
  BY <1>27 DEF HandleSignal
<1>28. CASE Over
  BY <1>28 DEF Over, vars
<1>29. CASE Computes
  BY <1>29 DEF Computes, vars
<1>30. CASE UNCHANGED vars
  BY <1>30 DEF vars
<1>. QED BY <1>1, <1>2, <1>3, <1>4, <1>5, <1>6, <1>7, <1>8, <1>9, <1>10, 
         <1>11, <1>12, <1>13, <1>14, <1>15, <1>16, <1>17, <1>18, <1>19, 
         <1>20, <1>21, <1>22, <1>23, <1>24, <1>25, <1>26, <1>27, <1>28, 
         <1>29, <1>30
         DEF Next, Attaches, Closes, Session, Process

(* Close.                                                                  *)
LEMMA CloseStep == ThreadsOK /\ HoldInv /\ [Next]_vars => CloseInv'
<1> SUFFICES ASSUME ThreadsOK, HoldInv, [Next]_vars PROVE CloseInv'
  OBVIOUS
<1> USE DEF ThreadsOK, HoldInv, UnbornInv, SessionInv, CloseInv, Alive, Listed, Executes, Active, Attaching, InSession,
            kernel, linker, debugger, history
<1>1. CASE LinkerDone
  BY <1>1 DEF LinkerDone
<1>2. ASSUME NEW t \in Thread, ThreadExits(t) PROVE CloseInv'
  BY <1>2 DEF ThreadExits
<1>3. ASSUME NEW t \in Thread, Stop(t) PROVE CloseInv'
  BY <1>3 DEF Stop
<1>4. ASSUME NEW t \in Thread, GroupStop(t) PROVE CloseInv'
  BY <1>4 DEF GroupStop
<1>5. ASSUME NEW t \in Thread, DlCall(t) PROVE CloseInv'
  BY <1>5 DEF DlCall
<1>6. ASSUME NEW t \in Thread, DlMap(t) PROVE CloseInv'
  BY <1>6 DEF DlMap
<1>7. ASSUME NEW t \in Thread, DlBrk(t) PROVE CloseInv'
  BY <1>7 DEF DlBrk
<1>8. ASSUME NEW t \in Thread, NEW u \in Thread, Clone(t, u) PROVE CloseInv'
  BY <1>8 DEF Clone
<1>9. CASE Seize
  BY <1>9 DEF Seize
<1>10. CASE Interrupt
  BY <1>10 DEF Interrupt
<1>11. CASE WaitAttached
  BY <1>11 DEF WaitAttached
<1>12. CASE ReadTasks
  BY <1>12 DEF ReadTasks
<1>13. CASE NextTask
  BY <1>13 DEF NextTask
<1>14. CASE Track
  BY <1>14 DEF Track, EnableThreadTracking
<1>15. CASE Resolve \/ PlantTrap
  BY <1>15 DEF Resolve, PlantTrap
<1>16. CASE CloseStops
  BY <1>16 DEF CloseStops
<1>17. CASE CloseWaits
  BY <1>17 DEF CloseWaits
<1>18. CASE CloseStopped
  BY <1>18 DEF CloseStopped
<1>19. CASE Detach
  BY <1>19 DEF Detach
<1>20. CASE SendSigcont
  BY <1>20 DEF SendSigcont, Continued
<1>21. CASE Kill
  BY <1>21 DEF Kill
<1>22. CASE LaunchTarget
  BY <1>22 DEF LaunchTarget
<1>23. CASE EntryHit
  BY <1>23 DEF EntryHit
<1>24. CASE Continue
  BY <1>24 DEF Continue, Stopped
<1>25. CASE ReportStop
  BY <1>25 DEF ReportStop
<1>26. CASE CloseBegins
  BY <1>26 DEF CloseBegins
<1>27. ASSUME NEW t \in Thread, HandleSignal(t) PROVE CloseInv'
  BY <1>27 DEF HandleSignal
<1>28. CASE Over
  BY <1>28 DEF Over, vars
<1>29. CASE Computes
  BY <1>29 DEF Computes, vars
<1>30. CASE UNCHANGED vars
  BY <1>30 DEF vars
<1>. QED BY <1>1, <1>2, <1>3, <1>4, <1>5, <1>6, <1>7, <1>8, <1>9, <1>10, 
         <1>11, <1>12, <1>13, <1>14, <1>15, <1>16, <1>17, <1>18, <1>19, 
         <1>20, <1>21, <1>22, <1>23, <1>24, <1>25, <1>26, <1>27, <1>28, 
         <1>29, <1>30
         DEF Next, Attaches, Closes, Session, Process

(* All of it holds throughout.                                             *)
LEMMA HoldCorrect == Spec => [](ThreadsOK /\ HoldInv)
<1>1. Init => HoldInv
  <2> SUFFICES ASSUME Init PROVE HoldInv
    OBVIOUS
  <2>1. CASE phase = "launch"
    BY <2>1 DEF Init, HoldInv, UnbornInv, LaunchInv, AttachQuiet, AttachMe, AttachCovers, SessionInv,
                CloseInv, InSession, Attaching, Alive, Listed
  <2>2. CASE phase = "seize"
    BY <2>2 DEF Init, HoldInv, UnbornInv, LaunchInv, AttachQuiet, AttachMe, AttachCovers, SessionInv,
                CloseInv, InSession, Attaching, Alive, Listed
  <2>. QED BY <2>1, <2>2 DEF Init
<1>2. ThreadsOK /\ HoldInv /\ [Next]_vars => HoldInv'
  BY UnbornStep, LaunchStep, QuietStep, MeStep, CoversStep, SessionStep, CloseStep DEF HoldInv
<1>. QED BY <1>1, <1>2, ThreadsCorrect, PTL DEF Spec

(* At the prompt of a launched or attached process every thread is traced, *)
(* stopped, and listed or about to be met; only threads made during Attach *)
(* after the list was read, or after Attach lost a thread, can escape it.  *)
THEOREM PromptHeld == Spec => []PromptHoldsAll
<1>1. ThreadsOK /\ HoldInv => PromptHoldsAll
  BY DEF ThreadsOK, HoldInv, SessionInv, InSession, PromptHoldsAll, Alive, Listed
<1>. QED BY <1>1, HoldCorrect, PTL

(* After Close no thread of p.threads that lives is traced, stopped or     *)
(* about to be stopped, whatever it was doing; a launched process is gone. *)
THEOREM Released == Spec => []ReleasedAfterClose
<1>1. ThreadsOK /\ HoldInv => ReleasedAfterClose
  BY DEF ThreadsOK, HoldInv, CloseInv, ReleasedAfterClose, Executes
<1>. QED BY <1>1, HoldCorrect, PTL

-----------------------------------------------------------------------------
(* The link map and the collection of ELF files.                           *)

MapEntry == [lib : Lib, base : Base]

(* The link map has a library once, and no two at one address; one that is *)
(* to be mapped is not in it, one that is to be unmapped is.  A change is  *)
(* seen only once it is made.                                              *)
MapInv ==
  /\ map \in Seq(MapEntry)
  /\ \A i, j \in DOMAIN map : map[i].lib = map[j].lib \/ map[i].base = map[j].base => i = j
  /\ kind # "dynamic" => map = << >> /\ dl = NoDl
  /\ dl = NoDl \/ dl \in [by : Thread, open : BOOLEAN, entry : MapEntry,
                          at : {"before", "mid", "after"}, seen : BOOLEAN]
  /\ dl.seen => dl.at = "after"
  /\ dl.open /\ dl.at # "after" =>
       \A i \in DOMAIN map : map[i].lib # dl.entry.lib /\ map[i].base # dl.entry.base

(* The collection has a library once, and every entry of it was mapped.    *)
ElvesInv ==
  /\ elves \in Seq(MapEntry)
  /\ \A i, j \in DOMAIN elves : elves[i].lib = elves[j].lib => i = j
  /\ \A i \in DOMAIN elves : elves[i] \in closed \/ \E j \in DOMAIN map : map[j] = elves[i]

(* Once the list was read the trap is there, or to be planted next, and    *)
(* the collection covers the link map up to a change that is not seen yet, *)
(* or was missed.                                                          *)
CoverInv ==
  found => /\ kind = "dynamic" /\ (trap \/ phase = "plant")
           /\ ~missed => \A i \in DOMAIN map :
                \/ map[i].lib \in Broken \/ Has(elves, map[i].lib)
                \/ dl.open /\ dl.at = "after" /\ ~dl.seen /\ map[i] = dl.entry

LibInv == MapInv /\ ElvesInv /\ CoverInv

(* A set of numbers that is not empty has a least one: the base of the two *)
(* arguments by a least counterexample below.                              *)
LEMMA Least ==
  ASSUME NEW S, S \subseteq Nat, S # {}
  PROVE  \E x \in S : \A y \in S : x <= y
<1> DEFINE R == OpToRel(<, Nat)
<1>1. IsWellFoundedOn(R, Nat)
  BY NatLessThanWellFounded
<1>2. \A x, y \in Nat : y < x => <<y, x>> \in R
  BY DEF OpToRel
<1> HIDE DEF R
<1>3. PICK x \in S : \A y \in S : ~(<<y, x>> \in R)
  BY <1>1, WFMin
<1>4. \A y \in S : x <= y
  <2> TAKE y \in S
  <2>1. x \in Nat /\ y \in Nat
    OBVIOUS
  <2>2. ~(y < x)
    BY <1>2, <1>3, <2>1, Zenon
  <2> QED BY <2>1, <2>2
<1> QED BY <1>4

(* The loop of reloadDynamicLibraries over the entries m of the link map   *)
(* has a result after each of them.                                        *)
IsLoop(f, m, n) == f = [i \in 0 .. n |-> IF i = 0 THEN elves ELSE Loaded(f[i - 1], m[i])]

LEMMA LoopExists ==
  ASSUME NEW m, NEW n \in Nat
  PROVE  \E f : IsLoop(f, m, n)
<1> DEFINE S == {k \in Nat : ~\E f : IsLoop(f, m, k)}
<1> SUFFICES ASSUME S # {} PROVE FALSE
  OBVIOUS
<1>1. PICK k \in S : \A y \in S : k <= y
  BY Least
<1>2. k # 0
  <2> DEFINE f == [i \in 0 .. 0 |-> elves]
  <2>1. f = [i \in 0 .. 0 |-> IF i = 0 THEN elves ELSE Loaded(f[i - 1], m[i])]
    OBVIOUS
  <2> QED BY <2>1 DEF IsLoop
<1>3. k - 1 \in Nat /\ ~(k <= k - 1)
  BY <1>2
<1>4. PICK f : IsLoop(f, m, k - 1)
  BY <1>1, <1>3
<1> DEFINE g == [i \in 0 .. k |-> IF i = k THEN Loaded(f[k - 1], m[k]) ELSE f[i]]
<1>5. ASSUME NEW i \in 0 .. k
      PROVE  g[i] = IF i = 0 THEN elves ELSE Loaded(g[i - 1], m[i])
  <2>1. \A j \in 0 .. k - 1 : f[j] = IF j = 0 THEN elves ELSE Loaded(f[j - 1], m[j])
    <3>1. f = [j \in 0 .. k - 1 |-> IF j = 0 THEN elves ELSE Loaded(f[j - 1], m[j])]
      BY <1>4 DEF IsLoop
    <3> QED BY <3>1
  <2>2. CASE i = k
    BY <1>2, <1>3, <2>2
  <2>3. CASE i # k
    BY <1>2, <1>3, <2>1, <2>3
  <2> QED BY <2>2, <2>3
<1>6. g = [i \in 0 .. k |-> IF i = 0 THEN elves ELSE Loaded(g[i - 1], m[i])]
  BY <1>5
<1>7. IsLoop(g, m, k)
  BY <1>6 DEF IsLoop
<1> QED BY <1>7

(* What the loop has done after n entries: it has kept what there was,     *)
(* added only entries of the link map, and covers the n entries.           *)
LoadedTo(es, n) ==
  /\ es \in Seq(MapEntry)
  /\ \A i, j \in DOMAIN es : es[i].lib = es[j].lib => i = j
  /\ \A i \in DOMAIN es : (\E j \in DOMAIN elves : es[i] = elves[j]) \/ (\E j \in DOMAIN map : es[i] = map[j])
  /\ \A l : Has(elves, l) => Has(es, l)
  /\ \A j \in 1 .. n : map[j].lib \in Broken \/ Has(es, map[j].lib)

LEMMA LoadedStep ==
  ASSUME MapInv, NEW es, NEW n \in DOMAIN map, LoadedTo(es, n - 1)
  PROVE  LoadedTo(Loaded(es, map[n]), n)
<1> DEFINE e == map[n]
<1>1. e \in MapEntry
  BY DEF MapInv
<1>2. \A j \in 1 .. n : j \in 1 .. n - 1 \/ j = n
  BY DEF MapInv
<1>3. CASE Has(es, e.lib) \/ e.lib \in Broken
  BY <1>2, <1>3 DEF Loaded, LoadedTo
<1>4. CASE ~(Has(es, e.lib) \/ e.lib \in Broken)
  <2> DEFINE new == Append(es, e)
  <2>1. Loaded(es, map[n]) = new
    BY <1>4 DEF Loaded
  <2>2. es \in Seq(MapEntry)
    BY DEF LoadedTo
  <2>3. new \in Seq(MapEntry) /\ Len(new) = Len(es) + 1 /\ new[Len(es) + 1] = e
        /\ \A i \in DOMAIN es : new[i] = es[i] /\ i \in DOMAIN new
    BY <1>1, <2>2
  <2>4. \A i \in DOMAIN new : i \in DOMAIN es \/ i = Len(es) + 1
    BY <2>2, <2>3
  <2>5. Len(es) + 1 \in DOMAIN new
    BY <2>2, <2>3
  <2> HIDE DEF new, e
  <2>6. \A i \in DOMAIN es : es[i].lib # e.lib
    BY <1>4 DEF Has
  <2>7. \A i, j \in DOMAIN new : new[i].lib = new[j].lib => i = j
    BY <2>3, <2>4, <2>6 DEF LoadedTo
  <2>8. \A l : Has(es, l) => Has(new, l)
    BY <2>3 DEF Has
  <2>9. Has(new, e.lib)
    BY <2>3, <2>5 DEF Has
  <2>10. \A i \in DOMAIN new : (\E j \in DOMAIN elves : new[i] = elves[j]) \/ (\E j \in DOMAIN map : new[i] = map[j])
    BY <2>3, <2>4 DEF LoadedTo, e
  <2>11. \A j \in 1 .. n : map[j].lib \in Broken \/ Has(new, map[j].lib)
    BY <1>2, <2>8, <2>9 DEF LoadedTo, e
  <2>12. \A l : Has(elves, l) => Has(new, l)
    BY <2>8 DEF LoadedTo
  <2> QED BY <2>1, <2>3, <2>7, <2>10, <2>11, <2>12 DEF LoadedTo
<1> QED BY <1>3, <1>4

LEMMA ReloadLoads ==
  ASSUME MapInv, ElvesInv
  PROVE  LoadedTo(ReloadDynamicLibraries, Len(map))
<1> DEFINE n == Len(map)
           f == CHOOSE g : IsLoop(g, map, n)
<1>1. n \in Nat /\ DOMAIN map = 1 .. n
  BY DEF MapInv
<1>2. IsLoop(f, map, n)
  BY <1>1, LoopExists
<1>3. ReloadDynamicLibraries = f[n]
  BY DEF ReloadDynamicLibraries, IsLoop
<1> HIDE DEF f, n
<1>4. \A i \in 0 .. n : f[i] = IF i = 0 THEN elves ELSE Loaded(f[i - 1], map[i])
  <2>1. f = [i \in 0 .. n |-> IF i = 0 THEN elves ELSE Loaded(f[i - 1], map[i])]
    BY <1>2 DEF IsLoop
  <2> QED BY <2>1
<1>5. LoadedTo(f[0], 0)
  <2>1. f[0] = elves
    BY <1>1, <1>4
  <2> QED BY <2>1 DEF LoadedTo, ElvesInv
<1> DEFINE S == {i \in Nat : i <= n /\ ~LoadedTo(f[i], i)}
<1>6. S = {}
  <2> SUFFICES ASSUME S # {} PROVE FALSE
    OBVIOUS
  <2>1. PICK i \in S : \A j \in S : i <= j
    BY Least
  <2>2. i # 0
    BY <1>5, <2>1
  <2>3. i - 1 \in Nat /\ ~(i <= i - 1) /\ i - 1 <= n /\ i \in 1 .. n
    BY <1>1, <2>2
  <2>4. LoadedTo(f[i - 1], i - 1)
    BY <2>1, <2>3
  <2>5. f[i] = Loaded(f[i - 1], map[i])
    BY <1>1, <1>4, <2>2, <2>3
  <2> QED BY <1>1, <2>3, <2>4, <2>5, LoadedStep
<1> QED BY <1>1, <1>3, <1>6 DEF n


(* A reload keeps all of it, and afterwards covers the whole link map.     *)
LEMMA ReloadKeeps ==
  ASSUME LibInv, Reload, UNCHANGED <<map, closed, kind>>, found' => kind = "dynamic" /\ (trap' \/ phase' = "plant")
  PROVE  LibInv'
<1> USE DEF LibInv
<1>1. LoadedTo(elves', Len(map))
  BY ReloadLoads DEF Reload
<1>2. missed' = FALSE /\ dl' = [dl EXCEPT !.seen = (dl.at = "after")]
  BY DEF Reload
<1>3. MapInv'
  <2>1. CASE dl = NoDl
    <3>1. dl' = NoDl
      BY <1>2, <2>1 DEF NoDl
    <3> QED BY <2>1, <3>1 DEF MapInv
  <2>2. CASE dl # NoDl
    <3>1. dl \in [by : Thread, open : BOOLEAN, entry : MapEntry, at : {"before", "mid", "after"}, seen : BOOLEAN]
      BY <2>2 DEF MapInv
    <3>2. /\ dl' \in [by : Thread, open : BOOLEAN, entry : MapEntry, at : {"before", "mid", "after"}, seen : BOOLEAN]
          /\ dl'.open = dl.open /\ dl'.entry = dl.entry /\ dl'.at = dl.at /\ dl'.seen = (dl.at = "after")
      BY <1>2, <3>1
    <3> QED BY <2>2, <3>2 DEF MapInv
  <2> QED BY <2>1, <2>2
<1>4. ElvesInv'
  <2>1. \A i \in DOMAIN elves' : (\E j \in DOMAIN elves : elves'[i] = elves[j]) \/ (\E j \in DOMAIN map : elves'[i] = map[j])
    BY <1>1 DEF LoadedTo
  <2>2. \A i \in DOMAIN elves' : elves'[i] \in closed \/ \E j \in DOMAIN map : map[j] = elves'[i]
    BY <2>1 DEF ElvesInv
  <2> QED BY <1>1, <2>2 DEF LoadedTo, ElvesInv
<1>5. CoverInv'
  <2>1. DOMAIN map = 1 .. Len(map)
    BY DEF MapInv
  <2>2. \A j \in DOMAIN map : map[j].lib \in Broken \/ Has(elves', map[j].lib)
    BY <1>1, <2>1 DEF LoadedTo
  <2> QED BY <2>2 DEF CoverInv, Has
<1> QED BY <1>3, <1>4, <1>5

(* A step of the thread past r_brk: before, nothing is mapped yet; after,  *)
(* a change that was not seen is missed.                                   *)
LEMMA PastKeeps ==
  ASSUME LibInv, dl.at \in {"before", "after"}, dl' = Past(dl), UNCHANGED <<kind, map, trap, found, elves, closed>>,
         found /\ dl.at = "after" /\ ~dl.seen => missed',
         missed => missed',
         phase = "plant" => phase' = "plant"
  PROVE  LibInv'
<1> USE DEF LibInv
<1>1. dl # NoDl
  BY DEF NoDl
<1>2. dl \in [by : Thread, open : BOOLEAN, entry : MapEntry, at : {"before", "mid", "after"}, seen : BOOLEAN]
  BY <1>1 DEF MapInv
<1>3. ElvesInv'
  BY DEF ElvesInv
<1>4. CASE dl.at = "before"
  <2>1. dl' = [dl EXCEPT !.at = "mid"]
    BY <1>4 DEF Past
  <2>2. /\ dl' \in [by : Thread, open : BOOLEAN, entry : MapEntry, at : {"before", "mid", "after"}, seen : BOOLEAN]
        /\ dl'.open = dl.open /\ dl'.entry = dl.entry /\ dl'.at = "mid" /\ dl'.seen = dl.seen
    BY <1>2, <2>1
  <2>3. MapInv'
    BY <1>1, <1>4, <2>2 DEF MapInv
  <2>4. CoverInv'
    BY <1>4, <2>2 DEF CoverInv, Has
  <2> QED BY <1>3, <2>3, <2>4
<1>5. CASE dl.at = "after"
  <2>1. dl' = NoDl
    BY <1>5 DEF Past
  <2>2. MapInv'
    BY <2>1 DEF MapInv, NoDl
  <2>3. CoverInv'
    BY <1>5, <2>1 DEF CoverInv, Has
  <2> QED BY <1>3, <2>2, <2>3
<1> QED BY <1>4, <1>5

(* Taking one entry out of the link map.                                   *)
LEMMA Removal ==
  ASSUME MapInv, NEW i \in DOMAIN map
  PROVE  /\ RemoveAt(map, i) \in Seq(MapEntry)
         /\ \A k \in DOMAIN RemoveAt(map, i) :
              RemoveAt(map, i)[k] = map[IF k < i THEN k ELSE k + 1] /\ (IF k < i THEN k ELSE k + 1) \in DOMAIN map
         /\ \A k \in DOMAIN map : k # i => \E l \in DOMAIN RemoveAt(map, i) : RemoveAt(map, i)[l] = map[k]
<1> DEFINE a == SubSeq(map, 1, i - 1)
           b == SubSeq(map, i + 1, Len(map))
           r == RemoveAt(map, i)
<1>1. map \in Seq(MapEntry) /\ i \in 1 .. Len(map) /\ Len(map) \in Nat
  BY DEF MapInv
<1>2. /\ a \in Seq(MapEntry) /\ Len(a) = i - 1
      /\ \A k \in 1 .. i - 1 : a[k] = map[k]
  BY <1>1
<1>3. /\ b \in Seq(MapEntry) /\ Len(b) = Len(map) - i
      /\ \A k \in 1 .. Len(map) - i : b[k] = map[k + i]
  BY <1>1
<1>4. r = a \o b
  BY DEF RemoveAt
<1> HIDE DEF a, b, r
<1>5. /\ r \in Seq(MapEntry) /\ Len(r) = Len(map) - 1
      /\ \A k \in 1 .. Len(map) - 1 : r[k] = IF k <= i - 1 THEN a[k] ELSE b[k - (i - 1)]
  <2>1. Len(r) = Len(a) + Len(b) /\ r \in Seq(MapEntry)
        /\ \A k \in 1 .. Len(a) + Len(b) : r[k] = IF k <= Len(a) THEN a[k] ELSE b[k - Len(a)]
    BY <1>2, <1>3, <1>4, ConcatProperties
  <2>2. Len(a) + Len(b) = Len(map) - 1
    BY <1>1, <1>2, <1>3
  <2> QED BY <1>2, <2>1, <2>2
<1>6. ASSUME NEW k \in DOMAIN r
      PROVE  r[k] = map[IF k < i THEN k ELSE k + 1] /\ (IF k < i THEN k ELSE k + 1) \in DOMAIN map
  <2>1. k \in 1 .. Len(map) - 1
    BY <1>5
  <2>2. CASE k < i
    BY <1>1, <1>2, <1>5, <2>1, <2>2
  <2>3. CASE ~(k < i)
    <3>1. k - (i - 1) \in 1 .. Len(map) - i /\ ~(k <= i - 1) /\ k - (i - 1) + i = k + 1
      BY <1>1, <2>1, <2>3
    <3>2. r[k] = map[k + 1]
      BY <1>3, <1>5, <2>1, <3>1
    <3>3. k + 1 \in DOMAIN map
      BY <1>1, <2>1
    <3> QED BY <2>3, <3>2, <3>3
  <2> QED BY <2>2, <2>3
<1>7. ASSUME NEW k \in DOMAIN map, k # i
      PROVE  \E l \in DOMAIN r : r[l] = map[k]
  <2>1. k \in 1 .. Len(map)
    BY <1>1
  <2>2. CASE k < i
    <3>1. k \in DOMAIN r
      BY <1>1, <1>5, <2>1, <2>2
    <3> QED BY <1>6, <2>2, <3>1
  <2>3. CASE ~(k < i)
    <3>1. k - 1 \in DOMAIN r /\ ~(k - 1 < i) /\ k - 1 + 1 = k
      BY <1>1, <1>5, <1>7, <2>1, <2>3
    <3> QED BY <1>6, <3>1
  <2> QED BY <2>2, <2>3
<1>8. r \in Seq(MapEntry)
  BY <1>5
<1> QED BY <1>6, <1>7, <1>8 DEF r

(* The link map changes.                                                   *)
LEMMA MapKeeps ==
  ASSUME LibInv, NEW t \in Thread, DlMap(t)
  PROVE  LibInv'
<1> USE DEF LibInv
<1>1. /\ dl.at = "mid" /\ dl' = [dl EXCEPT !.at = "after"]
      /\ UNCHANGED <<kind, trap, found, elves, missed>>
  BY DEF DlMap, debugger
<1>0. phase' = phase
  BY DEF DlMap, debugger
<1>2. dl # NoDl
  BY <1>1 DEF NoDl
<1>3. dl \in [by : Thread, open : BOOLEAN, entry : MapEntry, at : {"before", "mid", "after"}, seen : BOOLEAN]
  BY <1>2 DEF MapInv
<1>4. /\ dl' \in [by : Thread, open : BOOLEAN, entry : MapEntry, at : {"before", "mid", "after"}, seen : BOOLEAN]
      /\ dl'.open = dl.open /\ dl'.entry = dl.entry /\ dl'.at = "after" /\ dl'.seen = dl.seen
  BY <1>1, <1>3
<1>5. ~dl.seen /\ kind = "dynamic"
  BY <1>1, <1>2 DEF MapInv
<1>6. CASE dl.open /\ map' = Append(map, dl.entry) /\ closed' = closed
  <2> DEFINE n == Len(map) + 1
  <2>1. /\ map' \in Seq(MapEntry) /\ map'[n] = dl.entry /\ n \in DOMAIN map'
        /\ \A i \in DOMAIN map : map'[i] = map[i] /\ i \in DOMAIN map'
        /\ \A i \in DOMAIN map' : i \in DOMAIN map \/ i = n
    BY <1>3, <1>6 DEF MapInv
  <2> HIDE DEF n
  <2>2. \A i \in DOMAIN map : map[i].lib # dl.entry.lib /\ map[i].base # dl.entry.base
    BY <1>1, <1>6 DEF MapInv
  <2>3. \A i, j \in DOMAIN map' : map'[i].lib = map'[j].lib \/ map'[i].base = map'[j].base => i = j
    BY <2>1, <2>2 DEF MapInv
  <2>4. MapInv'
    BY <1>1, <1>4, <1>5, <2>1, <2>3 DEF MapInv
  <2>5. ElvesInv'
    BY <1>1, <1>6, <2>1 DEF ElvesInv
  <2>6. CoverInv'
    BY <1>0, <1>1, <1>4, <1>5, <1>6, <2>1 DEF CoverInv, Has
  <2> QED BY <2>4, <2>5, <2>6
<1>7. CASE ~dl.open /\ closed' = closed \cup {dl.entry} /\ \E i \in DOMAIN map : map[i] = dl.entry /\ map' = RemoveAt(map, i)
  <2>1. PICK i \in DOMAIN map : map[i] = dl.entry /\ map' = RemoveAt(map, i)
    BY <1>7
  <2>2. /\ map' \in Seq(MapEntry)
        /\ \A k \in DOMAIN map' : map'[k] = map[IF k < i THEN k ELSE k + 1] /\ (IF k < i THEN k ELSE k + 1) \in DOMAIN map
        /\ \A k \in DOMAIN map : k # i => \E l \in DOMAIN map' : map'[l] = map[k]
    BY <2>1, Removal
  <2>3. \A j, k \in DOMAIN map' : map'[j].lib = map'[k].lib \/ map'[j].base = map'[k].base => j = k
    <3> TAKE j, k \in DOMAIN map'
    <3> DEFINE x == IF j < i THEN j ELSE j + 1
               y == IF k < i THEN k ELSE k + 1
    <3>1. map'[j] = map[x] /\ x \in DOMAIN map /\ map'[k] = map[y] /\ y \in DOMAIN map
      BY <2>2
    <3>2. map[x].lib = map[y].lib \/ map[x].base = map[y].base => x = y
      BY <3>1 DEF MapInv
    <3>3. j \in Int /\ k \in Int /\ i \in Int
      BY <2>2 DEF MapInv
    <3>4. x = y => j = k
      BY <3>3
    <3> HIDE DEF x, y
    <3> QED BY <3>1, <3>2, <3>4
  <2>4. MapInv'
    BY <1>1, <1>4, <1>5, <1>7, <2>2, <2>3 DEF MapInv
  <2>5. ElvesInv'
    <3>1. ASSUME NEW j \in DOMAIN elves
          PROVE  elves[j] \in closed' \/ \E k \in DOMAIN map' : map'[k] = elves[j]
      <4>1. CASE elves[j] \in closed
        BY <1>7, <4>1
      <4>2. CASE \E k \in DOMAIN map : map[k] = elves[j]
        BY <1>7, <2>1, <2>2, <4>2
      <4> QED BY <4>1, <4>2 DEF ElvesInv
    <3> QED BY <1>1, <3>1 DEF ElvesInv
  <2>6. CoverInv'
    <3>1. \A k \in DOMAIN map' : \E l \in DOMAIN map : map'[k] = map[l]
      BY <2>2
    <3> QED BY <1>0, <1>1, <1>4, <1>7, <3>1 DEF CoverInv, Has
  <2> QED BY <2>4, <2>5, <2>6
<1> QED BY <1>6, <1>7 DEF DlMap

LEMMA LibStep == LibInv /\ [Next]_vars => LibInv'
<1> SUFFICES ASSUME LibInv, [Next]_vars PROVE LibInv'
  OBVIOUS
<1> USE DEF kernel, linker, debugger, history
<1>1. ASSUME UNCHANGED <<linker, found, elves, closed, missed>>, phase = "plant" => phase' = "plant"
      PROVE  LibInv'
  BY <1>1 DEF LibInv, MapInv, ElvesInv, CoverInv, Has
<1>2. CASE LinkerDone
  <2>1. map = << >> /\ dl = NoDl /\ ~found
    BY <1>2 DEF LinkerDone, LibInv, MapInv, CoverInv
  <2>2. map' = Startup /\ kind' = "dynamic" /\ UNCHANGED <<dl, uses, trap, found, elves, closed, missed>>
    BY <1>2 DEF LinkerDone
  <2>3. MapInv'
    BY <2>1, <2>2, StartupAssumption DEF MapInv, MapEntry, NoDl
  <2>4. \A i \in DOMAIN elves : elves[i] \in closed
    BY <2>1 DEF LibInv, ElvesInv
  <2> QED BY <2>1, <2>2, <2>3, <2>4 DEF LibInv, ElvesInv, CoverInv
<1>3. ASSUME NEW t \in Thread, DlCall(t) PROVE LibInv'
  <2>1. /\ dl = NoDl /\ kind = "dynamic" /\ UNCHANGED <<kind, map, trap, found, elves, closed, missed>>
        /\ dl'.at = "before" /\ dl'.seen = FALSE
    BY <1>3 DEF DlCall
  <2>2. /\ dl' \in [by : Thread, open : BOOLEAN, entry : MapEntry, at : {"before", "mid", "after"}, seen : BOOLEAN]
        /\ dl'.open => \A i \in DOMAIN map : map[i].lib # dl'.entry.lib /\ map[i].base # dl'.entry.base
    <3>1. CASE \E e \in Plugins :
                 /\ \A i \in DOMAIN map : map[i].lib # e.lib /\ map[i].base # e.base
                 /\ dl' = [by |-> t, open |-> TRUE, entry |-> e, at |-> "before", seen |-> FALSE]
      BY <3>1, TargetAssumption DEF MapEntry
    <3>2. CASE \E e \in ToSet(map) \ ToSet(Startup) :
                 dl' = [by |-> t, open |-> FALSE, entry |-> e, at |-> "before", seen |-> FALSE]
      <4>1. ToSet(map) \subseteq MapEntry
        BY DEF ToSet, LibInv, MapInv
      <4> QED BY <3>2, <4>1
    <3> QED BY <1>3, <3>1, <3>2 DEF DlCall
  <2>3. MapInv'
    BY <2>1, <2>2 DEF LibInv, MapInv
  <2>4. CoverInv'
    <3>1. phase' = phase
      BY <1>3 DEF DlCall
    <3> QED BY <2>1, <3>1 DEF LibInv, CoverInv, Has, NoDl
  <2> QED BY <2>1, <2>3, <2>4 DEF LibInv, ElvesInv
<1>4. ASSUME NEW t \in Thread, DlMap(t) PROVE LibInv'
  BY <1>4, MapKeeps
<1>5. ASSUME NEW t \in Thread, DlBrk(t) PROVE LibInv'
  <2>1. UNCHANGED <<kind, map, uses, trap, phase, found, elves, closed>>
    BY <1>5 DEF DlBrk
  <2>2. CASE UNCHANGED <<dl, missed>>
    BY <1>1, <2>1, <2>2
  <2>3. CASE ~trap /\ Unseen
    <3>1. found => phase # "running"
      BY <2>3 DEF LibInv, CoverInv
    <3>2. dl.at \in {"before", "after"}
      BY <1>5 DEF DlBrk, AtBrk
    <3>3. dl' = Past(dl) /\ missed' = (missed \/ (found /\ phase # "running" /\ dl.at = "after" /\ ~dl.seen))
      BY <2>3 DEF Unseen
    <3> QED BY <2>1, <3>1, <3>2, <3>3, PastKeeps
  <2> QED BY <1>5, <2>2, <2>3 DEF DlBrk
<1>6. ASSUME ReadRendezvous, trap' \/ phase' = "plant", UNCHANGED <<kind, map, closed>> PROVE LibInv'
  BY <1>6, ReloadKeeps DEF ReadRendezvous
<1>7. ASSUME Reload \/ UNCHANGED <<elves, dl, missed>>, UNCHANGED <<kind, map, uses, trap, found, closed>>,
             phase = "running"
      PROVE  LibInv'
  <2>1. CASE Reload
    BY <1>7, <2>1, ReloadKeeps DEF LibInv, CoverInv
  <2>2. CASE UNCHANGED <<elves, dl, missed>>
    BY <1>1, <1>7, <2>2
  <2> QED BY <1>7, <2>1, <2>2
<1>8. CASE Continue
  <2>1. UNCHANGED <<kind, map, uses, trap, found, elves, closed>> /\ phase \in {"prompt", "failed"}
    BY <1>8 DEF Continue
  <2>2. CASE Unseen /\ \E t \in Stopped : AtBrk(t)
    BY <2>1, <2>2, PastKeeps DEF AtBrk, Unseen
  <2>3. CASE UNCHANGED <<dl, missed>>
    BY <1>1, <2>1, <2>3
  <2> QED BY <1>8, <2>2, <2>3 DEF Continue
<1>9. CASE EntryHit
  BY <1>6, <1>9 DEF EntryHit
<1>16. CASE Resolve
  <2>1. CASE ReadRendezvous /\ phase' = "plant"
    BY <1>6, <1>16, <2>1 DEF Resolve
  <2>2. CASE NoRendezvous /\ phase = "resolve"
    BY <1>1, <1>16, <2>2 DEF Resolve, NoRendezvous
  <2> QED BY <1>16, <2>1, <2>2 DEF Resolve
<1>17. CASE PlantTrap
  BY <1>17 DEF PlantTrap, LibInv, MapInv, ElvesInv, CoverInv, Has
<1>10. ASSUME NEW t \in Thread, HandleSignal(t) PROVE LibInv'
  BY <1>7, <1>10 DEF HandleSignal
<1>11. CASE ReportStop
  BY <1>7, <1>11 DEF ReportStop
<1>12. ASSUME NEW t \in Thread, ThreadExits(t) \/ Stop(t) \/ GroupStop(t) \/ \E u \in Thread : Clone(t, u) PROVE LibInv'
  BY <1>1, <1>12 DEF ThreadExits, Stop, GroupStop, Clone
<1>13. CASE Seize \/ Interrupt \/ WaitAttached \/ ReadTasks \/ NextTask \/ Track
  BY <1>1, <1>13 DEF Seize, Interrupt, WaitAttached, ReadTasks, NextTask, Track, EnableThreadTracking
<1>14. CASE CloseStops \/ CloseWaits \/ CloseStopped \/ Detach \/ SendSigcont \/ Kill \/ CloseBegins \/ LaunchTarget
  BY <1>1, <1>14 DEF CloseStops, CloseWaits, CloseStopped, Detach, SendSigcont, Kill, CloseBegins, LaunchTarget
<1>15. CASE Over \/ Computes \/ UNCHANGED vars
  BY <1>1, <1>15 DEF Over, Computes, vars
<1> QED BY <1>2, <1>3, <1>4, <1>5, <1>8, <1>9, <1>10, <1>11, <1>12, <1>13, <1>14, <1>15,
            <1>16, <1>17
        DEF Next, Attaches, Closes, Session, Process

LEMMA LibInit == Init => LibInv
<1> SUFFICES ASSUME Init PROVE LibInv
  OBVIOUS
<1>1. dl = NoDl /\ found = FALSE /\ elves = << >> /\ closed = {}
  BY DEF Init
<1>2. map = << >> \/ (map = Startup /\ kind = "dynamic")
      \/ (kind = "dynamic" /\ \E e \in Plugins : map = Append(Startup, e))
  BY DEF Init
<1>3. kind # "dynamic" => map = << >>
  BY DEF Init
<1>4. /\ map \in Seq(MapEntry)
      /\ \A i, j \in DOMAIN map : map[i].lib = map[j].lib \/ map[i].base = map[j].base => i = j
  <2>1. CASE map = << >>
    BY <2>1
  <2>3. CASE map = Startup
    BY <2>3, StartupAssumption DEF MapEntry
  <2>2. ASSUME NEW e \in Plugins, map = Append(Startup, e)
        PROVE  /\ map \in Seq(MapEntry)
               /\ \A i, j \in DOMAIN map : map[i].lib = map[j].lib \/ map[i].base = map[j].base => i = j
    <3> DEFINE n == Len(Startup) + 1
    <3>1. Startup \in Seq(MapEntry) /\ e \in MapEntry
      BY StartupAssumption, TargetAssumption DEF MapEntry
    <3>2. /\ map \in Seq(MapEntry) /\ map[n] = e
          /\ \A i \in DOMAIN Startup : map[i] = Startup[i]
          /\ \A i \in DOMAIN map : i \in DOMAIN Startup \/ i = n
      BY <2>2, <3>1
    <3> HIDE DEF n
    <3> QED BY <3>2, StartupAssumption
  <2> QED BY <1>2, <2>1, <2>2, <2>3
<1>5. MapInv
  BY <1>1, <1>3, <1>4 DEF MapInv, NoDl
<1> QED BY <1>1, <1>5 DEF LibInv, ElvesInv, CoverInv

(* All of it holds throughout.                                             *)
LEMMA LibCorrect == Spec => []LibInv
<1>. QED BY LibInit, LibStep, PTL DEF Spec

(* While no call of the linker is under way the address of a library finds *)
(* it in the collection, and no library is there twice, for any libraries, *)
(* plugins and addresses, however often they come and go and whatever late *)
(* threads do between the halves of resolveRendezvous; the exceptions are  *)
(* those of LibrariesKnown (reloadDynamicLibraries, resolveRendezvous).    *)
THEOREM LibrariesFound == Spec => []LibrariesKnown
<1>1. LibInv => LibrariesKnown
  <2> SUFFICES ASSUME LibInv, found, dl = NoDl, ~missed, NEW e \in ToSet(map), e.lib \notin Broken,
                      \A c \in closed : c.lib # e.lib /\ c.base # e.base
               PROVE  ELFContainingAddress(e.base) = e
    BY DEF LibInv, ElvesInv, LibrariesKnown
  <2>1. PICK j \in DOMAIN map : map[j] = e
    BY DEF ToSet
  <2>2. Has(elves, e.lib)
    BY <2>1 DEF LibInv, CoverInv, NoDl
  <2>3. PICK i \in DOMAIN elves : elves[i].lib = e.lib
    BY <2>2 DEF Has
  <2>4. elves[i] = e
    BY <2>1, <2>3 DEF LibInv, MapInv, ElvesInv
  <2>5. \A k \in DOMAIN elves : elves[k].base = e.base => k = i
    BY <2>1, <2>3, <2>4 DEF LibInv, MapInv, ElvesInv
  <2>6. {k \in DOMAIN elves : elves[k].base = e.base} = {i}
    BY <2>4, <2>5
  <2>7. Min({i}) = i
    <3>1. i \in Int
      BY DEF LibInv, ElvesInv
    <3>2. i <= i
      BY <3>1
    <3> QED BY <3>2, Zenon DEF Min
  <2> QED BY <2>4, <2>6, <2>7 DEF ELFContainingAddress
<1> QED BY <1>1, LibCorrect, PTL

-----------------------------------------------------------------------------
(* Types                                                                   *)

(* The types of the link map, of the call of the linker in progress and of *)
(* the debugger's collection.                                              *)
LibrariesOK ==
  /\ map \in Seq(MapEntry) /\ elves \in Seq(MapEntry) /\ closed \subseteq MapEntry
  /\ dl = NoDl \/ dl \in [by : Thread, open : BOOLEAN, entry : MapEntry,
                          at : {"before", "mid", "after"}, seen : BOOLEAN]
  /\ uses \in 0 .. MaxDl
  /\ trap \in BOOLEAN /\ found \in BOOLEAN /\ missed \in BOOLEAN

TypeOK == ThreadsOK /\ LibrariesOK

(* The part of it that LibInv does not have.                               *)
CountsOK ==
  /\ closed \subseteq MapEntry /\ uses \in 0 .. MaxDl
  /\ trap \in BOOLEAN /\ found \in BOOLEAN /\ missed \in BOOLEAN

(* Every step keeps that part.                                             *)
LEMMA CountsStep == LibInv /\ CountsOK /\ [Next]_vars => CountsOK'
<1> SUFFICES ASSUME LibInv, CountsOK, [Next]_vars PROVE CountsOK'
  OBVIOUS
<1> USE DEF CountsOK, kernel, linker, debugger, history
<1>1. ASSUME UNCHANGED <<uses, trap, found, closed, missed>> PROVE CountsOK'
  BY <1>1
<1>2. ASSUME NEW t \in Thread, DlCall(t) PROVE CountsOK'
  BY <1>2 DEF DlCall
<1>3. ASSUME NEW t \in Thread, DlMap(t) PROVE CountsOK'
  <2>1. dl.entry \in MapEntry
    BY <1>3 DEF DlMap, NoDl, LibInv, MapInv
  <2> QED BY <1>3, <2>1 DEF DlMap
<1>4. ASSUME NEW t \in Thread, DlBrk(t) PROVE CountsOK'
  BY <1>4 DEF DlBrk, Unseen
<1>5. CASE Continue
  BY <1>5 DEF Continue, Unseen
<1>6. CASE EntryHit \/ Resolve \/ PlantTrap
  BY <1>6 DEF EntryHit, Resolve, PlantTrap, ReadRendezvous, NoRendezvous, Reload
<1>7. ASSUME NEW t \in Thread, HandleSignal(t) PROVE CountsOK'
  BY <1>7 DEF HandleSignal, Reload
<1>8. CASE ReportStop
  BY <1>8 DEF ReportStop, Reload
<1>9. CASE LinkerDone
  BY <1>9 DEF LinkerDone
<1>10. ASSUME NEW t \in Thread,
              ThreadExits(t) \/ Stop(t) \/ GroupStop(t) \/ \E u \in Thread : Clone(t, u)
       PROVE  CountsOK'
  BY <1>1, <1>10 DEF ThreadExits, Stop, GroupStop, Clone
<1>11. CASE Seize \/ Interrupt \/ WaitAttached \/ ReadTasks \/ NextTask \/ Track
  BY <1>1, <1>11 DEF Seize, Interrupt, WaitAttached, ReadTasks, NextTask, Track
<1>12. CASE CloseStops \/ CloseWaits \/ CloseStopped \/ Detach \/ SendSigcont \/ Kill \/ CloseBegins \/ LaunchTarget
  BY <1>1, <1>12 DEF CloseStops, CloseWaits, CloseStopped, Detach, SendSigcont, Kill, CloseBegins, LaunchTarget
<1>13. CASE Over \/ Computes \/ UNCHANGED vars
  BY <1>1, <1>13 DEF Over, Computes, vars
<1> QED BY <1>2, <1>3, <1>4, <1>5, <1>6, <1>7, <1>8, <1>9, <1>10, <1>11, <1>12, <1>13
        DEF Next, Attaches, Closes, Session, Process

(* What the kernel, the linker and the debugger keep about the threads and *)
(* about the libraries has its type, the debugger's history included: the  *)
(* collection holds only entries that were in the link map (wait4, clone,  *)
(* reloadDynamicLibraries).                                                *)
THEOREM TypeCorrect == Spec => []TypeOK
<1>1. Init => CountsOK
  <2>1. 0 \in 0 .. MaxDl
    OBVIOUS
  <2> QED BY <2>1 DEF Init, CountsOK
<1>2. ThreadsOK /\ LibInv /\ CountsOK => TypeOK
  BY DEF TypeOK, LibrariesOK, LibInv, MapInv, ElvesInv, CountsOK
<1> QED BY <1>1, <1>2, CountsStep, LibCorrect, ThreadsCorrect, PTL DEF Spec
=============================================================================
