CONSTANTS
  m = m  t1 = t1  t2 = t2
  Thread <- MCThread
  Main = m
  AnyThread = AnyThread
  World = {"clone", "ctrlc", "exit", "exitgroup"}
  Commands = {"continue", "resume", "stepi"}
  AutoResume = TRUE
  MaxSent = 1
SPECIFICATION Spec
CHECK_DEADLOCK FALSE
SYMMETRY MCSymmetry
INVARIANT HandledHitsAreSilent
INVARIANT StoppedMeansStopped
INVARIANT WaitHasCause
