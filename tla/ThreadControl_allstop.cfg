CONSTANTS
  m = m  t1 = t1  t2 = t2
  Thread <- MCThread
  Main = m
  AnyThread = AnyThread
  World = {"clone", "user", "ctrlc"}
  Commands = {"continue", "resume", "stepi"}
  AutoResume = FALSE
  MaxSent = 2
SPECIFICATION Spec
SYMMETRY MCSymmetry
INVARIANT AllStop
INVARIANT PendingIsQueued
INVARIANT RewoundAtPrompt
