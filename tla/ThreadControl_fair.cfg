CONSTANTS
  m = m  t1 = t1  t2 = t2
  Thread <- MCThread
  Main = m
  AnyThread = AnyThread
  World = {"clone", "ctrlc"}
  Commands = {"continue", "resume"}
  AutoResume = FALSE
  MaxSent = 1
SPECIFICATION FairSpec
INVARIANT NoFreeRunPastTrap
INVARIANT SwallowLeavesNoSigstop
PROPERTY CommandsProgress
PROPERTY CtrlCInterrupts
PROPERTY ImplementsSession
