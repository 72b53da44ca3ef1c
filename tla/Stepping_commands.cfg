CONSTANTS
  None = None
  Code <- MCCode
  Starts = {13}
  StackTop = 12
  MaxDepth = 6
  Image <- MCImage
  MainELF = "exe"
  SiteChoices <- MCSites
SPECIFICATION Spec
INVARIANT UnwindsToCaller
INVARIANT FinishReturns
INVARIANT FinishStaysInlined
INVARIANT NextStaysInFrame
INVARIANT NextMissesNoLine
INVARIANT SkipStaysInCall
CHECK_DEADLOCK FALSE
