CONSTANTS
  None = None
  Code <- MCCode
  Starts = {10, 46}
  StackTop = 20
  MaxDepth = 7
  Image <- MCImage
  MainELF = "exe"
  Limits = {0, 2}
SPECIFICATION Spec
INVARIANT FramesHaveTheirRegisters
INVARIANT BacktraceIsCallStack
