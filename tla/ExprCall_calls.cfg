CONSTANTS
  Thread = {t1, t2}
  Main = t1
  IntRegs <- MCIntRegs
  SseRegs <- MCSseRegs
  Types <- MCTypes
  Calls <- MCCalls
  EntrySites <- MCSites
  Stacks = {1, 2, 9, 10}
  StackSlots = 12
  HeapSlots = 5
  MaxCalls = 2
  None = None
SPECIFICATION Spec
INVARIANT ArgumentsArrive
INVARIANT ResultsKept
INVARIANT CallerRestored
