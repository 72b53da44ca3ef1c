CONSTANTS
  ByteBits = 4
  WordBytes = 2
  Reg <- MCReg
  Bias = 2
  None = None
  Debug <- MCDebug
  Contexts <- MCContexts
SPECIFICATION Spec
INVARIANT ValueShown
INVARIANT ShownIfItExists
INVARIANT WritesPrefix
INVARIANT LocalsAreThoseFound
