CONSTANTS
  t1 = t1  t2 = t2  w1 = w1  w2 = w2  x = x  v1 = v1  v2 = v2
  Thread <- MCThread
  Addr <- MCAddr
  Value <- MCValue
  Watch <- MCWatch
  Exec <- MCExec
  AddrOf <- MCAddrOf
  None = None
  Registers = 2
  Toggles = TRUE
  Rearm = FALSE
SPECIFICATION Spec
SYMMETRY MCSymmetry
VIEW MCView
INVARIANT ArmedEverywhere
INVARIANT HitsAreFound
INVARIANT DisabledIsSilent
INVARIANT ChangeIsShown
