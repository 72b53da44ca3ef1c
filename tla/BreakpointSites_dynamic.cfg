CONSTANTS
  e = e  d = d  a = a  u = u
  Addr <- MCAddr
  Mapped <- MCMapped
  Byte <- MCByte
  Patch = {}
  Int3 = 204
  Zero = 0
  Text0 <- MCText0
  Entry = e
  DlState = d
  NoSite = NoSite
  MaxSites = 3
  Dynamic = TRUE
  Rearm = TRUE
  PatchTraps = FALSE
SPECIFICATION Spec
INVARIANT TrapInPlace
PROPERTY RunsKeepSites
