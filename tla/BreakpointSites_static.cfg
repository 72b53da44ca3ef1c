CONSTANTS
  e = e  d = d  a = a  u = u
  Addr <- MCAddr
  Mapped <- MCMapped
  Byte <- MCByte
  Patch = {0}
  Int3 = 204
  Zero = 0
  Text0 <- MCText0
  Entry = e
  DlState = d
  NoSite = NoSite
  MaxSites = 3
  Dynamic = FALSE
  Rearm = FALSE
  PatchTraps = FALSE
SPECIFICATION Spec
INVARIANT ViewIsText
INVARIANT NoTemporaryLeft
INVARIANT UserIDsUnique
