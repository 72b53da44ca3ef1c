CONSTANTS
  Thread = {m, t1, t2}
  Main = m
  Lib = {"libc", "vdso", "plugin"}
  Base = {1, 2, 3}
  Broken = {"vdso"}
  Plugins <- MCPlugins
  Startup <- MCStartup
  MaxDl = 1
  None = None
SPECIFICATION FairSpec
INVARIANT PromptHoldsAll
INVARIANT LibrariesKnown
INVARIANT ReleasedAfterClose
PROPERTY SessionEnds
