CONSTANTS
  t1 = t1  t2 = t2  read = read  write = write
  Thread <- MCThread
  Call <- MCCall
  NoCall = NoCall
  Policies <- MCAnyPolicy
  Steps = FALSE
  Resets = FALSE
SPECIFICATION Spec
INVARIANT LabelsAreRight
