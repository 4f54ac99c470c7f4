SPECIFICATION MCSpec
CONSTANTS
  Checker = Checker
  e1 = e1
  e2 = e2
  Event <- MCEvent
  p1 = p1
  p2 = p2
  p3 = p3
  Caller <- MCCaller
  Mac = {m1, bad}
  Address = {m1}
  Ifaces = 2
  Setting <- MCSetting
  None = None
SYMMETRY Symmetry
CONSTRAINT Bound
CHECK_DEADLOCK FALSE
INVARIANTS
  DisplaysFile
  StoredIsApplied
  AloneTakesEffect
