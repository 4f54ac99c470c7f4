SPECIFICATION Spec
CONSTANTS
  m1 = m1
  m2 = m2
  c1 = c1
  c2 = c2
  s1 = s1
  s2 = s2
  Msg <- MCMsg
  Proc <- OneProc
  Svc <- MCSvc
  SvcOf <- MCSvcOf
  Default = s2
  Cleared <- NoOne
  Mortal <- OneProc
  MaxKills = 1
  None = None
INVARIANT
  IndexComplete
