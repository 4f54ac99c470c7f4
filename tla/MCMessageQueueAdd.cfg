SPECIFICATION Spec
CONSTANTS
  m1 = m1
  m2 = m2
  c1 = c1
  c2 = c2
  s1 = s1
  s2 = s2
  Msg <- OneMsg
  Proc <- MCProc
  Svc <- MCSvc
  SvcOf <- OneSvcOf
  Default = s2
  Cleared <- NoOne
  Mortal <- NoOne
  MaxKills = 0
  None = None
INVARIANT
  AddedIsKept
