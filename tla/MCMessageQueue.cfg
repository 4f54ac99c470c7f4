SPECIFICATION Spec
CONSTANTS
  m1 = m1
  m2 = m2
  c1 = c1
  c2 = c2
  s1 = s1
  s2 = s2
  Msg <- MCMsg
  Proc <- MCProc
  Svc <- MCSvc
  SvcOf <- SameSvcOf
  Default = s2
  Cleared <- MCCleared
  Mortal <- AnyOne
  MaxKills = 1
  None = None
INVARIANTS
  TypeOK
  FlagHasOwner
  NoDoubleDelivery
  NoSilentLoss
PROPERTY
  WorkImplementsMutex
SYMMETRY SameSymmetry
