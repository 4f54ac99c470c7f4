SPECIFICATION Spec
CONSTANTS
  c1 = c1
  c2 = c2
  f0 = f0
  f1 = f1
  f2 = f2
  Caller <- MCCaller
  Fw <- MCFw
  Fits <- MCFits
  NoFw = NoFw
SYMMETRY CallerSymmetry
CHECK_DEADLOCK FALSE
INVARIANTS
  TypeOK
  InfoDescribesImage
  LaunchVerified
  OneFlasher
PROPERTIES
  CacheImplementsMutex
  FlashStable
