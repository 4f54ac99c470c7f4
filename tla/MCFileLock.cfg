SPECIFICATION FairSpec
CONSTANTS
  waiter1 = waiter1
  waiter2 = waiter2
  runner1 = runner1
  runner2 = runner2
  string1 = string1
  string2 = string2
  tester = tester
  None = None
  Proc <- MCProc
  Api <- MCApi
INVARIANTS
  TypeOK
  NoOrphanLock
  HandleOwnsLock
PROPERTIES
  HolderLeaves
  ImplementsMutex
