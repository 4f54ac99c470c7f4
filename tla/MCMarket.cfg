SPECIFICATION Spec
CONSTANTS
  c1 = c1
  c2 = c2
  a1 = a1
  a2 = a2
  v1 = v1
  v2 = v2
  Worker <- MCWorker
  App <- MCApp
  Version <- MCVersion
  None = None
SYMMETRY AllSymmetry
INVARIANT
  TypeOK
  OnePerApp
  AppWhole
PROPERTY
  UndoneFirst
CONSTRAINT
  TwoOfOne
