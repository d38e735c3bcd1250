SPECIFICATION Spec
CONSTANTS
  Procs = {p1, p2, p3}
  MaxTryLockCount = 2
  MaxSegments = 2
  MaxEnds = 2
SYMMETRY ProcSymmetry
INVARIANTS
  TypeOK
  OneMutex
  NoLeak
PROPERTY
  LockPromise
CHECK_DEADLOCK FALSE
