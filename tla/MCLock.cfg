SPECIFICATION Spec
CONSTANTS
  Coords <- Still
  DepsOf <- StillDeps
  None = None
  Tears = {"unreadable"}
  MaxEdits = 1
  MaxRewrites = 1
  MaxFaults = 1
INVARIANTS
  LockIsSound
  RefusalMeansRewritten
CHECK_DEADLOCK FALSE
