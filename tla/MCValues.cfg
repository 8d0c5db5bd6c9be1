CONSTANTS
  k1 = k1
  k2 = k2
  k3 = k3
  k4 = k4
  Keys = {k1, k2, k3, k4}
  v1 = v1
  v2 = v2
  Values = {v1, v2}
  Hash <- MCHash
  NoValue = NoValue
  InitialIndex = 4
  InitialEntries = 2
  MaxGrowth = 1
  Checkouts <- MCCheckouts
  Jammed = FALSE
  MainPath <- MainC
  SuiteStem = "app_tests"
  Suites <- Apart
  MaxChanges = 1
  MaxMishaps = 1
SPECIFICATION MCSpec
INVARIANTS
  ValuesMean
  DocumentsHold
  LoweredAsDeclared
  ObjectsApart
  EditChangesOne
  SuiteAsDeclared
  TestedIsCurrent
PROPERTIES
  ImplementsDictionary
CHECK_DEADLOCK FALSE
