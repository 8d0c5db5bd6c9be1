SPECIFICATION FairSpec
CONSTANTS
  Sources = {a, b}
  Packages = {p}
  Headers = {h}
  Manifest = Manifest
  None = None
  MaxEdits = 2
  MaxFaults = 1
  Worlds <- BothWorlds
INVARIANTS
  RecordsAreSound
  SuccessMeansCurrent
  NothingIsRedone
PROPERTIES
  RecordMatchesObject
  Converges
