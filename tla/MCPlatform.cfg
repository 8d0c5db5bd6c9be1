SPECIFICATION Spec
CONSTANTS
  r1 = r1
  r2 = r2
  Resolvers = {r1, r2}
  None = None
  Torn = Torn
  MaxFiles = 3
  MaxPlatforms = 4
  MaxFaults = 2
  Worlds <- Apart
INVARIANTS
  PlatformIsSound
PROPERTIES
  Installs
