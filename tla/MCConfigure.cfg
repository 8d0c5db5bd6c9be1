SPECIFICATION CSpec
CONSTANTS
  b1 = b1
  b2 = b2
  Builds = {b1, b2}
  Order <- OrderOfTwo
  Recipe <- RecipeOf
  NoTool = NoTool
  Nobody = Nobody
  Fresh = Fresh
  Mixed = Mixed
  None = None
  Missing = Missing
  Torn = Torn
  Worlds <- SameOrApart
  MaxFaults = 2
INVARIANTS
  BuiltAsConfigured
  ConfigureIsSound
  ObjectsAreOwn
PROPERTIES
  LastOneBuilds
