SPECIFICATION DepSpec
CONSTANTS
  left = left  right = right  base = base  deep = deep  leaf = leaf
  here = here  linux = linux  windows = windows
  None = None
  Names <- MCNames
  Versions <- MCVersions
  Places <- MCPlaces
  OSes <- MCOSes
  Here = linux
  Listed <- MCListed
  Recipes <- MCRecipes
  Projects <- MCProjects
  MaxNodes = 4
  MaxCandidates = 3
INVARIANTS
  GraphIsTrue
  ProposalHolds
PROPERTIES
  FetchedIsDecided
  Terminates
CHECK_DEADLOCK FALSE
