SPECIFICATION Spec
CONSTANTS
  None = None
  Cut = Cut
  Whole = Whole
  SchemaMax = 5
  CStandards = {"c11"}
  CppStandards = {"c++17"}
  Room <- MCRoom
  Recipes <- GoodAndBad
  Worlds <- Usual
  MaxFaults = 2
  MaxPacks = 2
INVARIANTS
  PublishIsSound
  PublishedCanBeUsed
  UsedIsPublished
