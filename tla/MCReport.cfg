CONSTANTS
  a = a
  b = b
  c = c
  Units = {a, b, c}
  Label <- MCLabel
  Slots = 2
  FilesMax = 2
  Heights = {2, 9}
  MaxMessages = 1
  NoSlot = NoSlot
  Waiting = Waiting
  Ended = Ended
SPECIFICATION FairReport
INVARIANTS
  ReportIsTrue
PROPERTIES
  FrameIsTrue
  Finishes
CHECK_DEADLOCK FALSE
