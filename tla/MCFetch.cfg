SPECIFICATION Spec
CONSTANTS
  m = m
  t = t
  Procs = {p, q}
  Kept = {m}
  Dropped = {t}
  Manifest = m
  Archive = Archive
  Stamp = Stamp
  Gone = Gone
  Worlds <- Worlds3
  MaxFaults = 2
INVARIANTS
  SourceIsWhole
PROPERTIES
  FetchesEnd
