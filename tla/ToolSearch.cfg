\* Two servers of one tool each, two definitions, one that matches; one answer is
\* wanted, and the words bring one document, so that the pool may be too small.
SPECIFICATION Spec
CONSTANTS
  Name = {s, t}
  Tools = 1
  Hash = {h, g}
  Matching = {h}
  Model = {m}
  None = None
  Limit = 1
  Pool = 1
  MaxId = 2
  MaxInstalls = 2
  MaxWrites = 3
  MaxFaults = 1
INVARIANTS
  IndexedAsDefined
  SnapshotIsCurrent
  SearchFills
CHECK_DEADLOCK FALSE
