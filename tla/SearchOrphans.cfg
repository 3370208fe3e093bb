\* One server of one tool; no fault is needed.
SPECIFICATION Spec
CONSTANTS
  Name = {s}
  Tools = 1
  Hash = {h, g}
  Matching = {h}
  Model = {m}
  None = None
  Limit = 1
  Pool = 1
  MaxId = 2
  MaxInstalls = 2
  MaxWrites = 3
  MaxFaults = 0
INVARIANT OneDocumentEach
CHECK_DEADLOCK FALSE
