\* Two names of up to two versions, one entry a page, two changes, one fault.
SPECIFICATION MirrorFairSpec
CONSTANTS
  Nil = Nil
  Names = 2
  PageLimit = 1
  MaxPages = 5
  MaxVersions = 2
  MaxTime = 3
  MaxFaults = 1
INVARIANTS
  CursorCovers
  SearchesAgree
PROPERTIES
  SyncEnds
CHECK_DEADLOCK FALSE
