\* Two actions, a press and the poll at once, pages of two rows; three rows are
\* kept, pruned every second append, and the daemon restarts once.
SPECIFICATION Spec
CONSTANTS
  Action = {call, install}
  All = All
  Task = {p}
  Clock = Clock
  MaxRows = 3
  PruneEvery = 2
  PageSize = 2
  MaxId = 6
  MaxStarts = 1
  MaxPresses = 3
SYMMETRY Symmetry
INVARIANTS
  KeepsNewest
  PagesAdjoin
  OlderIsOffered
