SPECIFICATION PaneFairSpec
CONSTANTS
  Name = {a, b}
  Task = {t, u}
  Clock = Clock
  Nil = Nil
  MaxPresses = 2
  MaxMoves = 1
PROPERTIES
  ActsOnServerNamed
  ApprovedWasShown
  PaneSettles
CHECK_DEADLOCK FALSE
