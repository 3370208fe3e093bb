\* Two servers, two installations in all, one caller and the pane, three sign-ins.
SPECIFICATION Spec
CONSTANTS
  Name = {s, t}
  Caller = {c}
  Pane = Pane
  None = None
  MaxSignIns = 3
  MaxInstalls = 2
  MaxFaults = 1
INVARIANTS
  NobodyWaitsSettled
PROPERTIES
  WokenIsAuthorized
  LateTabsDoNoHarm
SYMMETRY Servers
CHECK_DEADLOCK FALSE
