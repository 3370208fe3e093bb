SPECIFICATION Spec
CONSTANTS
  Unset = Unset
  Open = Open
  Blank = Blank
  None = None
  Opts = Opts
  Url = Url
  Client = {c}
  CanElicit = {c}
  Entry = {"n1"}
  Shape <- MCShape
  Manual <- MCManual
  Loader <- MCLoader
  AllowUnconfirmedInstall = FALSE
  MaxMoves = 2
INVARIANTS
  InstalledAsConfirmed
  PinnedLoadsAsShown
  TakenDownStaysOut
PROPERTIES
  ApprovedAsReviewed
