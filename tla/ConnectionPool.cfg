\* A caller and an index job, two upstream clients alive at once; the name is
\* uninstalled and installed again, and reconfigured.
SPECIFICATION FairSpec
CONSTANTS
  Client = {k1, k2}
  None = None
  Caller = {a}
  Pane = Pane
  MaxInst = 2
  MaxVer = 1
INVARIANTS
  SameInstallationConfig
  NoStrayClient
  NeverWedged
  InflightExact
PROPERTIES
  CallKeepsConnection
  ConnectsSettle
