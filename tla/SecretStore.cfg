\* One server with two secrets, three values (one keychain entry, two, three),
\* three starts and two writes.
SPECIFICATION SecretSpec
CONSTANTS
  Absent = Absent
  NoPin = NoPin
  Split = Split
  Mixed = Mixed
  Settled = Settled
  short = short
  long = long
  longer = longer
  t = t
  u = u
  Server = {"s"}
  k = k
  l = l
  Key = {k, l}
  Value = {short, long, longer}
  OldValue = {long}
  Chunks <- MCChunks
  OldSchemas <- MCOldSchemas
  MaxChunks = 3
  Tool = {t, u}
  Address = {"site", "address"}
  MaxBoots = 3
  MaxWrites = 2
SYMMETRY KeySymmetry
INVARIANTS
  ServesFromOneStore
PROPERTIES
  KeepsTheVault
  UpgradeKeepsServers
CHECK_DEADLOCK FALSE
