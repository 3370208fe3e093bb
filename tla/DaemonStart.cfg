\* Two hosts of one release, a daemon that may run already (of that release, an
\* older one, or one without the shutdown route), three process ids, two faults.
SPECIFICATION FairSpec
CONSTANTS
  None = None
  Shim = {s1, s2}
  Daemon = {d1, d2, d3}
  Version <- MCVersion
  Running = {0, 1, 2}
  Legacy = {0}
  MaxFaults = 2
INVARIANTS
  LockHasOwner
PROPERTIES
  Recovers
CHECK_DEADLOCK FALSE
