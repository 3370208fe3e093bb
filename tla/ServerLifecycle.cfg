\* Two handlers, two installations, one tool with two definitions, any fault.
SPECIFICATION FairSpec
CONSTANTS
  Tool = {t1}
  Hash = {h1, h2}
  Absent = Absent
  Client = {c1, c2}
  MaxId = 2
INVARIANTS
  QuarantineIsDrift
  SavedIsListed
  CallableIsApproved
  ExposureAnnounced
PROPERTIES
  PinsMoveByConsent
  RequestsAnswered
