\* Two rounds, two calls, three questions: one parked and two queued; equal timeouts.
SPECIFICATION FairSpec
CONSTANTS
  Round = {d1, d2}
  Call = {c1, c2}
  Question = {q1, q2, q3}
  None = None
  CallTimeout = 1
  ParkTTL = 1
INVARIANTS
  CallInOnePlace
  NoMissedQuestion
PROPERTIES
  KeepsConversation
  RoundsAnswered
