SPECIFICATION IdsFairSpec
CONSTANTS
  Requests = {r1, r2}
  Listens = {r1}
  LateExpiry = TRUE
  NoTimer = NoTimer
  MaxAnswers = 2
  IdMod = 3
INVARIANTS
  TypeOK
  AtMostOnce
  PendingIsTimed
  LateExpiryIsRefused
  TimedIsPending
  SessionIdsDiffer
  H2hIdsDiffer
PROPERTIES
  AlwaysNotified
  HashIsEmptied
CHECK_DEADLOCK FALSE
