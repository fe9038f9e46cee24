SPECIFICATION Spec
CONSTANTS
  IsServer = TRUE
  UserStops = TRUE
  PeerDisconnects = TRUE
  UnsolicitedDwa = TRUE
  LateExpiry = FALSE
  RestartMayFail = FALSE
  StartStatus = {"TCP_CONN", "TCP_OK", "FAIL"}
  MaxDwr = 2
INVARIANTS
  NoTimerLost
CHECK_DEADLOCK FALSE
