SPECIFICATION Spec
CONSTANTS
  IsServer = TRUE
  UserStops = FALSE
  PeerDisconnects = FALSE
  UnsolicitedDwa = FALSE
  LateExpiry = FALSE
  RestartMayFail = FALSE
  StartStatus = {"TCP_CONN", "TCP_OK", "FAIL"}
  MaxDwr = 2
INVARIANTS
  ServerNeverDials
CHECK_DEADLOCK FALSE
