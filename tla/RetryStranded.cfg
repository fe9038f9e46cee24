SPECIFICATION Spec
CONSTANTS
  IsServer = FALSE
  UserStops = FALSE
  PeerDisconnects = FALSE
  UnsolicitedDwa = FALSE
  LateExpiry = FALSE
  RestartMayFail = FALSE
  StartStatus = {"TCP_CONN", "TCP_OK", "FAIL"}
  MaxDwr = 2
INVARIANTS
  NeverStranded
CHECK_DEADLOCK FALSE
