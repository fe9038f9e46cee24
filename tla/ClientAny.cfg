SPECIFICATION Spec
CONSTANTS
  IsServer = FALSE
  UserStops = TRUE
  PeerDisconnects = TRUE
  UnsolicitedDwa = TRUE
  LateExpiry = TRUE
  RestartMayFail = TRUE
  StartStatus = {"TCP_CONN", "TCP_OK", "FAIL"}
  MaxDwr = 2
INVARIANTS
  TypeOK
  ListsFollowState
  WaitsAreTimed
  TimersFollowState
  TransportFollowsState
PROPERTIES
  FailoverOnEvidence
  LifeOfPeer
CHECK_DEADLOCK FALSE
