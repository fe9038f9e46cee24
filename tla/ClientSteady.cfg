SPECIFICATION FairSpec
CONSTANTS
  IsServer = FALSE
  UserStops = FALSE
  PeerDisconnects = FALSE
  UnsolicitedDwa = FALSE
  LateExpiry = TRUE
  RestartMayFail = FALSE
  StartStatus = {"TCP_CONN", "FAIL"}
  MaxDwr = 3
INVARIANTS
  ActiveMeansOpen
  OpenIsSupervised
  NeverStranded
PROPERTIES
  SilentPeerDetected
  NeverGivesUp
