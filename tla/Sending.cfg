SPECIFICATION SendSpec
CONSTANTS
  Priority = {p1, p2}
  Standby = {s1}
  Nobody = Nobody
  Requests = {uar, lir}
  ByPeer = {lir}
INVARIANTS
  TypeOK
  OneListEach
  AvailableIfActive
  PriorityPreferred
  EvenTurns
  HeadIsFound
PROPERTIES
  LivesOfPeers
  SendsStayActive
CHECK_DEADLOCK FALSE
