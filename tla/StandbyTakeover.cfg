SPECIFICATION Spec
CONSTANTS
  Priority = {p1}
  Standby = {s1}
  Nobody = Nobody
INVARIANTS
  StandbyTakesOver
CHECK_DEADLOCK FALSE
