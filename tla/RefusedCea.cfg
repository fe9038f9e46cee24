SPECIFICATION CapSpec
CONSTANTS
  Messages <- SentMessages
  Avps <- SentAvps
  Depth <- SentDepth
  MaxDepth = 3
  DIA_MAX_SAME_AVP_NUM = 2
  MaxInGroup = 3
INVARIANTS
  RefusalIsHeard
CHECK_DEADLOCK FALSE
