SPECIFICATION CapSpec
CONSTANTS
  Messages <- CxSentMessages
  Avps <- CxSentAvps
  Depth <- CxSentDepth
  MaxDepth = 3
  DIA_MAX_SAME_AVP_NUM = 2
  MaxInGroup = 3
  DIA_CX_MAX_SERVER_CAPABILITY_ITEM = 3
INVARIANTS
  UaaIsAnswer
CHECK_DEADLOCK FALSE
