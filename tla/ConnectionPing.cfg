SPECIFICATION FairSpec
CONSTANTS
  MaxId = 4
  Reasons = {"no_error", "protocol", "calm", "cancel"}
  RecvLimit = 1
  MaxRefusals = 1
  CodecRoom = 1
  WireRoom = 1
  InRoom = 2
  Limits = {{}, {1}}
  Scenes <- TwoPings
CHECK_DEADLOCK FALSE
PROPERTIES
  PingAnswered
