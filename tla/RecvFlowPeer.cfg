SPECIFICATION PeerSpec
CONSTANTS
  s1 = s1
  s2 = s2
  Streams = {s1}
  Requests = {s1}
  Promised = {}
  MaxWindow = 2
  DefaultWindow = 2
  InitWindows = {0, 1, 2}
  Targets = {1, 2}
  MaxFrame = 2
  MaxBuffered = 2
  MaxWire = 3
CHECK_DEADLOCK FALSE
INVARIANTS
  NeverAccused
  ConnectionWindowsAgree
  PeerWindowsFit
