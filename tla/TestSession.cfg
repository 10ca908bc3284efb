CONSTANTS
  MaxSegments = 3
  MaxActive = 2
  MaxSize = 2
  Sessions = {s}
  BackEnds = {b}
  Session = s
  BackEnd = b
  Ports = 3
  Attempts = 2
  Platform = platform
  Taken = {1}
SPECIFICATION FairSession
INVARIANTS
  PushedOnceInOrder
  NothingSkipped
  NoAgentLeaks
PROPERTIES
  StreamEnds
  SessionGoesOut
CHECK_DEADLOCK FALSE
