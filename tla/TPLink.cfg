CONSTANTS
  MaxRequests = 4
  MaxPushes = 3
  MaxTimeouts = 2
SPECIFICATION Spec
INVARIANTS
  StreamIsLossless
  AnswersFallBehindByTimeouts
CHECK_DEADLOCK FALSE
