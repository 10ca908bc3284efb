CONSTANTS
  Threads = {t1, t2}
  MinPos <- MCMinPos
  MaxPos = 1
  NaN = NaN
  Targets = {1, 2, NaN}
  Deltas <- MCDeltas
  Profiles = {"ramp", "stuck", "jump"}
  MaxId = 2
SPECIFICATION FairSpec
PROPERTIES
  EveryCallReturns
  ImplementsService
  StopEndsMotion
