CONSTANTS
  Threads = {t1, t2}
  MinPos <- MCMinPos
  MaxPos = 1
  NaN = NaN
  Targets <- MCTargets
  Deltas <- MCDeltas
  Profiles = {"ramp"}
  MaxId = 3
SPECIFICATION Spec
PROPERTY
  FaultRefusesMotion
