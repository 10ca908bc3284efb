CONSTANTS
  Threads = {t1, t2}
  MinPos <- MCMinPos
  MaxPos = 1
  NaN = NaN
  Targets = {1}
  Deltas <- MCDeltas
  Profiles = {"ramp"}
  MaxId = 3
SPECIFICATION PendantSpec
SYMMETRY Symmetric
PROPERTIES
  JogReadsRestingArm
