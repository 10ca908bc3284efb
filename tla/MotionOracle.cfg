CONSTANTS
  Threads = {t1, t2}
  MinPos <- MCMinPos
  MaxPos = 1
  NaN = NaN
  Targets = {1, 2, NaN}
  Deltas = {1}
  Profiles = {"ramp", "stuck"}
  MaxId = 3
SPECIFICATION JudgedSpec
SYMMETRY Symmetric
INVARIANTS
  FinishedInOrder
  NoLostWakeup
  OneCallerPerMotion
  VerdictIsOutcome
  StaysWithinLimits
  StoppedIsNotDone
  AbortedOnlyWhenAsked
PROPERTY
  StoppedMotionStays
