CONSTANTS
  Workers = {w1}
  NumSlaves = 2
  Words <- MCWords
  Frames <- MCFrames
  MaxCycles = 2
SPECIFICATION Spec
INVARIANTS
  AlwaysRecoverable
  InputsMatchFrame
PROPERTY
  OnlyNamedSlaveIsLost
