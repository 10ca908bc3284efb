CONSTANTS
  Requests = {r1, r2}
  Samplers = {s1, s2}
SPECIFICATION FairSession
INVARIANTS
  DisplayAgrees
  JogIsSampled
PROPERTIES
  SamplersEnd
  DisplayCatchesUp
