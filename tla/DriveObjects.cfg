CONSTANTS
  Workers = {w1, w2}
  MaxValue = 2
  ModeSize = 2
  Statuswords = {0, 1}
SPECIFICATION Spec
INVARIANTS
  ActualFollowsTarget
  FeedbackIsMine
PROPERTIES
  ReadsAreCurrent
