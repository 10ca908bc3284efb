CONSTANTS
  Cases = {"a", "b"}
  Runs <- MCRuns
  Users = {u1, u2}
  MaxRuns = 3
  MaxClicks = 2
SPECIFICATION Spec
INVARIANTS
  OnlyDecisionsOverride
  
  OnlyFailuresAreDecided
