CONSTANTS
  Threads = {t1}
  MinPos <- MCMinPos
  MaxPos = 1
  NaN = NaN
  Targets = {1}
  Deltas = {}
  Profiles = {"stuck"}
  MaxId = 1
  Handlers = {h1}
SPECIFICATION LinkSpec
INVARIANTS
  EstopWins
PROPERTY TripStopsMotion
