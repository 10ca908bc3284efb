CONSTANTS
  Consoles = {c1}
  Runs = {r1, r2}
  NoRun = NoRun
  MayCrash = TRUE
  ManualScope = TRUE
  MaxLive = 2
SPECIFICATION PolledSpec
CHECK_DEADLOCK FALSE
INVARIANTS
  OneRunPerConsole
  KilledRunsRecorded
  DirectoriesAreOwn
PROPERTIES
  LockedRunIsAlone
  RecordsStay
  HungRunEnds
