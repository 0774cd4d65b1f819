SPECIFICATION FairSpec
CONSTANTS
  Current = Current
  Runs = {r1, r2}
  Tasks = {t1, t2}
  UpdatedRuns = {r1}
  MaxUpdates = 1
  MaxCrashes = 1
  Polls = TRUE
  NoRun = NoRun
INVARIANTS
  NoForeignUpdates
PROPERTIES
  CurrentRunRecovers
