SPECIFICATION Spec
CONSTANTS
  Current = Current
  Runs = {r1}
  Tasks = {t1, t2}
  UpdatedRuns = {r1}
  MaxUpdates = 1
  MaxCrashes = 0
  Polls = TRUE
  NoRun = NoRun
SYMMETRY Symmetry
INVARIANTS
  CleanedSlotsAreGone
