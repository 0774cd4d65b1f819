SPECIFICATION Spec
CONSTANTS
  Current = Current
  Runs = {r1, r2}
  Tasks = {t1, t2}
  UpdatedRuns = {r1, r2}
  MaxUpdates = 2
  MaxCrashes = 0
  Polls = FALSE
  NoRun = NoRun
SYMMETRY Symmetry
\* Updates are bounded, so the last operation may end it all.
CHECK_DEADLOCK FALSE
INVARIANTS
  Settled
