SPECIFICATION Spec
CONSTANTS
  r1 = r1
  r2 = r2
  Runs = {r1, r2}
  Workers = {w1, w2}
  Handlers = {h1}
  KindOf <- AllHA
  WithDownstreams = {r1}
  Requests = {"setup", "downstream"}
  Faults = {"restart"}
  NoRun = NoRun
  NoWorker = NoWorker
SYMMETRY Symmetry
\* Every run id is drawn at most once, so the last cleanup may end it all.
CHECK_DEADLOCK FALSE
INVARIANTS
  DownstreamHasOwner
