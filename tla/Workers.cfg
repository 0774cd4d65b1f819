SPECIFICATION FairSpec
CONSTANTS
  HAs = {1, 2}
  Hosted = {1, 2, 3}
  Dockers = {1}
  Joiners = {"server2", "gpu"}
  Planned = {1, 2}
  MaxClusters = 2
  Retried = {1}
  NoRecord = NoRecord
INVARIANTS
  CreatedIsRecorded
  NoOrphanedDownstream
  SetupIsComplete
  BilledOnce
PROPERTIES
  SetupEnds
CHECK_DEADLOCK FALSE
