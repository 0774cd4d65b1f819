SPECIFICATION FairSpec
CONSTANTS
  MaxVersion = 3
  States = {s1, s2}
  Gaps = {}
  NoDir = NoDir
  Lookups = {a, b, c}
  Keys = {k1, k2}
  a = a
  b = b
  c = c
  k1 = k1
  k2 = k2
  Home <- HomeDef
  Asked <- AskedDef
  Absent = Absent
  Torn = Torn
  Panels = {p1, p2, p3}
  Prompt = TRUE
  NoSession = NoSession
  Garbled = Garbled
  Clusters = {c1}
  Steves = {e1}
  Ports = {1}
  Tasks = {t1, t2}
  Actions = {"create", "stop", "restart", "delete", "remove", "install", "steve", "cleanup"}
  Faults = {"restart", "steveGap"}
  NoRecord = NoRecord
  NoPid = NoPid
  NoRun = NoRun
INVARIANTS
  OpenRuntimeMatches
  StateSurvives
  OnePanel
  ClusterIsRecorded
PROPERTIES
  WorkspaceKeptForWorker
  EntriesKept
  LabEntryReleased
  GhostEndpointsLeave
CHECK_DEADLOCK FALSE
