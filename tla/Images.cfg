SPECIFICATION Spec
CONSTANTS
  Asks <- McAsks
  Registry <- McRegistry
  Published <- McPublished
  Queries <- McQueries
  TagOrder <- McTagOrder
  MaxTagScan = 8
  TagPageSize = 2
  c1 = c1
  c2 = c2
  c3 = c3
  c4 = c4
  p1 = p1
  HeadBuilds <- McHeadBuilds
  History <- McHistory
  Pulls <- McPulls
  Places = {"staging", "docker"}
  Starts <- McStarts
  Later <- McLater
  LayerLimit = 6
  NoBuild = NoBuild
  NoCommit = NoCommit
  Builds = {1, 2}
  Cases <- McCases
  Lanes <- McLanes
  Branches = {"main", "topic"}
  Inputs <- McInputs
  MaxParallel = 1
  ListLimit = 1
  MaxRuns <- McMaxRuns
  MaxPlans = 2
  FirstReleases <- McFirstReleases
  NextReleases <- McNextReleases
  PageSize = 6
  AlphaCutoff = 5
  TargetList <- McTargetList
  WebhookTags <- McWebhookTags
  OldBook <- McOldBook
  MaxTargets = 2
  MaxDrafts = 2
  MaxRecords = 2
INVARIANTS
  PlanFitsRequest
  PlannedImagesExist
  RankingIsComplete
  ReportsAgree
  GroupsAreHonest
  PRVerdictIsSupported
  BuildYAMLIsGenuine
  PlannedPairIsOneBuild
  LanesRunThePlan
  LanesAreNotRepeated
PROPERTIES
  SkippedLanesPassed
CHECK_DEADLOCK FALSE
