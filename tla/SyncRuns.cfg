CONSTANTS
  i1 = i1
  r1 = r1
  r2 = r2
  NoRun = NoRun
  Integrations <- OneIntegration
  Runs <- TwoRuns
  IntegrationOf <- OfOne
  AdminStatuses = {"active", "disabled"}
SPECIFICATION FairSpec
INVARIANTS
  SyncTypeOK
  OneRunAtATime
PROPERTIES
  OnlyExpiredRunsRevive
  DisabledComesToRest
  QueuedRunsEnd
CHECK_DEADLOCK FALSE
