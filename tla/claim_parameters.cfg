\* Claims and templates through the webhook, and claims nobody has reviewed.
SPECIFICATION CPSpec
CONSTANTS
  r1 = r1
  r2 = r2
  d1 = d1
  d2 = d2
  gone = gone
  Unset = Unset
  NoStrategy = NoStrategy
  NoInterval = NoInterval
  Counts <- PartitionCounts
  Requests = {r1, r2}
  Allocatable = {d1, d2}
  Gone = {gone}
  ConfigLists <- Lists
  ResultLists <- AnyResults
  SpecLists <- Specs
  ClassLists <- Classes
INVARIANTS
  CPTypeOK
  HighestPrecedenceApplied
  ResultsBecomeDevices
  RestoredAsPrepared
  UnusedConfigsDoNotMatter
  AdmittedSettledIsPrepared
  DenialIsComplete
  TemplateVouchesForClaim
\* A behaviour ends with a rejected object or with a claim restored.
CHECK_DEADLOCK FALSE
