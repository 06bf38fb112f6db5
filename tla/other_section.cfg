\* An admitted claim with a section for the strategy it does not use.
SPECIFICATION CPSpec
CONSTANTS
  r1 = r1
  r2 = r2
  d1 = d1
  d2 = d2
  gone = gone
  Unset = Unset
  NoStrategy = NoStrategy
  NoInterval = NoInterval
  Counts <- PartitionCounts
  Requests = {r1, r2}
  Allocatable = {d1, d2}
  Gone = {gone}
  ConfigLists = {}
  ResultLists <- TwoResults
  SpecLists <- Specs
  ClassLists <- Classes
INVARIANTS
  AdmittedIsPrepared
\* A behaviour ends with a rejected object or with a claim restored.
CHECK_DEADLOCK FALSE
