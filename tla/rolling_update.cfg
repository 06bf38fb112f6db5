SPECIFICATION Spec
CONSTANTS
  c1 = c1
  c2 = c2
  a1 = a1
  a2 = a2
  bad = bad
  p1 = p1
  p2 = p2
  k1 = k1
  k2 = k2
  k3 = k3
  None = None
  Claims <- TwoClaims
  Allocations <- GoodAndBad
  Rejected <- Bad
  Instances <- TwoProcesses
  Calls <- TwoCalls
  Serialize = TRUE
  CdiVolatile = FALSE
  ReadFaults = FALSE
  MaxFaults = 2
  Abandon = FALSE
  Reuse = FALSE
SYMMETRY Symmetry
INVARIANTS
  TypeOK
  PreparedInjectable
  PreparedRecorded
  NothingLeftBehind
  SpecNeverStale
  ClaimInv
PROPERTIES
  LedgerRefinement
  OnlyOwnEntry
  InUseLeftAlone
