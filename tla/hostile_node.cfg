SPECIFICATION Spec
CONSTANTS
  c1 = c1
  c2 = c2
  a1 = a1
  a2 = a2
  bad = bad
  p1 = p1
  p2 = p2
  k1 = k1
  k2 = k2
  k3 = k3
  None = None
  Claims <- TwoClaims
  Allocations <- TwoGood
  Rejected <- NoAllocation
  Instances <- OneProcess
  Calls <- TwoCalls
  Serialize = FALSE
  CdiVolatile = TRUE
  ReadFaults = TRUE
  MaxFaults = 2
  Abandon = TRUE
  Reuse = TRUE
SYMMETRY Symmetry
INVARIANTS
  LockInv
PROPERTIES
  OwnEntryOrReset
  AnswersAreBacked
