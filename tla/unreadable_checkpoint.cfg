SPECIFICATION Spec
CONSTANTS
  c1 = c1
  c2 = c2
  a1 = a1
  a2 = a2
  bad = bad
  p1 = p1
  p2 = p2
  k1 = k1
  k2 = k2
  k3 = k3
  None = None
  Claims <- OneClaim
  Allocations <- Good
  Rejected <- NoAllocation
  Instances <- OneProcess
  Calls <- OneCall
  Serialize = TRUE
  CdiVolatile = FALSE
  ReadFaults = TRUE
  MaxFaults = 1
  Abandon = FALSE
  Reuse = FALSE
PROPERTIES
  UnprepareSurvives
