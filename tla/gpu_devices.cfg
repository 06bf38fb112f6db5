\* Claims for the devices of one or two GPUs, whole or in two or three partitions,
\* while the plugin restarts with other flags.
SPECIFICATION GDFairSpec
CONSTANTS
  Claims = {c1, c2}
  Flags <- SmallFlags
  Total <- SmallTotal
INVARIANTS
  GDTypeOK
  FullIsExclusive
  CountersAreExact
PROPERTIES
  OfferedIsPrepared
  GoneIsFreed
