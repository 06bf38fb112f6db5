\* The same claims, seen by the other driver that has entries in the status.
SPECIFICATION CSSpec
CONSTANTS
  u1 = u1
  u2 = u2
  d1 = d1
  d2 = d2
  other = other
  None = None
  Uids = {u1, u2}
  Devices = {d1, d2, other}
  Own = {d1, d2}
  Alloc <- SmallAlloc
  Steps = 5
PROPERTIES
  OtherEntriesKept
