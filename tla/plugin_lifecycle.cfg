\* Two processes of a rolling update, with calls that may hang.
SPECIFICATION PLFairSpec
CONSTANTS
  Procs = {p1, p2}
  Health = TRUE
  Threshold = 2
  None = None
INVARIANTS
  PLTypeOK
PROPERTIES
  
  FatalErrorEndsProcess
  WedgedIsReplaced
