SPECIFICATION Spec
CONSTANTS
  r1 = r1
  r2 = r2
  RequestIDs <- MCRequestIDs
  Pages <- MCPages
  MaxItems = 2
  MaxWork = 4
  MaxBytes = 3
  MaxHops = 3
  MaxLoads = 3
SYMMETRY MCSymmetry
CHECK_DEADLOCK FALSE
INVARIANTS CorrelationSound CompleteChannelsLoseNothing StableDOM
