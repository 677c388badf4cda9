SPECIFICATION Spec
CONSTANTS
  r1 = r1
  r2 = r2
  RequestIDs <- MCRequestIDs
  MaxRequests = 2
  MaxRedirects = 1
  MaxTransferBytes = 1
  MaxConcurrentRequests = 1
  BlockedCapacity = 1
  Forms = FALSE
  MaxEvents = 3
SYMMETRY Symmetry
INVARIANTS SlotsBalanced ReleaseNeverBlocks ConcurrencyCeiling BudgetCeilings QueueNeverOverflows
PROPERTIES PolicyErrorKept
