SPECIFICATION FairSpec
CONSTANTS
  r1 = r1
  r2 = r2
  RequestIDs <- MCOneRequest
  MaxRequests = 1
  MaxRedirects = 0
  MaxTransferBytes = 1
  MaxConcurrentRequests = 1
  BlockedCapacity = 1
  Forms = TRUE
  MaxEvents = 2
PROPERTIES NavigationEnds
