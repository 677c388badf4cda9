SPECIFICATION FairSpec
CONSTANTS
  n1 = n1
  n2 = n2
  h1 = h1
  h2 = h2
  None = None
  Navigations <- MCNavigations
  Tunnels <- MCTunnels
  Forwards <- MCForwards
  MaxRequests = 2
  MaxRedirects = 0
  MaxTransferBytes = 3
CHECK_DEADLOCK FALSE
INVARIANTS TypeOK BudgetCeilings ClosedMeansQuiet OnlyActiveBudgetsOpen TunnelPolicyDominates
PROPERTIES CloseTerminates EndStopsHandlers
