SPECIFICATION Spec
CONSTANTS
  n1 = n1
  n2 = n2
  h1 = h1
  h2 = h2
  None = None
  Navigations <- MCOneNavigation
  Tunnels <- MCTunnels
  Forwards <- MCForwards
  MaxRequests = 2
  MaxRedirects = 0
  MaxTransferBytes = 3
CHECK_DEADLOCK FALSE
INVARIANTS HTTPPolicyDominates
