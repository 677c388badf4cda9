SPECIFICATION FairSpec
CONSTANTS
  Policies <- MCPolicies
  Kinds = {"network", "tls"}
  MaxPages = 2
CHECK_DEADLOCK FALSE
INVARIANTS ResultComplete PagesIndependent ExitCodesAgree
PROPERTIES CancellationIsFatal ImplementsContract
