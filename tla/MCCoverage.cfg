SPECIFICATION Spec
CONSTANTS
  Pipeline <- MCPipeline
  Capabilities <- MCCapabilities
  Signals <- MCSignals
  RuleSets <- MCRuleSets
CHECK_DEADLOCK FALSE
INVARIANTS NotDetectedIsConclusive InsufficientIsJustified
