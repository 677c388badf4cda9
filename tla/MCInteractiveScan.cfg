SPECIFICATION FairSpec
CONSTANTS
  Stages = 2
  MaxTargets = 2
  Buffer = 1
CHECK_DEADLOCK FALSE
INVARIANTS TypeOK NoOrphanScan FullBarIsTrue RecordedPagesAreScanned
PROPERTIES VanishedViewNeverBlocks InterruptExitsOne
