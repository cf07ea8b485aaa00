SPECIFICATION FairSpec
CONSTANTS
  ThreeSteps = {s1, s2, s3}
  FourSteps = {s1, s2, s3, s4}
  Unknown = unknown
  StepLists <- AllLists
INVARIANTS TypeOK OrderIsTopological OrderIsStable OrderAsComputed OnlyAcyclicWorkedOff
PROPERTIES WorkedOff
CHECK_DEADLOCK FALSE
