SPECIFICATION Spec
CONSTANTS
  ThreeSteps = {s1, s2, s3}
  FourSteps = {s1, s2, s3, s4}
  Unknown = unknown
  StepLists <- DecodedLists
INVARIANTS DependenciesSeen
CHECK_DEADLOCK FALSE
