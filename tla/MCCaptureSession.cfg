SPECIFICATION Spec
CONSTANTS
  Configs <- MCConfigs
  MaxFaults = 2
INVARIANTS
  FaultlessSessionReaches
PROPERTIES
  CountedStepsAreSeen
  PlanIsFollowed
CHECK_DEADLOCK FALSE
