CONSTANTS
  MaxPasses = 1
  Commands = {"init", "attach", "step", "return_home"}
  MaxCalls = 2
  MaxFaults = 1
  MaxStops = 1
SPECIFICATION FairSpec
INVARIANTS TypeOK
PROPERTIES RopeFree RopeClearOfArm StopEndsFlow
CHECK_DEADLOCK FALSE
