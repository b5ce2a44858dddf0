CONSTANTS
  o1 = o1
  o2 = o2
  Op = {o1, o2}
  Sweep = Sweep
  Mon = Mon
  Free = Free
  MaxCommands = 3
  MaxFaults = 1
SPECIFICATION FairSpec
INVARIANTS TypeOK UnwatchedExplained
PROPERTIES JogEnds
CHECK_DEADLOCK FALSE
