CONSTANTS
  L = L
  R = R
  o1 = o1
  Op = {o1}
  Ground = 3
  SmallJump = 0
  MaxJump = 1
  Resync = 2
  Tolerance = 1
  Noise = {2}
  Starts = {0, 2}
  Homes = {3}
  Walls = {6}
  Targets = {0, 6}
  MaxMoves = 1
  MaxMishaps = 1
  MaxCommands = 1
SPECIFICATION MeterFairSpec
INVARIANTS MeterTypeOK HeightTrue GotoInside
PROPERTIES CacheSettles
CHECK_DEADLOCK FALSE
