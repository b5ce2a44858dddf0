CONSTANTS
  c1 = c1
  c2 = c2
  L = L
  R = R
  Client = {c1, c2}
  HoldLoop = HoldLoop
  Watchdog = Watchdog
  NoOne = NoOne
  Side = {L, R}
  Scenarios <- SafetyMixes
SPECIFICATION Spec
SYMMETRY Symmetry
INVARIANTS TypeOK MotionMutex MovingRopeAnswered OnlyOneSideOffMixes
