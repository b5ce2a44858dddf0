SPECIFICATION PushFairSpec
CONSTANTS
  Cup <- MCCup
  Right <- MCCup
  c1 = c1
  c2 = c2
  Caller = {t1, t2}
  Extender = {t1}
  NoCaller = NoCaller
  Preset = 2
  OverCap = 0
  Buffer = 0
  MaxOver = 1
  MaxIters = 2
  Stroke = 4
  Mixes <- MCMixes
  MaxMishaps = 1
  MaxStops = 1
INVARIANTS PushTypeOK RetractOkIn PowerRestored BreakVacuumOff
PROPERTIES LearnedIsSealed BusReturned
CHECK_DEADLOCK FALSE
