CONSTANTS
  c1 = c1
  L = L
  R = R
  Client = {c1}
  HoldLoop = HoldLoop
  Watchdog = Watchdog
  NoOne = NoOne
  Side = {L, R}
  Scenarios <- LiveMixes
SPECIFICATION FairSpec
PROPERTIES LeaseDropsHold LockReturned SilenceStopsMotion
