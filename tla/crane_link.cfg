CONSTANTS
  MaxCalls = 3
  MaxConns = 3
  MaxEvents = 1
  MaxFaults = 1
SPECIFICATION FairSpec
INVARIANTS TypeOK ForeignOnlyIfTorn
PROPERTIES KeepsPromise EveryCallAnswered
CHECK_DEADLOCK FALSE
