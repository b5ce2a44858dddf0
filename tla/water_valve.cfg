CONSTANTS
  c1 = c1
  c2 = c2
  Client = {c1, c2}
  Dog = Dog
  Ui = Ui
  Watch = Watch
  Nobody = Nobody
  MaxFaults = 1
SPECIFICATION FairWatch
INVARIANTS TypeOK UnwatchedExplained TwoGuards
PROPERTIES DeadmanCloses
