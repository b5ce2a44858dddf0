CONSTANTS
  t1 = t1
  t2 = t2
  Thread = {t1, t2}
  Boot = t1
  Commands <- MCCommands
  MaxCommands = 2
SPECIFICATION Spec
INVARIANTS TypeOK FlagNotLost NoPassiveGap
CHECK_DEADLOCK FALSE
