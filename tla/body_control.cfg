CONSTANTS
  Flow = {f1, f2}
  Client = {c1}
  Commands = {"init", "attach", "detach", "step", "script", "return_home", "recover", "realign", "pusher", "arm_sweep"}
  MaxSteps = 2
  MaxGiven = 2
  MaxEvents = 2
  NoFlow = NoFlow
SPECIFICATION Spec
INVARIANTS TypeOK StopHolds PauseHolds
CHECK_DEADLOCK FALSE
