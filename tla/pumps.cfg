CONSTANTS
  A = A
  B = B
  Loop = Loop
  h1 = h1
  o1 = o1
  brush = brush
  Hand <- MCHand
  Op <- MCOp
  Others <- MCOthers
  MaxVerify = 2
  MaxFaults = 2
  MaxCommands = 2
SPECIFICATION Spec
INVARIANTS TypeOK SuctionKept
