------------------------------- MODULE MCPumps -------------------------------
\* The rotation thread, one thread of "pump swap", one of the commands
EXTENDS Pumps, TLC

CONSTANTS h1, o1, brush
MCHand == {h1}
MCOp == {o1}
MCOthers == {brush}
=============================================================================
