------------------------------ MODULE MCPushers ------------------------------
(* Instance of Pushers: the two cups of one side, extended and retracted,  *)
(* or attached with one of them drifted and realigned.                     *)
EXTENDS Pushers, TLC
CONSTANTS c1, c2
MCCup == {c1, c2}

Mix(ops, p1, p2) == [ops |-> ops, start |-> (c1 :> p1 @@ c2 :> p2)]

MCMixes ==
  {Mix(<<"extend_first", "retract">>, 0, 0), Mix(<<"retract", "extend_first">>, 0, 0),
   Mix(<<"move", "extend_first">>, 0, 0), Mix(<<"extend_first", "move">>, 0, 0),
   Mix(<<"move", "retract">>, 0, 0),
   Mix(<<"realign", "retract">>, 1, 3), Mix(<<"retract", "realign">>, 1, 3),
   Mix(<<"realign", "move">>, 1, 3)}
=============================================================================
