------------------------------- MODULE MCArm --------------------------------
(* Arm for TLC: which commands the connections send *)
EXTENDS Arm

MCCommands ==
  {<<"INIT", M1>>, <<"PARK", M1>>, <<"DEPLOY", M1>>, <<"DEPLOY_F", M1>>, <<"SETFORCE", M1>>,
   <<"TOUCHWALL", M1>>, <<"CALIBRATE", M1>>, <<"FREE_HANG", M1>>, <<"LR_SLOT", M2>>,
   <<"LR_CALIBRATE", M2>>}
  \cup ({"ENABLE", "DISABLE", "ZERO", "HOME", "HOLD", "UNHOLD", "MOVETO"} \X Motor)
=============================================================================
