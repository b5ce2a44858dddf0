--------------------------- MODULE StepSyncProofs ---------------------------
(***************************************************************************)
(* StepSync for any bound on passes, commands, faults and stops: its       *)
(* types, and that the ropes move the body only when cups and arm are off  *)
(* the glass.                                                              *)
(***************************************************************************)
EXTENDS StepSync, TLAPS

-----------------------------------------------------------------------------
(* The operations of the commands, by their place.                         *)

LEMMA Table ==
  /\ DOMAIN Ops = {"init", "attach", "step", "return_home"}
  /\ Len(Ops["step"]) = 13 /\ Len(Ops["return_home"]) = 4
  /\ Len(Ops["attach"]) = 3 /\ Len(Ops["init"]) = 2
<1>1. /\ Ops["step"] = StepOps /\ Ops["return_home"] = HomeOps
      /\ Ops["attach"] = AttachOps /\ Ops["init"] = InitOps
  BY DEF Ops
<1>2. Len(StepOps) = 13
  BY DEF StepOps, Op
<1>3. Len(HomeOps) = 4
  BY DEF HomeOps, Op
<1>4. Len(AttachOps) = 3 /\ Len(InitOps) = 2
  BY DEF AttachOps, InitOps, Op
<1>5. DOMAIN Ops = {"init", "attach", "step", "return_home"}
  BY DEF Ops
<1> QED
  BY <1>1, <1>2, <1>3, <1>4, <1>5

\* What a step does at which of its operations
LEMMA StepRow ==
  ASSUME NEW n \in 1..13
  PROVE  LET o == Ops["step"][n] IN
         /\ o.does = "retract" <=> n = 4
         /\ o.does = "init_go" <=> n = 5
         /\ o.does = "rope" <=> n = 6
         /\ o.does = "roll" <=> n = 7
         /\ o.does = "sweep_go" <=> n = 10
         /\ o.does = "extend" <=> n = 11
         /\ o.does = "look" <=> n = 12
         /\ o.does = "join" <=> n = 13
         /\ o.does \notin {"again", "arm", "cut"}
         /\ o.does = "valve_on" <=> n = 9
         /\ o.does = "valve_off" <=> n = 1
         /\ o.does = "release" <=> n = 2
         /\ o.does = "fan_on" <=> n = 3
         /\ o.does = "fan_off" <=> n = 8
         /\ o.checked <=> n \notin {5, 10, 12, 13}
         /\ o.onFail = "ask" <=> n \notin {3, 5, 7, 10, 12, 13}
         /\ o.onFail \in {"ask", "go", "fail"}
<1>1. Ops["step"] = StepOps
  BY DEF Ops
<1>2. \/ n = 1 \/ n = 2 \/ n = 3 \/ n = 4 \/ n = 5 \/ n = 6 \/ n = 7
      \/ n = 8 \/ n = 9 \/ n = 10 \/ n = 11 \/ n = 12 \/ n = 13
  OBVIOUS
<1> QED
  BY <1>1, <1>2 DEF StepOps, Op

\* What the other commands do
LEMMA HomeRow ==
  ASSUME NEW n \in 1..4
  PROVE  LET o == Ops["return_home"][n] IN
         /\ o.does = "cut" <=> n = 1
         /\ o.does = "release" <=> n = 2
         /\ o.does = "retract" <=> n = 3
         /\ o.does = "rope" <=> n = 4
         /\ o.does \in {"cut", "release", "retract", "rope"}
         /\ o.checked <=> n \in {2, 3}
         /\ o.onFail = "ask" <=> n \in {2, 3}
         /\ o.onFail \in {"ask", "go", "fail"}
<1>1. Ops["return_home"] = HomeOps
  BY DEF Ops
<1>2. n = 1 \/ n = 2 \/ n = 3 \/ n = 4
  OBVIOUS
<1> QED
  BY <1>1, <1>2 DEF HomeOps, Op

LEMMA AttachRow ==
  ASSUME NEW n \in 1..3
  PROVE  LET o == Ops["attach"][n] IN
         /\ o.does = "valve_on" <=> n = 1
         /\ o.does = "extend" <=> n = 2
         /\ o.does = "again" <=> n = 3
         /\ o.does \in {"valve_on", "extend", "again"}
         /\ ~o.checked /\ o.onFail = "ask"
<1>1. Ops["attach"] = AttachOps
  BY DEF Ops
<1>2. n = 1 \/ n = 2 \/ n = 3
  OBVIOUS
<1> QED
  BY <1>1, <1>2 DEF AttachOps, Op

LEMMA InitRow ==
  ASSUME NEW n \in 1..2
  PROVE  LET o == Ops["init"][n] IN
         /\ o.does = "cut" <=> n = 1
         /\ o.does = "arm" <=> n = 2
         /\ o.does \in {"cut", "arm"}
         /\ ~o.checked
         /\ o.onFail = "ask" <=> n = 1
         /\ o.onFail \in {"ask", "go", "fail"}
<1>1. Ops["init"] = InitOps
  BY DEF Ops
<1>2. n = 1 \/ n = 2
  OBVIOUS
<1> QED
  BY <1>1, <1>2 DEF InitOps, Op

-----------------------------------------------------------------------------
(* The invariant.                                                          *)

\* The record of the flow
FlowOK ==
  /\ flow \in [cmd : DOMAIN Ops, op : Nat, at : FlowPlaces, pass : 0..MaxPasses, before : States]
  /\ flow.op \in 1..Len(Ops[flow.cmd])

\* A command is at work and holds motion_mtx_
Live == flow.at \notin {"idle", "done", "after", "after_poll"}

Places ==
  /\ flow.at \in {"read", "pulse"} => flow.cmd = "step" /\ flow.op = 7
  /\ flow.at = "ask" => Current.onFail = "ask"
  /\ flow.at = "check" => Current.checked

\* From the end of the retraction to the extension
Hanging ==
  \/ /\ flow.cmd = "step"
     /\ flow.op \in 5..10 \/ (flow.op = 4 /\ flow.at = "check")
  \/ /\ flow.cmd = "return_home"
     /\ flow.op = 4 \/ (flow.op = 3 /\ flow.at = "check")

CupsClear == Hanging => slipped \/ (~out /\ ~grip)

\* The calibration is begun and taken back by operations of the same command
CalibrationTime ==
  Live /\ \/ flow.cmd = "step" /\ flow.op \in 6..10
          \/ flow.cmd = "init" /\ flow.op = 2 /\ flow.at = "in"

Calibrating == armInit # "off" => CalibrationTime

\* The sweep neither begins before the ropes have stopped nor outlives the step
SweepTime == Live /\ flow.cmd = "step" /\ flow.op \in 11..13

Cleaning == sweep # "off" => SweepTime

\* Where the sweep may have the arm on the glass
OnGlass == {"deploying_r", "rail_out", "switch", "deploy_l", "deploying_l", "rail_back",
            "stop", "retract", "poll"}

ArmKnown == sweep \notin OnGlass => armLeft \/ (armAt = "in" /\ armTo = "in")

Types ==
  /\ state \in States /\ FlowOK
  /\ abort \in BOOLEAN /\ valve \in BOOLEAN /\ grip \in BOOLEAN /\ out \in BOOLEAN
  /\ fan \in BOOLEAN /\ brush \in BOOLEAN /\ rope \in BOOLEAN /\ bad \in BOOLEAN
  /\ slipped \in BOOLEAN /\ armLeft \in BOOLEAN
  /\ armAt \in {"in", "out"} /\ armTo \in {"in", "out"}
  /\ armBusy \in {"free", "init", "sweep"}
  /\ armBusy = "init" <=> armInit = "go"
  /\ armBusy = "sweep" <=> sweep \in Underway
  /\ armInit \in {"off", "wait", "go"} \cup Calibrated
  /\ sweep \in {"off", "go", "deploy_r", "rail_out", "switch", "deploy_l", "rail_back",
                "stop", "retract", "poll", "bare_out", "bare_stop", "bare_back"} \cup Underway
  /\ detach \in {"off", "brush", "arm", "poll", "fan", "valve", "release", "retract", "claim"}

IInv == Types /\ Places /\ CupsClear /\ Calibrating /\ Cleaning /\ ArmKnown

-----------------------------------------------------------------------------
(* What the steps of a command do to its record.                           *)

Stays(at) == flow'.cmd = flow.cmd /\ flow'.op = flow.op /\ flow'.at = at

NextOp ==
  /\ flow'.cmd = flow.cmd
  /\ \/ flow.op = Len(Ops[flow.cmd]) /\ flow'.op = flow.op /\ flow'.at = "done"
     \/ flow.op < Len(Ops[flow.cmd]) /\ flow'.op = flow.op + 1 /\ flow'.at = "start"

Advances ==
  \/ Current.checked /\ Stays("check")
  \/ ~Current.checked /\ NextOp

Gives ==
  \/ Current.onFail = "ask" /\ Stays("ask")
  \/ Current.onFail = "go" /\ Advances
  \/ Current.onFail = "fail" /\ Stays("fail")

\* The operation at which a command is
LEMMA Row ==
  ASSUME FlowOK
  PROVE  /\ flow.cmd \in {"init", "attach", "step", "return_home"}
         /\ flow.cmd = "step" =>
              /\ Len(Ops[flow.cmd]) = 13 /\ flow.op \in 1..13
              /\ Current.does = "retract" <=> flow.op = 4
              /\ Current.does = "init_go" <=> flow.op = 5
              /\ Current.does = "rope" <=> flow.op = 6
              /\ Current.does = "roll" <=> flow.op = 7
              /\ Current.does = "sweep_go" <=> flow.op = 10
              /\ Current.does = "extend" <=> flow.op = 11
              /\ Current.does = "look" <=> flow.op = 12
              /\ Current.does = "join" <=> flow.op = 13
              /\ Current.does \notin {"again", "arm", "cut"}
              /\ Current.does = "valve_on" <=> flow.op = 9
              /\ Current.does = "valve_off" <=> flow.op = 1
              /\ Current.does = "release" <=> flow.op = 2
              /\ Current.does = "fan_on" <=> flow.op = 3
              /\ Current.does = "fan_off" <=> flow.op = 8
              /\ Current.checked <=> flow.op \notin {5, 10, 12, 13}
              /\ Current.onFail = "ask" <=> flow.op \notin {3, 5, 7, 10, 12, 13}
         /\ flow.cmd = "return_home" =>
              /\ Len(Ops[flow.cmd]) = 4 /\ flow.op \in 1..4
              /\ Current.does = "cut" <=> flow.op = 1
              /\ Current.does = "release" <=> flow.op = 2
              /\ Current.does = "retract" <=> flow.op = 3
              /\ Current.does = "rope" <=> flow.op = 4
              /\ Current.does \in {"cut", "release", "retract", "rope"}
              /\ Current.checked <=> flow.op \in {2, 3}
              /\ Current.onFail = "ask" <=> flow.op \in {2, 3}
         /\ flow.cmd = "attach" =>
              /\ Len(Ops[flow.cmd]) = 3 /\ flow.op \in 1..3
              /\ Current.does = "valve_on" <=> flow.op = 1
              /\ Current.does = "extend" <=> flow.op = 2
              /\ Current.does = "again" <=> flow.op = 3
              /\ Current.does \in {"valve_on", "extend", "again"}
              /\ ~Current.checked /\ Current.onFail = "ask"
         /\ flow.cmd = "init" =>
              /\ Len(Ops[flow.cmd]) = 2 /\ flow.op \in 1..2
              /\ Current.does = "cut" <=> flow.op = 1
              /\ Current.does = "arm" <=> flow.op = 2
              /\ Current.does \in {"cut", "arm"}
              /\ ~Current.checked
              /\ Current.onFail = "ask" <=> flow.op = 1
         /\ Current.onFail \in {"ask", "go", "fail"}
<1>1. flow.cmd \in {"init", "attach", "step", "return_home"}
  BY Table DEF FlowOK
<1>2. CASE flow.cmd = "step"
  <2>1. flow.op \in 1..13 /\ Len(Ops[flow.cmd]) = 13
    BY <1>2, Table DEF FlowOK
  <2>2. Current = Ops["step"][flow.op]
    BY <1>2 DEF Current
  <2> QED
    BY <1>2, <2>1, <2>2, StepRow
<1>3. CASE flow.cmd = "return_home"
  <2>1. flow.op \in 1..4 /\ Len(Ops[flow.cmd]) = 4
    BY <1>3, Table DEF FlowOK
  <2>2. Current = Ops["return_home"][flow.op]
    BY <1>3 DEF Current
  <2> QED
    BY <1>3, <2>1, <2>2, HomeRow
<1>4. CASE flow.cmd = "attach"
  <2>1. flow.op \in 1..3 /\ Len(Ops[flow.cmd]) = 3
    BY <1>4, Table DEF FlowOK
  <2>2. Current = Ops["attach"][flow.op]
    BY <1>4 DEF Current
  <2> QED
    BY <1>4, <2>1, <2>2, AttachRow
<1>5. CASE flow.cmd = "init"
  <2>1. flow.op \in 1..2 /\ Len(Ops[flow.cmd]) = 2
    BY <1>5, Table DEF FlowOK
  <2>2. Current = Ops["init"][flow.op]
    BY <1>5 DEF Current
  <2> QED
    BY <1>5, <2>1, <2>2, InitRow
<1> QED
  BY <1>1, <1>2, <1>3, <1>4, <1>5

LEMMA GotoEffect ==
  ASSUME FlowOK, NEW at \in FlowPlaces, Goto(at)
  PROVE  FlowOK' /\ Stays(at)
BY DEF FlowOK, Goto, Stays

LEMMA FollowingEffect ==
  ASSUME FlowOK, flow' = Following
  PROVE  FlowOK' /\ NextOp
<1>1. Len(Ops[flow.cmd]) \in Nat
  BY Row DEF FlowOK
<1>2. "done" \in FlowPlaces /\ "start" \in FlowPlaces /\ "idle" \in States
  BY DEF FlowPlaces, States
<1>3. CASE flow.op = Len(Ops[flow.cmd])
  BY <1>2, <1>3 DEF FlowOK, Following, NextOp
<1>4. CASE flow.op # Len(Ops[flow.cmd])
  <2>1. flow' = [flow EXCEPT !.op = @ + 1, !.at = "start", !.before = "idle"]
    BY <1>4 DEF Following
  <2>2. flow.op < Len(Ops[flow.cmd]) /\ flow.op + 1 \in 1..Len(Ops[flow.cmd])
    BY <1>1, <1>4 DEF FlowOK
  <2>3. flow'.cmd = flow.cmd /\ flow'.op = flow.op + 1 /\ flow'.at = "start"
    BY <2>1 DEF FlowOK
  <2>4. flow' \in [cmd : DOMAIN Ops, op : Nat, at : FlowPlaces, pass : 0..MaxPasses, before : States]
    <3>1. flow.op + 1 \in Nat
      BY DEF FlowOK
    <3>2. [flow EXCEPT !.op = flow.op + 1]
            \in [cmd : DOMAIN Ops, op : Nat, at : FlowPlaces, pass : 0..MaxPasses, before : States]
      BY <3>1 DEF FlowOK
    <3>3. flow' = [[[flow EXCEPT !.op = flow.op + 1] EXCEPT !.at = "start"] EXCEPT !.before = "idle"]
      BY <2>1
    <3> QED
      BY <1>2, <3>2, <3>3
  <2>5. flow'.op \in 1..Len(Ops[flow'.cmd])
    BY <2>2, <2>3
  <2>6. FlowOK'
    BY <2>4, <2>5 DEF FlowOK
  <2> QED
    BY <2>2, <2>3, <2>6 DEF NextOp
<1> QED
  BY <1>3, <1>4

LEMMA OpDoneEffect ==
  ASSUME FlowOK, OpDone
  PROVE  FlowOK' /\ Advances
<1>1. CASE Current.checked
  <2>1. "check" \in FlowPlaces /\ "idle" \in States /\ 0 \in 0..MaxPasses
    BY BoundAssumption DEF FlowPlaces, States
  <2>2. flow' = [flow EXCEPT !.at = "check", !.pass = 0, !.before = "idle"]
    BY <1>1 DEF OpDone
  <2>3. FlowOK' /\ Stays("check")
    BY <2>1, <2>2 DEF FlowOK, Stays
  <2> QED
    BY <1>1, <2>3 DEF Advances
<1>2. CASE ~Current.checked
  <2>1. flow' = Following
    BY <1>2 DEF OpDone
  <2> QED
    BY <1>2, <2>1, FollowingEffect DEF Advances
<1> QED
  BY <1>1, <1>2

LEMMA FailsEffect ==
  ASSUME FlowOK, state \in States, Fails
  PROVE  FlowOK' /\ state' \in States /\ Gives
<1>1. CASE Current.onFail = "ask"
  <2>1. "ask" \in FlowPlaces /\ "paused" \in States
    BY DEF FlowPlaces, States
  <2>2. flow' = [flow EXCEPT !.at = "ask", !.before = state] /\ state' = "paused"
    BY <1>1 DEF Fails
  <2> QED
    BY <1>1, <2>1, <2>2 DEF FlowOK, Gives, Stays
<1>2. CASE Current.onFail = "go"
  <2>1. OpDone /\ state' = state
    BY <1>2 DEF Fails, Passes
  <2> QED
    BY <1>2, <2>1, OpDoneEffect DEF Gives
<1>3. CASE Current.onFail = "fail"
  <2>1. Goto("fail") /\ state' = state
    BY <1>3 DEF Fails
  <2>2. "fail" \in FlowPlaces
    BY DEF FlowPlaces
  <2> QED
    BY <1>3, <2>1, <2>2, GotoEffect DEF Gives
<1> QED
  BY <1>1, <1>2, <1>3, Row

-----------------------------------------------------------------------------
(* What the movements of a command leave of the invariant.                 *)

Calm == {"start", "in", "fail", "joining"}

Moves ==
  \/ Advances
  \/ Gives
  \/ flow.at = "check" /\ NextOp
  \/ \E at \in Calm : Stays(at)
  \/ flow.cmd = "step" /\ flow.op = 7 /\ \E at \in {"read", "pulse"} : Stays(at)

LEMMA MovesPlaces ==
  ASSUME FlowOK, Places, Moves
  PROVE  Places'
<1>1. ASSUME NEW at \in Calm, Stays(at)
      PROVE  Places'
  BY <1>1 DEF Places, Stays, Calm
<1>2. ASSUME flow.cmd = "step", flow.op = 7, NEW at \in {"read", "pulse"}, Stays(at)
      PROVE  Places'
  BY <1>2 DEF Places, Stays
<1>3. CASE Stays("ask") /\ Current.onFail = "ask"
  BY <1>3 DEF Places, Stays, Current
<1>4. CASE Stays("check") /\ Current.checked
  <2>1. flow'.at = "check" /\ Current' = Current
    BY <1>4 DEF Stays, Current
  <2> QED
    BY <1>4, <2>1 DEF Places
<1>5. CASE NextOp
  BY <1>5 DEF Places, NextOp
<1>6. CASE Stays("fail")
  BY <1>1, <1>6 DEF Calm
<1> QED
  BY <1>1, <1>2, <1>3, <1>4, <1>5, <1>6 DEF Moves, Advances, Gives

LEMMA MovesHanging ==
  ASSUME FlowOK, Places, Moves, Hanging', ~Hanging
  PROVE  Current.does = "retract" /\ flow.at # "check"
<1>1. ASSUME NEW at \in Calm, Stays(at)
      PROVE  FALSE
  BY <1>1 DEF Hanging, Stays, Calm
<1>2. ASSUME flow.cmd = "step", flow.op = 7, NEW at \in {"read", "pulse"}, Stays(at)
      PROVE  FALSE
  BY <1>2 DEF Hanging, Stays
<1>3. CASE Stays("ask") \/ Stays("fail")
  BY <1>3 DEF Hanging, Stays
<1>4. CASE Stays("check") /\ Current.checked
  BY <1>4, Row DEF Hanging, Stays
<1>5. CASE NextOp
  <2>1. CASE flow.op = Len(Ops[flow.cmd]) /\ flow'.op = flow.op /\ flow'.at = "done"
    BY <1>5, <2>1, Row DEF Hanging, NextOp
  <2>2. CASE flow.op < Len(Ops[flow.cmd]) /\ flow'.op = flow.op + 1 /\ flow'.at = "start"
    BY <1>5, <2>2, Row DEF Hanging, NextOp
  <2> QED
    BY <1>5, <2>1, <2>2 DEF NextOp
<1> QED
  BY <1>1, <1>2, <1>3, <1>4, <1>5 DEF Moves, Advances, Gives

LEMMA MovesTimes ==
  ASSUME FlowOK, Places, Moves
  PROVE  /\ CalibrationTime /\ Current.does \notin {"sweep_go", "arm"} => CalibrationTime'
         /\ SweepTime /\ Current.does # "join" => SweepTime'
<1>1. ASSUME NEW at \in Calm, Stays(at)
      PROVE  /\ CalibrationTime /\ Current.does # "arm" => CalibrationTime'
             /\ SweepTime => SweepTime'
  BY <1>1, Row DEF CalibrationTime, SweepTime, Live, Stays, Calm
<1>2. ASSUME flow.cmd = "step", flow.op = 7, NEW at \in {"read", "pulse"}, Stays(at)
      PROVE  CalibrationTime' /\ ~SweepTime
  BY <1>2 DEF CalibrationTime, SweepTime, Live, Stays
<1>3. CASE Stays("ask") \/ Stays("check")
  BY <1>3, Row DEF CalibrationTime, SweepTime, Live, Stays
<1>4. CASE NextOp
  <2>1. CASE flow.op = Len(Ops[flow.cmd]) /\ flow'.op = flow.op /\ flow'.at = "done"
    BY <1>4, <2>1, Row DEF CalibrationTime, SweepTime, Live, NextOp
  <2>2. CASE flow.op < Len(Ops[flow.cmd]) /\ flow'.op = flow.op + 1 /\ flow'.at = "start"
    BY <1>4, <2>2, Row DEF CalibrationTime, SweepTime, Live, NextOp
  <2> QED
    BY <1>4, <2>1, <2>2 DEF NextOp
<1>5. CASE Stays("fail")
  BY <1>1, <1>5 DEF Calm
<1> QED
  BY <1>1, <1>2, <1>3, <1>4, <1>5 DEF Moves, Advances, Gives

-----------------------------------------------------------------------------
(* Every step keeps the invariant.                                         *)

\* A movement of the command that touches neither cups nor arm nor threads
LEMMA Quiet ==
  ASSUME IInv, FlowOK', Places', state' \in States,
         Hanging' => Hanging,
         armInit # "off" => CalibrationTime',
         sweep # "off" => SweepTime',
         abort' \in BOOLEAN, valve' \in BOOLEAN, fan' \in BOOLEAN,
         brush' \in BOOLEAN, rope' \in BOOLEAN, bad' \in BOOLEAN,
         UNCHANGED <<grip, out, arm, threads, detach, history>>
  PROVE  IInv'
<1>1. Types'
  BY DEF IInv, Types, arm, threads, history
<1>2. CupsClear'
  BY DEF IInv, CupsClear, history
<1>3. Calibrating' /\ Cleaning'
  BY DEF IInv, Calibrating, Cleaning, threads
<1>4. ArmKnown'
  BY DEF IInv, ArmKnown, arm, threads, history
<1> QED
  BY <1>1, <1>2, <1>3, <1>4 DEF IInv

\* The same, at an operation that is not the retraction and does not deal with threads
LEMMA QuietOp ==
  ASSUME IInv, FlowOK', Moves, state' \in States,
         Current.does \notin {"retract", "sweep_go", "arm", "join"},
         abort' \in BOOLEAN, valve' \in BOOLEAN, fan' \in BOOLEAN,
         brush' \in BOOLEAN, rope' \in BOOLEAN, bad' \in BOOLEAN,
         UNCHANGED <<grip, out, arm, threads, detach, history>>
  PROVE  IInv'
<1>1. FlowOK /\ Places
  BY DEF IInv, Types
<1>2. Places' /\ (Hanging' => Hanging)
  BY <1>1, MovesPlaces, MovesHanging
<1>3. (armInit # "off" => CalibrationTime') /\ (sweep # "off" => SweepTime')
  BY <1>1, MovesTimes DEF IInv, Calibrating, Cleaning
<1> QED
  BY <1>2, <1>3, Quiet

\* The same, at any operation that stays where it is and is not init's wait for the arm
LEMMA QuietStay ==
  ASSUME IInv, FlowOK', NEW at \in Calm, Stays(at), state' \in States,
         flow.at # "in",
         abort' \in BOOLEAN, valve' \in BOOLEAN, fan' \in BOOLEAN,
         brush' \in BOOLEAN, rope' \in BOOLEAN, bad' \in BOOLEAN,
         UNCHANGED <<grip, out, arm, threads, detach, history>>
  PROVE  IInv'
<1>1. FlowOK /\ Places
  BY DEF IInv, Types
<1>2. Places'
  BY <1>1, MovesPlaces DEF Moves
<1>3. Hanging' => Hanging
  BY DEF Hanging, Stays, Calm
<1>4. (armInit # "off" => CalibrationTime') /\ (sweep # "off" => SweepTime')
  BY DEF IInv, Calibrating, Cleaning, CalibrationTime, SweepTime, Live, Stays, Calm
<1> QED
  BY <1>2, <1>3, <1>4, Quiet

LEMMA Booleans ==
  ASSUME IInv
  PROVE  /\ FlowOK /\ Places /\ state \in States
         /\ abort \in BOOLEAN /\ valve \in BOOLEAN /\ grip \in BOOLEAN /\ out \in BOOLEAN
         /\ fan \in BOOLEAN /\ brush \in BOOLEAN /\ rope \in BOOLEAN /\ bad \in BOOLEAN
BY DEF IInv, Types

\* What an operation may end with
LEMMA Ends ==
  ASSUME IInv, Passes \/ Fails
  PROVE  FlowOK' /\ Moves /\ state' \in States
BY Booleans, OpDoneEffect, FailsEffect DEF Passes, Moves

LEMMA GoesIn ==
  ASSUME IInv, NEW at \in Calm, Goto(at)
  PROVE  FlowOK' /\ Moves /\ Stays(at)
<1>1. at \in FlowPlaces
  BY DEF Calm, FlowPlaces
<1> QED
  BY <1>1, Booleans, GotoEffect DEF Moves

LEMMA BeginStep ==
  ASSUME IInv, NEW cmd \in Commands, Begin(cmd)
  PROVE  IInv'
<1>1. cmd \in DOMAIN Ops
  BY CommandsAssumption, Table
<1>2. flow' = [cmd |-> cmd, op |-> 1, at |-> "start", pass |-> 0, before |-> "idle"]
  BY DEF Begin, Idle
<1>3. 1 \in 1..Len(Ops[cmd])
  <2>1. cmd \in {"init", "attach", "step", "return_home"}
    BY CommandsAssumption
  <2> DEFINE n == Len(Ops[cmd])
  <2>2. n = 13 \/ n = 4 \/ n = 3 \/ n = 2
    BY <2>1, Table, Zenon
  <2> HIDE DEF n
  <2>3. 1 \in 1..n
    BY <2>2
  <2> QED
    BY <2>3 DEF n
<1>4. FlowOK'
  BY <1>1, <1>2, <1>3, BoundAssumption DEF FlowOK, FlowPlaces, States
<1>5. Places' /\ ~Hanging'
  BY <1>2 DEF Places, Hanging
<1>6. armInit = "off" /\ sweep = "off"
  BY DEF IInv, Begin, Calibrating, Cleaning, CalibrationTime, SweepTime, Live
<1>7. state' \in States /\ abort' \in BOOLEAN
  BY Booleans DEF Begin, States
<1>8. UNCHANGED <<feet, fan, brush, rope, arm, threads, stopper, history>>
  BY DEF Begin
<1> QED
  BY <1>4, <1>5, <1>6, <1>7, <1>8, Booleans, Quiet DEF feet, stopper

LEMMA FrameStep ==
  ASSUME IInv, Refuse \/ Abandon \/ Retry \/ Fail
  PROVE  IInv'
<1>1. CASE Refuse
  <2>1. FlowOK' /\ Stays("fail")
    BY <1>1, GoesIn DEF Refuse, Calm
  <2>2. flow.at # "in" /\ UNCHANGED <<state, abort, feet, fan, brush, rope, arm, threads, stopper, history>>
    BY <1>1 DEF Refuse
  <2> QED
    BY <2>1, <2>2, Booleans, QuietStay DEF Calm, feet, stopper
<1>2. CASE Abandon
  <2>1. flow' = [flow EXCEPT !.at = "fail", !.before = "idle"]
    BY <1>2 DEF Abandon
  <2>2. FlowOK' /\ Stays("fail")
    BY <2>1, Booleans DEF FlowOK, Stays, FlowPlaces, States
  <2>3. flow.at # "in" /\ UNCHANGED <<state, abort, feet, fan, brush, rope, arm, threads, stopper, history>>
    BY <1>2 DEF Abandon
  <2> QED
    BY <2>2, <2>3, Booleans, QuietStay DEF Calm, feet, stopper
<1>3. CASE Retry
  <2>1. flow' = [flow EXCEPT !.at = "start", !.before = "idle"]
    BY <1>3 DEF Retry
  <2>2. FlowOK' /\ Stays("start")
    BY <2>1, Booleans DEF FlowOK, Stays, FlowPlaces, States
  <2>3. flow.at # "in" /\ UNCHANGED <<abort, feet, fan, brush, rope, arm, threads, stopper, history>>
    BY <1>3 DEF Retry
  <2>4. state' \in States
    BY <1>3, Booleans DEF Retry, FlowOK
  <2> QED
    BY <2>2, <2>3, <2>4, Booleans, QuietStay DEF Calm, feet, stopper
<1>4. CASE Fail
  <2>1. FlowOK' /\ Stays("joining")
    BY <1>4, GoesIn DEF Fail, Calm
  <2>2. flow.at # "in" /\ UNCHANGED <<state, abort, feet, brush, rope, arm, threads, stopper, history>>
    BY <1>4 DEF Fail
  <2>3. fan' \in BOOLEAN
    BY <1>4, Booleans DEF Fail
  <2> QED
    BY <2>1, <2>2, <2>3, Booleans, QuietStay DEF Calm, feet, stopper
<1> QED
  BY <1>1, <1>2, <1>3, <1>4

LEMMA CheckStep ==
  ASSUME IInv, Check
  PROVE  IInv'
<1>1. UNCHANGED <<state, abort, feet, fan, brush, rope, arm, threads, stopper, history>>
  BY DEF Check
<1>2. CASE abort
  <2>1. Goto("fail") /\ flow.at # "in"
    BY <1>2 DEF Check, Goto
  <2>2. FlowOK' /\ Stays("fail")
    BY <2>1, GoesIn DEF Calm
  <2> QED
    BY <1>1, <2>1, <2>2, Booleans, QuietStay DEF Calm, feet, stopper
<1>3. CASE ~abort
  <2>1. flow.at = "check" /\ flow' = Following
    BY <1>3 DEF Check
  <2>2. FlowOK' /\ Moves
    BY <2>1, Booleans, FollowingEffect DEF Moves
  <2>3. Places' /\ (Hanging' => Hanging)
    BY <2>1, <2>2, Booleans, MovesPlaces, MovesHanging
  <2>4. Current.does \notin {"sweep_go", "arm", "join"}
    BY <2>1, Booleans, Row DEF Places
  <2>5. (armInit # "off" => CalibrationTime') /\ (sweep # "off" => SweepTime')
    BY <2>2, <2>4, Booleans, MovesTimes DEF IInv, Calibrating, Cleaning
  <2> QED
    BY <1>1, <2>2, <2>3, <2>5, Booleans, Quiet DEF feet, stopper
<1> QED
  BY <1>2, <1>3

\* The operations on valves, fan and relays, and the looks at the cups
LEMMA RelayStep ==
  ASSUME IInv,
         \/ \E does \in {"valve_on", "valve_off"} : SetValve(does) \/ ReadBack(does)
         \/ Release \/ FanOn \/ FanOff \/ Look \/ Cut
  PROVE  IInv'
<1> USE Booleans
<1>1. ASSUME NEW does \in {"valve_on", "valve_off"}, SetValve(does)
      PROVE  IInv'
  <2>1. Current.does = does /\ UNCHANGED <<abort, grip, out, fan, brush, rope, arm, threads, stopper, history>>
    BY <1>1 DEF SetValve, Entering
  <2>2. valve' \in BOOLEAN
    BY <1>1 DEF SetValve
  <2>3. Fails \/ (Goto("in") /\ state' = state)
    BY <1>1 DEF SetValve
  <2>4. FlowOK' /\ Moves /\ state' \in States
    BY <2>3, Ends, GoesIn DEF Calm
  <2> QED
    BY <2>1, <2>2, <2>4, QuietOp DEF stopper
<1>2. ASSUME NEW does \in {"valve_on", "valve_off"}, ReadBack(does)
      PROVE  IInv'
  <2>1. Current.does = does /\ UNCHANGED <<abort, grip, out, fan, brush, rope, arm, threads, stopper, history>>
    BY <1>2 DEF ReadBack, Inside
  <2>2. valve' \in BOOLEAN
    BY <1>2 DEF ReadBack
  <2>3. FlowOK' /\ Moves /\ state' \in States
    BY <1>2, Ends DEF ReadBack
  <2> QED
    BY <2>1, <2>2, <2>3, QuietOp DEF stopper
<1>3. CASE Release
  <2>1. Current.does = "release" /\ UNCHANGED <<abort, feet, fan, brush, rope, arm, threads, stopper, history>>
    BY <1>3 DEF Release, Entering
  <2>2. FlowOK' /\ Moves /\ state' \in States
    BY <1>3, Ends DEF Release
  <2> QED
    BY <2>1, <2>2, QuietOp DEF stopper, feet
<1>4. CASE FanOn
  <2>1. Current.does = "fan_on" /\ UNCHANGED <<abort, feet, brush, rope, arm, threads, stopper, history>>
    BY <1>4 DEF FanOn, Entering
  <2>2. FlowOK' /\ Moves /\ state' \in States /\ fan' \in BOOLEAN
    BY <1>4, Ends DEF FanOn
  <2> QED
    BY <2>1, <2>2, QuietOp DEF stopper, feet
<1>5. CASE FanOff
  <2>1. Current.does = "fan_off" /\ UNCHANGED <<abort, feet, brush, rope, arm, threads, stopper, history>>
    BY <1>5 DEF FanOff, Entering
  <2>2. FlowOK' /\ Moves /\ state' \in States /\ fan' \in BOOLEAN
    BY <1>5, Ends DEF FanOff
  <2> QED
    BY <2>1, <2>2, QuietOp DEF stopper, feet
<1>6. CASE Look
  <2>1. Current.does = "look" /\ UNCHANGED <<abort, feet, fan, brush, rope, arm, threads, stopper, history>>
    BY <1>6 DEF Look, Entering
  <2>2. FlowOK' /\ Moves /\ state' \in States
    BY <1>6, Ends DEF Look
  <2> QED
    BY <2>1, <2>2, QuietOp DEF stopper, feet
<1>7. CASE Cut
  <2>1. Current.does = "cut" /\ UNCHANGED <<abort, grip, out, fan, rope, arm, threads, stopper, history>>
    BY <1>7 DEF Cut, Entering
  <2>2. FlowOK' /\ Moves /\ state' \in States /\ valve' \in BOOLEAN /\ brush' \in BOOLEAN
    BY <1>7, Ends DEF Cut
  <2> QED
    BY <2>1, <2>2, QuietOp DEF stopper
<1> QED
  BY <1>1, <1>2, <1>3, <1>4, <1>5, <1>6, <1>7

\* The operations on the ropes
LEMMA RopeStep ==
  ASSUME IInv, Rope \/ Roped \/ Roll \/ RollLook \/ RollEnd \/ RollPulse \/ RollPulsed
  PROVE  IInv'
<1> USE Booleans
<1>1. CASE Rope
  <2>1. Current.does = "rope" /\ rope' = TRUE
        /\ UNCHANGED <<state, abort, feet, fan, brush, arm, threads, stopper, history>>
    BY <1>1 DEF Rope, Entering
  <2>2. FlowOK' /\ Moves
    BY <1>1, GoesIn DEF Rope, Calm
  <2> QED
    BY <2>1, <2>2, QuietOp DEF stopper, feet
<1>2. CASE Roped
  <2>1. Current.does = "rope" /\ rope' = FALSE
        /\ UNCHANGED <<abort, feet, fan, brush, arm, threads, stopper, history>>
    BY <1>2 DEF Roped, Inside
  <2>2. FlowOK' /\ Moves /\ state' \in States
    BY <1>2, Ends DEF Roped
  <2> QED
    BY <2>1, <2>2, QuietOp DEF stopper, feet
<1>3. CASE Roll
  <2>1. Current.does = "roll" /\ UNCHANGED <<state, abort, feet, fan, brush, rope, arm, threads, stopper, history>>
    BY <1>3 DEF Roll, Entering
  <2>2. FlowOK' /\ Moves
    BY <1>3, GoesIn DEF Roll, Calm
  <2> QED
    BY <2>1, <2>2, QuietOp DEF stopper, feet
<1>4. CASE RollLook
  <2>1. /\ Current.does = "roll" /\ flow.pass < MaxPasses
        /\ flow' = [flow EXCEPT !.at = "read", !.pass = @ + 1]
        /\ UNCHANGED <<state, abort, feet, fan, brush, rope, arm, threads, stopper, history>>
    BY <1>4 DEF RollLook, Inside
  <2>2. flow.cmd = "step" /\ flow.op = 7
    BY <2>1, Row
  <2>3. flow.pass + 1 \in 0..MaxPasses
    BY <2>1, BoundAssumption DEF FlowOK
  <2>4. FlowOK' /\ Stays("read")
    BY <2>1, <2>3 DEF FlowOK, Stays, FlowPlaces
  <2> QED
    BY <2>1, <2>2, <2>4, QuietOp DEF stopper, feet, Moves
<1>5. CASE RollEnd
  <2>1. UNCHANGED <<abort, feet, fan, brush, rope, arm, threads, stopper, history>>
    BY <1>5 DEF RollEnd
  <2>2. Current.does = "roll"
    BY <1>5, Row DEF RollEnd, Inside, Places
  <2>3. FlowOK' /\ Moves /\ state' \in States
    BY <1>5, Ends DEF RollEnd
  <2> QED
    BY <2>1, <2>2, <2>3, QuietOp DEF stopper, feet
<1>6. CASE RollPulse
  <2>1. flow.cmd = "step" /\ flow.op = 7 /\ Current.does = "roll"
    BY <1>6, Row DEF RollPulse, Places
  <2>2. rope' = TRUE /\ UNCHANGED <<state, abort, feet, fan, brush, arm, threads, stopper, history>>
    BY <1>6 DEF RollPulse
  <2>3. FlowOK' /\ Stays("pulse")
    BY <1>6, GotoEffect DEF RollPulse, FlowPlaces
  <2> QED
    BY <2>1, <2>2, <2>3, QuietOp DEF stopper, feet, Moves
<1>7. CASE RollPulsed
  <2>1. Current.does = "roll"
    BY <1>7, Row DEF RollPulsed, Places
  <2>2. rope' = FALSE /\ UNCHANGED <<abort, feet, fan, brush, arm, threads, stopper, history>>
    BY <1>7 DEF RollPulsed
  <2>3. FlowOK' /\ Moves /\ state' \in States
    BY <1>7, Ends, GoesIn DEF RollPulsed, Calm
  <2> QED
    BY <2>1, <2>2, <2>3, QuietOp DEF stopper, feet
<1> QED
  BY <1>1, <1>2, <1>3, <1>4, <1>5, <1>6, <1>7

\* The retraction leaves the cups off the glass, or history says that they slipped
LEMMA RetractStep ==
  ASSUME IInv, Retract
  PROVE  IInv'
<1> USE Booleans
<1>1. /\ Current.does = "retract"
      /\ UNCHANGED <<abort, valve, fan, brush, rope, arm, threads, stopper, armLeft>>
  BY DEF Retract, Entering
<1>2. FlowOK' /\ Moves /\ state' \in States
  BY Ends DEF Retract
<1>3. /\ Places'
      /\ CalibrationTime => CalibrationTime'
      /\ SweepTime => SweepTime'
  BY <1>1, <1>2, MovesPlaces, MovesTimes
<1>4. grip' \in BOOLEAN /\ out' \in BOOLEAN /\ slipped' \in BOOLEAN
  BY DEF Retract, IInv, Types
<1>5. Types'
  BY <1>1, <1>2, <1>4 DEF IInv, Types, arm, threads, stopper
<1>6. CupsClear'
  <2>1. CASE (~out' /\ ~grip') \/ slipped'
    BY <2>1 DEF CupsClear
  <2>2. CASE Fails /\ UNCHANGED <<out, grip, slipped>>
    <3>1. Current.onFail = "ask"
      BY <1>1, Row
    <3>2. Stays("ask")
      BY <2>2, <3>1, FailsEffect DEF Gives
    <3>3. Hanging' => Hanging
      BY <3>2 DEF Hanging, Stays
    <3> QED
      BY <2>2, <3>3 DEF CupsClear, IInv
  <2> QED
    BY <2>1, <2>2 DEF Retract
<1>7. Calibrating' /\ Cleaning'
  BY <1>1, <1>3 DEF IInv, Calibrating, Cleaning, threads
<1>8. ArmKnown'
  BY <1>1 DEF IInv, ArmKnown, arm, threads
<1> QED
  BY <1>3, <1>5, <1>6, <1>7, <1>8 DEF IInv

\* The operator who skips the retraction leaves the cups where they are
LEMMA SkipStep ==
  ASSUME IInv, Skip
  PROVE  IInv'
<1> USE Booleans
<1>1. /\ flow.at = "ask" /\ OpDone /\ state' = flow.before
      /\ slipped' = (slipped \/ Current.does = "retract")
      /\ UNCHANGED <<abort, feet, fan, brush, rope, arm, threads, stopper, armLeft>>
  BY DEF Skip
<1>2. FlowOK' /\ Moves /\ state' \in States
  BY <1>1, OpDoneEffect DEF Moves, FlowOK
<1>3. Current.does \notin {"sweep_go", "arm", "join"}
  BY <1>1, Row DEF Places
<1>4. /\ Places'
      /\ CalibrationTime => CalibrationTime'
      /\ SweepTime => SweepTime'
  BY <1>2, <1>3, MovesPlaces, MovesTimes
<1>5. slipped' \in BOOLEAN
  BY <1>1 DEF IInv, Types
<1>6. Types'
  BY <1>1, <1>2, <1>5 DEF IInv, Types, arm, threads, stopper, feet
<1>7. CupsClear'
  <2>1. CASE Current.does = "retract"
    BY <1>1, <2>1 DEF CupsClear
  <2>2. CASE Current.does # "retract"
    <3>1. Hanging' => Hanging
      BY <1>2, <2>2, MovesHanging
    <3> QED
      BY <1>1, <3>1 DEF CupsClear, IInv, feet
  <2> QED
    BY <2>1, <2>2
<1>8. Calibrating' /\ Cleaning'
  BY <1>1, <1>4 DEF IInv, Calibrating, Cleaning, threads
<1>9. ArmKnown'
  BY <1>1 DEF IInv, ArmKnown, arm, threads
<1> QED
  BY <1>4, <1>6, <1>7, <1>8, <1>9 DEF IInv

\* Cups that come out do so when the command hangs on the ropes no more
LEMMA ExtendStep ==
  ASSUME IInv, \E does \in {"extend", "again"} : Extend(does) \/ Extended(does)
  PROVE  IInv'
<1> USE Booleans
<1>1. PICK does \in {"extend", "again"} : Extend(does) \/ Extended(does)
  OBVIOUS
<1>2. /\ Current.does = does
      /\ UNCHANGED <<abort, valve, fan, brush, rope, arm, threads, stopper, history>>
  BY <1>1 DEF Extend, Extended, Entering, Inside
<1>3. FlowOK' /\ Moves /\ state' \in States
  <2>1. Passes \/ Fails \/ (Goto("in") /\ state' = state)
    BY <1>1 DEF Extend, Extended
  <2> QED
    BY <2>1, Ends, GoesIn DEF Calm
<1>4. /\ Places'
      /\ CalibrationTime => CalibrationTime'
      /\ SweepTime => SweepTime'
      /\ Hanging' => Hanging
  BY <1>2, <1>3, MovesPlaces, MovesTimes, MovesHanging
<1>5. ~Hanging
  BY <1>2, Row DEF Hanging
<1>6. grip' \in BOOLEAN /\ out' \in BOOLEAN
  BY <1>1 DEF Extend, Extended
<1>7. Types'
  BY <1>2, <1>3, <1>6 DEF IInv, Types, arm, threads, stopper, history
<1>8. CupsClear'
  BY <1>4, <1>5 DEF CupsClear
<1>9. Calibrating' /\ Cleaning'
  BY <1>2, <1>4 DEF IInv, Calibrating, Cleaning, threads
<1>10. ArmKnown'
  BY <1>2 DEF IInv, ArmKnown, arm, threads, history
<1> QED
  BY <1>4, <1>7, <1>8, <1>9, <1>10 DEF IInv

\* What happens to cups, relays and state beside the command, which stays where it is
LEMMA Beside ==
  ASSUME IInv, UNCHANGED <<flow, arm, threads>>, state' \in States,
         abort' \in BOOLEAN, valve' \in BOOLEAN, grip' \in BOOLEAN, out' \in BOOLEAN,
         fan' \in BOOLEAN, brush' \in BOOLEAN, rope' \in BOOLEAN, bad' \in BOOLEAN,
         slipped' \in BOOLEAN, armLeft' = armLeft,
         detach' \in {"off", "brush", "arm", "poll", "fan", "valve", "release", "retract", "claim"},
         slipped' \/ (slipped' = slipped /\ (out' => out) /\ (grip' => grip))
  PROVE  IInv'
<1>1. Types'
  BY DEF IInv, Types, FlowOK, arm, threads
<1>2. Places' /\ Calibrating' /\ Cleaning'
  BY DEF IInv, Places, Current, Calibrating, Cleaning, CalibrationTime, SweepTime, Live, threads
<1>3. CupsClear'
  <2>1. Hanging' => Hanging
    BY DEF Hanging
  <2> QED
    BY <2>1 DEF IInv, CupsClear
<1>4. ArmKnown'
  BY DEF IInv, ArmKnown, arm, threads
<1> QED
  BY <1>1, <1>2, <1>3, <1>4 DEF IInv

LEMMA BesideStep ==
  ASSUME IInv,
         \/ Vent \/ EmergencyStop \/ Reset \/ HandExtend
         \/ DetachBrush \/ DetachFan \/ DetachValve \/ DetachRelease \/ DetachRetract \/ DetachClaim
  PROVE  IInv'
<1> USE Booleans
<1> DEFINE Stages == {"off", "brush", "arm", "poll", "fan", "valve", "release", "retract", "claim"}
<1>0. slipped \in BOOLEAN /\ detach \in Stages /\ "error" \in States /\ "idle" \in States
  BY DEF IInv, Types, States
<1>1. CASE Vent
  <2>1. UNCHANGED <<flow, arm, threads, armLeft, state, abort, valve, out, fan, brush, rope, bad, detach, slipped>>
    BY <1>1 DEF Vent, history, stopper, feet
  <2>2. grip' = FALSE
    BY <1>0, <1>1 DEF Vent
  <2> QED
    BY <1>0, <2>1, <2>2, Beside
<1>2. CASE EmergencyStop
  <2>1. UNCHANGED <<flow, arm, threads, armLeft, valve, grip, out, fan, brush, rope, bad, slipped>>
    BY <1>2 DEF EmergencyStop, history, stopper, feet
  <2>2. abort' = TRUE /\ state' = "error" /\ detach' \in Stages
    BY <1>0, <1>2 DEF EmergencyStop
  <2> QED
    BY <1>0, <2>1, <2>2, Beside
<1>3. CASE Reset
  <2>1. UNCHANGED <<flow, arm, threads, armLeft, valve, grip, out, fan, brush, rope, bad, detach, slipped>>
    BY <1>3 DEF Reset, history, stopper, feet
  <2>2. abort' = FALSE /\ state' = "idle"
    BY <1>0, <1>3 DEF Reset
  <2> QED
    BY <1>0, <2>1, <2>2, Beside
<1>4. CASE HandExtend
  <2>1. UNCHANGED <<flow, arm, threads, armLeft, state, abort, valve, fan, brush, rope, bad, detach>>
    BY <1>4 DEF HandExtend, history, stopper, feet
  <2>2. out' = TRUE /\ slipped' = TRUE /\ grip' \in BOOLEAN
    BY <1>0, <1>4 DEF HandExtend
  <2> QED
    BY <1>0, <2>1, <2>2, Beside
<1>5. CASE DetachBrush
  <2>1. UNCHANGED <<flow, arm, threads, armLeft, state, abort, valve, grip, out, fan, rope, slipped>>
    BY <1>5 DEF DetachBrush, history, stopper, feet
  <2>2. brush' \in BOOLEAN /\ bad' \in BOOLEAN /\ detach' \in Stages
    BY <1>0, <1>5 DEF DetachBrush
  <2> QED
    BY <1>0, <2>1, <2>2, Beside
<1>6. CASE DetachFan
  <2>1. UNCHANGED <<flow, arm, threads, armLeft, state, abort, valve, grip, out, brush, rope, slipped>>
    BY <1>6 DEF DetachFan, history, stopper, feet
  <2>2. fan' \in BOOLEAN /\ bad' \in BOOLEAN /\ detach' \in Stages
    BY <1>0, <1>6 DEF DetachFan
  <2> QED
    BY <1>0, <2>1, <2>2, Beside
<1>7. CASE DetachValve
  <2>1. UNCHANGED <<flow, arm, threads, armLeft, state, abort, grip, out, fan, brush, rope, slipped>>
    BY <1>7 DEF DetachValve, history, stopper, feet
  <2>2. valve' \in BOOLEAN /\ bad' \in BOOLEAN /\ detach' \in Stages
    BY <1>0, <1>7 DEF DetachValve
  <2> QED
    BY <1>0, <2>1, <2>2, Beside
<1>8. CASE DetachRelease
  <2>1. UNCHANGED <<flow, arm, threads, armLeft, state, abort, valve, grip, out, fan, brush, rope, slipped>>
    BY <1>8 DEF DetachRelease, history, stopper, feet
  <2>2. bad' \in BOOLEAN /\ detach' \in Stages
    BY <1>0, <1>8 DEF DetachRelease
  <2> QED
    BY <1>0, <2>1, <2>2, Beside
<1>9. CASE DetachRetract
  <2>1. UNCHANGED <<flow, arm, threads, armLeft, state, abort, valve, fan, brush, rope, slipped>>
    BY <1>9 DEF DetachRetract, history, stopper, feet
  <2>2. detach' = "claim" /\ bad' \in BOOLEAN
    BY <1>9 DEF DetachRetract
  <2>3. out' \in BOOLEAN /\ grip' \in BOOLEAN /\ (out' => out) /\ (grip' => grip)
    <3>1. CASE out' = FALSE /\ grip' = FALSE
      BY <3>1
    <3>2. CASE out' = out /\ grip' = grip
      BY <3>2
    <3> QED
      BY <1>9, <3>1, <3>2 DEF DetachRetract
  <2>4. slipped' = slipped /\ slipped' \in BOOLEAN /\ detach' \in Stages
    BY <1>0, <2>1, <2>2
  <2> QED
    BY <1>0, <2>1, <2>2, <2>3, <2>4, Beside
<1>10. CASE DetachClaim
  <2>1. UNCHANGED <<flow, arm, threads, armLeft, abort, valve, grip, out, fan, brush, rope, slipped>>
    BY <1>10 DEF DetachClaim, history, stopper, feet
  <2>2. state' \in States /\ bad' \in BOOLEAN /\ detach' \in Stages
    BY <1>0, <1>10 DEF DetachClaim
  <2> QED
    BY <1>0, <2>1, <2>2, Beside
<1> QED
  BY <1>1, <1>2, <1>3, <1>4, <1>5, <1>6, <1>7, <1>8, <1>9, <1>10

\* The commands launch the threads and wait for their ends
LEMMA ThreadStep ==
  ASSUME IInv, LaunchInit \/ ArmInitialised \/ LaunchSweep \/ Join
  PROVE  IInv'
<1> USE Booleans
<1>1. CASE LaunchInit
  <2>1. /\ flow.at = "start" /\ Current.does \in {"init_go", "arm"}
        /\ armInit' = "wait"
        /\ IF Current.does = "arm" THEN Goto("in") /\ UNCHANGED state ELSE Passes
        /\ UNCHANGED <<abort, feet, fan, brush, rope, arm, sweep, stopper, history>>
    BY <1>1 DEF LaunchInit, Entering
  <2>2. \/ flow.cmd = "step" /\ flow.op = 5 /\ Current.does = "init_go"
        \/ flow.cmd = "init" /\ flow.op = 2 /\ Current.does = "arm"
    BY <2>1, Row
  <2>3. FlowOK' /\ Moves /\ state' \in States
    BY <2>1, Ends, GoesIn DEF Calm
  <2>4. Places' /\ (Hanging' => Hanging)
    BY <2>2, <2>3, MovesPlaces, MovesHanging
  <2>5. CalibrationTime'
    <3>1. CASE flow.cmd = "step"
      <4>1. ~Current.checked /\ Len(Ops[flow.cmd]) = 13 /\ OpDone
        BY <2>1, <2>2, <3>1, Row DEF Passes
      <4>2. NextOp
        BY <4>1, OpDoneEffect DEF Advances
      <4> QED
        BY <2>2, <3>1, <4>1, <4>2 DEF NextOp, CalibrationTime, Live
    <3>2. CASE flow.cmd = "init"
      <4>1. Stays("in")
        BY <2>1, <2>2, <3>2, GoesIn DEF Calm
      <4> QED
        BY <2>2, <3>2, <4>1 DEF Stays, CalibrationTime, Live
    <3> QED
      BY <2>2, <3>1, <3>2
  <2>6. armInit = "off" /\ sweep = "off"
    BY <2>1, <2>2 DEF IInv, Calibrating, Cleaning, CalibrationTime, SweepTime
  <2>7. Types'
    BY <2>1, <2>3, <2>6 DEF IInv, Types, arm, stopper, feet, history
  <2>8. CupsClear'
    BY <2>1, <2>4 DEF IInv, CupsClear, feet, history
  <2>9. Calibrating' /\ Cleaning' /\ ArmKnown'
    BY <2>1, <2>5, <2>6 DEF IInv, Calibrating, Cleaning, ArmKnown, arm, history
  <2> QED
    BY <2>4, <2>7, <2>8, <2>9 DEF IInv
<1>2. CASE ArmInitialised
  <2>1. /\ Current.does = "arm" /\ armInit \in Calibrated /\ armInit' = "off"
        /\ UNCHANGED <<abort, feet, fan, brush, rope, arm, sweep, stopper, history>>
    BY <1>2 DEF ArmInitialised, Inside
  <2>2. FlowOK' /\ Moves /\ state' \in States
    BY <1>2, Ends DEF ArmInitialised
  <2>3. Places' /\ (Hanging' => Hanging)
    BY <2>1, <2>2, MovesPlaces, MovesHanging
  <2>4. flow.cmd = "init"
    BY <2>1, Row
  <2>5. sweep = "off"
    BY <2>4 DEF IInv, Cleaning, SweepTime
  <2>6. Types'
    BY <2>1, <2>2 DEF IInv, Types, arm, stopper, feet, history, Calibrated
  <2>7. CupsClear'
    BY <2>1, <2>3 DEF IInv, CupsClear, feet, history
  <2>8. Calibrating' /\ Cleaning' /\ ArmKnown'
    BY <2>1, <2>5 DEF IInv, Calibrating, Cleaning, ArmKnown, arm, history
  <2> QED
    BY <2>3, <2>6, <2>7, <2>8 DEF IInv
<1>3. CASE LaunchSweep
  <2>1. /\ Current.does = "sweep_go" /\ flow.at = "start" /\ armInit \in Calibrated /\ armInit' = "off"
        /\ sweep' = IF armInit = "ok" THEN "go" ELSE "bare_out"
        /\ UNCHANGED <<abort, feet, fan, brush, rope, arm, stopper, history>>
    BY <1>3 DEF LaunchSweep, Entering
  <2>2. FlowOK' /\ Moves /\ state' \in States
    BY <1>3, Ends DEF LaunchSweep
  <2>3. Places' /\ (Hanging' => Hanging)
    BY <2>1, <2>2, MovesPlaces, MovesHanging
  <2>4. flow.cmd = "step" /\ flow.op = 10 /\ ~Current.checked /\ Len(Ops[flow.cmd]) = 13
    BY <2>1, Row
  <2>5. sweep = "off"
    BY <2>4 DEF IInv, Cleaning, SweepTime
  <2>6. SweepTime'
    <3>1. NextOp
      BY <1>3, <2>4, OpDoneEffect DEF LaunchSweep, Passes, Advances
    <3> QED
      BY <2>4, <3>1 DEF NextOp, SweepTime, Live
  <2>7. Types'
    BY <2>1, <2>2, <2>5 DEF IInv, Types, arm, stopper, feet, history, Calibrated, Underway
  <2>8. CupsClear'
    BY <2>1, <2>3 DEF IInv, CupsClear, feet, history
  <2>9. Calibrating' /\ Cleaning' /\ ArmKnown'
    BY <2>1, <2>5, <2>6 DEF IInv, Calibrating, Cleaning, ArmKnown, arm, history, OnGlass
  <2> QED
    BY <2>3, <2>7, <2>8, <2>9 DEF IInv
<1>4. CASE Join
  <2>1. /\ Current.does = "join" /\ sweep = "off"
        /\ UNCHANGED <<abort, feet, fan, brush, rope, arm, threads, stopper, history>>
    BY <1>4 DEF Join, Entering
  <2>2. FlowOK' /\ Moves /\ state' \in States
    BY <1>4, Ends DEF Join
  <2>3. Places' /\ (Hanging' => Hanging)
    BY <2>1, <2>2, MovesPlaces, MovesHanging
  <2>4. CalibrationTime => CalibrationTime'
    BY <2>1, <2>2, MovesTimes
  <2>5. armInit # "off" => CalibrationTime'
    BY <2>4 DEF IInv, Calibrating
  <2> QED
    BY <2>1, <2>2, <2>3, <2>5, Quiet DEF stopper, feet
<1> QED
  BY <1>1, <1>2, <1>3, <1>4

LEMMA IdleOK == Idle \in [cmd : DOMAIN Ops, op : Nat, at : FlowPlaces, pass : 0..MaxPasses, before : States]
                /\ Idle.op \in 1..Len(Ops[Idle.cmd])
<1>1. "step" \in DOMAIN Ops /\ Len(Ops["step"]) = 13
  BY Table
<1>2. 0 \in 0..MaxPasses
  BY BoundAssumption
<1>3. Idle.op = 1 /\ Idle.cmd = "step"
  BY DEF Idle
<1>4. Idle.op \in 1..Len(Ops[Idle.cmd])
  <2>1. Len(Ops[Idle.cmd]) = 13
    BY <1>1, <1>3, Zenon
  <2>2. 1 \in 1..13
    OBVIOUS
  <2> QED
    BY <1>3, <2>1, <2>2, Zenon
<1>5. Idle \in [cmd : DOMAIN Ops, op : Nat, at : FlowPlaces, pass : 0..MaxPasses, before : States]
  BY <1>1, <1>2 DEF Idle, FlowPlaces, States
<1> QED
  BY <1>4, <1>5

\* A command ends when both of its threads have
LEMMA EndStep ==
  ASSUME IInv, Failed \/ Done \/ After \/ AfterPolled
  PROVE  IInv'
<1> USE Booleans
<1>1. ASSUME flow' = Idle
      PROVE  FlowOK' /\ Places' /\ ~Hanging'
  <2>1. flow'.cmd = "step" /\ flow'.at = "idle" /\ flow'.op = 1
    BY <1>1 DEF Idle
  <2>2. FlowOK'
    BY <1>1, IdleOK DEF FlowOK
  <2> QED
    BY <2>1, <2>2 DEF Places, Hanging
<1>2. CASE Failed
  <2>1. /\ sweep = "off" /\ armInit \in {"off"} \cup Calibrated
        /\ flow' = Idle /\ armInit' = "off"
        /\ state' = IF flow.cmd \in {"step", "return_home"} THEN "error" ELSE state
        /\ UNCHANGED <<abort, feet, fan, brush, rope, arm, sweep, stopper, history>>
    BY <1>2 DEF Failed
  <2>2. Types'
    BY <1>1, <2>1 DEF IInv, Types, arm, stopper, feet, history, Calibrated, States
  <2>3. CupsClear'
    BY <1>1, <2>1 DEF CupsClear
  <2>4. Calibrating' /\ Cleaning' /\ ArmKnown'
    BY <2>1 DEF IInv, Calibrating, Cleaning, ArmKnown, arm, history
  <2> QED
    BY <1>1, <2>1, <2>2, <2>3, <2>4 DEF IInv
<1>3. CASE Done
  <2>1. /\ flow.at = "done" /\ state' = EndState[flow.cmd]
        /\ flow' = IF flow.cmd = "step" THEN [flow EXCEPT !.at = "after"] ELSE Idle
        /\ UNCHANGED <<abort, feet, fan, brush, rope, arm, threads, stopper, history>>
    BY <1>3 DEF Done
  <2>2. armInit = "off" /\ sweep = "off"
    BY <2>1 DEF IInv, Calibrating, Cleaning, CalibrationTime, SweepTime, Live
  <2>3. state' \in States
    BY <2>1, Row DEF EndState, States
  <2>4. CASE flow.cmd = "step"
    <3>1. Goto("after")
      BY <2>1, <2>4 DEF Goto
    <3>2. FlowOK' /\ Stays("after")
      BY <3>1, GotoEffect DEF FlowPlaces
    <3>3. Places' /\ (Hanging' => Hanging)
      BY <2>1, <3>2 DEF Places, Hanging, Stays
    <3> QED
      BY <2>1, <2>2, <2>3, <3>2, <3>3, Quiet DEF stopper, feet
  <2>5. CASE flow.cmd # "step"
    <3>1. flow' = Idle
      BY <2>1, <2>5
    <3> QED
      BY <1>1, <2>1, <2>2, <2>3, <3>1, Quiet DEF stopper, feet
  <2> QED
    BY <2>4, <2>5
<1>4. CASE After \/ AfterPolled
  <2>1. /\ flow.at \in {"after", "after_poll"}
        /\ UNCHANGED <<state, abort, feet, fan, brush, rope, armAt, armBusy, threads, stopper, slipped>>
    BY <1>4 DEF After, AfterPolled, arm
  <2>2. sweep = "off" /\ armInit = "off"
    BY <2>1 DEF IInv, Cleaning, Calibrating, CalibrationTime, SweepTime, Live
  <2>3. FlowOK' /\ Places' /\ (Hanging' => Hanging)
    <3>1. CASE flow' = Idle
      BY <1>1, <3>1
    <3>2. CASE Goto("after_poll")
      <4>1. FlowOK' /\ Stays("after_poll")
        BY <3>2, GotoEffect DEF FlowPlaces
      <4> QED
        BY <2>1, <4>1 DEF Places, Hanging, Stays
    <3> QED
      BY <1>4, <3>1, <3>2 DEF After, AfterPolled
  <2>4. \/ armTo' = "in" /\ armLeft' = armLeft
        \/ armTo' = armTo /\ armLeft' \in BOOLEAN /\ (armLeft' \/ armLeft' = armLeft)
    BY <1>4 DEF After, AfterPolled, ArmSentIn, ArmNotSent, ArmPolled, arm, IInv, Types
  <2>5. Types'
    BY <2>1, <2>2, <2>3, <2>4 DEF IInv, Types, threads, stopper, feet
  <2>6. CupsClear'
    BY <2>1, <2>3 DEF IInv, CupsClear, feet
  <2>7. Calibrating' /\ Cleaning'
    BY <2>1, <2>2 DEF Calibrating, Cleaning, threads
  <2>8. ArmKnown'
    BY <2>1, <2>4 DEF IInv, ArmKnown, threads
  <2> QED
    BY <2>3, <2>5, <2>6, <2>7, <2>8 DEF IInv
<1> QED
  BY <1>2, <1>3, <1>4

\* What the arm and its threads do beside the command, which stays where it is
LEMMA ArmBeside ==
  ASSUME IInv, UNCHANGED <<state, abort, flow, valve, grip, out, fan, rope, slipped>>,
         brush' \in BOOLEAN, bad' \in BOOLEAN, armLeft' \in BOOLEAN,
         detach' \in {"off", "brush", "arm", "poll", "fan", "valve", "release", "retract", "claim"},
         armAt' \in {"in", "out"}, armTo' \in {"in", "out"},
         armBusy' \in {"free", "init", "sweep"},
         (armBusy' = "init" <=> armInit' = "go"),
         (armBusy' = "sweep" <=> sweep' \in Underway),
         armInit' = armInit \/ (armInit # "off" /\ armInit' \in {"go", "ok", "failed"}),
         sweep' = sweep \/ (sweep # "off" /\
           sweep' \in {"off", "go", "deploy_r", "rail_out", "switch", "deploy_l", "rail_back",
                       "stop", "retract", "poll", "bare_out", "bare_stop", "bare_back"} \cup Underway),
         ArmKnown'
  PROVE  IInv'
<1>1. Types'
  BY DEF IInv, Types, FlowOK, Calibrated
<1>2. Places' /\ CupsClear'
  BY DEF IInv, Places, Current, CupsClear, Hanging
<1>3. Calibrating' /\ Cleaning'
  BY DEF IInv, Calibrating, Cleaning, CalibrationTime, SweepTime, Live
<1> QED
  BY <1>1, <1>2, <1>3 DEF IInv

\* Where M1 is told to go and where it is are known when it moves, and when it is sent in
LEMMA ArmStep ==
  ASSUME IInv, ArmMoves \/ InitBegin \/ InitEnd \/ HandDeploy \/ DetachArm \/ DetachPolled
  PROVE  IInv'
<1> DEFINE Stages == {"off", "brush", "arm", "poll", "fan", "valve", "release", "retract", "claim"}
<1>0. /\ bad \in BOOLEAN /\ brush \in BOOLEAN /\ armLeft \in BOOLEAN /\ detach \in Stages
      /\ armAt \in {"in", "out"} /\ armTo \in {"in", "out"} /\ armBusy \in {"free", "init", "sweep"}
      /\ armBusy = "init" <=> armInit = "go"
      /\ armBusy = "sweep" <=> sweep \in Underway
      /\ ArmKnown
  BY DEF IInv, Types
<1>1. CASE ArmMoves
  <2>1. /\ UNCHANGED <<state, abort, flow, valve, grip, out, fan, rope, slipped>>
        /\ UNCHANGED <<brush, bad, detach, armTo, armBusy, armInit, sweep>>
        /\ armAt' = armTo
    BY <1>1 DEF ArmMoves, feet, threads, stopper
  <2>2. armLeft' \in BOOLEAN /\ (armLeft /\ armTo = "out" => armLeft')
    BY <1>1 DEF ArmMoves
  <2>3. ArmKnown'
    BY <1>0, <2>1, <2>2 DEF ArmKnown
  <2> QED
    BY <1>0, <2>1, <2>2, <2>3, ArmBeside
<1>2. CASE InitBegin
  <2>1. /\ UNCHANGED <<state, abort, flow, valve, grip, out, fan, rope, slipped>>
        /\ UNCHANGED <<brush, bad, detach, armAt, sweep, armLeft>>
        /\ armTo' = "in" /\ armInit = "wait" /\ armInit' = "go"
        /\ armBusy = "free" /\ armBusy' = "init"
    BY <1>2 DEF InitBegin, feet, stopper, history
  <2>2. ArmKnown'
    BY <1>0, <2>1 DEF ArmKnown
  <2> QED
    BY <1>0, <2>1, <2>2, ArmBeside
<1>3. CASE InitEnd
  <2>1. /\ UNCHANGED <<state, abort, flow, valve, grip, out, fan, rope, slipped>>
        /\ UNCHANGED <<brush, bad, detach, armAt, armTo, sweep, armLeft>>
        /\ armInit = "go" /\ armInit' \in {"ok", "failed"} /\ armBusy' = "free"
    BY <1>3 DEF InitEnd, feet, stopper, history
  <2>2. ArmKnown'
    BY <1>0, <2>1 DEF ArmKnown
  <2> QED
    BY <1>0, <2>1, <2>2, ArmBeside
<1>4. CASE HandDeploy
  <2>1. /\ UNCHANGED <<state, abort, flow, valve, grip, out, fan, rope, slipped>>
        /\ UNCHANGED <<brush, bad, detach, armAt, armBusy, armInit, sweep>>
        /\ armTo' = "out" /\ armLeft' = TRUE
    BY <1>4 DEF HandDeploy, feet, stopper, threads
  <2>2. ArmKnown'
    BY <2>1 DEF ArmKnown
  <2> QED
    BY <1>0, <2>1, <2>2, ArmBeside
<1>5. CASE DetachArm
  <2>1. /\ UNCHANGED <<state, abort, flow, valve, grip, out, fan, rope, slipped>>
        /\ UNCHANGED <<brush, armAt, armBusy, armInit, sweep>>
        /\ detach' \in Stages
    BY <1>5 DEF DetachArm, feet, threads
  <2>2. bad' \in BOOLEAN
    BY <1>0, <1>5 DEF DetachArm
  <2>3. \/ armTo' = "in" /\ armLeft' = armLeft
        \/ armTo' = armTo /\ armLeft' = TRUE
    BY <1>5 DEF DetachArm, ArmSentIn, ArmNotSent
  <2>4. ArmKnown' /\ armLeft' \in BOOLEAN /\ armTo' \in {"in", "out"}
    BY <1>0, <2>1, <2>3 DEF ArmKnown
  <2> QED
    BY <1>0, <2>1, <2>2, <2>4, ArmBeside
<1>6. CASE DetachPolled
  <2>1. /\ UNCHANGED <<state, abort, flow, valve, grip, out, fan, rope, slipped>>
        /\ UNCHANGED <<brush, bad, armAt, armTo, armBusy, armInit, sweep>>
        /\ detach' \in Stages
    BY <1>6 DEF DetachPolled, feet, threads, arm
  <2>2. armLeft' \in BOOLEAN /\ (armLeft => armLeft')
    BY <1>6 DEF DetachPolled, ArmPolled
  <2>3. ArmKnown'
    BY <1>0, <2>1, <2>2 DEF ArmKnown
  <2> QED
    BY <1>0, <2>1, <2>2, <2>3, ArmBeside
<1> QED
  BY <1>1, <1>2, <1>3, <1>4, <1>5, <1>6

\* The sweep ends with the arm sent in and seen there, or history says that it may be out
LEMMA SweepStep ==
  ASSUME IInv, Sweep
  PROVE  IInv'
<1> DEFINE Stages == {"off", "brush", "arm", "poll", "fan", "valve", "release", "retract", "claim"}
<1>0. /\ bad \in BOOLEAN /\ brush \in BOOLEAN /\ armLeft \in BOOLEAN /\ detach \in Stages
      /\ armAt \in {"in", "out"} /\ armTo \in {"in", "out"} /\ armBusy \in {"free", "init", "sweep"}
      /\ armBusy = "init" <=> armInit = "go"
      /\ armBusy = "sweep" <=> sweep \in Underway
      /\ ArmKnown
  BY DEF IInv, Types
<1>1. CASE SweepBegin \/ SweepOut \/ SweepSwitch \/ SweepStop \/ SweepBack
  <2>1. /\ UNCHANGED <<state, abort, flow, valve, grip, out, fan, rope, slipped>>
        /\ UNCHANGED <<bad, detach, armAt, armTo, armBusy, armInit, armLeft>>
    BY <1>1 DEF SweepBegin, SweepOut, SweepSwitch, SweepStop, SweepBack, BrushOff, feet, arm, stopper, history
  <2>2. brush' \in BOOLEAN
    BY <1>0, <1>1 DEF SweepBegin, SweepOut, SweepSwitch, SweepStop, SweepBack, BrushOff
  <2>3. \/ sweep = "go" /\ sweep' = "deploy_r"
        \/ sweep = "rail_out" /\ sweep' \in {"stop", "switch"}
        \/ sweep = "bare_out" /\ sweep' \in {"bare_stop", "bare_back"}
        \/ sweep = "switch" /\ sweep' = "deploy_l"
        \/ sweep = "stop" /\ sweep' = "retract"
        \/ sweep = "bare_stop" /\ sweep' = "off"
        \/ sweep = "rail_back" /\ sweep' = "retract"
        \/ sweep = "bare_back" /\ sweep' = "off"
    BY <1>1 DEF SweepBegin, SweepOut, SweepSwitch, SweepStop, SweepBack, BrushOff
  <2>4. ArmKnown'
    BY <1>0, <2>1, <2>3 DEF ArmKnown, OnGlass
  <2>5. armBusy' = "sweep" <=> sweep' \in Underway
    BY <1>0, <2>1, <2>3 DEF Underway
  <2> QED
    BY <1>0, <2>1, <2>2, <2>3, <2>4, <2>5, ArmBeside
<1>2. CASE Deploying("deploy_r", "deploying_r") \/ Deploying("deploy_l", "deploying_l")
  <2>1. /\ UNCHANGED <<state, abort, flow, valve, grip, out, fan, rope, slipped>>
        /\ UNCHANGED <<bad, brush, detach, armAt, armInit, armLeft>>
        /\ armTo' \in {"in", "out"} /\ armBusy = "free" /\ armBusy' = "sweep"
    BY <1>0, <1>2 DEF Deploying, feet, stopper, history
  <2>2. sweep # "off" /\ sweep' \in Underway
    BY <1>2 DEF Deploying, Underway
  <2>3. ArmKnown'
    BY <2>2 DEF ArmKnown, OnGlass, Underway
  <2> QED
    BY <1>0, <2>1, <2>2, <2>3, ArmBeside
<1>3. CASE Deployed("deploying_r", "rail_out") \/ Deployed("deploying_l", "rail_back")
  <2>1. /\ UNCHANGED <<state, abort, flow, valve, grip, out, fan, rope, slipped>>
        /\ UNCHANGED <<bad, brush, detach, armAt, armTo, armInit, armLeft>>
        /\ armBusy' = "free"
    BY <1>3 DEF Deployed, feet, stopper, history
  <2>2. sweep \in Underway /\ sweep # "off" /\ sweep' \in {"rail_out", "rail_back"}
    BY <1>3 DEF Deployed, Underway
  <2>3. ArmKnown' /\ sweep' \notin Underway
    BY <2>2 DEF ArmKnown, OnGlass, Underway
  <2> QED
    BY <1>0, <2>1, <2>2, <2>3, ArmBeside
<1>4. CASE SweepRetract
  <2>1. /\ UNCHANGED <<state, abort, flow, valve, grip, out, fan, rope, slipped>>
        /\ UNCHANGED <<bad, brush, detach, armAt, armBusy, armInit>>
        /\ sweep = "retract" /\ sweep' \in {"poll", "off"}
    BY <1>4 DEF SweepRetract, feet, stopper
  <2>2. \/ armTo' = "in" /\ armLeft' = armLeft /\ sweep' = "poll"
        \/ armTo' = armTo /\ armLeft' = TRUE
    BY <1>4 DEF SweepRetract, ArmSentIn, ArmNotSent
  <2>3. ArmKnown' /\ armLeft' \in BOOLEAN /\ armTo' \in {"in", "out"}
    BY <1>0, <2>1, <2>2 DEF ArmKnown, OnGlass
  <2>4. armBusy' = "sweep" <=> sweep' \in Underway
    BY <1>0, <2>1 DEF Underway
  <2> QED
    BY <1>0, <2>1, <2>3, <2>4, ArmBeside
<1>5. CASE SweepPolled
  <2>1. /\ UNCHANGED <<state, abort, flow, valve, grip, out, fan, rope, slipped>>
        /\ UNCHANGED <<bad, brush, detach, armAt, armTo, armBusy, armInit>>
        /\ sweep = "poll" /\ sweep' = "off"
    BY <1>5 DEF SweepPolled, feet, stopper, arm
  <2>2. armLeft' \in BOOLEAN /\ (armLeft' \/ (armAt = "in" /\ armTo = "in"))
    BY <1>0, <1>5 DEF SweepPolled, ArmPolled
  <2>3. ArmKnown'
    BY <2>1, <2>2 DEF ArmKnown
  <2>4. armBusy' = "sweep" <=> sweep' \in Underway
    BY <1>0, <2>1 DEF Underway
  <2> QED
    BY <1>0, <2>1, <2>2, <2>3, <2>4, ArmBeside
<1> QED
  BY <1>1, <1>2, <1>3, <1>4, <1>5 DEF Sweep

LEMMA InvInit == Init => IInv
<1> SUFFICES ASSUME Init
             PROVE  IInv
  OBVIOUS
<1>1. FlowOK /\ flow.at = "idle" /\ flow.cmd = "step" /\ flow.op = 1
  BY IdleOK DEF Init, FlowOK, Idle
<1>2. Types
  BY <1>1 DEF Init, Types, States, Underway
<1>3. Places /\ CupsClear /\ Calibrating /\ Cleaning /\ ArmKnown
  BY <1>1 DEF Init, Places, CupsClear, Calibrating, Cleaning, ArmKnown
<1> QED
  BY <1>2, <1>3 DEF IInv

LEMMA InvStep == IInv /\ [Next]_vars => IInv'
<1> SUFFICES ASSUME IInv, [Next]_vars
             PROVE  IInv'
  OBVIOUS
<1>1. CASE FlowStep
  BY <1>1, FrameStep, CheckStep, RelayStep, RopeStep, RetractStep, ExtendStep, ThreadStep, EndStep
     DEF FlowStep
<1>2. CASE Detach
  BY <1>2, BesideStep, ArmStep DEF Detach
<1>3. CASE UNCHANGED vars
  <2>1. UNCHANGED <<flow, arm, threads, armLeft, state, abort, valve, grip, out, fan, brush, rope, bad, slipped, detach>>
    BY <1>3 DEF vars, feet, stopper, history
  <2> QED
    BY <2>1, Beside DEF IInv, Types
<1> QED
  BY <1>1, <1>2, <1>3, BeginStep, FrameStep, SkipStep, BesideStep, ArmStep, SweepStep DEF Next

LEMMA TypesOK == Types => TypeOK
BY DEF Types, TypeOK, FlowOK

-----------------------------------------------------------------------------
(* What holds of every execution.                                          *)

\* IInv is inductive
THEOREM Invariant == Spec => []IInv
BY InvInit, InvStep, PTL DEF Spec

\* The types, and that who holds arm_mtx_ is the thread that says it does
THEOREM TypeCorrect == Spec => []TypeOK
<1>1. IInv => TypeOK
  BY TypesOK DEF IInv
<1> QED
  BY <1>1, Invariant, PTL

\* The crane is asked to move by the rope operation and by a pulse of the roll correction alone
LEMMA RopeBegins ==
  ASSUME IInv, [Next]_vars, ~rope, rope'
  PROVE  Rope \/ RollPulse
<1>1. CASE FlowStep
  <2>1. \/ UNCHANGED rope \/ rope' = FALSE \/ Rope \/ RollPulse
    <3>1. CASE Refuse \/ Check \/ Abandon \/ Release \/ FanOn \/ FanOff \/ Retract \/ Look \/ Cut
      BY <3>1 DEF Refuse, Check, Abandon, Release, FanOn, FanOff, Retract, Look, Cut
    <3>2. CASE \/ \E does \in {"valve_on", "valve_off"} : SetValve(does) \/ ReadBack(does)
               \/ \E does \in {"extend", "again"} : Extend(does) \/ Extended(does)
      BY <3>2 DEF SetValve, ReadBack, Extend, Extended
    <3>3. CASE Roped \/ Roll \/ RollLook \/ RollEnd \/ RollPulsed
      BY <3>3 DEF Roped, Roll, RollLook, RollEnd, RollPulsed
    <3>4. CASE \/ LaunchInit \/ ArmInitialised \/ LaunchSweep \/ Join
               \/ Fail \/ Failed \/ Done \/ After \/ AfterPolled
      BY <3>4 DEF LaunchInit, ArmInitialised, LaunchSweep, Join, Fail, Failed, Done, After, AfterPolled
    <3> QED
      BY <1>1, <3>1, <3>2, <3>3, <3>4 DEF FlowStep
  <2> QED
    BY <2>1
<1>2. CASE (\E cmd \in Commands : Begin(cmd)) \/ Retry \/ Skip \/ Vent \/ ArmMoves \/ InitBegin \/ InitEnd
  BY <1>2 DEF Begin, Retry, Skip, Vent, ArmMoves, InitBegin, InitEnd
<1>3. CASE Sweep
  BY <1>3 DEF Sweep, SweepBegin, SweepOut, SweepSwitch, SweepStop, SweepBack, SweepRetract,
     SweepPolled, BrushOff, Deploying, Deployed
<1>4. CASE Detach
  BY <1>4 DEF Detach, DetachBrush, DetachArm, DetachPolled, DetachFan, DetachValve, DetachRelease,
     DetachRetract, DetachClaim
<1>5. CASE EmergencyStop \/ Reset \/ HandExtend \/ HandDeploy
  BY <1>5 DEF EmergencyStop, Reset, HandExtend, HandDeploy
<1>6. CASE UNCHANGED vars
  BY <1>6 DEF vars
<1> QED
  BY <1>1, <1>2, <1>3, <1>4, <1>5, <1>6 DEF Next

\* Where it is asked to, the body hangs on the ropes and no sweep is under way
LEMMA RopePlace ==
  ASSUME IInv, Rope \/ RollPulse
  PROVE  Hanging /\ sweep = "off"
<1>1. \/ flow.cmd = "step" /\ flow.op \in {6, 7}
      \/ flow.cmd = "return_home" /\ flow.op = 4
  BY Booleans, Row DEF Rope, RollPulse, Entering, Places
<1> QED
  BY <1>1 DEF IInv, Hanging, Cleaning, SweepTime

\* The ropes are the sole support when they begin to move the body: the pushers are in and
\* the cups hold nothing, or slipped says who knew better
THEOREM RopeFreeCorrect == Spec => RopeFree
<1>1. IInv /\ [Next]_vars => [~rope /\ rope' => slipped \/ ~(out \/ grip)]_vars
  <2> SUFFICES ASSUME IInv, [Next]_vars, ~rope, rope'
               PROVE  slipped \/ ~(out \/ grip)
    OBVIOUS
  <2> QED
    BY RopeBegins, RopePlace DEF IInv, CupsClear
<1> QED
  BY <1>1, Invariant, PTL DEF Spec, RopeFree

\* Nor does the arm press on the glass then, or armLeft says whose word was taken for it
THEOREM ArmClearCorrect == Spec => RopeClearOfArm
<1>1. IInv /\ [Next]_vars => [~rope /\ rope' => armLeft \/ {armAt, armTo} = {"in"}]_vars
  <2> SUFFICES ASSUME IInv, [Next]_vars, ~rope, rope'
               PROVE  armLeft \/ {armAt, armTo} = {"in"}
    OBVIOUS
  <2>1. sweep = "off"
    BY RopeBegins, RopePlace
  <2>2. armLeft \/ (armAt = "in" /\ armTo = "in")
    BY <2>1 DEF IInv, ArmKnown, OnGlass
  <2> QED
    BY <2>2
<1> QED
  BY <1>1, Invariant, PTL DEF Spec, RopeClearOfArm
=============================================================================
