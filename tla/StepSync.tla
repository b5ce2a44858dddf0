------------------------------ MODULE StepSync ------------------------------
(***************************************************************************)
(* One step of the body, and who runs beside it.  do_step_sync_ lets go of *)
(* the glass with all cups, hangs on the ropes, moves them, and takes hold *)
(* again.  Meanwhile it has the arm calibrated by one thread (while the    *)
(* ropes move) and the glass cleaned by another (while the cups extend),   *)
(* both to be joined on every way out.  An emergency stop starts a thread  *)
(* of its own, emergency_detach_, that takes arm and cups off the glass.   *)
(*                                                                         *)
(* Left out: pauses (see BodyControl), what the pushers do one by one (see *)
(* Pushers), pumps, water, and the M1/M2 of the arm (see Arm).  The cups   *)
(* are one: they are out, or they grip.                                    *)
(***************************************************************************)
EXTENDS Naturals, Sequences

CONSTANTS
  MaxPasses,  \* FOLLOWER_IMU_MAX_PASSES
  Commands,   \* the commands that are given
  MaxCalls,   \* bound: commands
  MaxFaults,  \* bound: exchanges that are lost or refused, and manual commands
  MaxStops    \* bound: emergency stops

ASSUME CommandsAssumption == Commands \subseteq {"init", "attach", "step", "return_home"}
ASSUME BoundAssumption == {MaxPasses, MaxCalls, MaxFaults, MaxStops} \subseteq Nat

VARIABLES
  state,    \* state_
  abort,    \* abort_flag
  flow,     \* the thread that holds motion_mtx_: command, operation, where in it
  valve,    \* CH_VALVE_RIGHT, CH_VALVE_LEFT: the cups are evacuated
  grip,     \* the cups hold on to the glass
  out,      \* the pushers are out
  fan,      \* the PWM duty is that of a move
  brush,    \* CH_BRUSH
  rope,     \* the crane moves a rope for this body
  armAt,    \* where M1 of the arm is: "in", or "out" on the glass
  armTo,    \* where M1 is told to go
  armBusy,  \* who holds arm_mtx_ over a long command
  armInit,  \* the thread fut_arm_init
  sweep,    \* the thread fut_rail_sweep; "bare_..." after a calibration that failed
  detach,   \* the thread emergency_detach_
  bad,      \* its list of what failed is not empty
  slipped,  \* history: the cups may be out unknown to the flow
  armLeft,  \* history: the arm may be out unknown to the flow
  calls, faults, stops

feet    == <<valve, grip, out>>
arm     == <<armAt, armTo, armBusy>>
threads == <<armInit, sweep>>
stopper == <<detach, bad>>
history == <<slipped, armLeft>>
bounds  == <<calls, faults, stops>>
vars    == <<state, abort, flow, feet, fan, brush, rope, arm, threads, stopper, history, bounds>>

-----------------------------------------------------------------------------
(* What the commands consist of.                                           *)

\* Operations whose failure asks the operator also look at abort_flag before they begin
Op(does, onFail, checked) == [does |-> does, onFail |-> onFail, checked |-> checked]

\* Mutant: the retraction may fail unnoticed
GoesOn ==
  << Op("valve_off", "ask", TRUE), Op("release", "ask", TRUE), Op("fan_on", "go", TRUE),
     Op("retract", "go", TRUE), Op("init_go", "go", FALSE), Op("rope", "ask", TRUE),
     Op("roll", "go", TRUE), Op("fan_off", "ask", TRUE), Op("valve_on", "ask", TRUE),
     Op("sweep_go", "go", FALSE), Op("extend", "ask", TRUE), Op("look", "fail", FALSE),
     Op("join", "go", FALSE) >>

StepOps ==
  << Op("valve_off", "ask", TRUE), Op("release", "ask", TRUE), Op("fan_on", "go", TRUE),
     Op("retract", "ask", TRUE), Op("init_go", "go", FALSE), Op("rope", "ask", TRUE),
     Op("roll", "go", TRUE), Op("fan_off", "ask", TRUE), Op("valve_on", "ask", TRUE),
     Op("sweep_go", "go", FALSE), Op("extend", "ask", TRUE), Op("look", "fail", FALSE),
     Op("join", "go", FALSE) >>

HomeOps ==
  << Op("cut", "go", FALSE), Op("release", "ask", TRUE), Op("retract", "ask", TRUE),
     Op("rope", "fail", FALSE) >>

AttachOps == << Op("valve_on", "ask", FALSE), Op("extend", "ask", FALSE), Op("again", "ask", FALSE) >>

InitOps == << Op("cut", "ask", FALSE), Op("arm", "go", FALSE) >>

Ops == [init |-> InitOps, attach |-> AttachOps, step |-> StepOps, return_home |-> HomeOps]

Current == Ops[flow.cmd][flow.op]
Idle == [cmd |-> "step", op |-> 1, at |-> "idle", pass |-> 0, before |-> "idle"]

\* motion_mtx_ is held
Held == flow.at \notin {"idle", "after", "after_poll"}

States == {"idle", "ready", "attached", "running", "paused", "error"}
FlowPlaces == {"idle", "start", "in", "read", "pulse", "check", "ask", "fail", "joining",
               "done", "after", "after_poll"}
Underway == {"deploying_r", "deploying_l"}
Calibrated == {"ok", "failed"}

TypeOK ==
  /\ state \in States
  /\ flow \in [cmd : DOMAIN Ops, op : Nat, at : FlowPlaces, pass : 0..MaxPasses, before : States]
  /\ flow.op \in 1..Len(Ops[flow.cmd])
  /\ {abort, valve, grip, out, fan, brush, rope, bad, slipped, armLeft} \subseteq BOOLEAN
  /\ {armAt, armTo} \subseteq {"in", "out"}
  /\ armBusy \in {"free", "init", "sweep"}
  /\ (armBusy = "init") = (armInit = "go") /\ (armBusy = "sweep") = (sweep \in Underway)
  /\ armInit \in {"off", "wait", "go"} \cup Calibrated
  /\ sweep \in {"off", "go", "deploy_r", "rail_out", "switch", "deploy_l", "rail_back",
                "stop", "retract", "poll", "bare_out", "bare_stop", "bare_back"} \cup Underway
  /\ detach \in {"off", "brush", "arm", "poll", "fan", "valve", "release", "retract", "claim"}

Init ==
  /\ state = "idle"
  /\ valve = FALSE /\ grip = FALSE /\ out = FALSE
  /\ abort = FALSE /\ flow = Idle
  /\ fan = FALSE /\ brush = FALSE /\ rope = FALSE
  /\ armAt = "in" /\ armTo = "in" /\ armBusy = "free"
  /\ armInit = "off" /\ sweep = "off"
  /\ detach = "off" /\ bad = FALSE
  /\ slipped = FALSE /\ armLeft = FALSE
  /\ calls = 0 /\ faults = 0 /\ stops = 0

-----------------------------------------------------------------------------
(* The frame of an operation.                                              *)

Fault == faults < MaxFaults /\ faults' = faults + 1
NoFault == UNCHANGED faults

Entering(does) == flow.at = "start" /\ Current.does = does /\ ~(Current.onFail = "ask" /\ abort)
Inside(does)   == flow.at = "in" /\ Current.does = does
Goto(at)       == flow' = [flow EXCEPT !.at = at]

Following ==
  IF flow.op = Len(Ops[flow.cmd]) THEN [flow EXCEPT !.at = "done"]
  ELSE [flow EXCEPT !.op = @ + 1, !.at = "start", !.before = "idle"]

OpDone ==
  flow' = IF Current.checked THEN [flow EXCEPT !.at = "check", !.pass = 0, !.before = "idle"]
          ELSE Following

Passes == OpDone /\ UNCHANGED state

\* await_user_intervention_ stores Paused over whatever the state is
Fails ==
  CASE Current.onFail = "ask"  -> flow' = [flow EXCEPT !.at = "ask", !.before = state] /\ state' = "paused"
    [] Current.onFail = "go"   -> Passes
    [] Current.onFail = "fail" -> Goto("fail") /\ UNCHANGED state

Allowed(cmd) ==
  CASE cmd = "init"        -> state \in {"idle", "ready", "error"}
    [] cmd = "attach"      -> state = "ready"
    [] cmd = "return_home" -> state \in {"attached", "paused", "error"}
    [] OTHER               -> TRUE

Begin(cmd) ==
  /\ flow.at = "idle" /\ Allowed(cmd)
  /\ calls < MaxCalls /\ calls' = calls + 1
  /\ flow' = [Idle EXCEPT !.cmd = cmd, !.at = "start"]
  /\ abort' = FALSE
  /\ state' = IF cmd \in {"step", "return_home"} THEN "running" ELSE state
  /\ UNCHANGED <<feet, fan, brush, rope, arm, threads, stopper, history, faults, stops>>

\* try_or_pause_ looks at abort_flag before the operation, check_abort_ after it
Refuse ==
  /\ flow.at = "start" /\ Current.onFail = "ask" /\ abort
  /\ Goto("fail")
  /\ UNCHANGED <<state, abort, feet, fan, brush, rope, arm, threads, stopper, history, bounds>>

Check ==
  /\ flow.at = "check"
  /\ flow' = IF abort THEN [flow EXCEPT !.at = "fail"] ELSE Following
  /\ UNCHANGED <<state, abort, feet, fan, brush, rope, arm, threads, stopper, history, bounds>>

\* Mutant: the wait for the operator looks at the state only
WaitsForState ==
  /\ flow.at = "ask" /\ abort /\ state # "paused"
  /\ flow' = [flow EXCEPT !.at = "fail", !.before = "idle"]
  /\ UNCHANGED <<state, abort, feet, fan, brush, rope, arm, threads, stopper, history, bounds>>

\* The end of await_user_intervention_.  A reset leaves it without an answer: that is a retry
Abandon ==
  /\ flow.at = "ask" /\ abort
  /\ flow' = [flow EXCEPT !.at = "fail", !.before = "idle"]
  /\ UNCHANGED <<state, abort, feet, fan, brush, rope, arm, threads, stopper, history, bounds>>

Retry ==
  /\ flow.at = "ask" /\ ~abort
  /\ flow' = [flow EXCEPT !.at = "start", !.before = "idle"]
  /\ state' = IF state = "paused" THEN flow.before ELSE state
  /\ UNCHANGED <<abort, feet, fan, brush, rope, arm, threads, stopper, history, bounds>>

Skip ==
  /\ flow.at = "ask" /\ ~abort /\ state = "paused"
  /\ OpDone
  /\ state' = flow.before
  /\ slipped' = (slipped \/ Current.does = "retract")
  /\ UNCHANGED <<abort, feet, fan, brush, rope, arm, threads, stopper, armLeft, bounds>>

-----------------------------------------------------------------------------
(* The operations on cups and fan.                                         *)

\* pqw_set_relay_verified_: written, and after 200 ms read back and written again if it
\* differs.  A write may be refused, or answered without effect
SetValve(does) ==
  /\ Entering(does)
  /\ \/ NoFault /\ valve' = (does = "valve_on") /\ Goto("in") /\ UNCHANGED state
     \/ Fault /\ UNCHANGED valve /\ Goto("in") /\ UNCHANGED state
     \/ Fault /\ UNCHANGED valve /\ Fails
  /\ UNCHANGED <<abort, grip, out, fan, brush, rope, arm, threads, stopper, history, calls, stops>>

ReadBack(does) ==
  /\ Inside(does)
  /\ \/ NoFault /\ valve' = (does = "valve_on")
     \/ Fault /\ UNCHANGED valve
  /\ Passes
  /\ UNCHANGED <<abort, grip, out, fan, brush, rope, arm, threads, stopper, history, calls, stops>>

\* A cup that is not evacuated, or not out, lets go in a while
Vent ==
  /\ grip /\ ~(valve /\ out)
  /\ grip' = FALSE
  /\ UNCHANGED <<state, abort, flow, valve, out, fan, brush, rope, arm, threads, stopper, history, bounds>>

\* vacuum_wait_release_: a cup that cannot be read counts as released
Release ==
  /\ Entering("release")
  /\ \/ ~grip /\ NoFault /\ Passes
     \/ grip /\ Fault /\ Passes
     \/ grip /\ NoFault /\ Fails
  /\ UNCHANGED <<abort, feet, fan, brush, rope, arm, threads, stopper, history, calls, stops>>

FanOn ==
  /\ Entering("fan_on")
  /\ \/ NoFault /\ fan' = TRUE
     \/ Fault /\ UNCHANGED fan
  /\ Passes
  /\ UNCHANGED <<abort, feet, brush, rope, arm, threads, stopper, history, calls, stops>>

FanOff ==
  /\ Entering("fan_off")
  /\ \/ NoFault /\ fan' = FALSE /\ Passes
     \/ Fault /\ UNCHANGED fan /\ Fails
  /\ UNCHANGED <<abort, feet, brush, rope, arm, threads, stopper, history, calls, stops>>

\* The emergency stop halts the drives; a drive that cannot be read counts as in
Retract ==
  /\ Entering("retract")
  /\ \/ NoFault /\ out' = FALSE /\ grip' = FALSE /\ slipped' = FALSE /\ Passes
     \/ Fault /\ slipped' = TRUE /\ UNCHANGED <<out, grip>> /\ Passes
     \/ Fault /\ UNCHANGED <<out, grip, slipped>> /\ Fails
  /\ UNCHANGED <<abort, valve, fan, brush, rope, arm, threads, stopper, armLeft, calls, stops>>

\* Extending holds zdt_bus_mtx_ to its end.  What is left unsealed at attach is tried again
Extend(does) ==
  /\ Entering(does)
  /\ IF does = "again" /\ grip THEN Passes /\ UNCHANGED out
     ELSE out' = TRUE /\ Goto("in") /\ UNCHANGED state
  /\ UNCHANGED <<abort, valve, grip, fan, brush, rope, arm, threads, stopper, history, bounds>>

Extended(does) ==
  /\ Inside(does)
  /\ grip' \in {grip, valve /\ out}
  /\ \/ ~abort /\ NoFault /\ Passes
     \/ abort /\ NoFault /\ Fails
     \/ Fault /\ Fails
  /\ UNCHANGED <<abort, valve, out, fan, brush, rope, arm, threads, stopper, history, calls, stops>>

\* vacuum_check_ over all cups; if one fails, the sweep is waited for and each side judged
Look ==
  /\ Entering("look")
  /\ \/ grip /\ NoFault /\ Passes
     \/ ~grip /\ sweep = "off" /\ NoFault /\ Fails
     \/ grip /\ sweep = "off" /\ Fault /\ Fails
  /\ UNCHANGED <<abort, feet, fan, brush, rope, arm, threads, stopper, history, calls, stops>>

\* Relays of return_home, whose replies are not looked at, and of init
Cut ==
  /\ Entering("cut")
  /\ \/ NoFault /\ valve' = FALSE /\ brush' = FALSE /\ Passes
     \/ Fault /\ UNCHANGED <<valve, brush>> /\ Fails
  /\ UNCHANGED <<abort, grip, out, fan, rope, arm, threads, stopper, history, calls, stops>>

-----------------------------------------------------------------------------
(* The operations on the ropes.                                            *)

Rope ==
  /\ Entering("rope")
  /\ rope' = TRUE
  /\ Goto("in")
  /\ UNCHANGED <<state, abort, feet, fan, brush, arm, threads, stopper, history, bounds>>

Roped ==
  /\ Inside("rope")
  /\ rope' = FALSE
  /\ \/ NoFault /\ Passes
     \/ abort /\ NoFault /\ Fails
     \/ Fault /\ Fails
  /\ UNCHANGED <<abort, feet, fan, brush, arm, threads, stopper, history, calls, stops>>

Roll ==
  /\ Entering("roll")
  /\ Goto("in")
  /\ UNCHANGED <<state, abort, feet, fan, brush, rope, arm, threads, stopper, history, bounds>>

\* Another pass: check_abort_, then six readings of the roll
RollLook ==
  /\ Inside("roll") /\ ~abort /\ flow.pass < MaxPasses
  /\ flow' = [flow EXCEPT !.at = "read", !.pass = @ + 1]
  /\ UNCHANGED <<state, abort, feet, fan, brush, rope, arm, threads, stopper, history, bounds>>

\* Aborted, out of passes, or the roll is small, absurd, growing or unknown
RollEnd ==
  /\ Inside("roll") \/ flow.at = "read"
  /\ Passes
  /\ UNCHANGED <<abort, feet, fan, brush, rope, arm, threads, stopper, history, bounds>>

RollPulse ==
  /\ flow.at = "read"
  /\ rope' = TRUE
  /\ Goto("pulse")
  /\ UNCHANGED <<state, abort, feet, fan, brush, arm, threads, stopper, history, bounds>>

RollPulsed ==
  /\ flow.at = "pulse"
  /\ rope' = FALSE
  /\ \/ NoFault /\ Goto("in") /\ UNCHANGED state
     \/ abort /\ NoFault /\ Passes
     \/ Fault /\ Passes
  /\ UNCHANGED <<abort, feet, fan, brush, arm, threads, stopper, history, calls, stops>>

-----------------------------------------------------------------------------
(* The arm.  One command at a time holds arm_mtx_.                         *)

ArmMoves ==
  /\ armAt # armTo
  /\ armAt' = armTo
  /\ armLeft' = (armLeft /\ armTo = "out")
  /\ UNCHANGED <<state, abort, flow, feet, fan, brush, rope, armTo, armBusy, threads, stopper, slipped, bounds>>

\* cmd_arm_retract: M1 MOVETO 0, then M1 STATUS until it is there, or 40 times.  Both end in OK
ArmSentIn ==
  /\ armBusy = "free"
  /\ NoFault /\ armTo' = "in" /\ UNCHANGED armLeft

ArmNotSent ==
  /\ armBusy = "free"
  /\ Fault /\ armLeft' = TRUE /\ UNCHANGED armTo

ArmPolled ==
  /\ armBusy = "free"
  /\ armLeft' = (armLeft \/ armAt = "out" \/ armTo = "out")

InitBegin ==
  /\ armInit = "wait" /\ armBusy = "free"
  /\ armInit' = "go" /\ armBusy' = "init"
  /\ armTo' = "in"
  /\ UNCHANGED <<state, abort, flow, feet, fan, brush, rope, armAt, sweep, stopper, history, bounds>>

InitEnd ==
  /\ armInit = "go"
  /\ \/ armAt = "in" /\ armInit' = "ok" /\ NoFault
     \/ armInit' = "failed" /\ Fault
  /\ armBusy' = "free"
  /\ UNCHANGED <<state, abort, flow, feet, fan, brush, rope, armAt, armTo, sweep, stopper, history, calls, stops>>

LaunchInit ==
  /\ Entering("init_go") \/ Entering("arm")
  /\ armInit' = "wait"
  /\ IF Current.does = "arm" THEN Goto("in") /\ UNCHANGED state ELSE Passes
  /\ UNCHANGED <<abort, feet, fan, brush, rope, arm, sweep, stopper, history, bounds>>

ArmInitialised ==
  /\ Inside("arm") /\ armInit \in Calibrated
  /\ armInit' = "off"
  /\ Passes
  /\ UNCHANGED <<abort, feet, fan, brush, rope, arm, sweep, stopper, history, bounds>>

\* fut_arm_init.get(), which may take as long as the calibration; then the sweep, whatever
\* happened meanwhile
LaunchSweep ==
  /\ Entering("sweep_go") /\ armInit \in Calibrated
  /\ armInit' = "off" /\ sweep' = IF armInit = "ok" THEN "go" ELSE "bare_out"
  /\ Passes
  /\ UNCHANGED <<abort, feet, fan, brush, rope, arm, stopper, history, bounds>>

Join ==
  /\ Entering("join") /\ sweep = "off"
  /\ Passes
  /\ UNCHANGED <<abort, feet, fan, brush, rope, arm, threads, stopper, history, bounds>>

-----------------------------------------------------------------------------
(* do_step_sync_rail_sweep_: brush with the roller, back with the squeegee. *)

SweepBegin ==
  /\ sweep = "go"
  /\ sweep' = "deploy_r"
  /\ \/ NoFault /\ brush' = TRUE
     \/ Fault /\ UNCHANGED brush
  /\ UNCHANGED <<state, abort, flow, feet, fan, rope, arm, armInit, stopper, history, calls, stops>>

Deploying(from, to) ==
  /\ sweep = from /\ armBusy = "free"
  /\ sweep' = to /\ armBusy' = "sweep"
  /\ \/ NoFault /\ armTo' = "out"
     \/ Fault /\ UNCHANGED armTo
  /\ UNCHANGED <<state, abort, flow, feet, fan, brush, rope, armAt, armInit, stopper, history, calls, stops>>

\* Mutant: arm_mtx_ is kept after the answer
KeepsArm(from, to) ==
  /\ sweep = from /\ armAt = armTo
  /\ sweep' = to
  /\ UNCHANGED <<state, abort, flow, feet, fan, brush, rope, arm, armInit, stopper, history, bounds>>

\* The answer of DEPLOY, or 30 s without one.  A refusal does not end the sweep
Deployed(from, to) ==
  /\ sweep = from /\ armAt = armTo
  /\ sweep' = to /\ armBusy' = "free"
  /\ UNCHANGED <<state, abort, flow, feet, fan, brush, rope, armAt, armTo, armInit, stopper, history, bounds>>

\* The only place where the sweep looks at abort_flag
SweepOut ==
  /\ \/ sweep = "rail_out" /\ sweep' = IF abort THEN "stop" ELSE "switch"
     \/ sweep = "bare_out" /\ sweep' = IF abort THEN "bare_stop" ELSE "bare_back"
  /\ UNCHANGED <<state, abort, flow, feet, fan, brush, rope, arm, armInit, stopper, history, bounds>>

BrushOff(from, to) ==
  /\ sweep = from
  /\ sweep' = to
  /\ \/ NoFault /\ brush' = FALSE
     \/ Fault /\ UNCHANGED brush
  /\ UNCHANGED <<state, abort, flow, feet, fan, rope, arm, armInit, stopper, history, calls, stops>>

SweepBack ==
  /\ \/ sweep = "rail_back" /\ sweep' = "retract"
     \/ sweep = "bare_back" /\ sweep' = "off"
  /\ UNCHANGED <<state, abort, flow, feet, fan, brush, rope, arm, armInit, stopper, history, bounds>>

SweepRetract ==
  /\ sweep = "retract"
  /\ \/ ArmSentIn  /\ sweep' = "poll"
     \/ ArmNotSent /\ sweep' = "off"
  /\ UNCHANGED <<state, abort, flow, feet, fan, brush, rope, armAt, armBusy, armInit, stopper, slipped, calls, stops>>

SweepPolled ==
  /\ sweep = "poll" /\ ArmPolled
  /\ sweep' = "off"
  /\ UNCHANGED <<state, abort, flow, feet, fan, brush, rope, arm, armInit, stopper, slipped, bounds>>

SweepSwitch == BrushOff("switch", "deploy_l")
\* Mutant: an aborted sweep leaves the arm where it is
LeavesArm == BrushOff("stop", "off") \/ BrushOff("bare_stop", "off")

SweepStop == BrushOff("stop", "retract") \/ BrushOff("bare_stop", "off")

Sweep ==
  \/ SweepBegin \/ SweepOut \/ SweepSwitch \/ SweepStop \/ SweepBack \/ SweepRetract \/ SweepPolled
  \/ Deploying("deploy_r", "deploying_r") \/ Deployed("deploying_r", "rail_out")
  \/ Deploying("deploy_l", "deploying_l") \/ Deployed("deploying_l", "rail_back")

-----------------------------------------------------------------------------
(* How a command ends.                                                     *)

\* fail() of a step switches the fan off, but does not see whether that worked
Fail ==
  /\ flow.at = "fail"
  /\ Goto("joining")
  /\ IF flow.cmd = "step"
     THEN \/ NoFault /\ fan' = FALSE
          \/ Fault /\ UNCHANGED fan
     ELSE NoFault /\ UNCHANGED fan
  /\ UNCHANGED <<state, abort, feet, brush, rope, arm, threads, stopper, history, calls, stops>>

\* The destructors of RailSweepJoin and ArmInitJoin, then of the lock
Failed ==
  /\ flow.at = "joining" /\ sweep = "off" /\ armInit \in {"off"} \cup Calibrated
  /\ flow' = Idle /\ armInit' = "off"
  /\ state' = IF flow.cmd \in {"step", "return_home"} THEN "error" ELSE state
  /\ UNCHANGED <<abort, feet, fan, brush, rope, arm, sweep, stopper, history, bounds>>

EndState == [init |-> "ready", attach |-> "attached", step |-> "attached", return_home |-> "idle"]

Done ==
  /\ flow.at = "done"
  /\ state' = EndState[flow.cmd]
  /\ flow' = IF flow.cmd = "step" THEN [flow EXCEPT !.at = "after"] ELSE Idle
  /\ UNCHANGED <<abort, feet, fan, brush, rope, arm, threads, stopper, history, bounds>>

\* ensure_arm_parked_after_rope_, when motion_mtx_ is free again
After ==
  /\ flow.at = "after"
  /\ \/ ArmSentIn  /\ Goto("after_poll")
     \/ ArmNotSent /\ flow' = Idle
  /\ UNCHANGED <<state, abort, feet, fan, brush, rope, armAt, armBusy, threads, stopper, slipped, calls, stops>>

AfterPolled ==
  /\ flow.at = "after_poll" /\ ArmPolled
  /\ flow' = Idle
  /\ UNCHANGED <<state, abort, feet, fan, brush, rope, arm, threads, stopper, slipped, bounds>>

-----------------------------------------------------------------------------
(* The emergency stop and the thread it starts; reset; manual commands.    *)

EmergencyStop ==
  /\ stops < MaxStops /\ stops' = stops + 1
  /\ abort' = TRUE /\ state' = "error"
  /\ IF detach = "off" THEN detach' = "brush" ELSE UNCHANGED detach
  /\ UNCHANGED <<bad, flow, feet, fan, brush, rope, arm, threads, history, calls, faults>>

Reset ==
  /\ state = "error" \/ (state = "paused" /\ flow.at = "ask")
  /\ abort' = FALSE /\ state' = "idle"
  /\ UNCHANGED <<flow, feet, fan, brush, rope, arm, threads, stopper, history, bounds>>

DetachBrush ==
  /\ detach = "brush" /\ detach' = "arm"
  /\ \/ NoFault /\ brush' = FALSE /\ UNCHANGED bad
     \/ Fault /\ bad' = TRUE /\ UNCHANGED brush
  /\ UNCHANGED <<state, abort, flow, feet, fan, rope, arm, threads, history, calls, stops>>

DetachArm ==
  /\ detach = "arm"
  /\ \/ ArmSentIn  /\ detach' = "poll" /\ UNCHANGED bad
     \/ ArmNotSent /\ detach' = "fan" /\ bad' = TRUE
  /\ UNCHANGED <<state, abort, flow, feet, fan, brush, rope, armAt, armBusy, threads, slipped, calls, stops>>

DetachPolled ==
  /\ detach = "poll" /\ ArmPolled
  /\ detach' = "fan"
  /\ UNCHANGED <<state, abort, flow, feet, fan, brush, rope, arm, threads, bad, slipped, bounds>>

DetachFan ==
  /\ detach = "fan" /\ detach' = "valve"
  /\ \/ NoFault /\ fan' = FALSE /\ UNCHANGED bad
     \/ Fault /\ bad' = TRUE /\ UNCHANGED fan
  /\ UNCHANGED <<state, abort, flow, feet, brush, rope, arm, threads, history, calls, stops>>

DetachValve ==
  /\ detach = "valve" /\ detach' = "release"
  /\ \/ NoFault /\ valve' = FALSE /\ UNCHANGED bad
     \/ Fault /\ bad' = TRUE /\ UNCHANGED valve
  /\ UNCHANGED <<state, abort, flow, grip, out, fan, brush, rope, arm, threads, history, calls, stops>>

\* Released, not readable, or not released in time
DetachRelease ==
  /\ detach = "release" /\ detach' = "retract"
  /\ \/ ~grip /\ UNCHANGED bad
     \/ grip /\ bad' = TRUE
  /\ UNCHANGED <<state, abort, flow, feet, fan, brush, rope, arm, threads, history, bounds>>

DetachRetract ==
  /\ detach = "retract" /\ ~Inside("extend") /\ ~Inside("again")
  /\ detach' = "claim"
  /\ \/ NoFault /\ out' = FALSE /\ grip' = FALSE /\ UNCHANGED bad
     \/ Fault /\ bad' = TRUE /\ UNCHANGED <<out, grip>>
  /\ UNCHANGED <<state, abort, flow, valve, fan, brush, rope, arm, threads, history, calls, stops>>

\* If all is off the glass, and the state still Error, the body is idle
DetachClaim ==
  /\ detach = "claim" /\ detach' = "off"
  /\ state' = IF ~bad /\ state = "error" THEN "idle" ELSE state
  /\ bad' = FALSE
  /\ UNCHANGED <<abort, flow, feet, fan, brush, rope, arm, threads, history, bounds>>

Detach ==
  \/ DetachBrush \/ DetachArm \/ DetachPolled \/ DetachFan \/ DetachValve \/ DetachRelease
  \/ DetachRetract \/ DetachClaim

\* `pusher ... extend` and `arm_deploy`, given by hand: they take no motion_mtx_
HandExtend ==
  /\ Fault
  /\ ~Inside("extend") /\ ~Inside("again")
  /\ out' = TRUE /\ grip' \in {grip, valve}
  /\ slipped' = TRUE
  /\ UNCHANGED <<state, abort, flow, valve, fan, brush, rope, arm, threads, stopper, armLeft, calls, stops>>

HandDeploy ==
  /\ Fault
  /\ armBusy = "free"
  /\ armTo' = "out" /\ armLeft' = TRUE
  /\ UNCHANGED <<state, abort, flow, feet, fan, brush, rope, armAt, armBusy, threads, stopper, slipped, calls, stops>>

-----------------------------------------------------------------------------
FlowStep ==
  \/ Refuse \/ Check \/ Abandon
  \/ \E does \in {"valve_on", "valve_off"} : SetValve(does) \/ ReadBack(does)
  \/ \E does \in {"extend", "again"} : Extend(does) \/ Extended(does)
  \/ Release \/ FanOn \/ FanOff \/ Retract \/ Look \/ Cut
  \/ Rope \/ Roped \/ Roll \/ RollLook \/ RollEnd \/ RollPulse \/ RollPulsed
  \/ LaunchInit \/ ArmInitialised \/ LaunchSweep \/ Join
  \/ Fail \/ Failed \/ Done \/ After \/ AfterPolled

Next ==
  \/ \E cmd \in Commands : Begin(cmd)
  \/ FlowStep \/ Retry \/ Skip
  \/ Vent \/ ArmMoves \/ InitBegin \/ InitEnd \/ Sweep
  \/ EmergencyStop \/ Reset \/ Detach
  \/ HandExtend \/ HandDeploy

Spec == Init /\ [][Next]_vars

\* Each thread goes on; the operator need not answer
FairSpec ==
  /\ Spec
  /\ WF_vars(FlowStep) /\ WF_vars(InitBegin) /\ WF_vars(InitEnd) /\ WF_vars(Sweep)
  /\ WF_vars(ArmMoves) /\ WF_vars(Detach)

-----------------------------------------------------------------------------
(* Properties.                                                             *)

\* The ropes move the body only when no pusher is out and no cup holds on to the glass,
\* unless a pusher that could not be read was taken for retracted, the operator skipped its
\* retraction, or extended it by hand meanwhile.  The header of do_step_sync_: the ropes
\* are the sole support
RopeFree == [][~rope /\ rope' => slipped \/ ~(out \/ grip)]_vars

\* Nor does the arm press on the glass when the ropes begin to move, unless its retraction
\* was not sent, not waited for to its end, or someone deployed it by hand
RopeClearOfArm == [][~rope /\ rope' => armLeft \/ {armAt, armTo} = {"in"}]_vars

\* After an emergency stop the command in progress ends: the joins of its threads, the arm
\* and the detach that take arm_mtx_ in turn do not keep each other
StopEndsFlow == (abort /\ Held) ~> (~abort \/ ~Held)
=============================================================================
