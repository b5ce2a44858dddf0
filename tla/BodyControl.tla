---------------------------- MODULE BodyControl ----------------------------
(***************************************************************************)
(* Who may move the body, and who stops it: the flows (attach, step, run,  *)
(* return_home, ...), each on a thread of its own and one at a time under  *)
(* motion_mtx_; the commands that the receive thread of a connection       *)
(* answers itself (pause, resume, continue, skip, reset, emergency_stop);  *)
(* the threads that interfere (crane watchdog, IMU monitor, the detach of  *)
(* an emergency stop).  They share state_, pause_reason_, abort_flag,      *)
(* pause_flag and pause_action_ without a common lock.                     *)
(*                                                                         *)
(* A flow is a sequence of operations on valves, pushers or ropes.  What   *)
(* an operation does is left out; kept is what is looked at before it,     *)
(* after it, and when it fails.                                            *)
(***************************************************************************)
EXTENDS Naturals, Sequences

CONSTANTS
  Flow,      \* threads that execute the slow commands
  Client,    \* connections, each with a receive thread for the fast commands
  Commands,  \* the slow commands that are given
  MaxSteps,  \* bound: steps of a run
  MaxGiven,  \* bound: slow commands given
  MaxEvents, \* bound: fast commands, failures of operations, alarms, tilts
  NoFlow     \* motion_mtx_ is free

AllCommands == {"init", "attach", "detach", "step", "run", "script", "return_home",
                "recover", "realign", "pusher", "arm_sweep"}

\* The commands that make steps, and of them those with a loop
Stepping == {"step", "run", "script"}
Loops    == {"run", "script"}

ASSUME CommandsAssumption == Commands \subseteq AllCommands
ASSUME BoundAssumption == MaxSteps \in Nat \ {0} /\ MaxGiven \in Nat /\ MaxEvents \in Nat
ASSUME NoFlowAssumption == NoFlow \notin Flow

VARIABLES
  state,       \* state_
  reason,      \* pause_reason_
  before,      \* state_before_pause_
  waitBefore,  \* state_before_wait_
  action,      \* pause_action_
  abort,       \* abort_flag
  pause,       \* pause_flag
  imuAsk,      \* imu_ask_pending_
  stepping,    \* step_in_progress_
  mtx,         \* the owner of motion_mtx_
  flow,        \* what each flow is doing
  fast,        \* the fast command that a receive thread has admitted
  detach,      \* emergency_detach_active_
  watchdog,    \* crane_watchdog_loop_ is about to pause
  monitor,     \* imu_monitor_loop_: "idle", "stopping"
  askSent,     \* ask_sent of imu_monitor_loop_
  since,       \* history: operations begun by the owner since it was stopped, plus 1
  heldAt,      \* history: the operation at which a pause found a flow
  given,       \* slow commands so far
  events       \* events so far

flags   == <<abort, pause, imuAsk>>
pausing == <<reason, before, action>>
flows   == <<mtx, flow, stepping>>
imu     == <<monitor, askSent, waitBefore>>
history == <<since, heldAt>>
bounds  == <<given, events>>
vars    == <<state, pausing, flags, flows, fast, detach, watchdog, imu, history, bounds>>

States  == {"idle", "ready", "attached", "running", "paused", "error"}
Reasons == {"none", "user", "error", "balance_ask"}

-----------------------------------------------------------------------------
(* What a flow consists of.                                                *)

\* An operation: what its failure may lead to ("ask" the operator, "end" the flow, else
\* the flow goes on), whether abort_flag is looked at before it begins (try_or_pause_ does),
\* whether check_abort_ follows it
Op(onFail, tested, checked) == [onFail |-> onFail, tested |-> tested, checked |-> checked]
Asked      == Op({"ask"}, TRUE, FALSE)
AskedCheck == Op({"ask"}, TRUE, TRUE)
Unasked    == Op({}, FALSE, FALSE)
Last       == Op({"end"}, FALSE, FALSE)
Level      == Op({}, FALSE, TRUE)
Seal       == Op({"ask", "end"}, TRUE, TRUE)

\* init: relays and drives, then IMU baseline and arm.  attach: valves, then extend.
AttachOps == <<Asked, Asked>>
InitOps   == <<Asked, Last>>
\* A step: let go, retract and move the ropes; level; extend, which may not seal
StepOps   == <<AskedCheck, Level, Seal>>
\* return_home: break the suction; let go and retract; pay out
HomeOps   == <<Unasked, AskedCheck, Last>>
\* arm_sweep: the rail out, and home; then brush, pump and inlet are turned off either way
ArmSweepOps == <<AskedCheck, Asked>>

Ops == [c \in AllCommands |->
          CASE c = "init"            -> InitOps
            [] c = "attach"          -> AttachOps
            [] c = "detach"          -> <<Unasked>>
            [] c \in Stepping       -> StepOps
            [] c = "return_home"     -> HomeOps
            [] c = "recover"         -> <<Last>>
            [] c = "realign"         -> <<Last>>
            [] c = "pusher"          -> AttachOps
            [] c = "arm_sweep"       -> ArmSweepOps]

OpOf(f) == Ops[flow[f].cmd][flow[f].op]

Idle == [cmd |-> "none", at |-> "idle", op |-> 0, step |-> 0, entry |-> "idle"]

Init ==
  /\ state \in {"idle", "error"}   \* error: the retraction at the start failed
  /\ reason = "none" /\ before = "idle" /\ action = "none"
  /\ waitBefore = "idle"
  /\ abort = FALSE /\ pause = FALSE
  /\ imuAsk = FALSE /\ askSent = FALSE /\ monitor = "idle"
  /\ stepping = FALSE /\ mtx = NoFlow
  /\ flow = [f \in Flow |-> Idle]
  /\ fast = [c \in Client |-> "none"]
  /\ detach = FALSE
  /\ watchdog = FALSE
  /\ since = [f \in Flow |-> 0] /\ heldAt = [f \in Flow |-> 0]
  /\ given = 0 /\ events = 0

-----------------------------------------------------------------------------
(* Steps common to the flows.                                              *)

\* Something happens that the environment decides
Event == events < MaxEvents /\ events' = events + 1

Goto(f, at) == flow' = [flow EXCEPT ![f].at = at]
Return(f)   == flow' = [flow EXCEPT ![f] = Idle]

\* The owner of motion_mtx_ lets go
Unlock(f) ==
  /\ mtx' = IF mtx = f THEN NoFlow ELSE mtx
  /\ since' = [since EXCEPT ![f] = 0]
  /\ heldAt' = [heldAt EXCEPT ![f] = 0]

\* abort_flag is set; the flow that owns motion_mtx_ is the one to stop
RaiseAbort ==
  /\ abort' = TRUE
  /\ since' = [f \in Flow |-> IF mtx = f /\ since[f] = 0 THEN 1 ELSE since[f]]

ClearAbort ==
  /\ abort' = FALSE
  /\ since' = [f \in Flow |-> 0]

ClearPause ==
  /\ pause' = FALSE
  /\ heldAt' = [f \in Flow |-> 0]

\* The flow arrives at its n-th operation
Arrive(f, n) ==
  flow' = [flow EXCEPT ![f].op = n,
                       ![f].at = IF Ops[flow[f].cmd][n].tested THEN "try" ELSE "go"]

-----------------------------------------------------------------------------
(* A slow command from its entry to its first operation.                   *)

Allowed(cmd) ==
  CASE cmd = "init"        -> state \in {"idle", "ready", "error"}
    [] cmd = "attach"      -> state = "ready"
    [] cmd = "detach"      -> state = "attached"
    [] cmd = "return_home" -> state \in {"attached", "paused", "error"}
    [] cmd = "recover"     -> state = "error"
    [] cmd = "arm_sweep"   -> state # "error"
    [] OTHER               -> TRUE

\* Each command gets a new thread, so that it does not matter which
FreeThread == CHOOSE f \in Flow : flow[f].at = "idle"

EnterAs(f, cmd) ==
  /\ Allowed(cmd)
  /\ given < MaxGiven /\ given' = given + 1
  /\ flow' = [flow EXCEPT ![f] =
       [cmd |-> cmd, entry |-> IF cmd = "pusher" THEN state ELSE "idle",
        step |-> IF cmd = "run" THEN 1 ELSE 0,
        op |-> IF cmd = "pusher" THEN 1 ELSE 0,
        at |-> CASE cmd = "run" -> "top" [] cmd = "script" -> "sweep"
                 [] cmd = "pusher" -> "try" [] OTHER -> "lock"]]
  /\ state' = IF cmd \in Stepping \cup {"return_home"} THEN "running" ELSE state
  /\ stepping' = IF cmd = "step" THEN TRUE ELSE stepping
  /\ UNCHANGED <<pausing, flags, mtx, fast, detach, watchdog, imu, history, events>>

Enter(cmd) ==
  /\ \E f \in Flow : flow[f].at = "idle"
  /\ EnterAs(FreeThread, cmd)

\* Before its first step a script cleans where the body hangs, under motion_mtx_; abort_flag
\* is neither cleared nor looked at before that
Sweep(f) ==
  /\ flow[f].at = "sweep"
  /\ mtx = NoFlow
  /\ mtx' = f
  /\ Goto(f, "sweeping")
  /\ UNCHANGED <<state, pausing, flags, stepping, fast, detach, watchdog, imu, history, bounds>>

Swept(f) ==
  /\ flow[f].at = "sweeping"
  /\ Goto(f, "swept")
  /\ Unlock(f)
  /\ UNCHANGED <<state, pausing, flags, stepping, fast, detach, watchdog, imu, bounds>>

\* check_abort_ between that sweep and the first step
CheckSwept(f) ==
  /\ flow[f].at = "swept"
  /\ \/ /\ abort
        /\ state' = "error"
        /\ Return(f)
     \/ /\ ~abort /\ ~pause
        /\ flow' = [flow EXCEPT ![f].step = 1, ![f].at = "top"]
        /\ UNCHANGED state
  /\ UNCHANGED <<pausing, flags, mtx, stepping, fast, detach, watchdog, imu, history, bounds>>

\* The top of the loops of cmd_run and cmd_run_script; only a script's steps count as
\* step_in_progress_ from here to the end of the pass
Top(f) ==
  /\ flow[f].at = "top"
  /\ IF abort THEN /\ state' = "error"
                   /\ Return(f)
                   /\ UNCHANGED stepping
              ELSE /\ Goto(f, "lock")
                   /\ stepping' = (stepping \/ flow[f].cmd = "script")
                   /\ UNCHANGED state
  /\ UNCHANGED <<pausing, flags, mtx, fast, detach, watchdog, imu, history, bounds>>

\* Every flow but detach and recover clears abort_flag once it has motion_mtx_
Lock(f) ==
  /\ flow[f].at = "lock"
  /\ mtx = NoFlow
  /\ mtx' = f
  /\ Arrive(f, 1)
  /\ IF flow[f].cmd \in {"detach", "recover"} THEN UNCHANGED <<abort, since>>
                                              ELSE ClearAbort
  /\ IF flow[f].cmd = "init" THEN ClearPause ELSE UNCHANGED <<pause, heldAt>>
  /\ stepping' = IF flow[f].cmd = "attach" THEN TRUE ELSE stepping
  /\ UNCHANGED <<state, pausing, imuAsk, fast, detach, watchdog, imu, bounds>>

-----------------------------------------------------------------------------
(* How a flow ends.                                                        *)

NoLongerStepping(f) ==
  stepping' = IF flow[f].cmd \in {"step", "script", "attach"} THEN FALSE ELSE stepping

\* A step returns from do_step_sync_ and leaves motion_mtx_ before its caller
\* stores the state
GiveUp(f) ==
  CASE flow[f].cmd \in Stepping ->
         /\ Goto(f, "failed")
         /\ Unlock(f)
         /\ UNCHANGED <<state, pausing, flags, stepping>>
    [] flow[f].cmd = "return_home" ->
         /\ state' = "error"
         /\ Return(f)
         /\ Unlock(f)
         /\ UNCHANGED <<pausing, flags, stepping>>
    [] flow[f].cmd = "pusher" ->
         /\ ClearAbort
         /\ state' = flow[f].entry
         /\ Return(f)
         /\ UNCHANGED <<pausing, pause, imuAsk, heldAt, mtx, stepping>>
    [] OTHER ->
         /\ Return(f)
         /\ Unlock(f)
         /\ NoLongerStepping(f)
         /\ UNCHANGED <<state, pausing, flags>>

\* A realign that stalls pauses by itself
Stall(f) ==
  /\ before' = IF state = "paused" /\ reason = "error" THEN before ELSE state
  /\ reason' = "error"
  /\ state' = "paused"
  /\ Return(f)
  /\ Unlock(f)
  /\ UNCHANGED <<action, flags, stepping>>

EndState == [init |-> "ready", attach |-> "attached", detach |-> "ready",
             return_home |-> "idle"]

Succeed(f) ==
  CASE flow[f].cmd = "step" ->
         /\ Goto(f, "done")
         /\ Unlock(f)
         /\ UNCHANGED <<state, pausing, flags, stepping>>
    [] flow[f].cmd \in Loops ->
         /\ Goto(f, "turn")
         /\ Unlock(f)
         /\ UNCHANGED <<state, pausing, flags, stepping>>
    [] flow[f].cmd \in {"realign", "pusher", "arm_sweep"} ->
         /\ Return(f)
         /\ Unlock(f)
         /\ UNCHANGED <<state, pausing, flags, stepping>>
    [] flow[f].cmd = "recover" ->
         /\ abort' = FALSE /\ pause' = FALSE /\ imuAsk' = FALSE
         /\ state' = "attached"
         /\ mtx' = NoFlow
         /\ since' = [g \in Flow |-> 0] /\ heldAt' = [g \in Flow |-> 0]
         /\ Return(f)
         /\ UNCHANGED <<pausing, stepping>>
    [] OTHER ->
         /\ state' = EndState[flow[f].cmd]
         /\ Return(f)
         /\ Unlock(f)
         /\ NoLongerStepping(f)
         /\ UNCHANGED <<pausing, flags>>

\* What GiveUp, Stall and Succeed never touch
elsewhere == <<fast, detach, watchdog, imu, bounds>>

\* The caller of do_step_sync_ stores what came of it
StoreResult(f) ==
  /\ \/ flow[f].at = "failed" /\ state' = "error"
     \/ flow[f].at = "done" /\ state' = "attached"
  /\ Return(f)
  /\ NoLongerStepping(f)
  /\ UNCHANGED <<pausing, flags, mtx, history, elsewhere>>

\* A loop between two steps: a tilt that was reported makes it wait
Turn(f) ==
  /\ flow[f].at = "turn"
  /\ Goto(f, "wait")
  /\ pause' = (pause \/ imuAsk)
  /\ UNCHANGED <<state, pausing, abort, imuAsk, mtx, stepping, history, elsewhere>>

\* The loop of cmd_run, or of cmd_run_script, goes on
MoreStepsOneOff(f) == flow[f].step <= MaxSteps
MoreSteps(f) == flow[f].step < MaxSteps

Wait(f) ==
  /\ flow[f].at = "wait"
  /\ \/ /\ abort
        /\ state' = "error"
        /\ Return(f)
     \/ /\ ~abort /\ ~pause
        /\ ~MoreSteps(f)
        /\ state' = "attached"
        /\ Return(f)
     \/ /\ ~abort /\ ~pause
        /\ MoreSteps(f)
        /\ flow' = [flow EXCEPT ![f].step = @ + 1, ![f].op = 0, ![f].at = "top"]
        /\ UNCHANGED state
  /\ NoLongerStepping(f)
  /\ UNCHANGED <<pausing, flags, mtx, history, elsewhere>>

-----------------------------------------------------------------------------
(* The operations of a flow: try_or_pause_, check_abort_.                  *)

Advance(f) ==
  IF flow[f].op = Len(Ops[flow[f].cmd])
  THEN Succeed(f)
  ELSE /\ Arrive(f, flow[f].op + 1)
       /\ UNCHANGED <<state, pausing, flags, mtx, stepping, history>>

\* try_or_pause_ as it was before 2026-06-01
TryBlind(f) ==
  /\ flow[f].at = "try"
  /\ Goto(f, "go")
  /\ UNCHANGED <<state, pausing, flags, mtx, stepping, history, elsewhere>>

\* try_or_pause_ looks at abort_flag ...
Try(f) ==
  /\ flow[f].at = "try"
  /\ IF abort THEN GiveUp(f)
              ELSE /\ Goto(f, "go")
                   /\ UNCHANGED <<state, pausing, flags, mtx, stepping, history>>
  /\ UNCHANGED elsewhere

\* ... and calls the operation
Begin(f) ==
  /\ flow[f].at = "go"
  /\ Goto(f, "op")
  /\ since' = IF since[f] \in {1, 2} THEN [since EXCEPT ![f] = @ + 1] ELSE since
  /\ UNCHANGED <<state, pausing, flags, mtx, stepping, heldAt, elsewhere>>

OpSucceeds(f) ==
  /\ flow[f].at = "op"
  /\ IF OpOf(f).checked
     THEN /\ Goto(f, "check")
          /\ UNCHANGED <<state, pausing, flags, mtx, stepping, history>>
     ELSE Advance(f)
  /\ UNCHANGED elsewhere

\* Every operation ends, by itself or by its timeout
OpFails(f) ==
  /\ flow[f].at = "op"
  /\ Event
  /\ \/ /\ "ask" \in OpOf(f).onFail
        /\ Goto(f, "ask")
        /\ UNCHANGED <<state, pausing, flags, mtx, stepping, history>>
     \/ /\ "end" \in OpOf(f).onFail
        /\ GiveUp(f)
     \/ /\ flow[f].cmd = "realign"
        /\ Stall(f)
  /\ UNCHANGED <<fast, detach, watchdog, imu, given>>

\* A check_abort_ without the wait
CheckAbortOnly(f) ==
  /\ flow[f].at = "check"
  /\ IF abort THEN GiveUp(f) ELSE Advance(f)
  /\ UNCHANGED elsewhere

\* check_abort_ waits for pause_flag and reports abort_flag
Check(f) ==
  /\ flow[f].at = "check"
  /\ \/ abort /\ GiveUp(f)
     \/ ~abort /\ ~pause /\ Advance(f)
  /\ UNCHANGED elsewhere

-----------------------------------------------------------------------------
(* await_user_intervention_.                                               *)

ErrorPaused == state = "paused" /\ reason = "error"

Ask(f) ==
  /\ flow[f].at = "ask"
  /\ before' = IF ErrorPaused THEN before ELSE state
  /\ action' = "none"
  /\ reason' = "error"
  /\ state' = "paused"
  /\ Goto(f, "parked")
  /\ UNCHANGED <<flags, mtx, stepping, history, elsewhere>>

Answered(f) ==
  /\ flow[f].at = "parked"
  /\ abort \/ ~ErrorPaused
  /\ IF abort THEN GiveUp(f)
     ELSE IF action = "skip"
     THEN IF OpOf(f).checked
          THEN /\ Goto(f, "check")
               /\ UNCHANGED <<state, pausing, flags, mtx, stepping, history>>
          ELSE Advance(f)
     ELSE /\ Goto(f, "try")
          /\ UNCHANGED <<state, pausing, flags, mtx, stepping, history>>
  /\ UNCHANGED elsewhere

FlowStep(f) ==
  \/ Sweep(f) \/ Swept(f) \/ CheckSwept(f) \/ Top(f) \/ Lock(f) \/ StoreResult(f) \/ Turn(f) \/ Wait(f)
  \/ Try(f) \/ Begin(f) \/ OpSucceeds(f) \/ OpFails(f) \/ Check(f)
  \/ Ask(f) \/ Answered(f)

-----------------------------------------------------------------------------
(* The fast commands.  Each looks at the state first and acts afterwards.  *)

Admits == [pause    |-> state = "running",
           resume   |-> state = "paused" /\ reason = "user",
           continue |-> ErrorPaused,
           skip     |-> ErrorPaused,
           reset    |-> state = "error" \/ ErrorPaused]

\* An answer to a question is no event of its own
Receive(c) ==
  /\ fast[c] = "none"
  /\ \E cmd \in DOMAIN Admits :
       /\ Admits[cmd]
       /\ fast' = [fast EXCEPT ![c] = cmd]
       /\ IF cmd \in {"continue", "skip"} THEN UNCHANGED events ELSE Event
  /\ UNCHANGED <<state, pausing, flags, flows, detach, watchdog, imu, history, given>>

Replied(c) == fast' = [fast EXCEPT ![c] = "none"]

\* The flows that look at pause_flag
Pausable == {f \in Flow : mtx = f /\ flow[f].op > 0 /\ flow[f].cmd \in Stepping \cup {"return_home"}}

Pause(c) ==
  /\ fast[c] = "pause"
  /\ before' = "running"
  /\ pause' = TRUE
  /\ heldAt' = [f \in Flow |-> IF f \in Pausable /\ heldAt[f] = 0
                               THEN flow[f].op ELSE heldAt[f]]
  /\ reason' = "user"
  /\ state' = "paused"
  /\ Replied(c)
  /\ UNCHANGED <<action, abort, imuAsk, flows, detach, watchdog, imu, since, bounds>>

Resume(c) ==
  /\ fast[c] = "resume"
  /\ ClearPause
  /\ reason' = "none"
  /\ state' = before
  /\ Replied(c)
  /\ UNCHANGED <<before, action, abort, imuAsk, flows, detach, watchdog, imu, since, bounds>>

Answer(c) ==
  /\ fast[c] \in {"continue", "skip"}
  /\ action' = IF fast[c] = "skip" THEN "skip" ELSE "retry"
  /\ reason' = "none"
  /\ state' = before
  /\ Replied(c)
  /\ UNCHANGED <<before, flags, flows, detach, watchdog, imu, history, bounds>>

Reset(c) ==
  /\ fast[c] = "reset"
  /\ ClearAbort
  /\ ClearPause
  /\ imuAsk' = FALSE
  /\ reason' = "none"
  /\ state' = "idle"
  /\ Replied(c)
  /\ UNCHANGED <<before, action, flows, detach, watchdog, imu, bounds>>

\* emergency_stop raises the flag, ...
EmergencyStop(c) ==
  /\ Event
  /\ fast[c] = "none"
  /\ RaiseAbort
  /\ ClearPause
  /\ fast' = [fast EXCEPT ![c] = "stop"]
  /\ UNCHANGED <<state, pausing, imuAsk, flows, detach, watchdog, imu, given>>

\* ... tells drives and crane, which takes its time, and then stores the state
Stopped(c) ==
  /\ fast[c] = "stop"
  /\ state' = "error"
  /\ detach' = TRUE
  /\ Replied(c)
  /\ UNCHANGED <<pausing, flags, flows, watchdog, imu, history, bounds>>

\* emergency_detach_: whatever could be retracted is; only if all could the state changes
DetachDone ==
  /\ detach
  /\ \/ state' = IF state = "error" THEN "idle" ELSE state
     \/ UNCHANGED state
  /\ detach' = FALSE
  /\ UNCHANGED <<pausing, flags, flows, fast, watchdog, imu, history, bounds>>

FastStep(c) == Pause(c) \/ Resume(c) \/ Answer(c) \/ Reset(c) \/ Stopped(c)

-----------------------------------------------------------------------------
(* The threads in the background.                                          *)

\* The crane has reported a tension alarm, and something is under way
WatchdogSees ==
  /\ Event
  /\ ~watchdog
  /\ state = "running" \/ stepping
  /\ watchdog' = TRUE
  /\ before' = IF ErrorPaused THEN before ELSE state
  /\ UNCHANGED <<state, reason, action, flags, flows, fast, detach, imu, history, given>>

WatchdogPauses ==
  /\ watchdog
  /\ watchdog' = FALSE
  /\ reason' = "error"
  /\ state' = "paused"
  /\ UNCHANGED <<before, action, flags, flows, fast, detach, imu, history, bounds>>

\* motion_active_: a loop sets it at its start, a flow once it has motion_mtx_
InMotion(f) ==
  \/ mtx = f /\ flow[f].cmd \in Stepping \cup {"realign", "return_home"}
  \/ flow[f].cmd \in Loops /\ flow[f].step <= 1 /\ flow[f].op = 0

\* Nothing has come from the crane for longer than crane_wd_abort_ms_ (off unless it is
\* set) while motion_active_: the flow is aborted, and the state stays as it is
LinkAborts ==
  /\ Event
  /\ ~watchdog /\ ~abort
  /\ \E f \in Flow : InMotion(f)
  /\ RaiseAbort
  /\ UNCHANGED <<state, pausing, pause, imuAsk, flows, fast, detach, watchdog, imu,
                 heldAt, given>>

\* The average tilt has been beyond IMU_EMERGENCY_DEG long enough
TiltEmergency ==
  /\ Event
  /\ monitor = "idle" /\ ~abort
  /\ RaiseAbort
  /\ monitor' = "stopping"
  /\ UNCHANGED <<state, pausing, pause, imuAsk, flows, fast, detach, watchdog, askSent,
                 waitBefore, heldAt, given>>

TiltStopped ==
  /\ monitor = "stopping"
  /\ monitor' = "idle"
  /\ state' = "error"
  /\ UNCHANGED <<pausing, flags, flows, fast, detach, watchdog, askSent, waitBefore,
                 history, bounds>>

\* The average tilt has been beyond imu_ask_deg long enough
TiltAsks ==
  /\ Event
  /\ monitor = "idle" /\ ~askSent
  /\ askSent' = TRUE
  /\ imuAsk' = TRUE
  /\ IF state \in {"running", "attached"}
     THEN /\ waitBefore' = state
          /\ reason' = "balance_ask"
          /\ state' = "paused"
     ELSE UNCHANGED <<waitBefore, reason, state>>
  /\ UNCHANGED <<before, action, abort, pause, flows, fast, detach, watchdog, monitor,
                 history, given>>

\* The average tilt is small again
TiltOver ==
  /\ monitor = "idle" /\ askSent
  /\ state' = IF state = "paused" /\ reason = "balance_ask" THEN waitBefore ELSE state
  /\ askSent' = FALSE
  /\ imuAsk' = FALSE
  /\ UNCHANGED <<pausing, abort, pause, flows, fast, detach, watchdog, monitor,
                 waitBefore, history, bounds>>

Background ==
  \/ DetachDone
  \/ WatchdogPauses
  \/ TiltStopped

Next ==
  \/ \E f \in Flow : FlowStep(f)
  \/ \E cmd \in Commands : Enter(cmd)
  \/ \E c \in Client : Receive(c) \/ EmergencyStop(c) \/ FastStep(c)
  \/ Background
  \/ WatchdogSees \/ LinkAborts
  \/ TiltEmergency \/ TiltAsks \/ TiltOver

Spec == Init /\ [][Next]_vars

-----------------------------------------------------------------------------
(* Properties.                                                             *)

Places == {"idle", "sweep", "sweeping", "swept", "top", "lock", "try", "go", "op", "check", "ask", "parked",
           "failed", "done", "turn", "wait"}

FlowType == [cmd   : AllCommands \cup {"none"},
             at    : Places,
             op    : 0..4,
             step  : 0..MaxSteps,
             entry : States]

\* Every variable keeps its type, and a loop makes no step beyond those it was asked for
TypeOK ==
  /\ state \in States /\ before \in States /\ waitBefore \in States
  /\ reason \in Reasons
  /\ action \in {"none", "retry", "skip"}
  /\ abort \in BOOLEAN /\ pause \in BOOLEAN /\ imuAsk \in BOOLEAN
  /\ stepping \in BOOLEAN /\ askSent \in BOOLEAN
  /\ watchdog \in BOOLEAN
  /\ monitor \in {"idle", "stopping"}
  /\ mtx \in Flow \cup {NoFlow}
  /\ flow \in [Flow -> FlowType]
  /\ fast \in [Client -> {"none", "pause", "resume", "continue", "skip", "reset", "stop"}]
  /\ detach \in BOOLEAN
  /\ since \in [Flow -> 0..3]
  /\ heldAt \in [Flow -> 0..4]
  /\ given \in 0..MaxGiven /\ events \in 0..MaxEvents

\* An emergency stop, by command, by tilt or by a silent link, that finds a flow past motion_mtx_ is not
\* outrun by it: at most the operation whose test has already been passed begins after it,
\* whatever the operator answers, unless a reset or a manual pusher command takes the
\* flag away (try_or_pause_, check_abort_ and await_user_intervention_ together).  The
\* exception is the end of init, which calibrates the arm without looking at the flag.
StopHolds ==
  \A f \in Flow : since[f] <= 2 \/ (flow[f].cmd = "init" /\ flow[f].op = Len(InitOps))

\* A step, a run, a script or a return_home that cmd_pause finds past motion_mtx_ gets at most one
\* operation further until the pause is lifted, also when an operation fails meanwhile and
\* the operator has it retried or skipped
PauseHolds ==
  \A f \in Flow : heldAt[f] # 0 => flow[f].op <= heldAt[f] + 1
=============================================================================
