--------------------------------- MODULE Rail ---------------------------------
(***************************************************************************)
(* The rail that carries the arm along the body (DM2J drive):              *)
(* app/wash_robot_commands.cpp, the rail_* commands, and the sweeps of the *)
(* clean commands.                                                         *)
(*                                                                         *)
(* A move to a position ends by itself; the commands that make one hold    *)
(* motion_mtx_.  A jog runs until it is stopped: the page repeats it every *)
(* 300 ms while a key is held, and rail_jog_monitor_loop_ stops a jog that *)
(* is no longer repeated or comes near an end.  The command of a jog is    *)
(* over before the drive stops, so no lock is held while it runs, and      *)
(* rail_jog_dir_ is all the monitor has to know it by.                     *)
(***************************************************************************)
EXTENDS Integers

CONSTANTS
  Op,           \* threads that execute commands
  Sweep,        \* the detached thread of rail_sweep
  Mon,          \* rail_jog_mon_thread_
  Free,         \* motion_mtx_ has no owner
  MaxCommands,  \* bound: commands
  MaxFaults     \* bound: exchanges with the drive that fail

ASSUME ThreadAssumption == Sweep \notin Op /\ Mon \notin Op \cup {Sweep} /\ Free \notin Op \cup {Sweep}
ASSUME BoundAssumption == MaxCommands \in Nat /\ MaxFaults \in Nat

VARIABLES
  drive,      \* what the drive does: Rest, a jog 1 or -1, or ToTarget
  enabled,    \* is the motor energised?
  edge,       \* the end whose margin the rail is in: 1, -1, or 0
  zeroed,     \* do the drive's positions mean what the limits assume?
  dir,        \* rail_jog_dir_
  beat,       \* age of rail_jog_last_ms_: "fresh", or beyond RAIL_JOG_DEADMAN_MS
  mtx,        \* owner of motion_mtx_
  sweeping,   \* rail_sweep_running_
  sweepStop,  \* rail_sweep_stop_
  pc,         \* where each thread is
  arg,        \* a jog's direction
  leg,        \* legs the sweep, or a clean command, has left
  tries,      \* attempts to send a move
  commands, faults,
  why         \* history: why the drive may jog unwatched

motor  == <<enabled, edge, zeroed>>
watch  == <<dir, beat>>
sweep  == <<sweeping, sweepStop>>
local  == <<arg, leg, tries>>
vars   == <<drive, motor, watch, mtx, sweep, pc, local, commands, faults, why>>

Mover  == Op \cup {Sweep}
Thread == Mover \cup {Mon}
Jogs   == {1, -1}
Rest   == 0
ToTarget == 2
Attempts == 3   \* RAIL_SEND_ATTEMPTS

Init ==
  /\ drive = Rest /\ enabled = TRUE /\ edge = -1 /\ zeroed = TRUE
  /\ dir = 0 /\ beat = "stale"
  /\ mtx = Free
  /\ sweeping = FALSE /\ sweepStop = FALSE
  /\ pc = [t \in Thread |-> "idle"]
  /\ arg = [o \in Op |-> 0]
  /\ leg = [t \in Mover |-> 0]
  /\ tries = [t \in Mover |-> 0]
  /\ commands = 0 /\ faults = 0
  /\ why = {}

-----------------------------------------------------------------------------
Goto(t, label) == pc' = [pc EXCEPT ![t] = label]
Fault == faults < MaxFaults /\ faults' = faults + 1
NoFault == UNCHANGED faults
Jogging == drive \in Jogs

Command(o, label) ==
  /\ pc[o] = "idle"
  /\ commands < MaxCommands /\ commands' = commands + 1
  /\ Goto(o, label)

\* try_to_lock: a command that finds motion_mtx_ taken answers ERR busy, which is
\* no step
LocksAnyway(o) == mtx' = o   \* mutant
TryLock(o) == mtx = Free /\ mtx' = o
Unlock(t) == mtx' = IF mtx = t THEN Free ELSE mtx

\* writeSingle to the drive: echoed; not carried out; carried out without an echo.
\* The drive without current does not move
Order(d) == drive' = IF enabled THEN d ELSE Rest
Answered(d) == Order(d) /\ NoFault
Lost        == UNCHANGED drive /\ Fault
Unanswered(d) == Order(d) /\ Fault

\* jog_stop, whose result nobody looks at
JogStops ==
  \/ Answered(Rest) /\ why' = {}
  \/ Unanswered(Rest) /\ why' = {}
  \/ Lost /\ why' = IF Jogging THEN why \cup {"stop_lost"} ELSE why

\* The position says that the rail is in the margin of the end d.  After a
\* rail_zero in the wrong place it may say anything
SaysLimit(d) == IF zeroed THEN edge = d ELSE TRUE
SaysFar(d)   == IF zeroed THEN edge # d ELSE TRUE

-----------------------------------------------------------------------------
(* rail_jog *)

Jog(o, d) ==
  /\ Command(o, "jog_look")
  /\ TryLock(o)
  /\ arg' = [arg EXCEPT ![o] = d]
  /\ UNCHANGED <<drive, motor, watch, sweep, leg, tries, faults, why>>

\* At the end it jogs to: stopped instead.  Not read: no limit
JogLook(o) ==
  /\ pc[o] = "jog_look"
  /\ \/ NoFault /\ SaysLimit(arg[o]) /\ Goto(o, "limit")
     \/ NoFault /\ SaysFar(arg[o]) /\ Goto(o, "speed")
     \/ Fault /\ Goto(o, "speed")
  /\ UNCHANGED <<drive, motor, watch, mtx, sweep, local, commands, why>>

LimitForgetsStop(o) ==   \* mutant: the end is reported, the drive is not stopped
  /\ pc[o] = "limit" /\ Goto(o, "idle") /\ Unlock(o) /\ dir' = 0
  /\ UNCHANGED <<drive, motor, beat, sweep, local, commands, faults, why>>
JogLimit(o) ==
  /\ \/ pc[o] = "limit" /\ JogStops /\ Goto(o, "limit_dir") /\ UNCHANGED <<dir, mtx>>
     \/ /\ pc[o] = "limit_dir"
        /\ dir' = 0
        /\ Unlock(o) /\ Goto(o, "idle")
        /\ UNCHANGED <<drive, faults, why>>
  /\ UNCHANGED <<motor, beat, sweep, local, commands>>

JogSpeed(o) ==
  /\ pc[o] = "speed"
  /\ \/ NoFault /\ Goto(o, "send") /\ UNCHANGED mtx
     \/ Fault /\ Goto(o, "idle") /\ Unlock(o)
  /\ UNCHANGED <<drive, motor, watch, sweep, local, commands, why>>

JogSend(o) ==
  /\ pc[o] = "send"
  /\ \/ Answered(arg[o]) /\ Goto(o, "dir") /\ UNCHANGED <<mtx, why>>
     \/ /\ Lost
        /\ Goto(o, "idle") /\ Unlock(o)
        /\ UNCHANGED why
     \/ /\ Unanswered(arg[o])
        /\ Goto(o, "idle") /\ Unlock(o)
        /\ why' = IF dir = 0 THEN why \cup {"start_unanswered"} ELSE why
  /\ UNCHANGED <<motor, watch, sweep, local, commands>>

\* The direction is stored, then the heartbeat
JogWatches(o) ==
  /\ \/ pc[o] = "dir" /\ dir' = arg[o] /\ Goto(o, "beat") /\ UNCHANGED <<beat, mtx>>
     \/ pc[o] = "beat" /\ beat' = "fresh" /\ Goto(o, "idle") /\ Unlock(o) /\ UNCHANGED dir
  /\ UNCHANGED <<drive, motor, sweep, local, commands, faults, why>>

\* rail_jog stop: unwatched first; the lock if it is free; the stop in any case
JogStop(o) ==
  /\ Command(o, "stop")
  /\ dir' = 0
  /\ mtx' \in {mtx, IF mtx = Free THEN o ELSE mtx}
  /\ UNCHANGED <<drive, motor, beat, sweep, local, faults, why>>

JogStopSend(o) ==
  /\ pc[o] = "stop"
  /\ JogStops
  /\ Goto(o, "idle") /\ Unlock(o)
  /\ UNCHANGED <<motor, watch, sweep, local, commands>>

-----------------------------------------------------------------------------
(* rail_jog_monitor_loop_ *)

\* Overdue, or near the end it jogs to by a position that could be read
NeverOverdue == FALSE   \* mutant
Overdue == beat = "stale"
MonLook ==
  /\ pc[Mon] = "idle" /\ dir # 0
  /\ Overdue \/ SaysLimit(dir)
  /\ Goto(Mon, "stop")
  /\ UNCHANGED <<drive, motor, watch, mtx, sweep, local, commands, faults, why>>

MonStop ==
  /\ pc[Mon] = "stop"
  /\ JogStops
  /\ Goto(Mon, "dir")
  /\ UNCHANGED <<motor, watch, mtx, sweep, local, commands>>

\* Only now unwatched: also a jog that has begun since the stop
MonDir ==
  /\ pc[Mon] = "dir"
  /\ dir' = 0
  /\ Goto(Mon, "idle")
  /\ why' = IF Jogging THEN why \cup {"monitor_late"} ELSE why
  /\ UNCHANGED <<drive, motor, beat, mtx, sweep, local, commands, faults>>

Monitor == MonLook \/ MonStop \/ MonDir

-----------------------------------------------------------------------------
(* rail <cm>, alone or as a leg of rail_sweep *)

RailMove(o) ==
  /\ Command(o, "goto")
  /\ TryLock(o)
  /\ tries' = [tries EXCEPT ![o] = Attempts]
  /\ UNCHANGED <<drive, motor, watch, sweep, arg, leg, faults, why>>

\* PR_move_cm_nowait: a failed write is tried again, and ERR after the last
GotoSend(t) ==
  /\ pc[t] = "goto"
  /\ \/ Answered(ToTarget) /\ Goto(t, "wait") /\ why' = {} /\ UNCHANGED <<mtx, tries>>
     \/ /\ Lost \/ Unanswered(ToTarget)
        /\ tries' = [tries EXCEPT ![t] = @ - 1]
        /\ IF tries[t] = 1 THEN Goto(t, "failed") ELSE Goto(t, "goto")
        /\ why' = IF drive' = ToTarget THEN {} ELSE why
        /\ UNCHANGED mtx
  /\ UNCHANGED <<motor, watch, sweep, arg, leg, commands>>

\* dm2j_wait_done_: done, stopped by somebody else too; or a status that could not
\* be read, a fault of the drive, the time over
GotoWait(t) ==
  /\ pc[t] = "wait"
  /\ \/ drive # ToTarget /\ NoFault /\ Goto(t, "moved")
     \/ Fault /\ Goto(t, "failed")
  /\ UNCHANGED <<drive, motor, watch, mtx, sweep, local, commands, why>>

MoveEnds(o) ==
  /\ pc[o] \in {"moved", "failed"}
  /\ o \in Op
  /\ Goto(o, "idle") /\ Unlock(o)
  /\ tries' = [tries EXCEPT ![o] = 0]
  /\ UNCHANGED <<drive, motor, watch, sweep, arg, leg, commands, faults, why>>

SweepStart(o) ==
  /\ ~sweeping
  /\ commands < MaxCommands /\ commands' = commands + 1
  /\ pc[o] = "idle"
  /\ sweeping' = TRUE /\ sweepStop' = FALSE
  /\ pc' = [pc EXCEPT ![Sweep] = "leg"]
  /\ leg' = [leg EXCEPT ![Sweep] = 3]
  /\ UNCHANGED <<drive, motor, watch, mtx, arg, tries, faults, why>>

SweepStopAsked(o) ==
  /\ pc[o] = "idle"
  /\ commands < MaxCommands /\ commands' = commands + 1
  /\ sweeping /\ sweepStop' = TRUE
  /\ UNCHANGED <<drive, motor, watch, mtx, sweeping, pc, local, faults, why>>

\* Before each leg: stopped, or all three done, or a move that finds the lock free;
\* a taken lock is a failed leg
SweepLeg ==
  /\ pc[Sweep] = "leg"
  /\ IF sweepStop \/ leg[Sweep] = 0 \/ mtx # Free
     THEN Goto(Sweep, "end") /\ UNCHANGED <<mtx, leg, tries>>
     ELSE /\ mtx' = Sweep
          /\ Goto(Sweep, "goto")
          /\ leg' = [leg EXCEPT ![Sweep] = @ - 1]
          /\ tries' = [tries EXCEPT ![Sweep] = Attempts]
  /\ UNCHANGED <<drive, motor, watch, sweep, arg, commands, faults, why>>

SweepLegEnds ==
  /\ \/ pc[Sweep] = "moved" /\ Goto(Sweep, "leg")
     \/ pc[Sweep] = "failed" /\ Goto(Sweep, "end")
  /\ Unlock(Sweep)
  /\ UNCHANGED <<drive, motor, watch, sweep, local, commands, faults, why>>

SweepEnds ==
  /\ pc[Sweep] = "end"
  /\ sweeping' = FALSE
  /\ Goto(Sweep, "idle")
  /\ leg' = [leg EXCEPT ![Sweep] = 0]
  /\ tries' = [tries EXCEPT ![Sweep] = 0]
  /\ UNCHANGED <<drive, motor, watch, mtx, sweepStop, arg, commands, faults, why>>

SweepStep == SweepLeg \/ SweepLegEnds \/ SweepEnds

-----------------------------------------------------------------------------
(* arm_clean_sweep and arm_clean_sweep_dry: out and back, with motion_mtx_ *)

Clean(o) ==
  /\ Command(o, "clean")
  /\ UNCHANGED <<drive, motor, watch, mtx, sweep, local, faults, why>>

CleanLocks(o) ==
  /\ pc[o] = "clean"
  /\ mtx = Free /\ mtx' = o
  /\ leg' = [leg EXCEPT ![o] = 2]
  /\ Goto(o, "fire")
  /\ UNCHANGED <<drive, motor, watch, sweep, arg, tries, commands, faults, why>>

\* arm_sweep_fire_nowait_: three writes, of which one will do, then a time of its own,
\* whether the rail has arrived or not
CleanFires(o) ==
  /\ pc[o] = "fire" /\ leg[o] > 0
  /\ Answered(ToTarget) \/ Lost
  /\ why' = IF drive' = ToTarget THEN {} ELSE why
  /\ leg' = [leg EXCEPT ![o] = @ - 1]
  /\ UNCHANGED <<motor, watch, mtx, sweep, pc, arg, tries, commands>>

CleanEnds(o) ==
  /\ pc[o] = "fire"   \* before a move: the arm is off, or the command aborted
  /\ leg' = [leg EXCEPT ![o] = 0]
  /\ Goto(o, "idle") /\ Unlock(o)
  /\ UNCHANGED <<drive, motor, watch, sweep, arg, tries, commands, faults, why>>

-----------------------------------------------------------------------------
\* rail_enable: a drive without current comes to rest, and forgets what it did
RailEnable(o, on) ==
  /\ Command(o, "idle")
  /\ mtx = Free
  /\ \/ enabled' = on /\ NoFault
     \/ enabled' \in {on, enabled} /\ Fault
  /\ drive' = IF enabled' THEN drive ELSE Rest
  /\ why' = IF enabled' THEN why ELSE {}
  /\ UNCHANGED <<edge, zeroed, watch, mtx, sweep, local>>

\* rail_zero: here is 0
RailZero(o) ==
  /\ Command(o, "idle")
  /\ mtx = Free
  /\ \/ zeroed' = (edge = -1) /\ NoFault
     \/ zeroed' \in {edge = -1, zeroed} /\ Fault
  /\ UNCHANGED <<drive, enabled, edge, watch, mtx, sweep, local, why>>

\* rail_cfg_soft_enable: its last write to the drive's state is motor_enable
RailCfg(o) ==
  /\ Command(o, "idle")
  /\ mtx = Free
  /\ enabled' \in {TRUE, enabled}
  /\ UNCHANGED <<drive, edge, zeroed, watch, mtx, sweep, local, faults, why>>

\* The rail moves; a move arrives
RailRuns ==
  /\ \/ Jogging /\ edge # drive /\ edge' = edge + drive /\ UNCHANGED drive
     \/ drive = ToTarget /\ edge' \in {-1, 0, 1} /\ drive' = Rest
  /\ UNCHANGED <<enabled, zeroed, watch, mtx, sweep, pc, local, commands, faults, why>>

TimePasses ==
  /\ beat = "fresh" /\ beat' = "stale"
  /\ UNCHANGED <<drive, motor, dir, mtx, sweep, pc, local, commands, faults, why>>

-----------------------------------------------------------------------------
JogSteps(o) ==
  JogLook(o) \/ JogLimit(o) \/ JogSpeed(o) \/ JogSend(o) \/ JogWatches(o) \/ JogStopSend(o)
MoveSteps(t) == GotoSend(t) \/ GotoWait(t)
CleanSteps(o) == CleanLocks(o) \/ CleanFires(o) \/ CleanEnds(o)
Commands(o) ==
  \/ \E d \in Jogs : Jog(o, d)
  \/ JogStop(o) \/ RailMove(o) \/ SweepStart(o) \/ SweepStopAsked(o) \/ Clean(o)
  \/ \E on \in BOOLEAN : RailEnable(o, on)
  \/ RailZero(o) \/ RailCfg(o)

Next ==
  \/ \E o \in Op : Commands(o) \/ JogSteps(o) \/ MoveEnds(o) \/ CleanSteps(o)
  \/ \E t \in Mover : MoveSteps(t)
  \/ Monitor \/ SweepStep
  \/ RailRuns \/ TimePasses

Spec == Init /\ [][Next]_vars

\* The monitor's thread runs for ever, a command goes on, and time passes
FairSpec ==
  /\ Spec
  /\ WF_vars(Monitor) /\ WF_vars(TimePasses)
  /\ \A o \in Op : WF_vars(JogSteps(o))

-----------------------------------------------------------------------------
Locked == {"jog_look", "limit", "limit_dir", "speed", "send", "dir", "beat",
           "goto", "wait", "moved", "failed", "fire"}

JogPart == {"jog_look", "limit", "limit_dir", "speed", "send", "dir", "beat"}
Label == Locked \cup {"idle", "stop", "clean", "leg", "end"}

\* Every variable is of its type: a jog has a direction, a move is sent only with
\* attempts left, and a thread is inside a locked section exactly while it owns
\* motion_mtx_, which rail_jog stop alone may do without
TypeOK ==
  /\ drive \in {Rest, ToTarget} \cup Jogs
  /\ enabled \in BOOLEAN /\ zeroed \in BOOLEAN
  /\ sweeping \in BOOLEAN /\ sweepStop \in BOOLEAN
  /\ edge \in {-1, 0, 1} /\ dir \in {-1, 0, 1}
  /\ beat \in {"fresh", "stale"}
  /\ pc \in [Thread -> Label]
  /\ mtx \in Mover \cup {Free}
  /\ arg \in [Op -> {-1, 0, 1}]
  /\ leg \in [Mover -> 0..3] /\ tries \in [Mover -> 0..Attempts]
  /\ commands \in 0..MaxCommands /\ faults \in 0..MaxFaults
  /\ why \in SUBSET {"stop_lost", "start_unanswered", "monitor_late"}
  /\ \A t \in Mover : pc[t] \in Locked => mtx = t
  /\ \A t \in Mover : pc[t] = "goto" => tries[t] > 0
  /\ \A o \in Op : pc[o] \in JogPart => arg[o] \in Jogs
  /\ mtx # Free => pc[mtx] \in Locked \cup {"stop"}
  /\ sweeping <=> pc[Sweep] # "idle"

Stopping == \E t \in Thread : pc[t] \in {"stop", "limit"}
Starting == \E o \in Op : pc[o] = "dir"

\* A jog that nobody watches would only end at the hard stop (WASH_ROBOT.h:1612).
\* Three things alone leave one: a jog_stop lost on the bus, which nobody repeats
\* because its caller forgets the jog whatever the drive answered; a start that the
\* drive carried out without an answer; and a start between the monitor's stop and
\* its store
UnwatchedExplained == Jogging /\ dir = 0 => Stopping \/ Starting \/ why # {}

\* A jog whose commands stop coming (their number is bounded) ends without any
\* further command, but for the three cases above (rail_jog_monitor_loop_, 567-590)
JogEnds == Jogging ~> ~Jogging \/ why # {}
=============================================================================
