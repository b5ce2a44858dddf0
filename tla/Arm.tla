-------------------------------- MODULE Arm ---------------------------------
(***************************************************************************)
(* The cleaning arm's motor service, cleaning_arm/main_api.cpp.            *)
(*                                                                         *)
(* M1 carries the tool to the glass and M2 turns it.  Every connection has *)
(* a thread that runs one command at a time to its end, the boot thread    *)
(* runs STARTUP and INIT, and nothing makes their commands exclusive.  A   *)
(* motor's flag "enabled" lets feedback_loop write its frames.  A routine  *)
(* that writes them itself takes the flag by exchange(false) and gives     *)
(* back what it took, so the flag works as a token.                        *)
(*                                                                         *)
(* A thread is at a label "at" of its command and, in a routine it has     *)
(* called, at a label "sub"; the routine's result is in "ok".  Where M2's  *)
(* stop and slots are (lr_stop_pos) is left out.                           *)
(***************************************************************************)
EXTENDS Naturals, FiniteSets

CONSTANTS
  Thread,     \* the connections' threads and the boot thread
  Boot,       \* the boot thread; it stands for a connection afterwards
  Commands,   \* the <<command, motor>> pairs a connection may send
  MaxCommands \* bound: commands, the one at boot included

ASSUME BootAssumption == Boot \in Thread
ASSUME MaxAssumption == MaxCommands \in Nat \ {0}

M1 == "M1"
M2 == "M2"
Motor == {M1, M2}
Kinds == {"ENABLE", "DISABLE", "ZERO", "HOME", "CALIBRATE", "LR_CALIBRATE", "LR_SLOT", "HOLD",
          "UNHOLD", "MOVETO", "TOUCHWALL", "FREE_HANG", "INIT", "DEPLOY", "DEPLOY_F",
          "SETFORCE", "PARK"}

ASSUME CommandsAssumption == Commands \subseteq Kinds \X Motor

Peer(m) == IF m = M1 THEN M2 ELSE M1

VARIABLES
  enabled, hold, moving, \* MotorSlot's atomics
  hw,       \* is the motor energised?
  read1,    \* M1's position as its encoder reads it
  goal,     \* move_target of M1
  lrCal,    \* lr_calibrated
  initDone, \* init_done_
  th,       \* what each thread is doing
  sent,     \* commands sent
  wanted,   \* history: enabled last, not disabled
  wiped,    \* history: motors whose flag lr_calibrate_slot cleared unasked
  limp,     \* history: motors told to give up their hold
  crossed   \* history: motors in two threads' routines at once

flags == <<enabled, hold, moving>>
arm   == <<read1, goal>>
hist  == <<wanted, wiped, limp, sent>>
vars  == <<flags, hw, arm, lrCal, initDone, th, hist, crossed>>

NoCommand == <<"-", M1>>
Idle == [cmd |-> NoCommand, at |-> "-", sub |-> "-", m |-> M1,
         got |-> FALSE, peer |-> FALSE, ok |-> FALSE]

Reading == {"home", "near", "out", "bad"}

\* init() leaves both motors disabled; M1's encoder may read out of its range
Init ==
  /\ enabled = [m \in Motor |-> FALSE]
  /\ hold = [m \in Motor |-> FALSE]
  /\ moving = [m \in Motor |-> FALSE]
  /\ hw = [m \in Motor |-> FALSE]
  /\ read1 \in Reading
  /\ goal = "near"
  /\ lrCal = TRUE
  /\ initDone = FALSE
  /\ \E auto \in BOOLEAN :  \* ARM_NO_AUTOSTART is not set
       /\ th = [t \in Thread |->
                 IF t = Boot /\ auto THEN [Idle EXCEPT !.cmd = <<"STARTUP", M1>>, !.at = "su"]
                 ELSE Idle]
       /\ sent = IF auto THEN 1 ELSE 0
  /\ wanted = [m \in Motor |-> FALSE]
  /\ wiped = {}
  /\ limp = {}
  /\ crossed = {}

-----------------------------------------------------------------------------
\* Control of a thread

Op(t) == th[t].cmd[1]
Busy(t) == th[t].at # "-"
At(t, label) == th[t].at = label /\ th[t].sub = "-"
In(t, label) == th[t].sub = label
Go(t, label) == th' = [th EXCEPT ![t].sub = label]
Jump(t, label) == th' = [th EXCEPT ![t].at = label]
Finish(t) == th' = [th EXCEPT ![t] = Idle]

\* The motors a routine at that label works on: it stops the peer, too
Pausing == {"en.limp", "en.off", "en.window", "en.arm", "en.on", "cal.begin", "cal.seek",
            "cal.zero", "cal.end", "lr.limp", "lr.begin", "lr.seek", "lr.back",
            "lr.centre", "lr.zero", "lr.done", "lr.end"}
Touched(label, m) == IF label = "-" THEN {}
                     ELSE IF label \in Pausing THEN Motor ELSE {m}
Crossing(t, label, m) ==
  UNION {Touched(th[u].sub, th[u].m) \cup Touched(label, m) :
           u \in {v \in Thread \ {t} : Touched(th[v].sub, th[v].m) \cap Touched(label, m) # {}}}

Call(t, label, m, next) ==
  /\ th' = [th EXCEPT ![t].sub = label, ![t].m = m, ![t].at = next]
  /\ crossed' = crossed \cup Crossing(t, label, m)
Return(t, ok) ==
  th' = [th EXCEPT ![t].sub = "-", ![t].ok = ok, ![t].got = FALSE, ![t].peer = FALSE]

\* exchange(false) on the motor's flag, and on its peer's
Take(t, m) ==
  /\ enabled' = [enabled EXCEPT ![m] = FALSE]
  /\ th' = [th EXCEPT ![t].got = enabled[m], ![t].sub =
              IF th[t].sub = "home.begin" THEN "home.ramp" ELSE "slot.ramp"]
TakeBoth(t, m, label) ==
  /\ enabled' = [n \in Motor |-> FALSE]
  /\ th' = [th EXCEPT ![t].got = enabled[m], ![t].peer = enabled[Peer(m)], ![t].sub = label]
\* if (was_enabled) s.enabled = true; if (was_peer) peer.enabled = true
GivenBack(t) ==
  [m \in Motor |-> \/ enabled[m]
                   \/ m = th[t].m /\ th[t].got
                   \/ m # th[t].m /\ th[t].peer]

Set(f, m, b) == [f EXCEPT ![m] = b]

-----------------------------------------------------------------------------
\* enable_slot

EnableLimp(t) == LET m == th[t].m IN
  /\ In(t, "en.limp")
  /\ hold' = Set(hold, m, FALSE)
  /\ moving' = Set(moving, m, FALSE)
  /\ Go(t, "en.off")
  /\ UNCHANGED <<enabled, hw, arm, lrCal, initDone, hist, crossed>>

EnableOff(t) == LET m == th[t].m IN
  /\ In(t, "en.off")
  /\ enabled' = [n \in Motor |-> FALSE]
  /\ th' = [th EXCEPT ![t].peer = enabled[Peer(m)], ![t].sub = "en.window"]
  /\ UNCHANGED <<hold, moving, hw, arm, lrCal, initDone, hist, crossed>>

\* The routines that write frames of their own, and who writes a motor's frames
Driving == {"home.ramp", "home.end", "cal.seek", "cal.zero", "cal.end", "lr.seek",
            "lr.back", "lr.centre", "lr.zero", "lr.end", "slot.ramp", "slot.end"}
Drivers(m) == {t \in Thread : th[t].m = m /\ th[t].sub \in Driving}

\* dm_->enable writes to the serial line without motor_mutex_: a frame written at
\* the same time may spoil it
EnableWindow(t) == LET m == th[t].m IN
  /\ In(t, "en.window")
  /\ \E done \in IF \E n \in Motor : enabled[n] \/ Drivers(n) \ {t} # {}
                 THEN BOOLEAN ELSE {TRUE} : hw' = Set(hw, m, done)
  /\ Go(t, "en.arm")
  /\ UNCHANGED <<flags, arm, lrCal, initDone, hist, crossed>>

NeverHolds(t) == LET m == th[t].m IN  \* mutant
  /\ In(t, "en.arm")
  /\ enabled' = [enabled EXCEPT ![Peer(m)] = @ \/ th[t].peer]
  /\ limp' = limp \ {m}
  /\ th' = [th EXCEPT ![t].peer = FALSE, ![t].sub = "en.on"]
  /\ UNCHANGED <<hold, moving, hw, arm, lrCal, initDone, wanted, wiped, sent, crossed>>
KeepsPeer(t) == LET m == th[t].m IN  \* mutant
  /\ In(t, "en.arm")
  /\ hold' = Set(hold, m, TRUE)
  /\ limp' = limp \ {m}
  /\ th' = [th EXCEPT ![t].peer = FALSE, ![t].sub = "en.on"]
  /\ UNCHANGED <<enabled, moving, hw, arm, lrCal, initDone, wanted, wiped, sent, crossed>>
EnableArm(t) == LET m == th[t].m IN
  /\ In(t, "en.arm")
  /\ enabled' = [enabled EXCEPT ![Peer(m)] = @ \/ th[t].peer]
  /\ hold' = Set(hold, m, TRUE)
  /\ limp' = limp \ {m}
  /\ th' = [th EXCEPT ![t].peer = FALSE, ![t].sub = "en.on"]
  /\ UNCHANGED <<moving, hw, arm, lrCal, initDone, wanted, wiped, sent, crossed>>

EnableOn(t) == LET m == th[t].m IN
  /\ In(t, "en.on")
  /\ enabled' = Set(enabled, m, TRUE)
  /\ wanted' = Set(wanted, m, TRUE)
  /\ wiped' = wiped \ {m}
  /\ Return(t, TRUE)
  /\ UNCHANGED <<hold, moving, hw, arm, lrCal, initDone, limp, sent, crossed>>

\* disable_slot
DisableFlags(t) == LET m == th[t].m IN
  /\ In(t, "dis.flags")
  /\ enabled' = Set(enabled, m, FALSE)
  /\ hold' = Set(hold, m, FALSE)
  /\ moving' = Set(moving, m, FALSE)
  /\ wanted' = Set(wanted, m, FALSE)
  /\ Go(t, "dis.hw")
  /\ UNCHANGED <<hw, arm, lrCal, initDone, wiped, limp, sent, crossed>>

DisableHw(t) ==
  /\ In(t, "dis.hw")
  /\ hw' = Set(hw, th[t].m, FALSE)
  /\ Return(t, TRUE)
  /\ UNCHANGED <<flags, arm, lrCal, initDone, hist, crossed>>

\* The zero of a motor moves to where it is
Zeroed(m) ==
  /\ read1' = IF m = M1 THEN "home" ELSE read1
  /\ UNCHANGED goal

\* set_zero_slot
ZeroLimp(t) == LET m == th[t].m IN
  /\ In(t, "zero.limp")
  /\ hold' = Set(hold, m, FALSE)
  /\ moving' = Set(moving, m, FALSE)
  /\ limp' = limp \cup {m}
  /\ Go(t, "zero.set")
  /\ UNCHANGED <<enabled, hw, arm, lrCal, initDone, wanted, wiped, sent, crossed>>
ZeroSet(t) ==
  /\ In(t, "zero.set")
  /\ Zeroed(th[t].m)
  /\ Return(t, TRUE)
  /\ UNCHANGED <<flags, hw, lrCal, initDone, hist, crossed>>

-----------------------------------------------------------------------------
\* go_home_slot

HomeBegin(t) ==
  /\ In(t, "home.begin")
  /\ Take(t, th[t].m)
  /\ UNCHANGED <<hold, moving, hw, arm, lrCal, initDone, hist, crossed>>

\* A probe before the ramp and a watchdog in it enable M1 again when it gives no
\* torque.  The arm arrives, or stops short when the ramp and the settling run out
HomeTorque(m) ==
  hw' \in IF m = M1 /\ ~hw[m] /\ read1 # "home" THEN {hw, Set(hw, m, TRUE)} ELSE {hw}
HomeSettles(t, m) ==
  IF m = M1
    THEN \/ /\ hw'[m] \/ read1 = "home"
            /\ read1' = "home"
            /\ th' = [th EXCEPT ![t].sub = "home.end", ![t].ok = TRUE]
         \/ /\ read1' \in IF hw'[m] THEN {"near", "out"} ELSE {read1} \ {"home"}
            /\ th' = [th EXCEPT ![t].sub = "home.end", ![t].ok = FALSE]
    ELSE /\ read1' = read1
         /\ \E ok \in BOOLEAN : th' = [th EXCEPT ![t].sub = "home.end", ![t].ok = ok]
HomeRamp(t) ==
  /\ In(t, "home.ramp")
  /\ HomeTorque(th[t].m)
  /\ HomeSettles(t, th[t].m)
  /\ UNCHANGED <<flags, goal, lrCal, initDone, hist, crossed>>

\* Holding, and the flag given back: also the end of the other routines
RoutineEnd(t) == LET m == th[t].m IN
  /\ hold' = Set(hold, m, TRUE)
  /\ moving' = Set(moving, m, FALSE)
  /\ enabled' = GivenBack(t)
  /\ Return(t, th[t].ok)
  /\ UNCHANGED <<hw, arm, initDone, hist, crossed>>
HomeEnd(t) == In(t, "home.end") /\ RoutineEnd(t) /\ UNCHANGED lrCal

-----------------------------------------------------------------------------
\* calibrate_arm_slot, M1

CalBegin(t) ==
  /\ In(t, "cal.begin")
  /\ TakeBoth(t, M1, "cal.seek")
  /\ UNCHANGED <<hold, moving, hw, arm, lrCal, initDone, hist, crossed>>

\* At the stop already, when the encoder reads home; the stop found; no stop found,
\* near enough for the stop if it never moved; no stop found, and the arm somewhere
CalSeek(t) ==
  /\ In(t, "cal.seek")
  /\ \/ read1 = "home" /\ Go(t, "cal.zero") /\ UNCHANGED read1
     \/ /\ read1 # "home"
        /\ hw[M1]
        /\ read1' = "home"
        /\ Go(t, "cal.zero")
     \/ read1 = "near" /\ Go(t, "cal.zero") /\ UNCHANGED read1
     \/ /\ read1 # "home"
        /\ read1' \in IF hw[M1] THEN {"near", "out"} ELSE {read1}
        /\ th' = [th EXCEPT ![t].sub = "cal.end", ![t].ok = FALSE]
  /\ UNCHANGED <<flags, hw, goal, lrCal, initDone, hist, crossed>>

CalZero(t) ==
  /\ In(t, "cal.zero")
  /\ Zeroed(M1)
  /\ th' = [th EXCEPT ![t].sub = "cal.end", ![t].ok = TRUE]
  /\ UNCHANGED <<flags, hw, lrCal, initDone, hist, crossed>>

CalEnd(t) == In(t, "cal.end") /\ RoutineEnd(t) /\ UNCHANGED lrCal

-----------------------------------------------------------------------------
\* lr_calibrate_slot, M2, to either side first
LrLimp(t) ==
  /\ In(t, "lr.limp")
  /\ hold' = Set(hold, M2, FALSE)
  /\ moving' = Set(moving, M2, FALSE)
  /\ Go(t, "lr.begin")
  /\ UNCHANGED <<enabled, hw, arm, lrCal, initDone, hist, crossed>>

LrBegin(t) ==
  /\ In(t, "lr.begin")
  /\ TakeBoth(t, M2, "lr.seek")
  /\ UNCHANGED <<hold, moving, hw, arm, lrCal, initDone, hist, crossed>>

LrGivesUp(t) == th' = [th EXCEPT ![t].sub = "lr.end", ![t].ok = FALSE]

\* The motor is made to give torque, and sought with for the stop, or for what
\* resists like one
LrTorque == hw' = Set(hw, M2, TRUE)
LrSeek(t) ==
  /\ In(t, "lr.seek")
  /\ LrTorque
  /\ LrGivesUp(t) \/ Go(t, "lr.back")
  /\ UNCHANGED <<flags, arm, lrCal, initDone, hist, crossed>>

\* Phase 1B: the opposite stop, and a plausible range between the two
LrBack(t) ==
  /\ In(t, "lr.back")
  /\ LrGivesUp(t) \/ Go(t, "lr.centre")
  /\ UNCHANGED <<flags, hw, arm, lrCal, initDone, hist, crossed>>

\* Phase 2: to the middle, in two attempts
LrCentre(t) ==
  /\ In(t, "lr.centre")
  /\ \E converged \in BOOLEAN : th' = [th EXCEPT ![t].sub = "lr.zero", ![t].ok = converged]
  /\ UNCHANGED <<flags, hw, arm, lrCal, initDone, hist, crossed>>

\* Phase 3: the flag is cleared once more, and the zero set
LrZero(t) ==
  /\ In(t, "lr.zero")
  /\ enabled' = Set(enabled, M2, FALSE)
  /\ wiped' = IF enabled[M2] /\ ~th[t].got THEN wiped \cup {M2} ELSE wiped
  /\ Go(t, "lr.done")
  /\ UNCHANGED <<hold, moving, hw, arm, lrCal, initDone, wanted, limp, sent, crossed>>

LrDone(t) ==
  /\ In(t, "lr.done")
  /\ RoutineEnd(t)
  /\ lrCal' = th[t].ok
LrEnd(t) == In(t, "lr.end") /\ RoutineEnd(t) /\ UNCHANGED lrCal

\* lr_move_to_slot_impl, M2
SlotBegin(t) ==
  /\ In(t, "slot.begin")
  /\ Take(t, M2)
  /\ UNCHANGED <<hold, moving, hw, arm, lrCal, initDone, hist, crossed>>

SlotRamp(t) ==
  /\ In(t, "slot.ramp")
  /\ hw' = Set(hw, M2, TRUE)
  /\ \E converged \in BOOLEAN : th' = [th EXCEPT ![t].sub = "slot.end", ![t].ok = converged]
  /\ UNCHANGED <<flags, arm, lrCal, initDone, hist, crossed>>

SlotEnd(t) == In(t, "slot.end") /\ RoutineEnd(t) /\ UNCHANGED lrCal

-----------------------------------------------------------------------------
\* The feedback loop, for a motor whose flag is set

\* The commanded path of a move ends: it holds, wherever the motor is
MoveDone(m) ==
  /\ enabled[m]
  /\ moving[m]
  /\ moving' = Set(moving, m, FALSE)
  /\ hold' = Set(hold, m, TRUE)
  /\ read1' \in IF m = M1 /\ hw[M1] THEN {goal, read1} ELSE {read1}
  /\ UNCHANGED <<enabled, hw, goal, lrCal, initDone, th, hist, crossed>>

\* M1 gives no torque and is off its place: enabled again
Recover ==
  /\ enabled[M1]
  /\ moving[M1] \/ hold[M1]
  /\ ~hw[M1]
  /\ hw' = Set(hw, M1, TRUE)
  /\ UNCHANGED <<flags, arm, lrCal, initDone, th, hist, crossed>>

\* move_to_slot: the place asked for, M1's kept in goal
MoveTo(m, place) ==
  IF enabled[m]
    THEN /\ hold' = Set(hold, m, FALSE)
         /\ moving' = Set(moving, m, TRUE)
         /\ goal' = IF m = M1 THEN place ELSE goal
         /\ UNCHANGED <<enabled, read1>>
    ELSE UNCHANGED <<flags, arm>>

\* touch_wall_slot: a probe that enables a motor without torque, then the move
TouchWall(place) ==
  /\ MoveTo(M1, place)
  /\ hw' = IF enabled[M1] THEN Set(hw, M1, TRUE) ELSE hw

-----------------------------------------------------------------------------
\* Commands

\* client_thread hands dispatch a line while the thread has no command
Start(t) ==
  /\ ~Busy(t)
  /\ sent < MaxCommands
  /\ sent' = sent + 1
  /\ \E c \in Commands : th' = [th EXCEPT ![t] = [Idle EXCEPT !.cmd = c, !.at = c[1]]]
  /\ UNCHANGED <<flags, hw, arm, lrCal, initDone, wanted, wiped, limp, crossed>>

NoHist == UNCHANGED <<hist, crossed>>
OnlyTh == UNCHANGED <<flags, hw, arm, lrCal, initDone, hist>>

\* dispatch_motor: the commands that are one routine
Single(t) == LET m == th[t].cmd[2]
                 does(label) == Call(t, label, m, "done") IN
  /\ \/ At(t, "ENABLE") /\ does("en.limp")
     \/ At(t, "DISABLE") /\ does("dis.flags")
     \/ At(t, "ZERO") /\ does("zero.limp")
     \/ At(t, "HOME") /\ enabled[m] /\ does("home.begin")
     \/ At(t, "CALIBRATE") /\ enabled[M1] /\ Call(t, "cal.begin", M1, "done")
     \/ At(t, "LR_CALIBRATE") /\ enabled[M2] /\ Call(t, "lr.limp", M2, "done")
  /\ OnlyTh

\* LR_SLOT looks where M1 is, not where it is going
LrSlot(t) ==
  /\ At(t, "LR_SLOT")
  /\ read1 \in {"home", "near"}
  /\ enabled[M2]
  /\ Call(t, "slot.begin", M2, "done")
  /\ OnlyTh

\* What is refused, and the end of a command
MotorNotEnabled(t) ==
  /\ \/ /\ \E op \in {"HOME", "CALIBRATE", "LR_CALIBRATE", "HOLD", "MOVETO",
                      "TOUCHWALL", "FREE_HANG"} : At(t, op)
        /\ ~enabled[th[t].cmd[2]]
     \/ At(t, "LR_SLOT") /\ (~enabled[M2] \/ read1 \in {"out", "bad"})
  /\ Finish(t)
  /\ OnlyTh
  /\ UNCHANGED crossed

Over(t) == At(t, "done") /\ Finish(t) /\ OnlyTh /\ UNCHANGED crossed

\* The commands that are one step: HOLD, UNHOLD and the moves, which return at once
Hold(t) == LET m == th[t].cmd[2] IN
  /\ At(t, "HOLD")
  /\ enabled[m]
  /\ hold' = Set(hold, m, TRUE)
  /\ Finish(t)
  /\ UNCHANGED <<enabled, moving, hw, arm, lrCal, initDone, hist, crossed>>

Unhold(t) == LET m == th[t].cmd[2] IN
  /\ At(t, "UNHOLD")
  /\ hold' = Set(hold, m, FALSE)
  /\ limp' = limp \cup {m}
  /\ Finish(t)
  /\ UNCHANGED <<enabled, moving, hw, arm, lrCal, initDone, wanted, wiped, sent, crossed>>

MoveCommand(t) == LET m == th[t].cmd[2] IN
  /\ enabled[m]
  /\ \/ At(t, "MOVETO") /\ (\E place \in {"near", "out"} : MoveTo(m, place)) /\ UNCHANGED hw
     \/ At(t, "TOUCHWALL") /\ TouchWall("out")
  /\ Finish(t)
  /\ UNCHANGED <<lrCal, initDone, hist, crossed>>

\* FREE_HANG: the hold given up, the arm left to gravity, the hold taken again
FreeHang(t) ==
  /\ \/ /\ At(t, "FREE_HANG")
        /\ enabled[M1]
        /\ hold' = Set(hold, M1, FALSE)
        /\ moving' = Set(moving, M1, FALSE)
        /\ limp' = limp \cup {M1}
        /\ Jump(t, "hangs")
        /\ UNCHANGED read1
     \/ /\ At(t, "hangs")
        /\ read1' \in {read1, "near", "out"}
        /\ hold' = Set(hold, M1, TRUE)
        /\ Finish(t)
        /\ UNCHANGED <<moving, limp>>
  /\ UNCHANGED <<enabled, hw, goal, lrCal, initDone, wanted, wiped, sent, crossed>>

\* M1's encoder out of its range: its zero is set where it is
RangeCheck ==
  /\ IF read1 = "bad" THEN Zeroed(M1) ELSE UNCHANGED arm
  /\ UNCHANGED lrCal

-----------------------------------------------------------------------------
\* startup_then_init: cmd_startup_sequence, and INIT if it was not an error

Startup(t) ==
  /\ \/ At(t, "su") /\ Call(t, "en.limp", M1, "su.range") /\ UNCHANGED <<arm, lrCal>>
     \/ At(t, "su.range") /\ RangeCheck /\ Call(t, "home.begin", M1, "su.home")
     \/ At(t, "su.home") /\ ~th[t].ok /\ Jump(t, "done") /\ UNCHANGED <<arm, lrCal, crossed>>
     \/ At(t, "su.home") /\ th[t].ok /\ Call(t, "en.limp", M2, "su.slot") /\ UNCHANGED <<arm, lrCal>>
     \/ At(t, "su.slot") /\ Call(t, "slot.begin", M2, "INIT") /\ UNCHANGED <<arm, lrCal>>
  /\ UNCHANGED <<flags, hw, initDone, hist>>

\* cmd_init_sequence
InitStarts(t) == At(t, "INIT")
InitBegin(t) ==
  /\ InitStarts(t)
  /\ initDone' = FALSE
  /\ IF enabled[M1] THEN Jump(t, "in.range") /\ UNCHANGED crossed
                    ELSE Call(t, "en.limp", M1, "in.range")
  /\ UNCHANGED <<flags, hw, arm, lrCal, hist>>

InitSteps(t) ==
  /\ \/ At(t, "in.range") /\ RangeCheck /\ Call(t, "home.begin", M1, "in.cal")
     \/ At(t, "in.cal") /\ Call(t, "cal.begin", M1, "in.m2") /\ UNCHANGED <<arm, lrCal>>
     \/ At(t, "in.m2") /\ th[t].ok /\ Call(t, "en.limp", M2, "in.lr") /\ UNCHANGED <<arm, lrCal>>
     \/ /\ At(t, "in.lr")   \* M2's encoder may be out of its range, too
        /\ lrCal' \in {lrCal, FALSE}
        /\ UNCHANGED arm
        /\ IF lrCal' THEN Call(t, "slot.begin", M2, "in.done")
                     ELSE Call(t, "lr.limp", M2, "in.done")
  /\ UNCHANGED <<flags, hw, initDone, hist>>

InitFails(t) == (At(t, "in.m2") \/ At(t, "in.done")) /\ ~th[t].ok
InitEnd(t) ==
  /\ InitFails(t) \/ At(t, "in.done")
  /\ initDone' = (initDone \/ th[t].ok)
  /\ Finish(t)
  /\ UNCHANGED <<flags, hw, arm, lrCal, hist, crossed>>

-----------------------------------------------------------------------------
\* cmd_deploy_sequence and cmd_deploy_force_sequence

\* prepare_touch_slot_: home, whatever comes of it, wait up to two seconds, then the
\* tool, a wait for its move and up to 1.5 s for both to be still
DeployRefused(t) ==
  /\ At(t, "DEPLOY") \/ At(t, "DEPLOY_F")
  /\ ~enabled[M1] \/ ~enabled[M2]
  /\ Finish(t)
  /\ OnlyTh
  /\ UNCHANGED crossed
Prepare(t) ==
  /\ \/ /\ At(t, "DEPLOY") \/ At(t, "DEPLOY_F")
        /\ enabled[M1] /\ enabled[M2]
        /\ Call(t, "home.begin", M1, "d.clear")
     \/ At(t, "d.clear") /\ Call(t, "slot.begin", M2, "d.tool")
     \/ At(t, "d.tool") /\ ~th[t].ok /\ Jump(t, "done") /\ UNCHANGED crossed
     \/ /\ At(t, "d.tool") /\ th[t].ok
        /\ Jump(t, IF Op(t) = "DEPLOY" THEN "d.touch" ELSE "d.probe")
        /\ UNCHANGED crossed
  /\ OnlyTh

\* touch_wall_slot or press_probe_, then wait_for_move, fifteen seconds at most
Approach(t) ==
  /\ \/ /\ At(t, "d.touch")
        /\ TouchWall("out")
        /\ Jump(t, IF enabled[M1] THEN "d.wait" ELSE "done")
     \/ /\ At(t, "d.probe")
        /\ MoveTo(M1, "out")
        /\ UNCHANGED hw
        /\ Jump(t, "d.wait")
  /\ UNCHANGED <<lrCal, initDone, hist, crossed>>

\* The move over or a timeout.  DEPLOY looks where M1 is and answers; DEPLOY_F meets
\* an obstacle, or goes on to press
Waited(t) ==
  /\ At(t, "d.wait")
  /\ \/ Jump(t, "done")
     \/ Op(t) = "DEPLOY_F" /\ ~moving[M1] /\ Jump(t, "d.press")
  /\ OnlyTh
  /\ UNCHANGED crossed

\* press_hold_step_: while it seeks the glass, presses, and converges on the force
PressedHome ==  \* mutant
  /\ moving' = Set(moving, M1, FALSE)
  /\ hold' = Set(hold, M1, TRUE)
  /\ goal' = "home"
  /\ read1' \in IF hw[M1] THEN {read1, "out"} ELSE {read1}
  /\ UNCHANGED enabled
Pressed ==
  /\ moving' = Set(moving, M1, FALSE)
  /\ hold' = Set(hold, M1, TRUE)
  /\ goal' = "out"
  /\ read1' \in IF hw[M1] THEN {read1, "out"} ELSE {read1}
  /\ UNCHANGED enabled
Press(t) ==
  /\ At(t, "d.press") \/ At(t, "SETFORCE")
  /\ enabled[M1]
  /\ Pressed
  /\ Jump(t, "d.press")
  /\ UNCHANGED <<hw, lrCal, initDone, hist, crossed>>
PressEnds(t) ==
  /\ At(t, "d.press") \/ At(t, "SETFORCE")
  /\ Jump(t, "done")
  /\ OnlyTh
  /\ UNCHANGED crossed

-----------------------------------------------------------------------------
\* cmd_park_sequence: M1 home, or at home with its flag off; released only there

Park(t) ==
  /\ \/ /\ At(t, "PARK")
        /\ \/ enabled[M1] /\ Call(t, "home.begin", M1, "pk.home")
           \/ ~enabled[M1] /\ read1 \in {"out", "bad"} /\ Call(t, "en.limp", M1, "pk.again")
           \/ ~enabled[M1] /\ read1 \in {"home", "near"} /\ Call(t, "dis.flags", M1, "pk.m2")
     \/ At(t, "pk.again") /\ Call(t, "home.begin", M1, "pk.home")
     \/ At(t, "pk.home") /\ th[t].ok /\ Call(t, "dis.flags", M1, "pk.m2")
     \/ At(t, "pk.home") /\ ~th[t].ok /\ Jump(t, "pk.m2") /\ UNCHANGED crossed
     \/ At(t, "pk.m2") /\ enabled[M2] /\ Call(t, "slot.begin", M2, "pk.off")
     \/ At(t, "pk.m2") /\ ~enabled[M2] /\ Jump(t, "pk.off") /\ UNCHANGED crossed
     \/ At(t, "pk.off") /\ Call(t, "dis.flags", M2, "done")
  /\ OnlyTh

-----------------------------------------------------------------------------
Routine(t) ==
  \/ EnableLimp(t) \/ EnableOff(t) \/ EnableWindow(t) \/ EnableArm(t) \/ EnableOn(t)
  \/ DisableFlags(t) \/ DisableHw(t) \/ ZeroLimp(t) \/ ZeroSet(t)
  \/ HomeBegin(t) \/ HomeRamp(t) \/ HomeEnd(t)
  \/ CalBegin(t) \/ CalSeek(t) \/ CalZero(t) \/ CalEnd(t)
  \/ LrLimp(t) \/ LrBegin(t) \/ LrSeek(t) \/ LrBack(t) \/ LrCentre(t) \/ LrZero(t)
  \/ LrDone(t) \/ LrEnd(t)
  \/ SlotBegin(t) \/ SlotRamp(t) \/ SlotEnd(t)

Command(t) ==
  \/ Start(t) \/ Single(t) \/ LrSlot(t) \/ MotorNotEnabled(t) \/ Over(t)
  \/ Hold(t) \/ Unhold(t) \/ MoveCommand(t) \/ FreeHang(t)
  \/ Startup(t) \/ InitBegin(t) \/ InitSteps(t) \/ InitEnd(t)
  \/ DeployRefused(t) \/ Prepare(t) \/ Approach(t) \/ Waited(t) \/ Press(t) \/ PressEnds(t)
  \/ Park(t)

Feedback == Recover \/ \E m \in Motor : MoveDone(m)

Next == Feedback \/ \E t \in Thread : Routine(t) \/ Command(t)

Spec == Init /\ [][Next]_vars

-----------------------------------------------------------------------------
\* The places of a command, and those of the routines it calls
Place == Kinds \cup {"-", "done", "hangs", "su", "su.range", "su.home", "su.slot", "in.range",
                    "in.cal", "in.m2", "in.lr", "in.done", "d.clear", "d.tool", "d.touch",
                    "d.probe", "d.wait", "d.press", "pk.again", "pk.home", "pk.m2", "pk.off"}
SubPlace == Pausing \cup Driving \cup {"-", "dis.flags", "dis.hw", "zero.limp", "zero.set",
                                    "home.begin", "slot.begin"}
ThreadType == [cmd : (Kinds \cup {"-", "STARTUP"}) \X Motor, at : Place, sub : SubPlace,
               m : Motor, got : BOOLEAN, peer : BOOLEAN, ok : BOOLEAN]

\* The variables range over the values the code gives them
TypeOK ==
  /\ enabled \in [Motor -> BOOLEAN] /\ hold \in [Motor -> BOOLEAN]
  /\ moving \in [Motor -> BOOLEAN] /\ hw \in [Motor -> BOOLEAN]
  /\ read1 \in Reading /\ goal \in {"near", "out"}
  /\ {lrCal, initDone} \subseteq BOOLEAN
  /\ th \in [Thread -> ThreadType]
  /\ wanted \in [Motor -> BOOLEAN] /\ sent \in 0..MaxCommands
  /\ wiped \subseteq Motor /\ limp \subseteq Motor /\ crossed \subseteq Motor

\* A routine that will set m's flag when it ends
Owes(t, m) ==
  \/ th[t].m = m /\ (th[t].got \/ th[t].sub \in {"en.off", "en.window", "en.arm", "en.on"})
  \/ th[t].m # m /\ th[t].peer

\* Whatever the commands of several connections do to each other, a motor enabled
\* and not disabled since keeps its flag, or a routine in progress owes it: none is
\* left unserved, except where lr_calibrate_slot clears the flag a second time
FlagNotLost == \A m \in Motor : wanted[m] /\ m \notin wiped =>
  enabled[m] \/ \E t \in Thread : Owes(t, m)

\* The loop never sends a motor the frame without torque, unless a client asked for
\* it, in the step between giving up the hold and taking the flag, or after two
\* routines crossed
NoPassiveGap == \A m \in Motor : enabled[m] /\ ~hold[m] /\ ~moving[m] =>
  \/ m \in limp \cup crossed
  \/ \E t \in Thread : th[t].m = m /\ th[t].sub \in {"en.off", "lr.begin"}
=============================================================================
