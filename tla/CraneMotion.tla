----------------------------- MODULE CraneMotion -----------------------------
(***************************************************************************)
(* The crane controller's rope motion, Crane_control_PI/main.cpp.          *)
(*                                                                         *)
(* Two inverters (one per side) pull or pay out the two ropes the machine  *)
(* hangs from.  Any number of TCP connections command them, each served    *)
(* by a thread of its own; the hold loop and the watchdog stop them.  What *)
(* keeps these threads apart is motion_mtx (taken by try_lock), the four   *)
(* hold flags, motion_active, abort_flag and the hold lease.               *)
(*                                                                         *)
(* A step of the model is one access to that shared state or one exchange  *)
(* with the inverters; the threads interleave between steps.  Lengths,     *)
(* tensions and times are abstracted to the decisions they lead to.        *)
(***************************************************************************)
EXTENDS Naturals, FiniteSets

CONSTANTS
  Client,      \* the connections, one thread each
  HoldLoop,    \* the hold_loop thread
  Watchdog,    \* the watchdog_loop thread
  NoOne,       \* motion_mtx is free
  Side,        \* the rope sides, each with its inverter
  Scenarios    \* bound: what a behaviour is made of, one of these

AllOps == {"hold", "hold_both", "off", "off_both", "renew", "stop", "trim",
           "rope", "roll", "align", "side", "manual"}

ASSUME ThreadAssumption ==
  /\ HoldLoop \notin Client
  /\ Watchdog \notin Client
  /\ HoldLoop # Watchdog
  /\ NoOne \notin Client

\* ops: the commands the clients send; busy: how many of them are executed at
\* once; events: what happens beside lost links; outages: how many links are lost
ASSUME ScenarioAssumption ==
  \A sc \in Scenarios :
    /\ sc.ops \subseteq AllOps
    /\ sc.events \subseteq {"lease", "beat", "meters", "tension"}
    /\ sc.busy \in Nat
    /\ sc.outages \in Nat

VARIABLES
  scenario, \* the bound this behaviour keeps to
  vfd,      \* what each inverter does: its last accepted run or stop command
  bus,      \* does each inverter's link answer?
  outages,  \* links lost so far
  lock,     \* owner of motion_mtx
  hold,     \* the hold flags hold_up_*, hold_down_* that are set, per side
  manual,   \* g_manual_motion_left, g_manual_motion_right
  abort,    \* abort_flag
  active,   \* motion_active
  lease,    \* age of g_hold_lease_ms: within HOLD_LEASE_MS or older
  beat,     \* age of last_ping_ms, against the two watchdog timeouts
  fired,    \* watchdog_fired
  valid,    \* g_length_left_valid and g_length_right_valid
  pc,       \* where each thread is
  job,      \* the command a client thread executes, with its locals
  orphan    \* history: why a side may be running with nobody answering for it

drive == <<vfd, bus, outages, orphan>>
flags == <<hold, manual, active, abort>>
clock == <<lease, beat, fired, valid, scenario>>
vars  == <<drive, flags, clock, job, lock, pc>>

Thread == Client \cup {HoldLoop, Watchdog}
Dir    == {"up", "down"}      \* retract, pay_out
Causes == {"lost_stop", "late_clear", "link_down", "fine_skipped"}

Labels ==
  {"idle", "oneFlags", "oneDrive", "syncRun", "syncVerify", "holdVerify",
   "bothFlags", "emStop", "actLoad", "actStore", "rollStop", "rollFlags",
   "offStop", "offFlags", "mCheck", "sideRun", "mLoop", "mReset", "mHard",
   "mOff", "mEnd", "fine", "fineRun", "fineLoop", "corr", "corrLoop", "trimHold",
   "trimSleep", "manDrive", "manClear",
   "haoFlags", "haoStop", "haoActive", "allOff"}

\* A command: what it is, the sides it drives, where to, the hold flags it is
\* about to store or clear; and its local variables: cmd_hold's err (and whether
\* the rollback is behind it), the any_hold_active() it is about to store, the
\* sides fine_adjust drives, its correction passes so far.
Job == [op : AllOps \cup {"none"}, sides : SUBSET Side, go : [Side -> Dir],
        want : SUBSET Dir, err : {"no", "yes", "rolled"}, any : BOOLEAN,
        need : SUBSET Side, pass : 0..2]
Command(op, S, go, want) ==
  [op |-> op, sides |-> S, go |-> go, want |-> want, err |-> "no",
   any |-> FALSE, need |-> {}, pass |-> 0]
Both(d) == [s \in Side |-> d]
NoJob == Command("none", {}, Both("up"), {})

AnyHold == \E s \in Side : hold[s] # {}
Running(s) == vfd[s] # "stop"

Init ==
  /\ scenario \in Scenarios
  /\ vfd = [s \in Side |-> "stop"]
  /\ bus = [s \in Side |-> TRUE]
  /\ outages = 0
  /\ lock = NoOne
  /\ hold = [s \in Side |-> {}]
  /\ manual = [s \in Side |-> FALSE]
  /\ abort = FALSE
  /\ active = FALSE
  /\ lease = "fresh"     \* 0, never stamped: no hold is older than it
  /\ beat = "fresh"      \* 0, nobody heard yet: the watchdog waits
  /\ fired = FALSE
  /\ valid = TRUE
  /\ pc = [t \in Thread |-> "idle"]
  /\ job = [c \in Client |-> NoJob]
  /\ orphan = [s \in Side |-> {}]

-----------------------------------------------------------------------------
(***************************************************************************)
(* Exchanges with the inverters.  A command to an inverter whose link is   *)
(* down fails after its retries; a run command may have been carried out   *)
(* with only the reply lost.                                               *)
(***************************************************************************)
Goto(t, label) == pc' = [pc EXCEPT ![t] = label]

\* The command is answered; its locals are gone
Return(t) ==
  /\ Goto(t, "idle")
  /\ job' = [c \in Client |-> IF c = t THEN NoJob ELSE job[c]]

\* stopDecel (or emergencyStop, then stopDecel) on the sides S, retries used up
StopSides(S) ==
  /\ vfd' = [s \in Side |-> IF s \in S /\ bus[s] THEN "stop" ELSE vfd[s]]
  /\ orphan' = [s \in Side |->
       IF s \in S /\ bus[s] THEN {}
       ELSE IF s \in S /\ Running(s) THEN orphan[s] \cup {"link_down"}
       ELSE orphan[s]]
  /\ UNCHANGED <<bus, outages>>

\* setFreqHz, then a run command in direction go[s], on the sides S; somebody
\* answers for those in A
RunSides(S, go, A) ==
  /\ \E took \in SUBSET {s \in S : ~bus[s]} :
       vfd' = [s \in Side |->
                IF s \in took \/ (s \in S /\ bus[s]) THEN go[s] ELSE vfd[s]]
  /\ orphan' = [s \in Side |->
       IF s \notin S \/ vfd'[s] = "stop" THEN orphan[s]
       ELSE IF ~bus[s] THEN orphan[s] \cup {"link_down"}
       ELSE IF s \in A THEN {}
       ELSE orphan[s] \cup {"lost_stop"}]
  /\ UNCHANGED <<bus, outages>>

Answers(S) == \A s \in S : bus[s]

-----------------------------------------------------------------------------
(***************************************************************************)
(* A client's bytes arrive: touch_heartbeat, then dispatch.  A command     *)
(* that is refused (motion_busy, motion_mtx taken) is no more than that.   *)
(***************************************************************************)
Heard == beat' = "fresh" /\ fired' = FALSE

Ready(c) ==
  /\ pc[c] = "idle"
  /\ Cardinality({d \in Client : pc[d] # "idle"}) < scenario.busy

Begin(c, j, label) ==
  /\ Ready(c)
  /\ j.op \in scenario.ops
  /\ Heard
  /\ job' = [job EXCEPT ![c] = j]
  /\ Goto(c, label)
  /\ UNCHANGED <<drive, valid, scenario>>

TryLockBlind(c) == lock' = c     \* mutant: the result of try_lock is not looked at
TryLock(c) == lock = NoOne /\ lock' = c

Refused(c) ==
  /\ Ready(c)
  /\ Heard
  /\ UNCHANGED <<drive, flags, lease, valid, scenario, job, lock, pc>>

\* cmd_hold "<dir>_<side> on"
HoldOn(c, s, d) ==
  /\ TryLock(c)
  /\ Begin(c, Command("hold", {s}, Both(d), {d}), "oneFlags")
  /\ lease' = "fresh"
  /\ UNCHANGED flags

\* cmd_hold "up on", "down on"
HoldOnBoth(c, d) ==
  /\ TryLock(c)
  /\ Begin(c, Command("hold_both", Side, Both(d), {d}), "syncRun")
  /\ lease' = "fresh"
  /\ UNCHANGED flags

\* cmd_hold "<dir>_<side> off": loads the opposite flag, takes no lock
HoldOff(c, s, d) ==
  /\ Begin(c, Command("off", {s}, Both(d), hold[s] \ {d}), "oneFlags")
  /\ UNCHANGED <<flags, lease, lock>>

\* cmd_hold "up off", "down off"
HoldOffBoth(c, d) ==
  /\ Begin(c, Command("off_both", Side, Both(d), {d}), "offStop")
  /\ UNCHANGED <<flags, lease, lock>>

\* cmd_hold_renew
HoldRenew(c) ==
  /\ Ready(c)
  /\ "renew" \in scenario.ops
  /\ AnyHold
  /\ lease' = "fresh"
  /\ Heard
  /\ UNCHANGED <<drive, flags, valid, scenario, job, lock, pc>>

\* cmd_stop
Stop(c) ==
  /\ Begin(c, Command("stop", Side, Both("up"), {}), "haoFlags")
  /\ abort' = TRUE
  /\ UNCHANGED <<hold, manual, active, lease, lock>>

\* cmd_roll_trim_ms, up to its motion_active check
Trim(c, s) ==
  /\ ~active
  /\ Begin(c, Command("trim", {s}, Both("up"), {"up"}), "trimHold")
  /\ UNCHANGED <<flags, lease, lock>>

\* motion_rope, cmd_roll_correct, cmd_align_lengths, cmd_side_measured
Motion(c, op, S, go) ==
  /\ TryLock(c)
  /\ Begin(c, Command(op, S, go, {}), "mCheck")
  /\ UNCHANGED <<flags, lease>>

RopeMotion(c)  == \E d \in Dir : Motion(c, "rope", Side, Both(d))
RollCorrect(c) == \E go \in [Side -> Dir] :
                    /\ \E s, r \in Side : go[s] # go[r]
                    /\ Motion(c, "roll", Side, go)
AlignLengths(c) == Motion(c, "align", Side, Both("down"))
SideMeasured(c) == \E s \in Side, d \in Dir : Motion(c, "side", {s}, Both(d))

\* cmd_manual on: the flag first, then the start
ManualOn(c, s, d) ==
  /\ Begin(c, Command("manual", {s}, Both(d), {}), "manDrive")
  /\ manual' = [manual EXCEPT ![s] = TRUE]
  /\ UNCHANGED <<hold, active, abort, lease, lock>>

\* cmd_manual off: the flag is dropped only once the stop has succeeded
ManualOff(c, s) ==
  /\ Ready(c)
  /\ "manual" \in scenario.ops
  /\ Heard
  /\ StopSides({s})
  /\ \/ /\ bus[s]
        /\ job' = [job EXCEPT ![c] = Command("manual", {s}, Both("up"), {})]
        /\ Goto(c, "manClear")
     \/ ~bus[s] /\ UNCHANGED <<job, pc>>
  /\ UNCHANGED <<flags, lease, valid, scenario, lock>>

-----------------------------------------------------------------------------
(***************************************************************************)
(* cmd_hold.                                                               *)
(***************************************************************************)
Locks(c) == job[c].op \in {"hold", "hold_both", "trim"}

\* set_left, set_right: the flags of the one side ...
OneFlags(c) ==
  /\ pc[c] = "oneFlags"
  /\ hold' = [s \in Side |-> IF s \in job[c].sides THEN job[c].want ELSE hold[s]]
  /\ Goto(c, "oneDrive")
  /\ UNCHANGED <<drive, manual, active, abort, clock, job, lock>>

\* ... then its inverter: apply_hold_one_side.  With no flag left the side is
\* stopped; a failed stop escalates to emergencyStop over the same link.
OneDrive(c) ==
  /\ pc[c] = "oneDrive"
  /\ LET S == job[c].sides
         d == IF "up" \in job[c].want THEN "up" ELSE "down"
     IN  /\ \/ /\ job[c].want = {}
               /\ StopSides(S)
            \/ /\ job[c].want # {}
               /\ RunSides(S, Both(d), {s \in Side : hold[s] # {}})
         /\ job' = [job EXCEPT ![c].err = IF Answers(S) THEN "no" ELSE "yes"]
  /\ Goto(c, "actLoad")
  /\ UNCHANGED <<flags, clock, lock>>

\* the combined start has been verified twice: set both flags
BothFlags(c) ==
  /\ pc[c] = "bothFlags"
  /\ hold' = [s \in Side |-> job[c].want]
  /\ Goto(c, "actLoad")
  /\ UNCHANGED <<drive, manual, active, abort, clock, job, lock>>

\* combined off: stop both, escalate if that failed, ...
OffStop(c) ==
  /\ pc[c] = "offStop"
  /\ StopSides(Side)
  /\ job' = [job EXCEPT ![c].err = IF Answers(Side) THEN "no" ELSE "yes"]
  /\ Goto(c, "offFlags")
  /\ UNCHANGED <<flags, clock, lock>>

\* A flag is cleared although its inverter may have been started since
Cleared(S, flagsLeft) ==
  orphan' = [s \in Side |->
    IF s \in S /\ flagsLeft[s] = {} /\ hold[s] # {} /\ Running(s)
    THEN orphan[s] \cup {"late_clear"} ELSE orphan[s]]

\* ... then clear the flags of this direction, whatever the stop's result
OffFlags(c) ==
  /\ pc[c] = "offFlags"
  /\ hold' = [s \in Side |-> hold[s] \ job[c].want]
  /\ Cleared(Side, hold')
  /\ Goto(c, "actLoad")
  /\ UNCHANGED <<vfd, bus, outages, manual, active, abort, clock, job, lock>>

\* motion_active.store(any_hold_active()): a load, ...
ActLoad(c) ==
  /\ pc[c] = "actLoad"
  /\ job' = [job EXCEPT ![c].any = AnyHold]
  /\ Goto(c, "actStore")
  /\ UNCHANGED <<drive, flags, clock, lock>>

\* ... then a store; then the second lease stamp, the rollback, the return
ActStore(c) ==
  /\ pc[c] = "actStore"
  /\ active' = job[c].any
  /\ \/ /\ Locks(c) /\ job[c].err = "no"
        /\ lease' = "fresh"
        /\ lock' = NoOne
        /\ IF job[c].op = "trim" THEN Goto(c, "trimSleep") /\ UNCHANGED job
                                ELSE Return(c)
     \/ /\ Locks(c) /\ job[c].err = "yes"
        /\ Goto(c, "rollStop")
        /\ UNCHANGED <<lease, job, lock>>
     \/ /\ Locks(c) /\ job[c].err = "rolled"
        /\ lock' = NoOne
        /\ IF job[c].op = "trim" THEN Goto(c, "haoFlags") /\ UNCHANGED job
                                ELSE Return(c)
        /\ UNCHANGED lease
     \/ /\ ~Locks(c)
        /\ Return(c)
        /\ UNCHANGED <<lease, lock>>
  /\ UNCHANGED <<drive, hold, manual, abort, beat, fired, valid, scenario>>

\* the rollback of a failed "on": reliable_stop_one, result ignored, ...
RollStop(c) ==
  /\ pc[c] = "rollStop"
  /\ StopSides(job[c].sides)
  /\ Goto(c, "rollFlags")
  /\ UNCHANGED <<flags, clock, job, lock>>

\* ... then the side's flags
RollFlags(c) ==
  /\ pc[c] = "rollFlags"
  /\ hold' = [s \in Side |-> IF s \in job[c].sides THEN {} ELSE hold[s]]
  /\ Cleared(job[c].sides, hold')
  /\ job' = [job EXCEPT ![c].err = "rolled"]
  /\ Goto(c, "actLoad")
  /\ UNCHANGED <<vfd, bus, outages, manual, active, abort, clock, lock>>

-----------------------------------------------------------------------------
(***************************************************************************)
(* dual_vfd_sync_start and dual_vfd_hold_start.                            *)
(***************************************************************************)
IsMotion(c) == job[c].op \in {"rope", "roll", "align", "side"}

\* Where a failed start returns to (mutant: out of the command at once)
StartFailedLeak(c) == Return(c)
StartFailed(c) ==
  IF IsMotion(c)
  THEN Goto(c, "mEnd") /\ UNCHANGED job
  ELSE Goto(c, "actLoad") /\ job' = [job EXCEPT ![c].err = "yes"]

\* Phase A, setFreqHz on both, then phase B, run on both
SyncRun(c) ==
  /\ pc[c] = "syncRun"
  /\ \/ /\ ~Answers(Side)       \* phase A fails: nothing has been started
        /\ StartFailed(c)
        /\ UNCHANGED drive
     \/ /\ RunSides(Side, job[c].go, Side)
        /\ Goto(c, IF Answers(Side) THEN "syncVerify" ELSE "emStop")
        /\ UNCHANGED job
  /\ UNCHANGED <<flags, clock, lock>>

\* Both status words must say running
Verify(c, from, next) ==
  /\ pc[c] = from
  /\ Goto(c, IF \A s \in Side : bus[s] /\ Running(s) THEN next ELSE "emStop")
  /\ UNCHANGED <<drive, flags, clock, job, lock>>

SyncVerify(c) ==
  Verify(c, "syncVerify", IF IsMotion(c) THEN "mLoop" ELSE "holdVerify")
HoldVerify(c) == Verify(c, "holdVerify", "bothFlags")

\* emergencyStop on both, stopDecel on both
EmergencyStop(c) ==
  /\ pc[c] = "emStop"
  /\ StopSides(Side)
  /\ StartFailed(c)
  /\ UNCHANGED <<flags, clock, lock>>

-----------------------------------------------------------------------------
(***************************************************************************)
(* The four motions.                                                       *)
(***************************************************************************)
\* any_hold_active() under the lock; MotionScope; abort_flag = false; the
\* meters' caches
MotionRefused(c) ==
  /\ pc[c] = "mCheck"
  /\ AnyHold
  /\ lock' = NoOne
  /\ Return(c)
  /\ UNCHANGED <<drive, flags, clock>>

MotionSetUp(c) ==
  /\ pc[c] = "mCheck"
  /\ active' = TRUE
  /\ abort' = FALSE
  /\ Goto(c, CASE job[c].op = "align" -> "fine"
               [] job[c].op = "side"  -> "sideRun"
               [] OTHER -> IF valid THEN "syncRun" ELSE "mEnd")
  /\ UNCHANGED <<drive, hold, manual, clock, job, lock>>

MotionBeginsBlind(c) == MotionSetUp(c)     \* mutant: the holds are not looked at
MotionBegins(c) == ~AnyHold /\ MotionSetUp(c)

\* cmd_side_measured starts its one side with reliable_start_one
SideRun(c) ==
  /\ pc[c] = "sideRun"
  /\ RunSides(job[c].sides, job[c].go, Side)
  /\ Goto(c, IF Answers(job[c].sides) THEN "mLoop" ELSE "mOff")
  /\ UNCHANGED <<flags, clock, job, lock>>

InLoop(c) == pc[c] = "mLoop"

\* abort_flag seen, or the motion's time is up (or, in motion_rope, the two
\* ropes have drifted apart).  motion_rope leaves its loop with the inverters
\* as they are and goes to fine_adjust, the others stop.
LoopAbort(c) ==
  /\ InLoop(c)
  /\ abort
  /\ Goto(c, IF job[c].op = "rope" THEN "mReset" ELSE "mOff")
  /\ UNCHANGED <<drive, flags, clock, job, lock>>

\* motion_rope, aborted: abort_flag.exchange(false) before fine_adjust
AbortReset(c) ==
  /\ pc[c] = "mReset"
  /\ abort' = FALSE
  /\ Goto(c, "fine")
  /\ UNCHANGED <<drive, hold, manual, active, clock, job, lock>>

LoopTimeout(c) ==
  /\ InLoop(c)
  /\ Goto(c, IF job[c].op = "rope" THEN "fine" ELSE "mOff")
  /\ UNCHANGED <<drive, flags, clock, job, lock>>

\* A tension alarm, a lost meter, an inverter fault
LoopHardAbort(c) ==
  /\ "tension" \in scenario.events
  /\ InLoop(c)
  /\ Goto(c, IF job[c].op = "rope" THEN "mHard" ELSE "mOff")
  /\ UNCHANGED <<drive, flags, clock, job, lock>>

MotionHardSkip(c) ==      \* mutant: the emergency stop is left out
  /\ pc[c] = "mHard"
  /\ Goto(c, "mEnd")
  /\ UNCHANGED <<drive, flags, clock, job, lock>>

MotionHardStop(c) ==
  /\ pc[c] = "mHard"
  /\ StopSides(Side)
  /\ Goto(c, "mEnd")
  /\ UNCHANGED <<flags, clock, job, lock>>

\* motion_rope: the first side there stops both
LoopReached(c) ==
  /\ InLoop(c)
  /\ job[c].op = "rope"
  /\ valid
  /\ StopSides(Side)
  /\ Goto(c, "fine")
  /\ UNCHANGED <<flags, clock, job, lock>>

\* motion_rope, retracting: the rope is taut, stop softly and return OK
LoopTaut(c) ==
  /\ InLoop(c)
  /\ job[c].op = "rope"
  /\ \A s \in Side : job[c].go[s] = "up"
  /\ StopSides(Side)
  /\ Goto(c, "mEnd")
  /\ UNCHANGED <<flags, clock, job, lock>>

\* cmd_roll_correct: one side is there and stops, the other goes on
LoopSideReached(c, s) ==
  /\ InLoop(c)
  /\ job[c].op = "roll"
  /\ valid
  /\ StopSides({s})
  /\ UNCHANGED <<flags, clock, job, lock, pc>>

\* cmd_roll_correct, cmd_side_measured: all sides are there
LoopDone(c) ==
  /\ InLoop(c)
  /\ job[c].op \in {"roll", "side"}
  /\ valid
  /\ Goto(c, "mOff")
  /\ UNCHANGED <<drive, flags, clock, job, lock>>

\* allMotionOff, allRopeInvertersOff, or the one side's reliable_stop_one
MotionOff(c) ==
  /\ pc[c] = "mOff"
  /\ StopSides(job[c].sides)
  /\ Goto(c, "mEnd")
  /\ UNCHANGED <<flags, clock, job, lock>>

\* return: ~MotionScope, then the lock
MotionEnd(c) ==
  /\ pc[c] = "mEnd"
  /\ active' = FALSE
  /\ lock' = NoOne
  /\ Return(c)
  /\ UNCHANGED <<drive, hold, manual, abort, clock>>

-----------------------------------------------------------------------------
(***************************************************************************)
(* motion_fine_adjust_sync.                                                *)
(***************************************************************************)
\* No usable lengths after the retries: return "" and touch nothing
FineSkip(c) ==
  /\ pc[c] = "fine"
  /\ ~valid
  /\ orphan' = [s \in Side |-> IF Running(s)
                THEN orphan[s] \cup {"fine_skipped"} ELSE orphan[s]]
  /\ Goto(c, "mEnd")
  /\ UNCHANGED <<vfd, bus, outages, flags, clock, job, lock>>

\* The side that is ahead is the target: it is stopped, and at most the other
\* is driven; within tolerance both are stopped
FineBegin(c) ==
  /\ pc[c] = "fine"
  /\ valid
  /\ \E N \in SUBSET Side :
       /\ N # Side
       /\ StopSides(Side \ N)
       /\ job' = [job EXCEPT ![c].need = N]
       /\ Goto(c, IF N = {} THEN "mEnd" ELSE "fineRun")
  /\ UNCHANGED <<flags, clock, lock>>

FineRun(c) ==
  /\ pc[c] = "fineRun"
  /\ RunSides(job[c].need, job[c].go, Side)
  /\ Goto(c, IF Answers(job[c].need) THEN "fineLoop" ELSE "mOff")
  /\ UNCHANGED <<flags, clock, job, lock>>

\* The lagging side has caught up
FineReached(c) ==
  /\ pc[c] = "fineLoop"
  /\ valid
  /\ StopSides(job[c].need)
  /\ Goto(c, "corr")
  /\ UNCHANGED <<flags, clock, job, lock>>

\* abort_flag, FINE_ADJUST_TIMEOUT_MS, a tension alarm: the side is stopped
\* and the caller stops everything
FineAbort(c) ==
  /\ pc[c] = "fineLoop"
  /\ StopSides(job[c].need)
  /\ Goto(c, "mOff")
  /\ UNCHANGED <<flags, clock, job, lock>>

\* Overrun correction: at most two passes, each side either way
OnePassMore(c) == job[c].pass <= 2      \* mutant: one too many
MorePasses(c) == job[c].pass < 2

CorrRun(c) ==
  /\ pc[c] = "corr"
  /\ MorePasses(c)
  /\ \E N \in (SUBSET Side) \ {{}}, go \in [Side -> Dir] :
       /\ RunSides(N, go, Side)
       /\ job' = [job EXCEPT ![c] = [@ EXCEPT !.need = N, !.pass = job[c].pass + 1]]
  /\ Goto(c, "corrLoop")
  /\ UNCHANGED <<flags, clock, lock>>

\* A pass ends: the sides are there, CORRECTION_TIMEOUT_MS, a failed start, or
\* abort_flag, after which the caller stops everything
CorrStop(c) ==
  /\ pc[c] = "corrLoop"
  /\ StopSides(job[c].need)
  /\ \/ Answers(job[c].need) /\ Goto(c, "corr")
     \/ ~Answers(job[c].need) /\ Goto(c, "mEnd")
     \/ abort /\ Goto(c, "mOff")
  /\ UNCHANGED <<flags, clock, job, lock>>

CorrDone(c) ==
  /\ pc[c] = "corr"
  /\ Goto(c, "mEnd")
  /\ UNCHANGED <<drive, flags, clock, job, lock>>

-----------------------------------------------------------------------------
(***************************************************************************)
(* The rest of cmd_roll_trim_ms and cmd_manual.                            *)
(***************************************************************************)
\* cmd_hold(side, "on"), which may find motion_mtx taken; any ERR ends in
\* hold_all_off
TrimHold(c) ==
  /\ pc[c] = "trimHold"
  /\ \/ /\ TryLock(c)
        /\ lease' = "fresh"
        /\ Goto(c, "oneFlags")
     \/ /\ lock # NoOne
        /\ Goto(c, "haoFlags")
        /\ UNCHANGED <<lease, lock>>
  /\ UNCHANGED <<drive, flags, beat, fired, valid, scenario, job>>

TrimEnd(c) ==
  /\ pc[c] = "trimSleep"
  /\ Goto(c, "haoFlags")
  /\ UNCHANGED <<drive, flags, clock, job, lock>>

\* vfdStartRopeHold; on failure the flag goes
ManualDrive(c) ==
  /\ pc[c] = "manDrive"
  /\ LET S == job[c].sides
     IN  /\ RunSides(S, job[c].go, {s \in Side : manual[s]})
         /\ manual' = [s \in Side |-> manual[s] /\ (s \in S => bus[s])]
  /\ Return(c)
  /\ UNCHANGED <<hold, active, abort, clock, lock>>

ManualClear(c) ==
  /\ pc[c] = "manClear"
  /\ manual' = [s \in Side |-> manual[s] /\ s \notin job[c].sides]
  /\ orphan' = [s \in Side |->
       IF manual[s] /\ ~manual'[s] /\ Running(s)
       THEN orphan[s] \cup {"late_clear"} ELSE orphan[s]]
  /\ Return(c)
  /\ UNCHANGED <<vfd, bus, outages, hold, active, abort, clock, lock>>

-----------------------------------------------------------------------------
(***************************************************************************)
(* hold_all_off, run by a client, by the hold loop or by the watchdog.     *)
(***************************************************************************)
HoldAllOffFlags(t) ==
  /\ pc[t] = "haoFlags"
  /\ hold' = [s \in Side |-> {}]
  /\ Goto(t, "haoStop")
  /\ UNCHANGED <<drive, manual, active, abort, clock, job, lock>>

HoldAllOffStop(t) ==
  /\ pc[t] = "haoStop"
  /\ StopSides(Side)
  /\ Goto(t, "haoActive")
  /\ UNCHANGED <<flags, clock, job, lock>>

StopsTwice(t) == t = Watchdog \/ (t \in Client /\ job[t].op = "stop")

HoldAllOffActive(t) ==
  /\ pc[t] = "haoActive"
  /\ active' = FALSE
  /\ IF StopsTwice(t) THEN Goto(t, "allOff") /\ UNCHANGED job ELSE Return(t)
  /\ UNCHANGED <<drive, hold, manual, abort, clock, lock>>

AllMotionOff(t) ==
  /\ pc[t] = "allOff"
  /\ StopSides(Side)
  /\ Return(t)
  /\ UNCHANGED <<flags, clock, lock>>

\* hold_loop: the lease has run out, or the tension guard trips
LeaseExpiredIdle == lease = "stale" /\ ~active     \* mutant
LeaseExpired == lease = "stale"

HoldLapse ==
  /\ pc[HoldLoop] = "idle"
  /\ AnyHold
  /\ LeaseExpired
  /\ Goto(HoldLoop, "haoFlags")
  /\ UNCHANGED <<drive, flags, clock, job, lock>>

HoldGuard ==
  /\ "tension" \in scenario.events
  /\ pc[HoldLoop] = "idle"
  /\ AnyHold
  /\ Goto(HoldLoop, "haoFlags")
  /\ UNCHANGED <<drive, flags, clock, job, lock>>

\* watchdog_loop: one shot until the next byte; only a motion is aborted, and
\* one that is not a hold is given more time
InAutoMotion == active /\ ~AnyHold
TimedOutMotion == InAutoMotion /\ beat = "dead"      \* mutant: holds are not watched
TimedOut == beat = "dead" \/ (beat = "late" /\ ~InAutoMotion)

WatchdogFires ==
  /\ pc[Watchdog] = "idle"
  /\ ~fired
  /\ TimedOut
  /\ fired' = TRUE
  /\ \/ active  /\ abort' = TRUE /\ Goto(Watchdog, "haoFlags")
     \/ ~active /\ UNCHANGED <<abort, pc>>
  /\ UNCHANGED <<drive, hold, manual, active, lease, beat, valid, scenario, job, lock>>

-----------------------------------------------------------------------------
(***************************************************************************)
(* The environment: time passes, meters and links come and go.             *)
(***************************************************************************)
LeaseAges ==
  /\ "lease" \in scenario.events
  /\ lease = "fresh"
  /\ lease' = "stale"
  /\ UNCHANGED <<drive, flags, beat, fired, valid, scenario, job, lock, pc>>

BeatAges ==
  /\ "beat" \in scenario.events
  /\ beat # "dead"
  /\ beat' = IF beat = "fresh" THEN "late" ELSE "dead"
  /\ UNCHANGED <<drive, flags, lease, fired, valid, scenario, job, lock, pc>>

MetersChange ==
  /\ "meters" \in scenario.events
  /\ valid' = ~valid
  /\ UNCHANGED <<drive, flags, lease, beat, fired, scenario, job, lock, pc>>

BusFails(s) ==
  /\ bus[s]
  /\ outages < scenario.outages
  /\ bus' = [bus EXCEPT ![s] = FALSE]
  /\ outages' = outages + 1
  /\ UNCHANGED <<vfd, orphan, flags, clock, job, lock, pc>>

BusReturns(s) ==
  /\ ~bus[s]
  /\ bus' = [bus EXCEPT ![s] = TRUE]
  /\ UNCHANGED <<vfd, outages, orphan, flags, clock, job, lock, pc>>

-----------------------------------------------------------------------------
ClientStep(c) ==
  \/ Refused(c) \/ HoldRenew(c) \/ Stop(c)
  \/ \E s \in Side, d \in Dir : HoldOn(c, s, d) \/ HoldOff(c, s, d) \/ ManualOn(c, s, d)
  \/ \E d \in Dir : HoldOnBoth(c, d) \/ HoldOffBoth(c, d)
  \/ \E s \in Side : Trim(c, s) \/ ManualOff(c, s)
  \/ RopeMotion(c) \/ RollCorrect(c) \/ AlignLengths(c) \/ SideMeasured(c)

\* A command runs on: everything after its receipt
Proceed(c) ==
  \/ OneFlags(c) \/ OneDrive(c) \/ BothFlags(c) \/ OffStop(c) \/ OffFlags(c)
  \/ ActLoad(c) \/ ActStore(c) \/ RollStop(c) \/ RollFlags(c)
  \/ SyncRun(c) \/ SyncVerify(c) \/ HoldVerify(c) \/ EmergencyStop(c)
  \/ MotionRefused(c) \/ MotionBegins(c) \/ SideRun(c)
  \/ LoopAbort(c) \/ AbortReset(c) \/ LoopTimeout(c) \/ LoopHardAbort(c) \/ LoopReached(c)
  \/ LoopTaut(c) \/ LoopDone(c) \/ (\E s \in Side : LoopSideReached(c, s))
  \/ MotionHardStop(c) \/ MotionOff(c) \/ MotionEnd(c)
  \/ FineSkip(c) \/ FineBegin(c) \/ FineRun(c) \/ FineReached(c) \/ FineAbort(c)
  \/ CorrRun(c) \/ CorrStop(c) \/ CorrDone(c)
  \/ TrimHold(c) \/ TrimEnd(c) \/ ManualDrive(c) \/ ManualClear(c)

HoldAllOff(t) ==
  HoldAllOffFlags(t) \/ HoldAllOffStop(t) \/ HoldAllOffActive(t) \/ AllMotionOff(t)

Environment ==
  \/ LeaseAges \/ BeatAges \/ MetersChange
  \/ \E s \in Side : BusFails(s) \/ BusReturns(s)

Next ==
  \/ \E c \in Client : ClientStep(c) \/ Proceed(c)
  \/ \E t \in Thread : HoldAllOff(t)
  \/ HoldLapse \/ HoldGuard \/ WatchdogFires
  \/ Environment

Spec == Init /\ [][Next]_vars

\* hold_loop and watchdog_loop poll forever, and a thread inside a command is scheduled: every
\* wait in one of them ends by a timeout
Fairness ==
  /\ WF_vars(HoldLapse)
  /\ WF_vars(WatchdogFires)
  /\ \A t \in Thread : WF_vars(HoldAllOff(t))
  /\ \A c \in Client : WF_vars(Proceed(c))

FairSpec == Spec /\ Fairness

-----------------------------------------------------------------------------
(***************************************************************************)
(* Properties.                                                             *)
(***************************************************************************)
TypeOK ==
  /\ scenario \in Scenarios
  /\ vfd \in [Side -> Dir \cup {"stop"}]
  /\ bus \in [Side -> BOOLEAN]
  /\ outages \in Nat
  /\ lock \in Client \cup {NoOne}
  /\ hold \in [Side -> SUBSET Dir]
  /\ manual \in [Side -> BOOLEAN]
  /\ abort \in BOOLEAN
  /\ active \in BOOLEAN
  /\ lease \in {"fresh", "stale"}
  /\ beat \in {"fresh", "late", "dead"}
  /\ fired \in BOOLEAN
  /\ valid \in BOOLEAN
  /\ pc \in [Thread -> Labels]
  /\ job \in [Client -> Job]
  /\ orphan \in [Side -> SUBSET Causes]

\* Labels of a motion that is past its any_hold_active() check
MotionLabels == {"sideRun", "mLoop", "mReset", "mHard", "mOff", "mEnd", "fine", "fineRun",
                 "fineLoop", "corr", "corrLoop"}
SyncLabels == {"syncRun", "syncVerify", "holdVerify", "bothFlags", "emStop"}

\* The thread is in a part of a command that motion_mtx protects
Protected(c) ==
  \/ pc[c] \in MotionLabels \cup SyncLabels \cup {"mCheck", "rollStop", "rollFlags"}
  \/ pc[c] \in {"oneFlags", "oneDrive", "actLoad", "actStore"} /\ Locks(c)

(***************************************************************************)
(* Every command that starts an inverter, cmd_manual and a one-side "off"  *)
(* apart, does so holding motion_mtx, and whichever of its many returns it *)
(* takes, the lock is free again afterwards: no two of them overlap, and a *)
(* taken lock always has a command at work.                                *)
(***************************************************************************)
MotionMutex ==
  /\ \A c \in Client : Protected(c) => lock = c
  /\ lock # NoOne => Protected(lock)

\* Thread t will yet stop side s, or set its hold flag
InCharge(t, s) ==
  \/ pc[t] \in {"haoFlags", "haoStop", "allOff"}
  \/ /\ t \in Client
     /\ s \in job[t].sides
     /\ \/ pc[t] \in {"syncVerify", "holdVerify", "bothFlags", "emStop",
                      "offStop", "rollStop", "mLoop", "mReset", "mHard", "mOff",
                      "fine"}
        \/ pc[t] \in {"oneFlags", "oneDrive"} /\ job[t].want = {}
        \/ pc[t] \in {"actLoad", "actStore"} /\ Locks(t) /\ job[t].err = "yes"
        \/ pc[t] \in {"fineRun", "fineLoop", "corrLoop"} /\ s \in job[t].need

(***************************************************************************)
(* A rope that moves has somebody answering for it: a hold flag (so the    *)
(* lease and the tension guard can stop it), the operator of a manual      *)
(* motion, or a thread that will stop it.  The exceptions are the four     *)
(* recorded in orphan, and there is no fifth: a stop that did not reach    *)
(* the inverter, a start carried out after the flag it was for had been    *)
(* cleared, a flag cleared after a newer start, and fine_adjust giving up  *)
(* on ropes motion_rope left running.                                      *)
(***************************************************************************)
MovingRopeAnswered ==
  \A s \in Side :
    Running(s) /\ hold[s] = {} /\ ~manual[s] /\ orphan[s] = {}
      => \E t \in Thread : InCharge(t, s)

(***************************************************************************)
(* A hold and a motion never own the ropes together: once a motion is past *)
(* its any_hold_active() check, no hold flag is set until it is over.      *)
(* main.cpp says so of cmd_hold ("Reverse direction closed"); it needs the *)
(* flags to be set under motion_mtx, which a one-side "off" does not take. *)
(***************************************************************************)
HoldsAndMotionsApart ==
  AnyHold => \A c \in Client : pc[c] \notin MotionLabels

(***************************************************************************)
(* A one-side "off" is the only way round it: the rest of cmd_hold,        *)
(* hold_all_off and the motions' own check keep the two apart.             *)
(***************************************************************************)
OnlyOneSideOffMixes == "off" \notin scenario.ops => HoldsAndMotionsApart

(***************************************************************************)
(* An expired lease drops the holds: however the commands interleave, a    *)
(* hold nobody renews does not keep its flag (hold_loop).                  *)
(***************************************************************************)
LeaseDropsHold ==
  AnyHold /\ lease = "stale" ~> (~AnyHold \/ lease = "fresh")

(***************************************************************************)
(* Every command returns its lock: no motion, however it is interrupted,   *)
(* and no failed or rolled back hold keeps motion_mtx for ever.            *)
(***************************************************************************)
LockReturned == \A c \in Client : lock = c ~> lock # c

(***************************************************************************)
(* A silent operator stops the ropes: a motion nobody is heard during is   *)
(* brought to rest, or somebody is heard again (watchdog_loop).  A rope    *)
(* orphaned earlier is not covered: motion_active no longer tells of it.   *)
(***************************************************************************)
SilenceStopsMotion ==
  active /\ beat = "dead" /\ ~fired
    ~> (beat = "fresh" \/ \A s \in Side : Running(s) => orphan[s] # {})

=============================================================================
