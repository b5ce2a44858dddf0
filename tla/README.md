# Formal models of the facade cleaning robot

The repository is the software of a machine that hangs from two ropes in front
of a facade, walks along it on vacuum cups and washes it with an arm.  Four
programs run on separate computers: the crane controller on the roof, the body
application on the machine, the cleaning arm, and a web backend for the
operator.  They talk in lines of text over TCP.  This directory models the
parts in which several threads or several programs act on one physical thing.

Line numbers are those of the source in `src/`; without a file name they are in
`Crane_control_PI/main.cpp`.

## 1. Inventory

### Crane controller (`Crane_control_PI/main.cpp`)

One process, one TCP server, one thread per connection (`on_receive`, 6244, then
`dispatch`, 5861), and a handful of threads that poll.

| Part | State | Operations | Correct means |
|---|---|---|---|
| Rope motion and holds | the inverters' run state, `motion_mtx`, `hold_{up,down}_{left,right}`, `g_manual_motion_*`, `motion_active`, `abort_flag`, `g_hold_lease_ms`, `last_ping_ms`, `watchdog_fired` | `cmd_hold`, `hold_renew`, `stop`, `motion_rope`, `roll_correct`, `align_lengths`, `side_measured`, `roll_trim_ms`, `manual`; `hold_loop`, `watchdog_loop` | two commands never drive the ropes against each other; a moving rope always has somebody to stop it; a lost operator ends in a stop |
| Water valve | the relay, `g_water_open_ts_ms`, `g_water_open_max_ms` | `water_inlet`, `set_water_open_max_ms`, `water_dog_loop`, boot probe | an open valve is watched, and closed in time |
| Rope meters | `g_length_*`, their `valid` and `suspect` flags, resync state, `home_ground_cm`, `g_wall_height_cm` | `meter_loop`, `zero_meters`, `zero_meter`, `set_home_ground`, `set_wall_height`, `goto` | the cached length is the meter's, in the meter's own zero; a height is the true one; a goto stays inside the facade |
| Settings, calibration, status, console | single atomics, two files | setters with range checks | - |

Hard: the try_lock that keeps motions apart does not cover everything that starts
an inverter; a flag and the run command it stands for are two steps; every
exchange with an inverter retries and may fail half way; abort is one flag for
several threads.

### Body application (`app/WASH_ROBOT.cpp`, `app/wash_robot_commands.cpp`)

| Part | State | Operations | Correct means |
|---|---|---|---|
| State machine, emergency stop, pause | `state_`, `abort_flag`, `pause_flag`, `pause_reason_`, `state_before_pause_`, `motion_mtx_` | steps, runs, scripts, `emergency_stop` (with a detached thread), `reset`, `recover`, `pause`, `resume`, `continue`, `skip`, `crane_watchdog_loop_`, `imu_monitor_loop_` | an aborted step never goes on; the state shown is the one the machine is in |
| Link to the crane | `crane_mtx_`, receive buffer, `crane_alarm_pending_`; the second socket for emergency stops | `crane_cmd_`, `crane_stop_estop_`, drain | a command runs at most once, a reply answers the command it belongs to |
| Step | the two valve relays, fan, brush, the threads `fut_arm_init` and `fut_rail_sweep`, `arm_mtx_` | `do_step_sync_`, `init`, `attach`, `return_home`, `emergency_detach_` | the ropes move a body that hangs free, with the arm off the glass; all threads are joined on every return |
| Pushers | `zdt_bus_mtx_`, the drives' queued moves, stall flags and enables, `last_seal_pulse_`, the break-vacuum relay | `pusher_two_stage_retract_`, `pusher_move_many_`, `pusher_extend_with_disable_seal_`, `do_feet_realign_` | a reported result is the position; no drive stays off, no valve open; the bus comes back |
| Pump rotation | `active_pump_`, `pump_swap_in_progress_`, relays | `pump_rotate_loop_`, `pump_swap_`, manual swap, the flows | never no pump |
| Arm rail | `rail_jog_dir_`, `rail_jog_last_ms_`, `motion_mtx_` | `rail_jog`, its monitor, moves, zero, setup, sweeps | a jog ends when its operator is gone |
| Refill | `water_inlet_open_ts_ms_`, level sensors | `set_water_inlet_`, watchdog | the valve at the crane is closed in time |

Hard: emergency stop, the crane watchdog and the running step write `state_`
independently; a command to the crane that timed out may still be running there.

### Cleaning arm (`cleaning_arm/main_api.cpp`)

A feedback thread writes the frames of every motor whose flag `enabled` is set; a thread
per connection and the boot thread run commands to their end, with nothing to make them
exclusive.  A routine that writes frames itself takes the flag by `exchange(false)` and
gives it back.  `motor_mutex_` covers single frames only.  Correct means: no flag is lost
in the exchange, and no motor gets a frame without torque while it carries the arm.

### Transport, drivers, dispatcher, web

`TCP_client` pairs requests with replies on a Modbus link without transaction
numbers: a reply that is late answers the next request, until ten timeouts in a
row drop the connection.  `TCP_server::broadcast` sends under `clients_mtx`.
The drivers (`user_lib/`) frame one exchange and keep no state.  The dispatcher
maps words to functions; the web backend relays lines.

### How they interact

The operator's page sends lines through the web backend to the body and to the
crane.  The body is a client of the crane on two sockets.  Inside a program the
threads share atomics, with a mutex around a command or a bus exchange.  Sensors
and inverters answer or time out; a command to one of them may have been carried
out although its answer was lost, and the models treat it so.

## 2. Modules

| Module | What it is |
|---|---|
| `CraneMotion` | the crane's rope motion: every command that drives the inverters, the hold loop, the watchdog |
| `MCCraneMotion` | its instances: scenario mixes and symmetry |
| `CraneMotionProofs` | its theorems |
| `WaterValve` | the water valve and its deadman |
| `RefillWatch` | the body's refill watchdog, composed with `WaterValve` |
| `Meters` | the crane's rope meters: filter, cache, zeroing, settings, goto, restart |
| `BodyControl` | who may move the body and who stops it: the flows under `motion_mtx_`, the fast commands, the background threads |
| `CraneCall` | what a call of `crane_cmd_` promises, abstractly |
| `CraneLink` | the body's line to the crane, which implements `CraneCall` |
| `CraneLinkProofs` | its theorems, the refinement among them |
| `StepSync` | what a step does and who runs beside it: cups, ropes, the arm's two threads, the detach |
| `Pushers` | the pushers' bus, and the operations that share it |
| `MCPushers` | its mixes of calls |
| `Pumps`, `MCPumps` | the two vacuum pumps and their rotation |
| `Rail` | the rail of the arm and the monitor of its jog |
| `Arm`, `MCArm` | the arm's motor service: flags, routines, sequences |
| `CraneDevicesProofs` | the theorems of `WaterValve`, `RefillWatch` and `Meters` |
| `SuctionProofs` | the theorems of `Pumps` and `Pushers` |
| `BodyControlProofs`, `StepSyncProofs`, `RailProofs`, `ArmProofs` | the theorems of the modules they are named after |

`Pushers` and `Meters` give their specifications and types names of their own
(`PushSpec`, `PushTypeOK`, `MeterSpec`, `MeterTypeOK`), so that one proof module can hold
the theorems of two components.

`BodyControl`, `StepSync` and `Pushers` are three depths of one program: the first has every
command with operations that only succeed or fail, the second has the commands of a step
with what each operation does to cups, ropes and arm, the third has a single operation
with its exchanges on the bus.

### CraneMotion

A step is one access to the shared state, or one exchange with the inverters
including its retries.  A thread's place is `pc`, its locals are `job`.

| Model | Code |
|---|---|
| `vfd[s]` | what the inverter of a side does: the last command it carried out |
| `bus[s]` | whether its link answers; `BusFails`, `BusReturns` |
| `lock` | `motion_mtx`, always taken by `try_lock` |
| `hold[s]`, `manual[s]`, `active`, `abort` | the atomics of the same purpose |
| `lease`, `beat`, `fired` | the age of `g_hold_lease_ms` and of `last_ping_ms`, `watchdog_fired` |
| `HoldOn` .. `ActStore`, `RollStop`, `RollFlags`, `Sync*` | `cmd_hold` (4842), in the order of its stores and exchanges |
| `Motion`, `MotionBegins`, `Loop*`, `Motion*` | `motion_rope` (3389), `cmd_roll_correct`, `cmd_align_lengths`, `cmd_side_measured` |
| `Fine*`, `Corr*` | `motion_fine_adjust_sync` (2916) |
| `Trim*`, `Manual*` | `cmd_roll_trim_ms`, `cmd_manual` |
| `HoldAllOff*` | `hold_all_off` (2167) and the stop after it, run by a client, the hold loop or the watchdog |

Lengths, tensions and times are abstracted to the decisions they lead to: a loop
may find its target reached whenever the lengths are valid, may time out at any
moment, may meet an alarm where the scenario has tensions.

`orphan` is a history variable: for each side, why it might move with nobody
answering for it.  It is what makes `MovingRopeAnswered` inductive: each cause is
recorded in the step that creates it, so that everything not recorded must have
a thread in charge.

Properties:

* `MotionMutex`: the commands that start an inverter hold `motion_mtx` in every
  part that needs it, and none of their returns keeps it.
* `MovingRopeAnswered`: a rope that moves has a hold flag, a manual operator or a
  thread that will yet stop it - or one of exactly four recorded causes: its stop
  did not reach the inverter; its start was carried out after its flag had been
  cleared; its flag was cleared after a newer start; `fine_adjust` gave up on
  ropes that `motion_rope` had left running.
* `OnlyOneSideOffMixes`: holds and motions never own the ropes together, the
  one-side `off` apart.
* `LeaseDropsHold`, `LockReturned`, `SilenceStopsMotion`: the liveness of the
  hold loop, of the commands and of the watchdog.

### WaterValve

`Call` is the entry of `zs_set_relay_verified` (5801), by a client's
`water_inlet` or by the deadman; `Write`, `NoEcho`, `Read`, `ReadFails`, `Arm`
are its exchanges and its end.  `timer` is `g_water_open_ts_ms` as an age.
Nothing makes two calls exclusive and the model interleaves them at every
exchange.  `NoEcho` stands for one or several attempts of `controlRelay` without
an echo; attempts that changed nothing are no step.  `Restart` is the end or
death of the program, its start and the boot probe (6462).

`astray` is the history of why an open valve may have no timer.
`UnwatchedExplained` says there are three such reasons and no other;
`DeadmanCloses` that the deadman closes an overdue valve however often it fails.

### CraneCall and CraneLink

`CraneCall` knows two things of a call: how often the crane has run its line and
what the caller was told.  A line runs at most once, and `ok` is told only when
it has run; a failure tells nothing, the line may even run later.

`CraneLink` is `crane_cmd_` (`app/WASH_ROBOT.cpp:752-886`), the client under it
with its reconnect thread (`transport/TCP_client.cpp`), and the crane's thread
for each connection.  `crane_mtx_` makes the calls a sequence, so that one `pc`
is enough for the callers.

| Model | Code |
|---|---|
| `pc`, `call`, `attempt` | the place in `crane_cmd_`, the number of the line, the loop variable |
| `sock`, `connected`, `monitor`, `seen` | `TCP_client`; `seen` is `reconnectLoop` past its check (272) and not yet in its lock (279) |
| `rx` | `crane_rx_buf_` |
| `Retry`, `Check`, `Connect` | the fresh socket of the second attempt, `crane_connect_if_needed_` |
| `ReadAhead`, `Consume`, `Send` | 801-812: what is there is read, complete lines dropped; `sendData` drops what has come since and sends |
| `Receive`, `ReceiveEof`, `Timeout` | 831-883 |
| `wire[k]`, `req[k]`, `at[k]` | what a connection carries to the body, to the crane, and what the crane's thread executes |

A line is two pieces, its beginning, which says what it is, and its end: enough
for every way of cutting it that the code tells apart.  A result `foreign` is the
OK of another line, which the caller cannot tell from its own; the refinement
counts it as a failure, and `ForeignOnlyIfTorn` says when it happens: only after
`crane_cmd_` has taken for a line what was none (`torn`).

### BodyControl

A flow is the thread of a slow command (`facade_cleaning_v2/main.cpp:72`): `init`,
`attach`, `detach`, a step, `run`, `script`, `return_home`, `recover`, `realign`,
`arm_sweep`, `pusher`.  It takes `motion_mtx_` (all but `pusher` do) and executes operations
on valves, pushers and ropes.  What an operation does is left out.  Kept is what the code looks at before
it (`tested`: `try_or_pause_`, `app/WASH_ROBOT.h:2043`), after it (`checked`:
`check_abort_`), and what its failure leads to (`onFail`: the operator is asked, the
flow ends, or it goes on).  Several operations of the code with the same treatment are
one of the model.

| Model | Code |
|---|---|
| `state`, `reason`, `before`, `waitBefore`, `action` | `state_`, `pause_reason_`, `state_before_pause_`, `state_before_wait_`, `pause_action_` |
| `abort`, `pause`, `imuAsk`, `stepping` | `abort_flag`, `pause_flag`, `imu_ask_pending_`, `step_in_progress_` |
| `mtx`, `flow[f]` | the owner of `motion_mtx_`; the command of a thread and its place |
| `EnterAs`, `Top`, `Lock`, `Turn`, `Wait`, `StoreResult` | the commands themselves (`app/wash_robot_commands.cpp:60`, `190`, `318`, `2854`, `3310`, `5504`, `5612`) |
| `Try`, `Begin`, `OpSucceeds`, `OpFails`, `Check`, `Ask`, `Answered` | `try_or_pause_`, `check_abort_`, `await_user_intervention_` |
| `Sweep`, `Swept`, `CheckSwept` | the sweep before a script's first step |
| `LinkAborts`, `InMotion` | the abort on a silent link in `crane_watchdog_loop_`, while `motion_active_` says that a flow moves |
| `Receive`, then `Pause`, `Resume`, `Answer`, `Reset` | the fast commands, in the receive thread: each looks at the state, and acts afterwards |
| `EmergencyStop`, `Stopped`, `DetachDone` | `cmd_emergency_stop` before and after it has talked to drives and crane; the end of `emergency_detach_` |
| `WatchdogSees`, `WatchdogPauses` | the crane alarm in `crane_watchdog_loop_` |
| `TiltEmergency`, `TiltStopped`, `TiltAsks`, `TiltOver` | `imu_monitor_loop_` |

`since` and `heldAt` are history: how many operations the owner of `motion_mtx_` has
begun since a stop found it, and the operation at which a pause found it.

* `StopHolds`: after a stop the flow it found begins at most the one operation whose
  test has been passed, whatever the operator answers and however failures, pauses and
  alarms interleave.  A `reset`, a `recover` or an aborted `pusher` that clears
  `abort_flag` ends the promise, as in the code; the end of `init` is outside it.
* `PauseHolds`: a flow that was paused gets at most one operation further, also when
  that one fails and is retried or skipped.

A script's sweep waits for `motion_mtx_` and runs even with `abort_flag` up from an
earlier stop, which is looked at only afterwards; the model has it so.

### StepSync

The operations of `do_step_sync_`, `attach`, `init` and `return_home` are sequences of
records `Op(does, onFail, checked)` (`StepOps` and its like); the body of each is an action
named after it.  The cups are one: `out`, or `grip`ping.

| Model | Code |
|---|---|
| `Refuse`, `Check`, `Abandon`, `Retry`, `Skip` | `try_or_pause_`, `check_abort_`, `await_user_intervention_` |
| `SetValve`, `ReadBack`, `Release`, `Extend`, `Retract`, `Look` | the relays with their readback, `vacuum_wait_release_`, the pushers, `vacuum_check_` |
| `Rope`, `Roll*` | the crane's move, and the passes that level the roll |
| `LaunchInit`, `InitBegin`, `InitEnd`, `LaunchSweep`, `Sweep*`, `Join`, `Failed` | `fut_arm_init`, `fut_rail_sweep` and the destructors that join them |
| `Detach*` | `emergency_detach_`, in its order |

* `RopeFree`: when the ropes begin to move, no pusher is out and no cup holds, but for a
  pusher that could not be read, a skipped retraction, or a manual command.
* `RopeClearOfArm`: nor is the arm on the glass, unless its retraction was lost or not
  waited for to its end.
* `StopEndsFlow`: after an emergency stop the command ends: the joins, `arm_mtx_` and the
  detach do not keep each other.

### Pushers

`pos` is where a pusher is, `goal` where it drives to, `queue` the move a drive holds until
the next broadcast: a broadcast starts what anyone has queued.  `deaf` drives answer
nothing.  `Retract*`, `Move*`, `Extend*` and `Realign*` are the steps of the four operations
between two exchanges; `EmergencyStop` stops the drives without the mutex.

* `RetractOkIn`: a retract that reports success has its pushers in, whatever was lost or
  stopped on the way; a realign, which takes no bus mutex, is the one exception.
* `PowerRestored`: no return of the extension leaves a driver off, unless its enable was lost.
* `BreakVacuumOff`: nor does a retract leave the break-vacuum valve open.
* `LearnedIsSealed`: what the next extension starts from was read at a seal.
* `BusReturned`: who waits for the bus gets it, except behind a retract that waits for itself.

### Pumps

`Enter`, the overlap, `Failed`, the verification and the revert are `pump_swap_`
(`app/wash_robot_commands.cpp:4329`), run by the rotation thread and by a manual swap;
`Write` and `Verify` steps are `pqw_set_relay_verified_`, which gives up after its
readbacks and calls that a success.  `wanted` and `why` are history.  `SuctionKept`: once a
command has started a pump and none has stopped it, one runs, but for an opening taken as
done unseen and a command that wrote the pumps in the middle of a swap.

### Rail

A jog's command is over while the rail still moves; `dir` is all that the monitor knows it
by.  `UnwatchedExplained`: a rail that jogs with `dir` at 0 has a lost stop frame, a start
carried out without its echo, or a start between the monitor's stop and its store behind
it.  `JogEnds`: a jog ends by itself otherwise.

### Arm

A thread is at a label of its command (`at`) and of a routine that it has called (`sub`).
`Take`, `TakeBoth` and `GivenBack` are the exchange of the flags; `Routine(t)` has
`enable_slot`, `disable_slot`, `set_zero_slot`, `go_home_slot`, `calibrate_arm_slot`,
`lr_calibrate_slot` and `lr_move_to_slot_impl` at the granularity of their stores;
`Command(t)` the commands and the sequences `STARTUP`, `INIT`, `DEPLOY`, `DEPLOY_F`, `PARK`;
`MoveDone` and `Recover` the loop.  Positions are what the encoder reads: home, near, out on
the glass, or out of range.

* `FlagNotLost`: a motor that was enabled and not disabled since has its flag, or a routine
  in progress will give it back; `lr_calibrate_slot`, which clears the flag a second time, is
  the exception.
* `NoPassiveGap`: a motor whose flag is set either holds or moves, unless a client asked for
  neither, or two routines were at it at once.

### Meters

`ReadV1`, `ReadV2`, `StoreReading` are `meter_read_robust` and its caller; `Accept`, `Reject`, `Longer`,
`Resyncs` its rules for a jump.  `Span`, `Reset`, `ReadBack`, `StoreZero` are `cmd_zero_meters` and
`cmd_zero_meter`; a readback up to `Tolerance` counts as zero (4461), so that a reset which the
meter ignored at a small count, or a machine that moved meanwhile, answers OK too.
`SetHomeGround` and `SetWallHeight` are the two settings, `GotoSpan` the ceiling of `GoTo` (a wall
height that is set wins over `home_ground_cm`, 4333).  `MeterRestart` keeps the counters and
nothing else; the unit file sends the settings again (`scripts/systemd/fcv-crane.service:17`).  A
rope may slip on its meter, a frame be corrupted.

Heights count from `home_ground_cm`, which has to go with the zero of the meters: the span
after a `zero_meters top`, 0 after a `zero_meters ground`.  `datum` is that number, and is unknown
after any other zero command, one that did not answer OK for both meters, or one that
something has hurt: another command at the same time (a `set_home_ground` into a
`zero_meters top` included), a damaged reading, a slip, a left meter that was not zeroed at the
ground when its count was taken for the span.  `drift` is the way that the machine has moved under
that command.

* `HeightTrue`: while `home_ground_cm` is `datum` and no meter has slipped, both heights are the
  true one to `Slack`: twice the tolerance, once for the zero at the ground and once for that at
  the top, and the drift.  This holds again when `set_home_ground` restores it after a restart.
* `GotoInside`: then a goto, with one meter wrong, aims no deeper than the ground and no higher
  than the top, or than the wall height if that is set higher: the code does not compare the
  two, and nothing better holds.
* `CacheSettles`: the cache comes back to the counters when the faults are over, also after
  `meter_loop` has stored over a zero what it had read before it.

### RefillWatch

`SetWaterInlet`, the call and the store are `set_water_inlet_` (4899), by a command (`Ui`) or
by the watchdog (`Watch`); the crane's side is `WaterValve`, whose `Call` serves the line.
`TwoGuards`: a valve that is open with neither timer set takes an accident on each side.

## 3. Runs

| Run | Instance | States | Shows |
|---|---|---|---|
| `crane_safety` | two connections, the seven mixes of `SafetyMixes` | 810,754 | the three safety properties and the types over every command |
| `crane_live` | one connection, the four mixes of `LiveMixes`, fair threads | 64,570 | the three liveness properties |
| `crane_link` | three calls, three connections, a broadcast, a fault | 129,606 | types, the refinement of `CraneCall`, every caller answered, `ForeignOnlyIfTorn` |
| `body_control` | any two of ten commands, one connection, two events | 2,296,662 | types, `StopHolds`, `PauseHolds` |
| `water_valve` | two connections, both guards, one fault | 506,018 | types, `UnwatchedExplained`, `TwoGuards`, `DeadmanCloses` |
| `arm` | the boot's sequence and a command, or two commands | 312,800 | types, `FlagNotLost`, `NoPassiveGap` |
| `pushers` | two cups, two threads, eight mixes of two calls, a fault, a stop | 230,568 | types and the five properties above |
| `pushers_retry` | the same; `RetryReissued` violated | - | the retry of a retract waits for its own mutex |
| `step_sync` | two of four commands, a fault, a stop | 376,450 | types, `RopeFree`, `RopeClearOfArm`, `StopEndsFlow` |
| `pumps` | the rotation, a manual swap, a command thread, two faults | 436,680 | types, `SuctionKept` |
| `rail` | two operators, a sweep, three commands, a fault | 381,248 | types, `UnwatchedExplained`, `JogEnds` |
| `meters` | two meters, a zero command or a setting, a move, a mishap or restart | 620,985 | types, `HeightTrue`, `GotoInside`, `CacheSettles` |

### Bounds

All commands at once, with every event, is too large, and most of it is
independent.  `Scenarios` is the bound: each behaviour keeps to one mix of
commands, events, number of commands at a time (`busy`) and lost links
(`outages`), chosen at the start.  The mixes pair what shares state: holds with
holds and offs, with stop, and one command at a time with the lease and a lost
link; all motions with stop, meters, tensions and a lost link; a motion with holds
under the heartbeat and the lease; trim and manual with a motion; combined holds
with motions.  Within a mix all interleavings are explored.  Two connections are enough
for the lock, since it has one owner and every other thread sees only that it is taken; the hold loop and the watchdog
run beside them.  One lost link is enough for a partial failure of the two
sides, and a mix of its own has it.  A mix with one command at a time still
interleaves that command with the hold loop, the watchdog and the links.

`WaterValve` alone needs two faults, one to lose an echo or a readback and one to lose
another, or to restart in between.  In `RefillWatch`, where the body's calls come on top,
one is what the instance can have; the proofs are for any number.

`CraneLink` has three calls: one that times out, one whose reply it may disturb,
and one after both.  Three connections are the first, the one of a second attempt
and one by the reconnect thread in between.  One broadcast and one fault suffice
to tear a line and to kill a connection; two calls with four connections and two of
each, and three calls with four connections, a broadcast and two faults, find nothing
else.  Since the calls are bounded the system stops when they are done: `CHECK_DEADLOCK FALSE`.

`BodyControl` has two commands (`MaxGiven`), each on a thread of its own: one that owns
`motion_mtx_`, and one that waits for it, or the `pusher` that takes none, or one that
comes after.  A script has two steps, so that the turn between them occurs; `run` is its loop without
the sweep and is left out of the instance (with it: 3.8 million states, no violation).  Two events
(`MaxEvents`) of pause, resume, reset, emergency stop, a failing operation, a crane
alarm or a tilt pair every one with every other; the operator's answers and the end of
a tilt are free.  One receive thread is enough to have a fast command between its look at
the state and its effect while everything else goes on.  A flow of the model has at
most three operations, one of each treatment in the order of the code.  The commands
and events are bounded, so that the system stops: `CHECK_DEADLOCK FALSE`.

`Pushers` has the two cups of one side; every rule of the code is per cup or per side. The
presets are small (a stroke of 4 cm, an extension that may push once beyond its target), the
eight mixes pair each operation with each that can run beside or after it; one fault and one
stop.  With two extensions (576,014 states) and with a buffer and two pushes (1.3 million)
nothing else is found.  `StepSync` has two commands, so that what one leaves finds the
other; one roll pass; one fault, which may be a lost exchange or a manual command.  `Pumps`
has one thread of each kind and two faults, one for a write and one for its readback; three
commands and a second hand (5.4 million states) add nothing.  `Rail` has three commands, a
jog, what disturbs it, and one after.  `Arm` has two threads, and either the boot's sequence
and a command, or two commands; the boot's with two (4.8 million states) passes too.
`Meters` scales lengths: the facade is 3 high, a jump of 1 is believed, 2 are not, two
coherent rejections resynchronise, a count of 1 passes for zero.  The machine starts at the
top or in the middle, where a reset that is ignored passes; its one move takes it anywhere.
The one mishap is a slip, an ignored or half-done reset, a bad reading or a restart; a wall
height of 6 lets targets lie above the top. `HeightTrue` fails when `Slack` loses its
tolerance or its drift, `GotoInside` when `Outermost` loses the wall height.  What takes two
commands (two zeros, a `set_home_ground` that restores the span after a restart) was checked
for safety in an instance whose filter believes every move, which is the worst for `goto`
(2.1 million states). All of these stop when their commands are used up: `CHECK_DEADLOCK
FALSE`, `pumps` excepted, whose rotation goes on.

### Fairness

`hold_loop`, `watchdog_loop` and `water_dog_loop` are threads that poll for as
long as the program runs, and a thread inside a command is always scheduled: it
waits only in sleeps and in exchanges with a timeout, and takes its locks by
`try_lock`.  So `HoldLapse`, `WatchdogFires`, `DogFires` and every step inside a
command are weakly fair.  Receipt of a command, renewal, the ageing of the lease
and the heartbeat, faults and repairs are not: nobody owes them.  For
`CraneLink` the thread of the caller is fair, `WF_vars(CraneCmd)`: each of its waits
has a deadline, so that it depends on neither the crane nor the reconnect thread.  For
`WaterValve` only the deadman is fair.  The faults there are finite because they are
bounded; a link that never answers again would defeat any deadman.

`StepSync`, `Rail`, `Pushers` and `Meters` add theirs: the threads of the body and the
motors are scheduled and every wait in them has a timeout (`WF_vars` of each thread's steps
and of `Arrive`, `ArmMoves` and the like), the monitor of the rail polls for ever, a jog
that is not repeated grows old, and `meter_loop` reads for ever.  No command is owed.

## 4. Proofs

TLC checks instances.  The theorems hold for every value of the constants that the
assumptions in the modules allow: any number of connections, threads, flows, scripts,
commands, faults and events, and every set of scenarios.  Every safety property of the
passing runs is among them, each checked by TLC first; the strengthenings below are what
makes them inductive.  What is not proved is listed at the end of this section.

`CraneMotionProofs`:

1. `TypeCorrect`: `Spec => []TypeOK`.
2. `CommandCorrect`: `[]CommandOK`, the invariant that ties a thread's label to
   the command it executes (a thread at a label of a motion executes a motion,
   one in the rollback of a hold executes a hold).  Neither of the next two is
   inductive without it: a step at a shared label does different things for
   different commands.
3. `MutexCorrect`: `[]MotionMutex`.  The lock is given in one place and returned
   in several; `CommandOK` says which labels belong to a command that owns it.
4. `AnsweredCorrect`: `[]MovingRopeAnswered`.  Each action is split by what it
   disturbs: a step that runs a side leaves its thread in charge or records a
   cause; one that leaves a label of charge has stopped the side, set its flag or
   recorded why not; one that clears a flag goes on to stop the side or records it.
5. `OneSideOffCorrect`: `[]OnlyOneSideOffMixes`.  The property speaks of the labels of a
   motion's own; `Apart` adds those at which a motion starts both sides, which it shares with
   a combined hold.  Past its check a motion owns `motion_mtx`; without a one-side `off`,
   flags are only set by an owner (`ApartFlags`).

`CraneDevicesProofs`, the valve: `TypeCorrect`, and `ExplainedCorrect`,
`[]UnwatchedExplained`, for any clients and any number of faults.

`CraneLinkProofs`:

1. `TypeCorrect`: `[]TypeOK`, in which the buffer holds no complete line once a line
   has been sent.
2. `PromiseKept`: `Spec => KeepsPromise`, the refinement of `CraneCall`.  The
   invariant has three parts: calls are asked in order and the line of the call has
   not run before it is sent (`CallsInOrder`); a line is in at most one place on its
   way and has not run while it is there (`LinesOnce`); what executes, and what an OK
   is under way for, has run (`OksRan`).
3. `LateRepliesKeptAway`: `[]ForeignOnlyIfTorn`.  Without a torn line, the line of the
   call that waits, its execution or its reply is in one place of the connection in
   use, and nothing else is (`OneReply`); and a connection that is opened carries
   nothing (`Fresh`), so that neither a retry nor the reconnect thread brings an old
   reply back.

`CraneDevicesProofs`, the watchdog: `WatchTypeCorrect`; `StillExplained`, the two theorems
above of the valve with the body on its line; and `BothGuardsFail`, `[]TwoGuards`.  All but three
actions of the composition are steps of `WaterValve` or leave it alone (`CraneSteps`), so
that the crane's half is the step lemmas about `WaterValve`.  The body's half needs to
know which of its calls the crane serves (`Serves`) and that a call under way has been
stamped before it was sent or has an accident behind it (`Stamped`, `BodyExplained`).

`CraneDevicesProofs`, the meters: `MeterTypeCorrect`, `HeightCorrect` (`[]HeightTrue`) and
`GotoCorrect` (`[]GotoInside`), from the invariant `MeterInv`.  `HeightTrue` speaks of the
end of a zero command; the invariant carries what each part of it knows.  A command that
nothing has hurt is the only one at work (`Alone`); at the top it has taken the span from
where the machine hung, to the tolerance and to what the machine has moved since
(`SpanKnown`); and what it has read back is the count to that drift, while the span plus a
reading plus the counter's origin is the ground to the tolerance as well (`ReadTrue`,
`Fits`), because moving changes the count and what is left of the span alike.  When all of
it read zero to the tolerance, `datum` plus the origin is the ground to the slack
(`DatumTrue`), which only a slip or the next zero command can undo: not a setting, which
changes `home_ground_cm` and not `datum`, and not a restart.  For `GotoInside` one meter
that has not slipped is enough: its height is the true one to the slack, and the two cached
heights lie about that (`HeightBetween`), so that the higher one cannot aim above the top on
the way up nor the lower one into the ground on the way down.

`BodyControlProofs`: `TypeCorrect`, `StopCorrect` (`[]StopHolds`) and `PauseCorrect`
(`[]PauseHolds`).  The invariant `Core` says who owns `motion_mtx_` (`Owner`), that a
flow a stop has found may begin something only while it is past its test (`Stopping`),
and the like of a pause (`Pausing`).  Both rest on two lemmas about the tables of
operations: one that is begun without a look at `abort_flag` follows one after which
`check_abort_` looks, or is the first, or the end of `init` (`Untested`); and one that
nothing checks after it is the last or is followed by one that is tested (`Unchecked`).

`StepSyncProofs`: `TypeCorrect`, `RopeFreeCorrect` and `ArmClearCorrect`, the last two
action properties, from the invariant `IInv`.  The properties look at one moment, in which
the ropes begin to move; the invariant says over which stretch of a command that was
prepared: between the end of the retraction and the extension the cups are clear
(`Hanging`, `CupsClear`), which rests on who may touch them beside the flow; the
calibration is under way only between the operations that begin it and take it back
(`Calibrating`), the sweep only after the ropes have stopped and inside its step
(`Cleaning`), whatever return the step takes, because each of them joins; and outside the
places of the sweep in which the arm may be on the glass it is in (`ArmKnown`).
`RopeBegins` and `RopePlace` then say that nothing but the rope operation and a pulse of
the roll correction asks the crane to move, and where they stand.

`SuctionProofs`, the pumps: `TypeCorrect` and `SuctionCorrect` (`[]SuctionKept`).  In a swap the pump
that comes is on from its verification on, or was taken as on unseen (`ComesRuns`); the
other commands either leave it so or record that they wrote in the middle (`InitRuns`,
`SetRuns`); and two swaps exclude each other, which `swapping` and its exchange give.

`SuctionProofs`, the pushers: `PushTypeCorrect`, `RetractIn` (`[]RetractOkIn`), `PowerBack`
(`[]PowerRestored`), `ValveClosed` (`[]BreakVacuumOff`) and `Learned` (`LearnedIsSealed`, an
action property), all from the invariant `PushInv`:

* `Owner`: `zdt_bus_mtx_` is held exactly at the places at which the code holds it, so that
  two of the operations never interleave.  The emergency stop and the realign take no mutex;
  what they may do to the others is in the parts below.
* `Extension`: the locals of an extension are those of the one caller that is inside one;
  every cup of the call is open, given up, read as sealed or the obstacle (`Accounts`), which
  is what `Learned` needs at the end; and no plan goes beyond the limit.
* `Power`: a driver is off between the steps that release and enable it, and only for a cup
  that is still open, or its enable was not heard.
* `Valve`: an open valve is guarded or every attempt to close it was lost, and a guard is
  armed only inside a retract.
* `Homing`: after its broadcast nothing of another's is queued on the pushers of a retract,
  after its wait they drive nowhere but home, and at its end they are in - but for those
  that a realign has touched since (`realigned`).  A deaf drive is why each of the three
  is needed: it keeps the move that it was told before, and the retract's verification is
  what notices.

`RailProofs`: `TypeCorrect`, which holds the ownership of `motion_mtx_`, and
`UnwatchedCorrect` (`[]UnwatchedExplained`).  Between the stop at an end of the rail and the
store that follows it the thread owns the mutex, which every start needs, so that the rail
still rests or the stop was lost (`StoppedStays`); the monitor stops without the mutex, and a
start behind it is the third of the recorded causes.

`ArmProofs`: `TypeCorrect`, `FlagCorrect` (`[]FlagNotLost`) and `GapCorrect`
(`[]NoPassiveGap`).  The flag is a token: a thread that has taken it (`got`, `peer`) is at a
label of a routine that gives it back (`ThreadOK`), and a step within a routine keeps what
the thread owes (`WithinKeeps`).  That the loop sends no frame without torque is not
inductive: a thread that holds a flag will set it later, and the motor must hold or move by
then.  `NoGap` adds that nobody is about to set the flag of a motor that neither holds nor
moves, and `Exclusive` that two routines at one motor have been recorded in `crossed`, so
that what a thread saw when it took the flag is still so when it gives it back.

The assumptions are those in the modules: the threads are distinct, the commands and
scenarios are well formed, the bounds and lengths are natural numbers.  Two say more of
the lengths: what an extension may plan is within the reach of a pusher (`Preset + OverCap +
MaxOver <= Stroke`, which is what the cap at `app/WASH_ROBOT.cpp:4697` is for), and a jump
that the meters' filter takes as small is one that it believes (`SmallJump <= MaxJump`).

Only model-checked:

* the liveness properties (`LeaseDropsHold`, `LockReturned`, `SilenceStopsMotion`,
  `EveryCallAnswered`, `DeadmanCloses`, `StopEndsFlow`, `BusReturned`, `JogEnds`,
  `CacheSettles`): fairness is beyond the prover used;
* the violation, which is a counterexample.

## 5. Where the code and its comments disagree

`pushers_retry` shows one of these as a counterexample:

1. *The retry of a retract* (`app/WASH_ROBOT.cpp:3761`).  `pusher_two_stage_retract_` holds
   `zdt_bus_mtx_`, a `std::mutex` (`app/WASH_ROBOT.h:1515`), from 3615 on, and the retry calls
   `pusher_move_many_`, which locks it again (3423).  The comment at 3730 says that the
   retract is reissued once.

The models have the next ones too.  Their properties name each as a cause they admit, so
that TLC visits it and nothing else is behind it:

2. *A slow start outlives the lease* (4930).  `cmd_hold` stores the flag and then
   starts the inverter.  If the start takes longer than `HOLD_LEASE_MS`,
   `hold_loop` clears the flag and stops the inverter first, and the start lands
   afterwards.  The comment at 4897 says the stamp covers it.
3. *`fine_adjust` from rest* (3478).  Timeout, abort and a length difference leave
   the loop with the inverters running; comments at 3747 and 3773 say they are
   stopped.  With invalid lengths `fine_adjust` returns at once and the ropes go on.
4. *Reverse direction closed* (4885).  A one-side `off` takes no lock (4970).
5. *0 = not armed, valve closed* (863).  An opening without echo returns ERR, with
   the relay possibly switched and the deadman not armed (5804).
6. *Nothing left to cut* (`app/WASH_ROBOT.cpp:799`).  What arrives between the read
   ahead (812) and the drain inside `sendData` (`transport/TCP_client.cpp:397`) is dropped,
   half a line too.  Its end is then taken for the reply, and the real one, on a
   socket that nobody closed, for the next call's; `app/WASH_ROBOT.h:1523` says that
   a late reply is never consumed by the next command.
7. *Retries, skips or aborts based on user input* (`app/WASH_ROBOT.h:2038`).  When a
   pause or a reset ends the wait for the operator, `try_or_pause_` (2088) receives
   `PauseAction::None`, which the log calls ABORT
   (`app/wash_robot_commands.cpp:5735`), and calls the failed operation again.
8. *Arm off the wall before the feet let go* (`app/wash_robot_commands.cpp:3855`).  The sweep's
   thread, started at 2311, looks at `abort_flag` once (2079): a `DEPLOY` that it sends before
   or after that look (2060, 2106) may wait behind the retraction of `emergency_detach_`, and the
   arm is on the glass again when the feet let go.
9. *A stop frame that is lost* (`app/wash_robot_commands.cpp:526`, 574).  The jog's direction is
   cleared whether or not the rail has answered; `app/WASH_ROBOT.h:1612` has a deadman stop
   every jog that is not repeated, which after that does not look any more.
10. *A slipped meter can never make goto overshoot* (4351).  `goto` takes the pessimistic one of
    the two heights; when both meters have slipped, neither brackets the true one.
11. *`home_ground_cm` is only displayed* (4300).  The comment on `set_home_ground` says that no
    motion limit and no safety check reads it and a wrong value causes no dangerous motion; `goto`,
    which is younger, takes it for its ceiling (4336) and for the height it starts from (4355).
    After a zero at the ground and a wrong `set_home_ground` it aims below the ground.
12. *Ground-zero convention: `home_ground_cm` = 0* (758; `web_backend/server.js:396` has it always
    0, `harness/fake_robot.py:814` clears it, `scripts/cycle_test.py:247` tells the conventions
    apart by it).  `zero_meters ground` does not write it (4405): after a `zero_meters top` the
    heights are off by the span.

Met while reading, and outside what a run here could ask:

13. `crane_goto` refuses to move while a cup holds, "no legitimate use"
    (`app/wash_robot_commands.cpp:5786`), and takes no `motion_mtx_` (5778-5816): a flow
    may attach the cups behind its check.
14. `app/WASH_ROBOT.h:2265` has `last_seal_pulse_` updated with confirmed seals; a cup that met an
    obstacle is recorded as well, where it stood.  `LearnedIsSealed` says what is kept.
15. `cmd_arm_retract` answers OK when its wait has timed out (`app/WASH_ROBOT.cpp:1172`).
16. `zdt_bus_mtx_` keeps whole exchanges apart (`app/WASH_ROBOT.h:1510-1515`);
    `do_feet_realign_` drives the same pushers without it (`app/wash_robot_commands.cpp:2507`).
17. The only command that writes `home_ground_cm` is `zero_meters top` (4291,
    `scripts/cycle_test.py:249`): `set_home_ground`, under that very comment, is another.
18. `goto` refuses anything outside [0, span], "so the guard lives where the meters are" (754-755):
    a wall height that is larger than the span takes the guard away by as much (`Outermost`).

## 6. Not modelled, and why

* Crane, ropes: the middle winch and the balance trim (they change speeds, not who may
  run); refusals because a device is absent (they change nothing); the keepalive
  (2502-2682) that clears inverter alarms and the inverter's own stop on a lost link; the
  end of the program; connections that come and go (the watchdog does not look while
  there is none, 2060).  What `cmd_goto` aims at is in `Meters`; its motion is `motion_rope`'s.
* Crane, meters: the learning of levels, the balance trim's use of them (1812-1954), the
  calibration of the meters (5224-5317): they change scales and speeds and no zero; the middle
  meter, whose reset can only turn an OK into an ERR; the range checks of the two settings.  A
  `resetAll` that takes any reply for its own is the Modbus link's.
* Link to the crane: the detached mode, in which `crane_cmd_` answers "OK skipped"
  without a connection; the channel for emergency stops; the handling of an EVT line
  and `crane_last_ok_ms_`; a socket that `connectToServer` overwrites without closing
  it (the connection stays open, and the model lets the crane's thread of it go on).
* Body, control: `crane_goto` (it shares the crane's lock with the flows and nothing
  else), the arm's obstacle pause in `try_or_pause_`, the shutdown.
  `emergency_detach_active_` is cleared in one step with the state, and
  the stores of `await_user_intervention_` and of the watchdog's end are one step each.
* Body, step: pauses (`BodyControl` has them), pumps (`Pumps`) and water; the detach's skip of
  drives that are off.  The alternate gaits are code that no command reaches: the
  dispatcher refuses them (`command/dispatcher.cpp:38`).
* Pushers: `zdt_home` and the retract of a single cup, which an operator uses at rest.
* Pumps: the end of the program.
* Rail: speeds, the calibration of the travel, a drive that answers with a frame of another
  request.
* Refill: which level starts it, the detached mode, the check after a reconnect.
* Arm: `DIAG`, `PARAM`, `MODE`, `SETWALL` and the speeds, which store a number; the raw frames and
  the damping of `FREE_HANG`; where M2's slots are, and with it the check that `LR_SLOT` has and
  `LR_CALIBRATE`, `HOME` and `MOVETO` of M2 have not.
* Transport and drivers: a Modbus byte stream in which a late reply answers the next request
  (`transport/TCP_client.cpp:519`), and the broadcast under `clients_mtx`
  (`transport/TCP_server.cpp:193`): both need the sockets' buffers as state beside every
  exchange of the models above.  There an exchange is answered, or fails with the command
  carried out or not.
* Settings and status, web backend and pages, scripts: stores with range checks, relaying and
  rendering; they send the commands that the models let clients send in any order.

What some properties do not say: `SilenceStopsMotion` is checked with one client, so that a second
one that feeds the watchdog or overwrites `motion_active` is not in it; `NoPassiveGap` looks at the
flags together, where `feedback_loop` reads them one by one; `LearnedIsSealed` says of which cups
something is learned and not that the value is still the pusher's place; and the cause that
`UnwatchedExplained` of the rail records stays until the next stop or move, so that it also excuses
a jog after it.  `HeightTrue` and `GotoInside` say nothing of a height whose `home_ground_cm` does
not go with the meters' zero: the code cannot tell (section 5, 11
and 12).

## 7. Plan

Left to do, in the order of what matters most:

1. A property, with its proof, for the pause that has lost its reason
   (`app/wash_robot_commands.cpp:5709`): that only a pause, a tilt or an alarm inside an
   operation that then fails leads to it, and a stop out of it.  The same for what a
   reading that the meters' filter accepts may be off by, a store by a zero command in
   between taken as a cause.
2. `CraneBroadcast`: the crane's broadcasts under `clients_mtx` to clients that read
   only during a call, or never (the channel for emergency stops), against
   `watchdog_loop` and `touch_heartbeat`, which need the same lock.  With it the
   emergency stop channel `crane_stop_estop_` and its late acknowledgement.
3. `ModbusLink`: late replies, the timeout streak, and `Meters` and `Pushers` over it.
4. `crane_goto` and the arm's obstacle pause in `BodyControl`; `zdt_home` in `Pushers`.
