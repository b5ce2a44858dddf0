------------------------------- MODULE Meters --------------------------------
(***************************************************************************)
(* The rope meters, Crane_control_PI/main.cpp: meter_loop, which filters   *)
(* what the two SD76 counters say into a cache; zero_meters and zero_meter,*)
(* which reset the counters and the cache from a client's thread;          *)
(* set_home_ground and set_wall_height, which overwrite what a height is   *)
(* counted from and how far it may go; goto, which turns the cache into a  *)
(* height; and the restart, which only the counters survive.               *)
(*                                                                         *)
(* depth is where the machine hangs, 0 at the top and Ground below.  A     *)
(* counter shows the depth less its own origin.  Lengths are scaled: a     *)
(* rope moves at most SmallJump between two looks, MaxJump is what the     *)
(* filter still believes at once.                                          *)
(***************************************************************************)
EXTENDS Integers, FiniteSets, FiniteSetsExt

CONSTANTS
  L, R,        \* the sides; zero_meters resets L first
  Op,          \* threads that execute zero commands
  Ground,      \* depth of the ground, the span
  SmallJump,   \* METER_SMALL_JUMP_CM
  MaxJump,     \* METER_MAX_PHYSICAL_JUMP_CM
  Resync,      \* coherent rejected reads in METER_RESYNC_MS, 3 at least in the code
  Tolerance,   \* ZERO_TOLERANCE_CM
  Noise,       \* what a corrupted frame may say
  Starts,      \* depths at which the machine may hang at first
  Homes, Walls, Targets, \* what set_home_ground, set_wall_height and goto are given
  MaxMoves,    \* bound: moves of the machine
  MaxMishaps,  \* bound: exchanges that fail or are corrupted, slips, restarts
  MaxCommands  \* bound: zero commands and settings

ASSUME SideAssumption == L # R
ASSUME LengthAssumption ==
  /\ {Ground, Resync} \subseteq Nat \ {0} /\ {SmallJump, MaxJump, Tolerance} \subseteq Nat
  /\ SmallJump <= MaxJump
  /\ Noise \subseteq -Ground..Ground /\ Starts \subseteq 0..Ground
  /\ Homes \subseteq Nat /\ Walls \subseteq Nat /\ Targets \subseteq Int
ASSUME MeterBoundAssumption == {MaxMoves, MaxMishaps, MaxCommands} \subseteq Nat

VARIABLES
  depth,      \* of the machine
  origin,     \* of each counter
  cache,      \* g_length_left, g_length_right
  valid,      \* g_length_*_valid
  suspect,    \* g_length_*_suspect
  phase, side, \* meter_loop: where it is in meter_read_robust, and for which meter
  v1, prev,   \* its locals
  result,     \* its MeterReadResult
  run,        \* MeterResync: coherent rejections so far, and the last value
  home,       \* home_ground_cm
  wall,       \* g_wall_height_cm, 0 when unset
  stage,      \* where each thread is in cmd_zero_meters or cmd_zero_meter
  job,        \* its meters, and whether it is zero_meters top
  left,       \* meters it has still to reset
  read,       \* what it has read back
  aim,        \* where the last goto wants the machine, if its meters could tell
  slipped,    \* history: meters that have slipped since they were reset
  datum,      \* history: the home_ground_cm that goes with the meters' zero, if known
  drift,      \* history: how far the machine has moved under the last zero command
  hurt,       \* history: something else has gone wrong under a zero command
  moves, mishaps, commands

device    == <<depth, origin, slipped>>
store     == <<cache, valid, suspect>>
loop      == <<phase, side, v1, prev, result, run>>
zero      == <<stage, job, left, read, hurt>>
height    == <<home, wall, aim, datum, drift>>
bound     == <<moves, mishaps, commands>>
meterVars == <<device, store, loop, zero, height, bound>>

Side   == {L, R}
Other(s) == CHOOSE t \in Side : t # s
Dist(a, b) == IF a < b THEN b - a ELSE a - b
Count(s) == depth - origin[s]

None == [kind |-> "none", value |-> 0]
NoRun == [n |-> 0, last |-> 0]
NoJob == [on |-> {}, top |-> FALSE]

\* The counters zeroed at the ground
MeterInit ==
  /\ depth \in Starts /\ origin = [s \in Side |-> Ground]
  /\ cache = [s \in Side |-> 0]
  /\ valid = [s \in Side |-> FALSE] /\ suspect = [s \in Side |-> FALSE]
  /\ phase = "v1" /\ side = L /\ v1 = 0 /\ prev = 0 /\ result = None
  /\ run = [s \in Side |-> NoRun]
  /\ home = 0 /\ wall = 0
  /\ stage = [o \in Op |-> "idle"] /\ job = [o \in Op |-> NoJob]
  /\ left = [o \in Op |-> {}]
  /\ read = [o \in Op |-> [s \in Side |-> {}]]
  /\ aim = {}
  /\ slipped = {} /\ datum = {0} /\ drift = 0 /\ hurt = [o \in Op |-> FALSE]
  /\ moves = 0 /\ mishaps = 0 /\ commands = 0

-----------------------------------------------------------------------------
Mishap == mishaps < MaxMishaps /\ mishaps' = mishaps + 1 /\ UNCHANGED <<moves, commands>>
NoMishap == UNCHANGED bound

Busy == {o \in Op : stage[o] # "idle"}

\* readUpperInteger: the count; a corrupted value; or no answer, the empty set
Frames(s) == {{Count(s)}} \cup IF mishaps < MaxMishaps THEN {{}} \cup {{c} : c \in Noise} ELSE {}
Undamaged(s, v) == v = {Count(s)}
Reads(s, v) == IF Undamaged(s, v) THEN NoMishap ELSE Mishap
Said(v) == CHOOSE c \in v : TRUE

-----------------------------------------------------------------------------
(* meter_loop and meter_read_robust *)

ReadV1(v) ==
  /\ phase = "v1"
  /\ Reads(side, v)
  /\ IF v = {}
     THEN /\ phase' = "store" /\ result' = [kind |-> "hard", value |-> 0]
          /\ run' = [run EXCEPT ![side] = NoRun]
          /\ UNCHANGED v1
     ELSE phase' = "look" /\ v1' = Said(v) /\ UNCHANGED <<result, run>>
  /\ UNCHANGED <<side, prev, device, store, zero, height>>

Accept(value) ==
  /\ phase' = "store" /\ result' = [kind |-> "accepted", value |-> value]
  /\ run' = [run EXCEPT ![side] = NoRun]

\* Unfiltered after an invalidation; near what is cached; or read once more
Look ==
  /\ phase = "look"
  /\ IF ~valid[side] \/ Dist(v1, cache[side]) <= SmallJump
     THEN Accept(v1) /\ v1' = 0 /\ UNCHANGED prev
     ELSE phase' = "v2" /\ prev' = cache[side] /\ UNCHANGED <<result, run, v1>>
  /\ UNCHANGED <<side, device, store, zero, height, bound>>

Reject(kind, r) ==
  /\ phase' = "store" /\ result' = [kind |-> kind, value |-> 0]
  /\ run' = [run EXCEPT ![side] = r]

\* The coherent rejections, with one more
StartsOver(v2) == [n |-> 1, last |-> v2]   \* mutant
Longer(v2) ==
  LET r == run[side]
  IN  [n |-> IF r.n > 0 /\ Dist(v2, r.last) <= MaxJump THEN r.n + 1 ELSE 1, last |-> v2]

ResyncsLate(n) == n > Resync   \* mutant
Resyncs(n) == n >= Resync

\* Two readings that agree are believed if such a move is possible, or when they go
\* on; two that do not, if the second is near what was cached
Second(v2) ==
  CASE v2 = v1 /\ Dist(v2, prev) <= MaxJump -> Accept(v2)
    [] v2 = v1 /\ Dist(v2, prev) > MaxJump ->
         IF Resyncs(Longer(v2).n) THEN Accept(v2) ELSE Reject("suspect", Longer(v2))
    [] v2 # v1 -> IF Dist(v2, prev) <= SmallJump THEN Accept(v2)
                  ELSE Reject("rejected", NoRun)

ReadV2(v) ==
  /\ phase = "v2"
  /\ Reads(side, v)
  /\ IF v = {} THEN Reject("rejected", run[side]) ELSE Second(Said(v))
  /\ v1' = 0 /\ prev' = 0
  /\ UNCHANGED <<side, device, store, zero, height>>

StoreReading ==
  /\ phase = "store"
  /\ phase' = "v1" /\ side' = Other(side) /\ result' = None
  /\ valid' = [valid EXCEPT ![side] = CASE result.kind = "hard" -> FALSE
                                        [] result.kind = "accepted" -> TRUE
                                        [] OTHER -> @]
  /\ cache' = [cache EXCEPT ![side] = IF result.kind = "accepted" THEN result.value ELSE @]
  /\ suspect' = [suspect EXCEPT ![side] = (result.kind = "suspect")]
  /\ UNCHANGED <<v1, prev, run, device, zero, height, bound>>

MeterLoop == (\E v \in Frames(side) : ReadV1(v) \/ ReadV2(v)) \/ Look \/ StoreReading

-----------------------------------------------------------------------------
(* zero_meters ground, zero_meters top, zero_meter *)

Goes(o, label) == stage' = [stage EXCEPT ![o] = label]

Answers(o) ==
  /\ Goes(o, "idle")
  /\ job' = [job EXCEPT ![o] = NoJob]
  /\ left' = [left EXCEPT ![o] = {}]
  /\ read' = [read EXCEPT ![o] = [s \in Side |-> {}]]
  /\ hurt' = [hurt EXCEPT ![o] = FALSE]

Command == commands < MaxCommands /\ commands' = commands + 1 /\ UNCHANGED <<moves, mishaps>>

\* hurt: another command at the same time, a damaged reading, a slip, and below, keep
\* its OK from meaning that the meters are zeroed
ZeroMeters(o, on, top) ==
  /\ stage[o] = "idle" /\ Command
  /\ top => on = Side
  /\ Goes(o, IF top THEN "span" ELSE "reset")
  /\ job' = [job EXCEPT ![o] = [on |-> on, top |-> top]]
  /\ left' = [left EXCEPT ![o] = on]
  /\ hurt' = [p \in Op |-> (p = o /\ Busy # {}) \/ p \in Busy]
  /\ datum' = {} /\ drift' = 0 /\ aim' = {}
  /\ UNCHANGED <<read, device, store, loop, home, wall>>

\* The left count is the span, whatever the resets will do; right if that meter was
\* zeroed at the ground
Span(o, v) ==
  /\ stage[o] = "span"
  /\ Reads(L, v)
  /\ IF v = {} THEN Answers(o) /\ UNCHANGED home
     ELSE /\ home' = Dist(Said(v), 0)
          /\ Goes(o, "reset")
          /\ hurt' = [hurt EXCEPT ![o] = @ \/ ~Undamaged(L, v)
                                           \/ Dist(origin[L], Ground) > Tolerance]
          /\ UNCHANGED <<job, left, read>>
  /\ UNCHANGED <<device, store, loop, wall, aim, datum, drift>>

Left(o) == IF L \in left[o] THEN L ELSE R

\* resetAll, which takes any answer for its echo: done; ignored by the device; no
\* answer, done or not, which ends the command.  After the last the counters are
\* read back
ResetDone(s) == origin' = [origin EXCEPT ![s] = depth] /\ slipped' = slipped \ {s}
ResetNot     == UNCHANGED <<origin, slipped>>
NextMeter(o, s, after) ==
  /\ left' = [left EXCEPT ![o] = IF @ = {s} THEN job[o].on ELSE @ \ {s}]
  /\ Goes(o, IF left[o] = {s} THEN after ELSE stage[o])
  /\ UNCHANGED job
Reset(o) ==
  /\ stage[o] = "reset"
  /\ \/ ResetDone(Left(o)) /\ NextMeter(o, Left(o), "read") /\ NoMishap /\ UNCHANGED <<read, hurt>>
     \/ ResetNot /\ NextMeter(o, Left(o), "read") /\ Mishap /\ UNCHANGED <<read, hurt>>
     \/ (ResetDone(Left(o)) \/ ResetNot) /\ Answers(o) /\ Mishap
  /\ UNCHANGED <<depth, store, loop, height>>

ReadBack(o, v) ==
  /\ stage[o] = "read"
  /\ Reads(Left(o), v)
  /\ read' = [read EXCEPT ![o][Left(o)] = v]
  /\ hurt' = [hurt EXCEPT ![o] = @ \/ ~Undamaged(Left(o), v)]
  /\ NextMeter(o, Left(o), "store")
  /\ UNCHANGED <<device, store, loop, height>>

\* OK if every counter says zero or almost: a reset that the meter ignored at so small
\* a count passes
OkAnyway(o) == TRUE   \* mutant
Zeroed(o) == \A s \in job[o].on : read[o][s] # {} /\ Dist(Said(read[o][s]), 0) <= Tolerance

\* What was read goes into the cache without the filter; what was not read is invalid.
\* Heights then count from the span that was stored, or from a zero at the ground: there
\* home_ground_cm is not touched, whatever it was
StoreZero(o) ==
  /\ stage[o] = "store"
  /\ cache' = [s \in Side |-> IF read[o][s] # {} THEN Said(read[o][s])
                              ELSE cache[s]]
  /\ valid' = [s \in Side |-> IF s \in job[o].on THEN read[o][s] # {} ELSE valid[s]]
  /\ datum' = IF Zeroed(o) /\ job[o].on = Side /\ ~hurt[o] /\ (job[o].top \/ depth = Ground)
              THEN {IF job[o].top THEN home ELSE 0} ELSE {}
  /\ Answers(o)
  /\ UNCHANGED <<suspect, device, loop, home, wall, aim, drift, bound>>

-----------------------------------------------------------------------------
(* set_home_ground, set_wall_height, goto *)

SetHomeGround(cm) ==
  /\ Command
  /\ home' = cm /\ aim' = {}
  /\ hurt' = [o \in Op |-> hurt[o] \/ job[o].top]
  /\ UNCHANGED <<device, store, loop, stage, job, left, read, wall, datum, drift>>

SetWallHeight(cm) ==
  /\ Command
  /\ wall' = cm /\ aim' = {}
  /\ UNCHANGED <<device, store, loop, zero, home, datum, drift>>

\* A wall height that is set wins
GotoSpan == IF wall > 0 THEN wall ELSE home

Height(s) == home - cache[s]
Current == \A s \in Side : cache[s] = Count(s)

\* A meter that slips counts too little, so that the readings lie about the truth:
\* the higher one counts on the way up, the lower one on the way down
TheOther(up) == IF up THEN Min({Height(s) : s \in Side}) ELSE Max({Height(s) : s \in Side})   \* mutant
Here(up) == IF up THEN Max({Height(s) : s \in Side}) ELSE Min({Height(s) : s \in Side})
GoTo(target) ==
  /\ GotoSpan > 0 /\ target \in 0..GotoSpan
  /\ \A s \in Side : valid[s]
  /\ \E up \in BOOLEAN :
       /\ IF up THEN target > Here(TRUE) ELSE target < Here(FALSE)
       /\ aim' = IF datum # {} /\ Current /\ Cardinality(slipped) <= 1
                 THEN {depth - (target - Here(up))} ELSE {}
  /\ UNCHANGED <<device, store, loop, zero, home, wall, datum, drift, bound>>

-----------------------------------------------------------------------------
\* The machine moves, by a goto or another motion; a meter may miss it
Move(to, slips) ==
  /\ to # depth
  /\ moves < MaxMoves /\ moves' = moves + 1
  /\ mishaps + Cardinality(slips) <= MaxMishaps
  /\ mishaps' = mishaps + Cardinality(slips)
  /\ depth' = to
  /\ origin' = [s \in Side |-> IF s \in slips THEN origin[s] + to - depth ELSE origin[s]]
  /\ slipped' = slipped \cup slips
  /\ aim' = {}
  /\ hurt' = [o \in Op |-> hurt[o] \/ (o \in Busy /\ slips # {})]
  /\ drift' = IF Busy = {} THEN drift ELSE drift + Dist(to, depth)
  /\ UNCHANGED <<commands, store, loop, stage, job, left, read, home, wall, datum>>

\* The program starts again: the counters keep their count, nothing else is kept
MeterRestart ==
  /\ Mishap
  /\ cache' = [s \in Side |-> 0]
  /\ valid' = [s \in Side |-> FALSE] /\ suspect' = [s \in Side |-> FALSE]
  /\ phase' = "v1" /\ side' = L /\ v1' = 0 /\ prev' = 0 /\ result' = None
  /\ run' = [s \in Side |-> NoRun]
  /\ stage' = [o \in Op |-> "idle"] /\ job' = [o \in Op |-> NoJob]
  /\ left' = [o \in Op |-> {}]
  /\ read' = [o \in Op |-> [s \in Side |-> {}]]
  /\ hurt' = [o \in Op |-> FALSE]
  /\ home' = 0 /\ wall' = 0 /\ aim' = {}
  /\ UNCHANGED <<device, datum, drift>>

-----------------------------------------------------------------------------
Commands(o) ==
  \/ \E on \in SUBSET Side \ {{}}, top \in BOOLEAN : ZeroMeters(o, on, top)
  \/ \E v \in Frames(L) : Span(o, v)
  \/ \E v \in Frames(Left(o)) : ReadBack(o, v)
  \/ Reset(o) \/ StoreZero(o)

MeterNext ==
  \/ MeterLoop
  \/ \E o \in Op : Commands(o)
  \/ \E cm \in Homes : SetHomeGround(cm)
  \/ \E cm \in Walls : SetWallHeight(cm)
  \/ \E target \in Targets : GoTo(target)
  \/ \E d \in 0..Ground, slips \in SUBSET Side : Move(d, slips)
  \/ MeterRestart

MeterSpec == MeterInit /\ [][MeterNext]_meterVars

\* meter_loop keeps polling, and a zero command goes on
MeterFairSpec ==
  /\ MeterSpec /\ WF_meterVars(MeterLoop)
  /\ \A o \in Op : WF_meterVars(Commands(o) /\ stage[o] # "idle")

-----------------------------------------------------------------------------
\* Every variable is of its type; the filter never lets a run of rejections get
\* beyond the resync, and a command reads back only what it has reset
MeterTypeOK ==
  /\ depth \in 0..Ground /\ origin \in [Side -> Int] /\ slipped \subseteq Side
  /\ cache \in [Side -> Int]
  /\ valid \in [Side -> BOOLEAN] /\ suspect \in [Side -> BOOLEAN]
  /\ phase \in {"v1", "look", "v2", "store"} /\ side \in Side
  /\ v1 \in Int /\ prev \in Int
  /\ result \in [kind : {"none", "hard", "accepted", "rejected", "suspect"}, value : Int]
  /\ run \in [Side -> [n : 0..(Resync - 1), last : Int]]
  /\ home \in Nat /\ wall \in Nat
  /\ stage \in [Op -> {"idle", "span", "reset", "read", "store"}]
  /\ job \in [Op -> [on : SUBSET Side, top : BOOLEAN]]
  /\ left \in [Op -> SUBSET Side] /\ read \in [Op -> [Side -> SUBSET Int]]
  /\ \A o \in Op : left[o] \subseteq job[o].on
  /\ aim \subseteq Int
  /\ datum \subseteq Nat /\ drift \in Nat /\ hurt \in [Op -> BOOLEAN]
  /\ mishaps \in 0..MaxMishaps /\ moves \in 0..MaxMoves /\ commands \in 0..MaxCommands

\* Two zeros, at the ground and at the top, each right to the tolerance, and what the
\* machine has moved meanwhile, which the readback need not show
Slack == 2 * Tolerance + drift

\* After a zero_meters that answered OK, top or at the ground, with nothing in between
\* and no slip since, the height that goto and the page compute is the true one but for
\* the slack, under the home_ground_cm that goes with that zero: the one zero_meters top
\* has stored, 0 after the ground.  That is so again when set_home_ground restores it
\* after a restart (4289-4316, 4393-4480): no OK is given to a half-done zero
HeightTrue ==
  datum = {home} /\ slipped = {} =>
    \A s \in Side : Dist(home - Count(s), Ground - depth) <= Slack

\* Where a goto may want the machine: the top is only as good as the wall height is, one
\* that is set beyond the wall lets a goto pass the top by as much
Outermost == Min({0, Ground - GotoSpan}) - Slack
Facade    == Outermost..(Ground + Slack)

\* Under that home_ground_cm goto never aims into the ground, nor further above the top
\* than the wall height itself, whichever meter has slipped, as long as only one has and
\* the cache is that of the counters (4333-4360)
GotoInside == datum = {home} => aim \subseteq Facade

\* Whatever has happened, the cache comes back to what the counters say, valid and
\* unsuspected, when the faults are over: also after meter_loop has stored over a
\* zero what it had read before it (2234-2330)
CacheSettles ==
  <>[](\A s \in Side : valid[s] /\ ~suspect[s] /\ cache[s] = Count(s))
=============================================================================
