------------------------------- MODULE Pushers -------------------------------
(***************************************************************************)
(* The pushers that carry the suction cups: one Modbus bus, on which       *)
(* pusher_two_stage_retract_, pusher_move_many_ and                        *)
(* pusher_extend_with_disable_seal_ queue a move on every drive and start  *)
(* all of them with one broadcast.  The three hold zdt_bus_mtx_ from the   *)
(* first exchange to the last; an emergency stop does not take it, nor     *)
(* does do_feet_realign_, which draws all pushers back to the preset.      *)
(*                                                                         *)
(* Positions are whole centimetres (3000 pulses).  A drive that answers    *)
(* nothing is in deaf; everything said to it is lost.  Vacuum is read over *)
(* another bus and may be missed, so a reading is any set of cups that     *)
(* touch something.                                                        *)
(***************************************************************************)
EXTENDS Naturals, Sequences, FiniteSets

CONSTANTS
  Cup,        \* the four pushers
  Right,      \* those of the right side (ZDT_RF1, ZDT_RF2)
  Caller,     \* a step, a manual command, the detach of an emergency stop
  Extender,   \* those that extend, too: all but the detach
  NoCaller,   \* zdt_bus_mtx_ is free
  Preset,     \* pusher_extend_feet_pulse
  OverCap,    \* FEET_TARGET_OVER_CAP_CM
  Buffer,     \* PHASE1_BUFFER_PULSES
  MaxOver,    \* DISABLE_RETRY_MAX_OVEREXTEND, in increments
  MaxIters,   \* disable_retry_max_iters
  Stroke,     \* bound: the length of a pusher
  Mixes,      \* bound: the calls that are made, in their order, and where the pushers start
  MaxMishaps, \* bound: lost broadcasts, drives that stop answering, blocked moves
  MaxStops    \* bound: emergency stops

ASSUME CupAssumption == IsFiniteSet(Cup) /\ Right \subseteq Cup
ASSUME CallerAssumption == NoCaller \notin Caller /\ Extender \subseteq Caller
Ops == {"retract", "move", "extend", "extend_first", "realign"}

ASSUME MixesAssumption == Mixes \subseteq [ops : Seq(Ops), start : [Cup -> 0..Stroke]]
ASSUME PusherBoundAssumption ==
  /\ {OverCap, Buffer, MaxIters, MaxMishaps, MaxStops} \subseteq Nat
  /\ {Preset, MaxOver, Stroke} \subseteq Nat \ {0}
  /\ Preset + OverCap + MaxOver <= Stroke

VARIABLES
  pos,       \* real_pos of each pusher
  goal,      \* where a started pusher is driving to, or Rest
  queue,     \* a move that waits for the next broadcast, or Rest
  enabled,   \* pushers whose driver is enabled
  stall,     \* pushers whose stall flag is latched
  deaf,      \* pushers that answer nothing
  bv,        \* the relay of the break-vacuum valve
  armed,     \* BreakVacuumGuard.armed
  bus,       \* the owner of zdt_bus_mtx_
  place,     \* where each caller is
  call,      \* what each caller asked for
  ext,       \* the locals of the extension in progress
  lastSeal,  \* last_seal_pulse_
  unheard,   \* history: cups that are off because the enable was lost
  realigned, \* history: cups that a realign has moved, or queued a move for
  bvLost,    \* history: every attempt to close the break-vacuum valve was lost
  calls,     \* the calls still to be made
  mishaps, stops

motors   == <<pos, goal, queue, enabled, stall>>
valve    == <<bv, armed, bvLost>>
history  == <<unheard, realigned>>
bounds   == <<calls, mishaps, stops>>
pushVars == <<motors, deaf, valve, bus, place, call, ext, lastSeal, history, bounds>>

Rest == Stroke + 1                       \* no position
Left == Cup \ Right
Side(c) == IF c \in Right THEN Right ELSE Left
NoCall == [op |-> "retract", cups |-> {}, to |-> 0]
NoExt == [open |-> {}, weak |-> {}, obst |-> {}, endp |-> {}, seen |-> {}, iter |-> 0,
          fin |-> [c \in Cup |-> 0], base |-> [c \in Cup |-> 0], plan |-> [c \in Cup |-> 0]]

Centimetres == [Cup -> 0..Stroke]
OnBus ==
  {"m_send", "m_wait", "exit", "r_open", "r_send", "r_close", "r_wait", "r_verify", "r_exit",
   "r_done", "again", "x_send", "x_wait", "x_look", "x_push", "x_pushed", "x_free", "x_seal",
   "x_end", "x_settle"}
OffBus == {"idle", "want", "x_clear", "a_send", "a_wait", "a_read"}

PushTypeOK ==
  /\ pos \in Centimetres
  /\ goal \in [Cup -> 0..Rest] /\ queue \in [Cup -> 0..Rest]
  /\ enabled \subseteq Cup /\ stall \subseteq Cup /\ deaf \subseteq Cup
  /\ bv \in BOOLEAN /\ armed \in BOOLEAN /\ bvLost \in BOOLEAN
  /\ bus \in Caller \cup {NoCaller}
  /\ place \in [Caller -> OnBus \cup OffBus]
  /\ call \in [Caller -> [op : Ops, cups : SUBSET Cup, to : {0, Preset}]]
  /\ lastSeal \in Centimetres /\ unheard \subseteq Cup /\ realigned \subseteq Cup
  /\ ext \in [open : SUBSET Cup, weak : SUBSET Cup, obst : SUBSET Cup, endp : SUBSET Cup,
              seen : SUBSET Cup, iter : 0..MaxIters,
              fin : Centimetres, base : Centimetres, plan : Centimetres]
  /\ ext.weak \cap ext.open = {} /\ ext.obst \cap ext.open = {}
  /\ bus = NoCaller => ext = NoExt

PushInit ==
  /\ \E m \in Mixes : pos = m.start /\ calls = m.ops
  /\ goal = [c \in Cup |-> Rest] /\ queue = goal
  /\ enabled = Cup /\ stall = {} /\ deaf = {}
  /\ bv = FALSE /\ armed = FALSE /\ bvLost = FALSE
  /\ bus = NoCaller
  /\ place = [t \in Caller |-> "idle"]
  /\ call = [t \in Caller |-> NoCall]
  /\ ext = NoExt
  /\ lastSeal = [c \in Cup |-> Preset] /\ unheard = {} /\ realigned = {}
  /\ mishaps = 0 /\ stops = 0

-----------------------------------------------------------------------------
(* The drives.                                                             *)

Refuses == deaf \cup (Cup \ enabled)

Between(c) == (pos[c] + goal[c]) \div 2

\* The pushers of S stop, on the spot or half way
Halt(S, far) ==
  /\ pos'  = [c \in Cup |-> IF c \in S /\ goal[c] # Rest /\ far THEN Between(c) ELSE pos[c]]
  /\ goal' = [c \in Cup |-> IF c \in S THEN Rest ELSE goal[c]]

\* The broadcast starts whatever is queued, whoever queued it, except where it is lost
Started(q, lost) == {c \in Cup : q[c] # Rest} \ (lost \cup Refuses)
Broadcast(q, lost) ==
  /\ lost \subseteq {c \in Cup : q[c] # Rest}
  /\ lost # {} => mishaps < MaxMishaps
  /\ mishaps' = IF lost # {} THEN mishaps + 1 ELSE mishaps
  /\ goal'  = [c \in Cup |-> IF c \in Started(q, lost) THEN q[c] ELSE goal[c]]
  /\ queue' = [c \in Cup |-> IF c \in Started(q, lost) THEN Rest ELSE q[c]]

Queued(S, to) == [c \in Cup |-> IF c \in S THEN to[c] ELSE queue[c]]

\* A relay is switched, or an exchange is lost: the command, or only its echo
Switch(v)     == bv' = v
SwitchLost(v) == bv' \in {bv, v}

Driving == {c \in Cup : goal[c] # Rest}

Arrive ==
  /\ Driving # {}
  /\ pos' = [c \in Cup |-> IF c \in Driving THEN goal[c] ELSE pos[c]]
  /\ goal' = [c \in Cup |-> Rest]
  /\ UNCHANGED <<queue, enabled, stall, deaf, valve, bus, place, call, ext, lastSeal, history, bounds>>

\* Something is in the way of c; the stall flag of its firmware comes in time, or does not
Block(c) ==
  /\ c \in Driving /\ mishaps < MaxMishaps
  /\ Halt({c}, TRUE)
  /\ stall' \in {stall, stall \cup {c}}
  /\ mishaps' = mishaps + 1
  /\ UNCHANGED <<queue, enabled, deaf, valve, bus, place, call, ext, lastSeal, history, calls, stops>>

\* When nobody talks to the drives it makes no difference
GoDeaf(c) ==
  /\ c \notin deaf /\ mishaps < MaxMishaps /\ bus # NoCaller
  /\ deaf' = deaf \cup {c} /\ mishaps' = mishaps + 1
  /\ UNCHANGED <<motors, valve, bus, place, call, ext, lastSeal, history, calls, stops>>

HearAgain(c) ==
  /\ c \in deaf /\ bus # NoCaller
  /\ deaf' = deaf \ {c}
  /\ UNCHANGED <<motors, valve, bus, place, call, ext, lastSeal, history, bounds>>

\* cmd_emergency_stop, and a manual retract before it takes the bus: no lock
EmergencyStop ==
  /\ stops < MaxStops /\ stops' = stops + 1
  /\ \E far \in BOOLEAN : Halt(Cup \ deaf, far)
  /\ UNCHANGED <<queue, enabled, stall, deaf, valve, bus, place, call, ext, lastSeal, history, calls, mishaps>>

-----------------------------------------------------------------------------
(* Callers.                                                                *)

Goes(t, l) == place' = [place EXCEPT ![t] = l]
Return(t) == Goes(t, "idle") /\ call' = [call EXCEPT ![t] = NoCall]
Cups(t) == call[t].cups

Ask(t, op, G, to) ==
  /\ place[t] = "idle" /\ calls # << >> /\ Head(calls) = op
  /\ calls' = Tail(calls)
  /\ call' = [call EXCEPT ![t] = [op |-> op, cups |-> G, to |-> to]]
  /\ Goes(t, "want")
  /\ UNCHANGED <<motors, deaf, valve, bus, ext, lastSeal, history, mishaps, stops>>

\* Whatever the call, the stall flags are cleared first
FirstStep(op) == CASE op = "retract" -> "r_open" [] op = "move" -> "m_send" [] OTHER -> "x_send"

Acquire(t) ==
  /\ place[t] = "want" /\ call[t].op # "realign" /\ bus = NoCaller
  /\ bus' = t
  /\ stall' = stall \ (Cups(t) \ deaf)
  /\ Goes(t, FirstStep(call[t].op))
  /\ UNCHANGED <<pos, goal, queue, enabled, deaf, valve, call, ext, lastSeal, history, bounds>>

\* A wait over several pushers: one of them reports a stall; all look still, which a pusher
\* that never started does too; or time runs out on one that moves or does not answer
Stalled(S)  == (S \cap stall) \ deaf
AllStill(S) == \A c \in S : c \notin deaf /\ goal[c] = Rest
WaitsOn(S) == FALSE                                       \* mutant
TimesOut(S) == ~AllStill(S)

\* Sends that fail leave the moves that were queued before them
HalfSent(t, to) ==
  \E S \in SUBSET (Cups(t) \ Refuses) : queue' = Queued(S, to)

-----------------------------------------------------------------------------
(* pusher_move_many_                                                       *)

Away(t) == {c \in Cups(t) : c \in deaf \/ pos[c] # call[t].to}
MoveTo(t) == [c \in Cup |-> call[t].to]

MoveSend(t) ==
  /\ place[t] = "m_send"
  /\ \/ Away(t) = {} /\ Goes(t, "exit") /\ UNCHANGED <<goal, queue, mishaps>>
     \/ /\ Away(t) \cap Refuses # {}
        /\ HalfSent(t, MoveTo(t)) /\ Goes(t, "exit") /\ UNCHANGED <<goal, mishaps>>
     \/ /\ Away(t) # {} /\ Away(t) \cap Refuses = {}
        /\ \E lost \in SUBSET Away(t) : Broadcast(Queued(Away(t), MoveTo(t)), lost)
        /\ Goes(t, "m_wait")
  /\ UNCHANGED <<pos, enabled, stall, deaf, valve, bus, call, ext, lastSeal, history, calls, stops>>

MoveWait(t) ==
  /\ place[t] = "m_wait"
  /\ \/ \E c \in Stalled(Cups(t)) : stall' = stall \ {c}
     \/ (AllStill(Cups(t)) \/ TimesOut(Cups(t))) /\ Stalled(Cups(t)) = {} /\ UNCHANGED stall
  /\ Goes(t, "exit")
  /\ UNCHANGED <<pos, goal, queue, enabled, deaf, valve, bus, call, ext, lastSeal, history, bounds>>

-----------------------------------------------------------------------------
(* pusher_two_stage_retract_                                               *)

ArmsIfOk(ok) == ok                                        \* mutant
Arms(ok) == TRUE

RetractOpen(t) ==
  /\ place[t] = "r_open"
  /\ \/ Switch(TRUE) /\ armed' = Arms(TRUE)
     \/ SwitchLost(TRUE) /\ armed' = Arms(FALSE)
  /\ Goes(t, "r_send")
  /\ UNCHANGED <<motors, deaf, bvLost, bus, call, ext, lastSeal, history, bounds>>

Home == [c \in Cup |-> 0]

RetractSend(t) ==
  /\ place[t] = "r_send"
  /\ \/ /\ Cups(t) \cap Refuses # {}
        /\ HalfSent(t, Home) /\ Goes(t, "r_exit") /\ UNCHANGED <<goal, mishaps>>
     \/ /\ Cups(t) \cap Refuses = {}
        /\ \E lost \in SUBSET Cups(t) : Broadcast(Queued(Cups(t), Home), lost)
        /\ Goes(t, "r_close")
  /\ UNCHANGED <<pos, enabled, stall, deaf, valve, bus, call, ext, lastSeal, history, calls, stops>>

RetractClose(t) ==
  /\ place[t] = "r_close"
  /\ \/ Switch(FALSE) /\ armed' = FALSE
     \/ SwitchLost(FALSE) /\ UNCHANGED armed
  /\ Goes(t, "r_wait")
  /\ UNCHANGED <<motors, deaf, bvLost, bus, call, ext, lastSeal, history, bounds>>

RetractWait(t) ==
  /\ place[t] = "r_wait"
  /\ \/ \E c \in Stalled(Cups(t)) : stall' = stall \ {c} /\ Goes(t, "r_exit")
     \/ AllStill(Cups(t)) /\ Stalled(Cups(t)) = {} /\ Goes(t, "r_verify") /\ UNCHANGED stall
     \/ TimesOut(Cups(t)) /\ Goes(t, "r_exit") /\ UNCHANGED stall
  /\ UNCHANGED <<pos, goal, queue, enabled, deaf, valve, bus, call, ext, lastSeal, history, bounds>>

LooksStill(t) == {}                                       \* mutant
Off(t) == {c \in Cups(t) : pos[c] # 0}

\* Pushers that look still but are not in are to be retracted again, by pusher_move_many_:
\* it locks zdt_bus_mtx_, a std::mutex that its caller holds, so nothing leads on from "again"
RetractVerify(t) ==
  /\ place[t] = "r_verify"
  /\ \/ Cups(t) \cap deaf # {} /\ Goes(t, "r_exit")
     \/ Cups(t) \cap deaf = {} /\ Off(t) = {} /\ Goes(t, "r_done")
     \/ Cups(t) \cap deaf = {} /\ Off(t) # {} /\ Goes(t, "again")
  /\ UNCHANGED <<motors, deaf, valve, bus, call, ext, lastSeal, history, bounds>>

\* ~BreakVacuumGuard, then the mutex
RetractExit(t) ==
  /\ place[t] \in {"r_exit", "r_done"}
  /\ \/ ~armed /\ UNCHANGED <<bv, bvLost>>
     \/ armed /\ Switch(FALSE) /\ UNCHANGED bvLost
     \/ armed /\ SwitchLost(FALSE) /\ bvLost' = TRUE
  /\ armed' = FALSE
  /\ bus' = NoCaller /\ Return(t)
  /\ UNCHANGED <<motors, deaf, ext, lastSeal, history, bounds>>

Exit(t) ==
  /\ place[t] = "exit"
  /\ bus' = NoCaller /\ Return(t) /\ ext' = NoExt
  /\ UNCHANGED <<motors, deaf, valve, lastSeal, history, bounds>>

-----------------------------------------------------------------------------
(* pusher_extend_with_disable_seal_.  ext.open are the cups that are not   *)
(* done; a cup that is done and neither weak nor an obstacle has sealed.   *)

Capped(c) == IF lastSeal[c] > Preset + OverCap THEN Preset + OverCap ELSE lastSeal[c]

Minus(a, b) == IF a > b THEN a - b ELSE 0

Base == [c \in Cup |-> Minus(Capped(c), Buffer)]

\* Phase 1: to just short of the target
ExtendSend(t) ==
  /\ place[t] = "x_send"
  /\ \/ /\ Cups(t) \cap Refuses # {}
        /\ HalfSent(t, Base) /\ Goes(t, "exit") /\ UNCHANGED <<goal, mishaps, ext>>
     \/ /\ Cups(t) \cap Refuses = {}
        /\ \E lost \in SUBSET Cups(t) : Broadcast(Queued(Cups(t), Base), lost)
        /\ ext' = [ext EXCEPT !.open = Cups(t), !.base = Base, !.plan = Base]
        /\ Goes(t, "x_wait")
  /\ UNCHANGED <<pos, enabled, stall, deaf, valve, bus, call, lastSeal, history, calls, stops>>

\* The result of the wait is ignored, stalls are cleared; the current tells who is at the wall
ExtendWait(t) ==
  /\ place[t] = "x_wait"
  /\ \A c \in Cups(t) : c \in stall \/ c \in deaf \/ goal[c] = Rest
  /\ \E E \in SUBSET {c \in Cups(t) : pos[c] > 0} : ext' = [ext EXCEPT !.endp = E]
  /\ stall' = stall \ (Cups(t) \ deaf)
  /\ Goes(t, "x_look")
  /\ UNCHANGED <<pos, goal, queue, enabled, deaf, valve, bus, call, lastSeal, history, bounds>>

\* The driver of each cup of S is enabled, unless it does not answer
Enable(S) ==
  /\ enabled' = enabled \cup (S \ deaf)
  /\ unheard' = (unheard \cup (S \cap deaf)) \ enabled'
  /\ UNCHANGED realigned

\* Cups of S have been read as sealed: done, with their position if it could be read
WithSeal(x, S) ==
  [x EXCEPT !.open = @ \ S, !.seen = @ \cup S,
            !.fin = [c \in Cup |-> IF c \in S \ deaf THEN pos[c] ELSE @[c]]]

\* Cups of W are given up; what their final position is is not used
WithWeak(x, W) == [x EXCEPT !.open = @ \ W, !.weak = @ \cup W]

Sealed(t, x) == Cups(t) \ (x.open \cup x.weak \cup x.obst)

\* stop_on_first_seal: the cups that share a side with a sealed one
ToFreeze(t, x) ==
  IF call[t].op = "extend_first" THEN {c \in x.open : Sealed(t, x) \cap Side(c) # {}} ELSE {}

Touching(S) == {c \in S : pos[c] > 0}

\* With one cup of a side sealed its other cups are done, after a last reading
Freeze(t, x) ==
  LET F == ToFreeze(t, x) IN
  \E R \in SUBSET Touching(F) : ext' = WithWeak(WithSeal(x, R), F \ R)

\* Steps A and B: enable, look, freeze
LooksOnce(x) == x.open = {} \/ x.iter > MaxIters         \* mutant
LastLook(x) == x.open = {} \/ x.iter = MaxIters
ExtendLook(t) ==
  /\ place[t] = "x_look"
  /\ Enable(ext.open)
  /\ stall' = stall \ (ext.open \ deaf)
  /\ \E S \in SUBSET Touching(ext.open) : Freeze(t, WithSeal(ext, S))
  /\ Goes(t, IF LastLook(ext') THEN "x_end" ELSE "x_push")
  /\ UNCHANGED <<pos, goal, queue, deaf, valve, bus, call, lastSeal, bounds>>

\* Step C: one increment more, but not for cups at the wall or at the limit
Pushable == ext.open \ ext.endp
Spent    == {c \in Pushable : ext.plan[c] - ext.base[c] >= MaxOver}
Refused  == (Pushable \ Spent) \cap Refuses
Pushed   == (Pushable \ Spent) \ Refuses
Planned  == [c \in Cup |-> IF c \in Pushed THEN ext.plan[c] + 1 ELSE ext.plan[c]]

NextIter(t, x) == ext' = [x EXCEPT !.iter = @ + 1] /\ Goes(t, "x_look")

ExtendPush(t) ==
  /\ place[t] = "x_push"
  /\ LET x == [WithWeak(ext, Spent \cup Refused) EXCEPT !.plan = Planned] IN
     \/ Pushed = {} /\ NextIter(t, x) /\ UNCHANGED <<goal, queue, mishaps>>
     \/ /\ Pushed # {} /\ ext' = x
        /\ \E lost \in SUBSET Pushed : Broadcast(Queued(Pushed, Planned), lost)
        /\ Goes(t, "x_pushed")
  /\ UNCHANGED <<pos, enabled, stall, deaf, valve, bus, call, lastSeal, history, calls, stops>>

\* Step D: the first cup that meets an obstacle is done and ends the extension
MeetsObstacle(t) ==
  \E o \in Touching(Pushable) \ deaf :
    /\ ext' = [ext EXCEPT !.open = @ \ {o}, !.obst = {o}, !.fin[o] = pos'[o]]
    /\ Goes(t, "x_end") /\ UNCHANGED <<enabled, stall>>

\* Or cups E have come to the wall
AtWall(t) ==
  \E E \in SUBSET (Touching(Pushable) \ deaf) :
    /\ ext' = [ext EXCEPT !.endp = @ \cup E]
    /\ stall' = stall \ E
    /\ Goes(t, "x_free")

ExtendPushed(t) ==
  /\ place[t] = "x_pushed"
  /\ \E far \in BOOLEAN : Halt(ext.open \ deaf, far)
  /\ MeetsObstacle(t) \/ (AtWall(t) /\ UNCHANGED enabled)
  /\ UNCHANGED <<queue, deaf, valve, bus, call, lastSeal, history, bounds>>

\* Step E: the drivers are disabled and the vacuum may draw the cups on, unless the current
\* showed no contact and no cup is at the wall: then the next push follows at once
ExtendFree(t) ==
  /\ place[t] = "x_free"
  /\ enabled' = enabled \ (ext.open \ deaf)
  /\ \/ ext.open \cap ext.endp = {} /\ NextIter(t, ext)
     \/ Goes(t, "x_seal") /\ UNCHANGED ext
  /\ UNCHANGED <<pos, goal, queue, stall, deaf, valve, bus, call, lastSeal, history, bounds>>

SealedStayFree(S, W, F) == W \cup F                        \* mutant
Finished(S, W, F) == S \cup W \cup F

\* Step F, all its polls: cups S seal and are enabled again, cups at the wall that make no
\* progress are enabled, looked at and done either way, the others wait for the next push
ExtendSeal(t) ==
  /\ place[t] = "x_seal"
  /\ \E S \in SUBSET Touching(ext.open), W \in SUBSET ext.endp :
       LET x == WithWeak(WithSeal(ext, S), (W \cap ext.open) \ S)
           F == ToFreeze(t, x)
       IN \E R \in SUBSET Touching(F) :
            /\ NextIter(t, WithWeak(WithSeal(x, R), F \ R))
            /\ Enable(Finished(S, W \cap ext.open, F))
  /\ UNCHANGED <<pos, goal, queue, stall, deaf, valve, bus, call, lastSeal, bounds>>

RecordsAll(t, x) == Cups(t)                               \* mutant
Recorded(t, x) == Cups(t) \ x.weak

\* Whoever is left is enabled and looked at once more; all but the weak are recorded
ExtendEnd(t) ==
  /\ place[t] = "x_end"
  /\ Enable(ext.open)
  /\ \E S \in SUBSET Touching(ext.open) :
       LET x == WithWeak(WithSeal(ext, S), ext.open \ S) IN
       /\ ext' = x
       /\ lastSeal' = [c \in Cup |-> IF c \in Recorded(t, x) THEN x.fin[c] ELSE lastSeal[c]]
  /\ Goes(t, "x_settle")
  /\ UNCHANGED <<pos, goal, queue, stall, deaf, valve, bus, call, bounds>>

\* The mutex is returned, then smart_extend_subset_ clears the stall flags
ExtendSettle(t) ==
  /\ place[t] = "x_settle"
  /\ bus' = NoCaller /\ ext' = NoExt /\ Goes(t, "x_clear")
  /\ UNCHANGED <<motors, deaf, valve, call, lastSeal, history, bounds>>

ExtendClear(t) ==
  /\ place[t] = "x_clear"
  /\ stall' = stall \ (Cups(t) \ deaf)
  /\ Return(t)
  /\ UNCHANGED <<pos, goal, queue, enabled, deaf, valve, bus, ext, lastSeal, history, bounds>>

-----------------------------------------------------------------------------
(* do_feet_realign_                                                        *)

\* group_seal_ok_: a cup of each side has been read as sealed
GroupSealOk(S) == \A G \in {Right, Left} : G = {} \/ S \cap G # {}

\* ensure_all_zdt_stall_clear_, and the release of all stall flags at the end
ClearStalls == stall' = stall \ (Cup \ deaf)

\* record_seal_pulse_ for every cup that can be read, sealed or not
RecordAll == lastSeal' = [c \in Cup |-> IF c \in deaf THEN lastSeal[c] ELSE pos[c]]

RealignLook(t) ==
  /\ place[t] = "want" /\ call[t].op = "realign"
  /\ \/ Return(t) /\ UNCHANGED <<stall, lastSeal>>
     \/ /\ \E S \in SUBSET Touching(Cup) : GroupSealOk(S)
        /\ ClearStalls /\ RecordAll
        /\ Goes(t, "a_send") /\ UNCHANGED call
  /\ UNCHANGED <<pos, goal, queue, enabled, deaf, valve, bus, ext, history, bounds>>

\* The move is relative: the drift that was read is taken from where the pusher is now
Shifted == [c \in Cup |-> LET to == Minus(pos[c] + Preset, lastSeal[c]) IN
                          IF to > Stroke THEN Stroke ELSE to]
Drifted == {c \in Cup : lastSeal[c] # Preset}

RealignSend(t) ==
  /\ place[t] = "a_send"
  /\ realigned' = realigned \cup (Drifted \ Refuses)
  /\ \/ Drifted = {} /\ Return(t) /\ UNCHANGED <<goal, queue, stall, mishaps>>
     \/ /\ Drifted \cap Refuses # {}
        /\ \E S \in SUBSET (Drifted \ Refuses) : queue' = Queued(S, Shifted)
        /\ ClearStalls /\ Return(t) /\ UNCHANGED <<goal, mishaps>>
     \/ /\ Drifted # {} /\ Drifted \cap Refuses = {}
        /\ \E lost \in SUBSET Drifted : Broadcast(Queued(Drifted, Shifted), lost)
        /\ call' = [call EXCEPT ![t].cups = Drifted]
        /\ Goes(t, "a_wait") /\ UNCHANGED stall
  /\ UNCHANGED <<pos, enabled, deaf, valve, bus, ext, lastSeal, unheard, calls, stops>>

\* If one stalls or the time is up the others are stopped
RealignWait(t) ==
  /\ place[t] = "a_wait"
  /\ \/ AllStill(Cups(t)) /\ Stalled(Cups(t)) = {} /\ UNCHANGED <<pos, goal, stall>>
     \/ TimesOut(Cups(t)) /\ (\E far \in BOOLEAN : Halt(Cups(t) \ deaf, far)) /\ UNCHANGED stall
     \/ \E c \in Stalled(Cups(t)), far \in BOOLEAN :
          Halt(Cups(t) \ (deaf \cup {c}), far) /\ stall' = stall \ {c}
  /\ Goes(t, "a_read")
  /\ UNCHANGED <<queue, enabled, deaf, valve, bus, call, ext, lastSeal, history, bounds>>

RealignRead(t) ==
  /\ place[t] = "a_read"
  /\ RecordAll /\ ClearStalls
  /\ Return(t)
  /\ UNCHANGED <<pos, goal, queue, enabled, deaf, valve, bus, ext, history, bounds>>

-----------------------------------------------------------------------------
Works(t) ==
  \/ Acquire(t) \/ Exit(t)
  \/ MoveSend(t) \/ MoveWait(t)
  \/ RetractOpen(t) \/ RetractSend(t) \/ RetractClose(t) \/ RetractWait(t)
  \/ RetractVerify(t) \/ RetractExit(t)
  \/ ExtendSend(t) \/ ExtendWait(t) \/ ExtendLook(t) \/ ExtendPush(t) \/ ExtendPushed(t)
  \/ ExtendFree(t)
  \/ ExtendSeal(t) \/ ExtendEnd(t) \/ ExtendSettle(t) \/ ExtendClear(t)
  \/ RealignLook(t) \/ RealignSend(t) \/ RealignWait(t) \/ RealignRead(t)

PushNext ==
  \/ \E t \in Caller : Works(t)
  \/ \E t \in Caller : Ask(t, "retract", Cup, 0)
  \/ \E t \in Extender, op \in {"extend", "extend_first", "realign"} : Ask(t, op, Cup, 0)
  \/ \E t \in Extender, c \in Cup : Ask(t, "move", {c}, Preset)
  \/ Arrive
  \/ \E c \in Cup : Block(c) \/ GoDeaf(c) \/ HearAgain(c)
  \/ EmergencyStop

PushSpec == PushInit /\ [][PushNext]_pushVars

\* Callers are threads of the program, and a started motor arrives unless it is blocked
PushFairSpec == PushSpec /\ (\A t \in Caller : WF_pushVars(Works(t))) /\ WF_pushVars(Arrive)

-----------------------------------------------------------------------------
(* A retract that reports success has all its pushers in, whatever was     *)
(* lost on the bus and whoever stopped the motors on the way: "looks       *)
(* still" is no proof, the positions are (pusher_two_stage_retract_).  The *)
(* exception is a realign: without zdt_bus_mtx_, it may drive a pusher out *)
(* again while the retract looks, and after it has looked.                 *)
RetractOkIn ==
  \A t \in Caller : place[t] = "r_done" => \A c \in Cups(t) : pos[c] = 0 \/ c \in realigned

(* No return of the extension leaves a cup with its driver off, which      *)
(* would let it sag from the wall, unless the enable itself was lost.      *)
PowerRestored == \A c \in Cup : c \notin enabled => c \in unheard \/ (bus # NoCaller /\ c \in ext.open)

Realigning == \E t \in Caller : call[t].op = "realign"

(* What the next extension starts from is only replaced for a cup that was *)
(* read as sealed in this one, never for one that was given up, whichever  *)
(* of the five places finished it; a cup that met an obstacle is recorded  *)
(* as well, where it stood (record_seal_pulse_).  A realign records every  *)
(* cup where it is, sealed or not.                                         *)
LearnedIsSealed ==
  [][\A c \in Cup : lastSeal'[c] # lastSeal[c] =>
       \/ c \in ext'.seen \cup ext'.obst
       \/ Realigning /\ lastSeal'[c] = pos[c]]_pushVars

(* The break-vacuum valve is closed when no retract is under way, on every *)
(* return of it, unless every attempt to close it was lost                 *)
(* (BreakVacuumGuard).                                                     *)
InRetract(t) == place[t] \in {"r_send", "r_close", "r_wait", "r_verify", "r_exit", "r_done", "again"}
BreakVacuumOff == bv => bvLost \/ \E t \in Caller : InRetract(t)

(* Whoever waits for the pushers gets them, an emergency stop's detach     *)
(* among them, unless a retract waits for the mutex it holds itself.       *)
SelfWait == \E t \in Caller : place[t] = "again" /\ bus = t
BusReturned == \A t \in Caller : place[t] = "want" ~> (place[t] # "want" \/ SelfWait)

(* WASH_ROBOT.cpp:3730, "Re-issue the retract ONCE for the slaves that are *)
(* off target": the retry gets to the bus.                                 *)
RetryReissued == ~SelfWait
=============================================================================
