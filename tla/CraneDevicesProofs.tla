------------------------- MODULE CraneDevicesProofs -------------------------
(***************************************************************************)
(* The devices of the crane beside its ropes.  The water inlet valve: its  *)
(* deadman for any set of clients and any number of faults, and then the   *)
(* body's watchdog together with it.  The rope meters: their filter, the   *)
(* zero commands and the height that goto computes.                        *)
(***************************************************************************)
EXTENDS RefillWatch, Meters, TLAPS, FiniteSetTheorems

-----------------------------------------------------------------------------
(* WaterValve *)

\* A call that returns leaves its arguments of their types
LEMMA ReturnTypes ==
  ASSUME NEW t \in Thread, TypeOK, Return(t)
  PROVE  want' \in [Thread -> BOOLEAN] /\ tries' \in [Thread -> 0..3]
<1>1. FALSE \in BOOLEAN /\ 0 \in 0..3
  OBVIOUS
<1> QED
  BY <1>1 DEF TypeOK, Return

\* The third retry of a call has no readback of its own: the types are inductive
LEMMA TypeStep == TypeOK /\ [Next]_vars => TypeOK'
<1> USE DEF TypeOK, Thread, Reasons, Goto, Return, Fault, call
<1> SUFFICES ASSUME TypeOK, [Next]_vars
             PROVE  TypeOK'
  OBVIOUS
<1>1. ASSUME NEW c \in Client, NEW open \in BOOLEAN, WaterInlet(c, open)
      PROVE  TypeOK'
  BY <1>1 DEF WaterInlet, Call
<1>2. ASSUME NEW t \in Thread, Write(t)
      PROVE  TypeOK'
  BY <1>2 DEF Write, MoreReadbacks
<1>3. ASSUME NEW t \in Thread, NoEcho(t)
      PROVE  TypeOK'
  <2>1. /\ valve' \in BOOLEAN
        /\ faults' \in 0..MaxFaults
        /\ pc' \in [Thread -> {"idle", "write", "read", "arm"}]
    BY <1>3, FaultAssumption DEF NoEcho
  <2>2. astray' \in SUBSET Reasons
    BY <1>3 DEF NoEcho
  <2>3. \A u \in Thread : pc'[u] = "read" => tries'[u] < 3
    BY <1>3 DEF NoEcho
  <2>4. want' \in [Thread -> BOOLEAN] /\ tries' \in [Thread -> 0..3]
    BY <1>3, ReturnTypes DEF NoEcho
  <2> QED
    BY <1>3, <2>1, <2>2, <2>3, <2>4 DEF NoEcho
<1>4. ASSUME NEW t \in Thread, Read(t)
      PROVE  TypeOK'
  BY <1>4 DEF Read
<1>5. ASSUME NEW t \in Thread, ReadFails(t)
      PROVE  TypeOK'
  BY <1>5, FaultAssumption DEF ReadFails, AfterNoReadback
<1>6. ASSUME NEW t \in Thread, Arm(t)
      PROVE  TypeOK'
  BY <1>6, ReturnTypes DEF Arm
<1>7. CASE DogFires
  BY <1>7 DEF DogFires, Call
<1>8. ASSUME NEW m \in BOOLEAN, SetWaterOpenMax(m)
      PROVE  TypeOK'
  BY <1>8 DEF SetWaterOpenMax
<1>9. CASE TimePasses
  BY <1>9 DEF TimePasses
<1>10. CASE Restart
  <2>1. /\ pc' \in [Thread -> {"idle", "write", "read", "arm"}]
        /\ want' \in [Thread -> BOOLEAN]
        /\ tries' \in [Thread -> 0..3]
        /\ \A t \in Thread : pc'[t] # "read"
    BY <1>10 DEF Restart
  <2>2. valve' \in BOOLEAN
    BY <1>10 DEF Restart
  <2>3. astray' \in SUBSET Reasons
    BY <1>10 DEF Restart
  <2>4. faults' \in 0..MaxFaults
    BY <1>10, FaultAssumption DEF Restart
  <2> QED
    BY <1>10, <2>1, <2>2, <2>3, <2>4 DEF Restart
<1>11. CASE UNCHANGED vars
  BY <1>11 DEF vars
<1> QED
  <2>1. ASSUME NEW t \in Thread, ZsSetRelayVerified(t)
        PROVE  TypeOK'
    BY <2>1, <1>2, <1>3, <1>4, <1>5, <1>6 DEF ZsSetRelayVerified
  <2> QED
    BY <2>1, <1>1, <1>7, <1>8, <1>9, <1>10, <1>11 DEF Next

\* Every call of zs_set_relay_verified stays within its three retries, and every
\* variable within its type
THEOREM TypeCorrect == Spec => []TypeOK
<1>1. Init => TypeOK
  <2> SUFFICES ASSUME Init
               PROVE  TypeOK
    OBVIOUS
  <2>1. /\ pc \in [Thread -> {"idle", "write", "read", "arm"}]
        /\ want \in [Thread -> BOOLEAN]
        /\ tries \in [Thread -> 0..3]
        /\ \A t \in Thread : pc[t] # "read"
    BY DEF Init
  <2>2. faults \in 0..MaxFaults /\ astray \in SUBSET Reasons
    BY FaultAssumption DEF Init
  <2> QED
    BY <2>1, <2>2 DEF Init, TypeOK
<1> QED
  BY <1>1, TypeStep, PTL DEF Spec

-----------------------------------------------------------------------------
\* A step that leaves the valve open and unwatched leaves it explained
LEMMA ExplainedStep ==
  TypeOK /\ UnwatchedExplained /\ [Next]_vars => UnwatchedExplained'
<1> USE DEF UnwatchedExplained, Opening, TypeOK, Thread, Goto, Return, call
<1> SUFFICES ASSUME TypeOK, UnwatchedExplained, [Next]_vars
             PROVE  UnwatchedExplained'
  OBVIOUS
<1>1. ASSUME NEW t \in Thread, NEW open \in BOOLEAN, Call(t, open), UNCHANGED timer
      PROVE  UnwatchedExplained'
  BY <1>1 DEF Call
<1>2. ASSUME NEW t \in Thread, Write(t)
      PROVE  UnwatchedExplained'
  BY <1>2 DEF Write
<1>3. ASSUME NEW t \in Thread, NoEcho(t)
      PROVE  UnwatchedExplained'
  <2>1. CASE valve' /\ timer' = "off" /\ want[t]
    BY <1>3, <2>1 DEF NoEcho
  <2>2. CASE valve' /\ timer' = "off" /\ ~want[t]
    \* the valve was open before the close that failed, and another call or a
    \* cause already recorded explains it
    BY <1>3, <2>2 DEF NoEcho
  <2> QED
    BY <2>1, <2>2
<1>4. ASSUME NEW t \in Thread, Read(t)
      PROVE  UnwatchedExplained'
  BY <1>4 DEF Read
<1>5. ASSUME NEW t \in Thread, ReadFails(t)
      PROVE  UnwatchedExplained'
  BY <1>5 DEF ReadFails, AfterNoReadback
<1>6. ASSUME NEW t \in Thread, Arm(t)
      PROVE  UnwatchedExplained'
  <2>1. CASE timer' = "off" /\ valve /\ timer # "off"
    BY <1>6, <2>1 DEF Arm
  <2>2. CASE timer' = "off" /\ valve /\ timer = "off"
    \* t has disarmed, so t is not the call that opens
    BY <1>6, <2>2 DEF Arm
  <2> QED
    BY <1>6, <2>1, <2>2 DEF Arm
<1>7. ASSUME NEW m \in BOOLEAN, SetWaterOpenMax(m)
      PROVE  UnwatchedExplained'
  BY <1>7 DEF SetWaterOpenMax
<1>8. CASE TimePasses
  BY <1>8 DEF TimePasses
<1>9. CASE Restart
  BY <1>9 DEF Restart
<1>10. CASE UNCHANGED vars
  BY <1>10 DEF vars
<1> QED
  BY <1>1, <1>2, <1>3, <1>4, <1>5, <1>6, <1>7, <1>8, <1>9, <1>10
     DEF Next, ZsSetRelayVerified, WaterInlet, DogFires

\* However the clients and the deadman interleave, an open valve that no timer
\* watches comes from a lost echo, a late disarm or a restart
THEOREM ExplainedCorrect == Spec => []UnwatchedExplained
<1>1. Init => UnwatchedExplained
  BY DEF Init, UnwatchedExplained
<1> QED
  BY <1>1, ExplainedStep, TypeCorrect, PTL DEF Spec

-----------------------------------------------------------------------------
(* RefillWatch: the crane's half *)

\* A call that times out, or a restart of the body, only counts as a fault
OnlyFault == Fault /\ UNCHANGED <<valve, timer, enabled, online, pc, call, astray>>

\* All else that happens here is a step of WaterValve
LEMMA CraneSteps ==
  WatchTypeOK /\ [NextWatch]_<<vars, body>> => [Next]_vars \/ OnlyFault
<1> SUFFICES ASSUME WatchTypeOK, [NextWatch]_<<vars, body>>
             PROVE  [Next]_vars \/ OnlyFault
  OBVIOUS
<1>1. ASSUME NEW b \in Caller, NEW open \in BOOLEAN, SetWaterInlet(b, open)
      PROVE  UNCHANGED vars
  BY <1>1 DEF SetWaterInlet
<1>2. CASE WatchFires
  BY <1>1, <1>2 DEF WatchFires, Caller
<1>3. ASSUME NEW b \in Caller, Send(b)
      PROVE  [Next]_vars
  BY <1>3 DEF Send, Next, WatchTypeOK
<1>4. ASSUME NEW b \in Caller, Receive(b) \/ Store(b)
      PROVE  UNCHANGED vars
  BY <1>4 DEF Receive, Store
<1>5. ASSUME NEW b \in Caller, TimesOut(b)
      PROVE  OnlyFault
  BY <1>5 DEF TimesOut, OnlyFault
<1>6. CASE BodyRestarts
  BY <1>6 DEF BodyRestarts, OnlyFault
<1>7. ASSUME NEW t \in Thread, CraneCall(t)
      PROVE  Next
  BY <1>7 DEF CraneCall, Next
<1>8. CASE CraneRestarts \/ CraneOwn
  BY <1>8 DEF CraneRestarts, CraneOwn, Next
<1>9. CASE UNCHANGED <<vars, body>>
  BY <1>9
<1> QED
  BY <1>1, <1>2, <1>3, <1>4, <1>5, <1>6, <1>7, <1>8, <1>9 DEF NextWatch, BodySteps, Caller

\* A fault that changes nothing else keeps what WaterValveProofs proves of the crane
LEMMA FaultStep ==
  TypeOK /\ UnwatchedExplained /\ OnlyFault => TypeOK' /\ UnwatchedExplained'
<1> SUFFICES ASSUME TypeOK, UnwatchedExplained, OnlyFault
             PROVE  TypeOK' /\ UnwatchedExplained'
  OBVIOUS
<1>1. faults' \in 0..MaxFaults
  BY FaultAssumption DEF TypeOK, OnlyFault, Fault
<1>2. TypeOK'
  BY <1>1 DEF TypeOK, OnlyFault, call
<1>3. UnwatchedExplained'
  BY DEF UnwatchedExplained, Opening, OnlyFault, call
<1> QED
  BY <1>2, <1>3

-----------------------------------------------------------------------------
(* The body's half *)

\* The deadman only closes
DogCloses == want[Dog] = FALSE

\* What the crane executes for the body is what its caller wants
Serves == user # Nobody /\ pc[conn] # "idle" => want[conn] = on[user]

\* Who opens has stamped, or an accident has taken the stamp
Stamped == \A b \in Caller : on[b] /\ ~ts => lost # {}

\* So that an open valve has its stamp, or there was an accident
BodyExplained == valve /\ ~ts => lost # {}

WatchInv == TypeOK /\ UnwatchedExplained /\ WatchTypeOK
            /\ DogCloses /\ Serves /\ Stamped /\ BodyExplained

\* The caller that the line serves waits for it, through every exchange
LEMMA WatchTypeStep ==
  TypeOK /\ WatchTypeOK /\ [NextWatch]_<<vars, body>> => WatchTypeOK'
<1> USE CallerAssumption DEF WatchTypeOK, call2, At, Ends, Caller
<1> SUFFICES ASSUME TypeOK, WatchTypeOK, [NextWatch]_<<vars, body>>
             PROVE  WatchTypeOK'
  OBVIOUS
<1>0. ASSUME NEW b \in Caller, at[b] = "wait", Fails(b)
      PROVE  /\ at' \in [Caller -> {"idle", "send", "wait", "store"}]
             /\ on' \in [Caller -> BOOLEAN]
             /\ user' \in Caller \cup {Nobody}
             /\ \A c \in Caller : at'[c] = "wait" <=> user' = c
  <2>1. user' = Nobody /\ user = b
    BY <1>0 DEF Fails
  <2>2. CASE At(b, "send") /\ UNCHANGED on
    BY <2>1, <2>2
  <2>3. CASE Ends(b)
    BY <2>1, <2>3
  <2> QED
    BY <1>0, <2>2, <2>3 DEF Fails
<1>1. ASSUME NEW b \in Caller, NEW open \in BOOLEAN, SetWaterInlet(b, open)
      PROVE  WatchTypeOK'
  BY <1>1 DEF SetWaterInlet, Stamp
<1>2. CASE WatchFires
  BY <1>1, <1>2 DEF WatchFires
<1>3. ASSUME NEW b \in Caller, Send(b)
      PROVE  WatchTypeOK'
  BY <1>3 DEF Send
<1>4. ASSUME NEW b \in Caller, Receive(b)
      PROVE  WatchTypeOK'
  <2>1. CASE Fails(b)
    BY <1>4, <1>0, <2>1 DEF Receive
  <2>2. CASE ~Fails(b)
    BY <1>4, <2>2 DEF Receive
  <2> QED
    BY <2>1, <2>2
<1>5. ASSUME NEW b \in Caller, TimesOut(b)
      PROVE  WatchTypeOK'
  BY <1>5, <1>0 DEF TimesOut
<1>6. ASSUME NEW b \in Caller, Store(b)
      PROVE  WatchTypeOK'
  BY <1>6 DEF Store
<1>7. CASE BodyRestarts
  BY <1>7 DEF BodyRestarts
<1>8. ASSUME NEW t \in Thread, CraneCall(t)
      PROVE  WatchTypeOK'
  BY <1>8 DEF CraneCall
<1>9. CASE CraneRestarts
  BY <1>9 DEF CraneRestarts
<1>10. CASE UNCHANGED body
  BY <1>10 DEF body
<1> QED
  BY <1>1, <1>2, <1>3, <1>4, <1>5, <1>6, <1>7, <1>8, <1>9, <1>10
     DEF NextWatch, BodySteps

\* A valve that opens was asked for by a caller that waits, or by one that has
\* given it up: the deadman never opens it
LEMMA OpensFor ==
  ASSUME NEW t \in Thread, TypeOK, WatchTypeOK, DogCloses, Serves, CraneCall(t), valve', ~valve
  PROVE  t \in Client /\ (Waited(t) => on[user])
<1>1. want[t] /\ pc[t] # "idle"
  BY DEF CraneCall, ZsSetRelayVerified, Write, NoEcho, Read, ReadFails, Arm
<1> QED
  BY <1>1, DogAssumption DEF DogCloses, Serves, Waited, Thread

\* Every step keeps the parts of the body's half
LEMMA BodyStep ==
  WatchInv /\ [NextWatch]_<<vars, body>> => DogCloses' /\ Serves' /\ Stamped' /\ BodyExplained'
<1> USE CallerAssumption, DogAssumption
    DEF WatchTypeOK, DogCloses, Serves, Stamped, BodyExplained, call2, At, Ends, Caller
<1> SUFFICES ASSUME WatchInv, [NextWatch]_<<vars, body>>
             PROVE  DogCloses' /\ Serves' /\ Stamped' /\ BodyExplained'
  OBVIOUS
<1> USE DEF WatchInv
<1>1. ASSUME NEW b \in Caller, NEW open \in BOOLEAN, SetWaterInlet(b, open)
      PROVE  DogCloses' /\ Serves' /\ Stamped' /\ BodyExplained'
  BY <1>1 DEF SetWaterInlet, Stamp, vars, call
<1>2. CASE WatchFires
  BY <1>1, <1>2 DEF WatchFires
<1>3. ASSUME NEW b \in Caller, Send(b)
      PROVE  DogCloses' /\ Serves' /\ Stamped' /\ BodyExplained'
  <2>1. CASE online
    BY <1>3, <2>1 DEF Send, WaterInlet, Call, TypeOK, Thread, Goto
  <2>2. CASE ~online
    BY <1>3, <2>2 DEF Send, vars, call
  <2> QED
    BY <2>1, <2>2
<1>4. ASSUME NEW b \in Caller, Receive(b)
      PROVE  DogCloses' /\ Serves' /\ Stamped' /\ BodyExplained'
  BY <1>4 DEF Receive, Fails, vars, call
<1>5. ASSUME NEW b \in Caller, TimesOut(b)
      PROVE  DogCloses' /\ Serves' /\ Stamped' /\ BodyExplained'
  BY <1>5 DEF TimesOut, Fails, call
<1>6. ASSUME NEW b \in Caller, Store(b)
      PROVE  DogCloses' /\ Serves' /\ Stamped' /\ BodyExplained'
  BY <1>6 DEF Store, vars, call
<1>7. CASE BodyRestarts
  BY <1>7 DEF BodyRestarts, call
<1>8. ASSUME NEW t \in Thread, CraneCall(t)
      PROVE  DogCloses' /\ Serves' /\ Stamped' /\ BodyExplained'
  <2> USE <1>8
  <2>1. DogCloses'
    BY DEF CraneCall, ZsSetRelayVerified, Write, NoEcho, Read, ReadFails, Arm, Return,
           TypeOK, Thread, Goto, call
  <2>2. Serves'
    <3>1. pc'[conn] # "idle" => pc[conn] # "idle" /\ want'[conn] = want[conn]
      BY DEF CraneCall, ZsSetRelayVerified, Write, NoEcho, Read, ReadFails, Arm, Return,
             TypeOK, Thread, Goto, call
    <3> QED
      BY <3>1 DEF CraneCall
  <2>3. Stamped'
    BY DEF CraneCall
  <2>4. BodyExplained'
    <3>1. CASE valve' /\ ~valve
      <4>1. t \in Client /\ (Waited(t) => on[user])
        BY <3>1, OpensFor
      <4>2. CASE Waited(t)
        BY <4>1, <4>2 DEF CraneCall, Waited
      <4>3. CASE ~Waited(t)
        <5>1. lost' = lost \cup {"late_request"}
          BY <3>1, <4>1, <4>3 DEF CraneCall
        <5> QED
          BY <5>1
      <4> QED
        BY <4>2, <4>3
    <3>2. CASE ~valve' \/ valve
      BY <3>2 DEF CraneCall
    <3> QED
      BY <3>1, <3>2
  <2> QED
    BY <2>1, <2>2, <2>3, <2>4
<1>9. CASE CraneRestarts
  <2>1. valve' => valve
    BY <1>9 DEF CraneRestarts, Restart, TypeOK
  <2>2. /\ \A t \in Thread : pc'[t] = "idle" /\ want'[t] = FALSE
        /\ conn \in Thread /\ Dog \in Thread
    BY <1>9 DEF CraneRestarts, Restart, Thread
  <2>3. UNCHANGED <<ts, on, user, conn, lost>>
    BY <1>9 DEF CraneRestarts
  <2> QED
    BY <2>1, <2>2, <2>3
<1>10. CASE CraneOwn /\ UNCHANGED body
  BY <1>10 DEF CraneOwn, DogFires, Call, TimePasses, SetWaterOpenMax, TypeOK, Thread,
               Goto, call, body
<1>11. CASE UNCHANGED <<vars, body>>
  BY <1>11 DEF vars, call, body
<1> QED
  BY <1>1, <1>2, <1>3, <1>4, <1>5, <1>6, <1>7, <1>8, <1>9, <1>10, <1>11
     DEF NextWatch, BodySteps

-----------------------------------------------------------------------------
\* The whole is inductive
LEMMA WatchInvariant == SpecWatch => []WatchInv
<1>1. InitWatch => WatchInv
  <2> SUFFICES ASSUME InitWatch
               PROVE  WatchInv
    OBVIOUS
  <2>1. TypeOK
    <3>1. /\ pc \in [Thread -> {"idle", "write", "read", "arm"}]
          /\ want \in [Thread -> BOOLEAN]
          /\ tries \in [Thread -> 0..3]
          /\ \A t \in Thread : pc[t] # "read"
      BY DEF InitWatch, Init
    <3>2. faults \in 0..MaxFaults /\ astray \in SUBSET Reasons
      BY FaultAssumption DEF InitWatch, Init
    <3> QED
      BY <3>1, <3>2 DEF InitWatch, Init, TypeOK
  <2>2. UnwatchedExplained /\ BodyExplained /\ Stamped /\ Serves /\ DogCloses
    BY CallerAssumption
       DEF InitWatch, Init, UnwatchedExplained, BodyExplained, Stamped, Serves,
           DogCloses, Thread
  <2>3. conn \in Client
    BY CallerAssumption DEF InitWatch
  <2>4. WatchTypeOK
    BY <2>3, CallerAssumption DEF InitWatch, WatchTypeOK, Caller
  <2> QED
    BY <2>1, <2>2, <2>4 DEF WatchInv
<1>2. WatchInv /\ [NextWatch]_<<vars, body>> => WatchInv'
  BY CraneSteps, FaultStep, TypeStep, ExplainedStep, WatchTypeStep, BodyStep DEF WatchInv
<1> QED
  BY <1>1, <1>2, PTL DEF SpecWatch

\* The line between body and crane serves one caller at a time, who waits for it
THEOREM WatchTypeCorrect == SpecWatch => []WatchTypeOK
<1>1. WatchInv => WatchTypeOK
  BY DEF WatchInv
<1> QED
  BY <1>1, WatchInvariant, PTL

\* Beside a body that stamps, sends, gives up and sends again, the crane's half is what it is
\* with any clients: an open valve without a timer has one of the three causes, and the calls
\* of zs_set_relay_verified stay within their retries
THEOREM StillExplained == SpecWatch => [](TypeOK /\ UnwatchedExplained)
<1>1. WatchInv => TypeOK /\ UnwatchedExplained
  BY DEF WatchInv
<1> QED
  BY <1>1, WatchInvariant, PTL

\* An open valve that neither guard knows of has had an accident on either side,
\* however the commands, the watchdog and the deadman interleave
THEOREM BothGuardsFail == SpecWatch => []TwoGuards
<1>1. WatchInv => TwoGuards
  BY DEF WatchInv, UnwatchedExplained, BodyExplained, TwoGuards
<1> QED
  BY <1>1, WatchInvariant, PTL

-----------------------------------------------------------------------------
(* Meters, for any ground, any filter, any zero commands and any number of *)
(* mishaps.                                                                *)

DeviceTypes == depth \in 0..Ground /\ origin \in [Side -> Int] /\ slipped \subseteq Side

CacheTypes ==
  /\ cache \in [Side -> Int] /\ valid \in [Side -> BOOLEAN] /\ suspect \in [Side -> BOOLEAN]

LoopTypes ==
  /\ phase \in {"v1", "look", "v2", "store"} /\ side \in Side
  /\ v1 \in Int /\ prev \in Int
  /\ result \in [kind : {"none", "hard", "accepted", "rejected", "suspect"}, value : Int]
  /\ run \in [Side -> [n : 0..(Resync - 1), last : Int]]

ZeroTypes ==
  /\ stage \in [Op -> {"idle", "span", "reset", "read", "store"}]
  /\ job \in [Op -> [on : SUBSET Side, top : BOOLEAN]]
  /\ left \in [Op -> SUBSET Side] /\ read \in [Op -> [Side -> SUBSET Int]]
  /\ \A o \in Op : left[o] \subseteq job[o].on
  /\ hurt \in [Op -> BOOLEAN]

TallyTypes == mishaps \in 0..MaxMishaps /\ moves \in 0..MaxMoves /\ commands \in 0..MaxCommands

\* zero_meters top takes both meters
TopOn == \A o \in Op : job[o].top => job[o].on = Side /\ stage[o] # "idle"

\* A command that nothing has hurt is the only one
Alone == \A o \in Op : stage[o] # "idle" /\ ~hurt[o] => Busy = {o}

\* It has taken the span from where the machine hangs, but for what that has moved since
SpanKnown ==
  \A o \in Op : job[o].top /\ ~hurt[o] /\ stage[o] # "span" =>
    Dist(home, Ground - depth) <= Tolerance + drift

Fits(v, s, top) ==
  \A c \in v :
    /\ Dist(c, Count(s)) <= drift
    /\ top => Dist((home + origin[s]) + c, Ground) <= Tolerance + drift

\* What it has read back is what the counters say, but for what the machine has moved; a
\* zero_meters top knows better, since its span and its readings count from the same origins
ReadTrue ==
  \A o \in Op : \A s \in Side :
    /\ stage[o] \in {"idle", "span", "reset"} => read[o][s] = {}
    /\ stage[o] \in {"read", "store"} /\ ~hurt[o] => Fits(read[o][s], s, job[o].top)

\* While the meters' zero is known no command is at work, and the home_ground_cm that goes with it
\* makes up the way to the ground, but for the slack; only a slip moves a count's origin
DatumTrue ==
  datum # {} =>
    /\ Busy = {}
    /\ \E h \in Nat : datum = {h} /\ \A s \in Side \ slipped : Dist(h + origin[s], Ground) <= Slack

\* Where goto aims is known only with the zero
AimKnown == aim \subseteq Int /\ (datum = {} => aim = {})

ZeroInv == ZeroTypes /\ TopOn /\ Alone /\ SpanKnown /\ ReadTrue

MeterInv ==
  /\ DeviceTypes /\ CacheTypes /\ LoopTypes /\ TallyTypes
  /\ home \in Nat /\ wall \in Nat /\ datum \subseteq Nat /\ drift \in Nat
  /\ ZeroInv /\ DatumTrue /\ AimKnown /\ GotoInside

-----------------------------------------------------------------------------
(* Numbers and sets.                                                       *)

LEMMA MeterNumbers ==
  /\ Ground \in Nat /\ Ground > 0 /\ Resync \in Nat /\ Resync > 0
  /\ SmallJump \in Nat /\ MaxJump \in Nat /\ Tolerance \in Nat
  /\ MaxMoves \in Nat /\ MaxMishaps \in Nat /\ MaxCommands \in Nat
  /\ Noise \subseteq Int
<1>1. -Ground..Ground \subseteq Int
  BY LengthAssumption
<1>2. Tolerance \in Nat
  BY LengthAssumption
<1> QED
  BY <1>1, <1>2, LengthAssumption, MeterBoundAssumption

LEMMA SlackNat ==
  ASSUME drift \in Nat
  PROVE  Slack \in Nat
<1> QED
  BY MeterNumbers DEF Slack

LEMMA DistNear ==
  ASSUME NEW a \in Int, NEW b \in Int, NEW k \in Int
  PROVE  Dist(a, b) <= k <=> a - b <= k /\ b - a <= k
<1> QED
  BY DEF Dist

LEMMA OtherSide ==
  ASSUME NEW s \in Side
  PROVE  Other(s) \in Side
<1>1. \E t \in Side : t # s
  BY SideAssumption DEF Side
<1> QED
  BY <1>1 DEF Other

\* The greater and the less of two numbers
LEMMA TwoBounds ==
  ASSUME NEW a \in Int, NEW b \in Int
  PROVE  /\ Max({a, b}) \in {a, b} /\ Max({a, b}) >= a /\ Max({a, b}) >= b
         /\ Min({a, b}) \in {a, b} /\ Min({a, b}) <= a /\ Min({a, b}) <= b
<1>1. \E x \in {a, b} : \A y \in {a, b} : x >= y
  <2>1. CASE a >= b
    BY <2>1
  <2>2. CASE b >= a
    BY <2>2
  <2> QED
    BY <2>1, <2>2
<1>2. \E x \in {a, b} : \A y \in {a, b} : x <= y
  <2>1. CASE a <= b
    BY <2>1
  <2>2. CASE b <= a
    BY <2>2
  <2> QED
    BY <2>1, <2>2
<1>3. Max({a, b}) \in {a, b} /\ \A y \in {a, b} : Max({a, b}) >= y
  BY <1>1 DEF Max
<1>4. Min({a, b}) \in {a, b} /\ \A y \in {a, b} : Min({a, b}) <= y
  BY <1>2 DEF Min
<1> QED
  BY <1>3, <1>4

\* At most one of the meters has slipped
LEMMA OneHolds ==
  ASSUME slipped \subseteq Side, Cardinality(slipped) <= 1
  PROVE  \E s \in Side : s \notin slipped
<1> SUFFICES ASSUME slipped = Side PROVE FALSE
  OBVIOUS
<1>1. IsFiniteSet({}) /\ Cardinality({}) = 0
  BY FS_EmptySet
<1>2. IsFiniteSet({L}) /\ Cardinality({L}) = 1
  BY FS_Singleton
<1>3. Cardinality({L} \cup {R}) = Cardinality({L}) + 1
  BY <1>2, SideAssumption, FS_AddElement
<1>4. Side = {L} \cup {R}
  BY DEF Side
<1> QED
  BY <1>2, <1>3, <1>4

LEMMA SlipCount ==
  ASSUME NEW S \in SUBSET Side
  PROVE  Cardinality(S) \in Nat
<1>1. IsFiniteSet({L})
  BY FS_Singleton
<1>2. IsFiniteSet({L} \cup {R})
  BY <1>1, FS_AddElement
<1>3. IsFiniteSet(S)
  BY <1>2, FS_Subset DEF Side
<1> QED
  BY <1>3, FS_CardinalityType

LEMMA CountInt ==
  ASSUME DeviceTypes, NEW s \in Side
  PROVE  Count(s) \in Int
<1>1. depth \in Int /\ origin[s] \in Int
  BY MeterNumbers DEF DeviceTypes
<1> QED
  BY <1>1 DEF Count

\* What a frame says
LEMMA FrameSays ==
  ASSUME DeviceTypes, NEW s \in Side, NEW v \in Frames(s)
  PROVE  v \in SUBSET Int /\ (v # {} => Said(v) \in Int) /\ (Undamaged(s, v) => Said(v) = Count(s))
<1>1. v = {} \/ v = {Count(s)} \/ \E c \in Noise : v = {c}
  BY DEF Frames
<1>2. Count(s) \in Int /\ Noise \subseteq Int
  BY CountInt, MeterNumbers
<1>3. v \in SUBSET Int
  BY <1>1, <1>2
<1>4. v # {} => Said(v) \in v
  BY DEF Said
<1> QED
  BY <1>3, <1>4 DEF Undamaged

LEMMA TallyStep ==
  ASSUME TallyTypes, NoMishap \/ Mishap \/ Command
  PROVE  TallyTypes'
<1> QED
  BY MeterNumbers DEF TallyTypes, NoMishap, Mishap, Command, bound

LEMMA ReadTally ==
  ASSUME NEW s, NEW v, Reads(s, v)
  PROVE  NoMishap \/ Mishap
<1> QED
  BY DEF Reads

-----------------------------------------------------------------------------
(* meter_loop, which touches neither counters nor commands.                *)

LEMMA LoopBeside ==
  ASSUME MeterInv, CacheTypes', LoopTypes', TallyTypes', UNCHANGED <<device, zero, height>>
  PROVE  MeterInv'
<1>1. UNCHANGED <<depth, origin, slipped, stage, job, left, read, hurt, home, wall, aim, datum, drift>>
  BY DEF device, zero, height
<1>2. DeviceTypes' /\ home' \in Nat /\ wall' \in Nat /\ datum' \subseteq Nat /\ drift' \in Nat
  BY <1>1 DEF MeterInv, DeviceTypes
<1>3. ZeroInv'
  BY <1>1 DEF MeterInv, ZeroInv, ZeroTypes, TopOn, Alone, SpanKnown, ReadTrue, Fits, Busy, Count
<1>4. DatumTrue' /\ AimKnown'
  BY <1>1 DEF MeterInv, DatumTrue, AimKnown, Busy, Slack
<1>5. GotoInside'
  BY <1>1 DEF MeterInv, GotoInside, Facade, Outermost, GotoSpan, Slack
<1> QED
  BY <1>2, <1>3, <1>4, <1>5 DEF MeterInv

LEMMA NoRunOK == NoRun \in [n : 0..(Resync - 1), last : Int]
<1> QED
  BY MeterNumbers DEF NoRun

LEMMA RunSet ==
  ASSUME LoopTypes, NEW r \in [n : 0..(Resync - 1), last : Int], run' = [run EXCEPT ![side] = r]
  PROVE  run' \in [Side -> [n : 0..(Resync - 1), last : Int]]
<1> QED
  BY DEF LoopTypes

LEMMA ReadFirst ==
  ASSUME MeterInv, NEW v \in Frames(side), ReadV1(v)
  PROVE  MeterInv'
<1>1. /\ UNCHANGED <<side, prev, device, store, zero, height>> /\ Reads(side, v)
      /\ side \in Side /\ LoopTypes
  BY DEF ReadV1, MeterInv, LoopTypes
<1>2. v # {} => Said(v) \in Int
  BY <1>1, FrameSays DEF MeterInv
<1>3. CASE v = {}
  <2>1. phase' = "store" /\ result' = [kind |-> "hard", value |-> 0] /\ v1' = v1
        /\ run' = [run EXCEPT ![side] = NoRun]
    BY <1>3 DEF ReadV1
  <2>2. run' \in [Side -> [n : 0..(Resync - 1), last : Int]]
    BY <1>1, <2>1, NoRunOK, RunSet
  <2>3. LoopTypes'
    BY <1>1, <2>1, <2>2 DEF LoopTypes
  <2> QED
    BY <1>1, <2>3, ReadTally, TallyStep, LoopBeside DEF MeterInv, CacheTypes, store
<1>4. CASE v # {}
  <2>1. phase' = "look" /\ v1' = Said(v) /\ UNCHANGED <<result, run>>
    BY <1>4 DEF ReadV1
  <2>2. LoopTypes'
    BY <1>1, <1>2, <1>4, <2>1 DEF LoopTypes
  <2> QED
    BY <1>1, <2>2, ReadTally, TallyStep, LoopBeside DEF MeterInv, CacheTypes, store
<1> QED
  BY <1>3, <1>4

LEMMA AcceptOK ==
  ASSUME LoopTypes, NEW n \in Int, Accept(n)
  PROVE  /\ phase' = "store" /\ run' \in [Side -> [n : 0..(Resync - 1), last : Int]]
         /\ result' \in [kind : {"none", "hard", "accepted", "rejected", "suspect"}, value : Int]
<1>1. run' \in [Side -> [n : 0..(Resync - 1), last : Int]]
  BY NoRunOK, RunSet DEF Accept
<1> QED
  BY <1>1 DEF Accept

LEMMA RejectOK ==
  ASSUME LoopTypes, NEW k \in {"rejected", "suspect"}, NEW r \in [n : 0..(Resync - 1), last : Int],
         Reject(k, r)
  PROVE  /\ phase' = "store" /\ run' \in [Side -> [n : 0..(Resync - 1), last : Int]]
         /\ result' \in [kind : {"none", "hard", "accepted", "rejected", "suspect"}, value : Int]
<1>1. run' \in [Side -> [n : 0..(Resync - 1), last : Int]]
  BY RunSet DEF Reject
<1> QED
  BY <1>1 DEF Reject

LEMMA LookStep ==
  ASSUME MeterInv, Look
  PROVE  MeterInv'
<1>1. UNCHANGED <<side, device, store, zero, height, bound>> /\ LoopTypes /\ CacheTypes
  BY DEF Look, MeterInv
<1>2. LoopTypes'
  <2>1. CASE Accept(v1) /\ v1' = 0 /\ UNCHANGED prev
    <3>1. v1 \in Int
      BY <1>1 DEF LoopTypes
    <3> QED
      BY <1>1, <2>1, <3>1, AcceptOK DEF LoopTypes
  <2>2. CASE phase' = "v2" /\ prev' = cache[side] /\ UNCHANGED <<result, run, v1>>
    <3>1. cache[side] \in Int
      BY <1>1 DEF LoopTypes, CacheTypes
    <3> QED
      BY <1>1, <2>2, <3>1 DEF LoopTypes
  <2> QED
    BY <2>1, <2>2 DEF Look
<1>3. TallyTypes' /\ CacheTypes'
  BY <1>1 DEF MeterInv, TallyTypes, CacheTypes, bound, store
<1> QED
  BY <1>1, <1>2, <1>3, LoopBeside

\* A run of rejections that the resync does not end stays below it
LEMMA LongerOK ==
  ASSUME LoopTypes, NEW w \in Int
  PROVE  /\ Longer(w).n \in Nat /\ Longer(w).last = w
         /\ ~Resyncs(Longer(w).n) => Longer(w) \in [n : 0..(Resync - 1), last : Int]
<1>1. run[side].n \in 0..(Resync - 1)
  BY DEF LoopTypes
<1>2. run[side].n + 1 \in Nat
  BY <1>1
<1> DEFINE n == IF run[side].n > 0 /\ Dist(w, run[side].last) <= MaxJump THEN run[side].n + 1 ELSE 1
<1>3. Longer(w) = [n |-> n, last |-> w]
  BY DEF Longer
<1>4. n \in Nat
  BY <1>2
<1> HIDE DEF n
<1>5. ~(n >= Resync) => n \in 0..(Resync - 1)
  BY <1>4, MeterNumbers
<1> QED
  BY <1>3, <1>4, <1>5 DEF Resyncs

LEMMA ReadSecond ==
  ASSUME MeterInv, NEW v \in Frames(side), ReadV2(v)
  PROVE  MeterInv'
<1>1. /\ UNCHANGED <<side, device, store, zero, height>> /\ Reads(side, v)
      /\ v1' = 0 /\ prev' = 0 /\ side \in Side /\ LoopTypes
  BY DEF ReadV2, MeterInv, LoopTypes
<1>2. v # {} => Said(v) \in Int
  BY <1>1, FrameSays DEF MeterInv
<1> DEFINE Good == /\ phase' = "store" /\ run' \in [Side -> [n : 0..(Resync - 1), last : Int]]
                   /\ result' \in [kind : {"none", "hard", "accepted", "rejected", "suspect"}, value : Int]
<1>3. ASSUME v = {} PROVE Good
  <2>1. Reject("rejected", run[side])
    BY <1>3 DEF ReadV2
  <2>2. run[side] \in [n : 0..(Resync - 1), last : Int]
    BY <1>1 DEF LoopTypes
  <2>3. Good
    BY <1>1, <2>1, <2>2, RejectOK
  <2> QED
    BY <2>3
<1>4. ASSUME v # {} PROVE Good
  <2> DEFINE w == Said(v)
  <2>1. w \in Int /\ Second(w)
    BY <1>2, <1>4 DEF ReadV2
  <2> HIDE DEF w
  <2>2. \/ Accept(w)
        \/ ~Resyncs(Longer(w).n) /\ Reject("suspect", Longer(w))
        \/ Reject("rejected", NoRun)
    <3>1. Dist(w, prev) <= MaxJump \/ Dist(w, prev) > MaxJump
      BY <1>1, <2>1, MeterNumbers DEF LoopTypes, Dist
    <3> QED
      BY <2>1, <3>1 DEF Second
  <2>3. CASE Accept(w)
    BY <1>1, <2>1, <2>3, AcceptOK
  <2>4. CASE ~Resyncs(Longer(w).n) /\ Reject("suspect", Longer(w))
    <3>1. Longer(w) \in [n : 0..(Resync - 1), last : Int]
      BY <1>1, <2>1, <2>4, LongerOK
    <3> QED
      BY <1>1, <2>4, <3>1, RejectOK
  <2>5. CASE Reject("rejected", NoRun)
    BY <1>1, <2>5, NoRunOK, RejectOK
  <2> QED
    BY <2>2, <2>3, <2>4, <2>5
<1>5. Good
  BY <1>3, <1>4
<1>6. LoopTypes'
  BY <1>1, <1>5 DEF LoopTypes
<1> QED
  BY <1>1, <1>6, ReadTally, TallyStep, LoopBeside DEF MeterInv, CacheTypes, store

LEMMA StoreReadingStep ==
  ASSUME MeterInv, StoreReading
  PROVE  MeterInv'
<1>1. /\ UNCHANGED <<v1, prev, run, device, zero, height, bound>>
      /\ phase' = "v1" /\ side' = Other(side) /\ result' = None
      /\ LoopTypes /\ CacheTypes
  BY DEF StoreReading, MeterInv
<1>2. side \in Side /\ result.value \in Int
  BY <1>1 DEF LoopTypes
<1>3. LoopTypes'
  <2>1. side' \in Side
    BY <1>1, <1>2, OtherSide
  <2> QED
    BY <1>1, <2>1 DEF LoopTypes, None
<1>4. cache' \in [Side -> Int]
  <2>1. cache' = [cache EXCEPT ![side] = IF result.kind = "accepted" THEN result.value ELSE cache[side]]
    BY DEF StoreReading
  <2> QED
    BY <1>1, <1>2, <2>1 DEF CacheTypes
<1>5. valid' \in [Side -> BOOLEAN] /\ suspect' \in [Side -> BOOLEAN]
  <2>1. suspect' \in [Side -> BOOLEAN]
    BY <1>1, <1>2 DEF StoreReading, CacheTypes
  <2>2. PICK b \in BOOLEAN : valid' = [valid EXCEPT ![side] = b]
    <3>1. valid[side] \in BOOLEAN
      BY <1>1, <1>2 DEF CacheTypes
    <3>2. CASE result.kind = "hard"
      BY <3>2 DEF StoreReading
    <3>3. CASE result.kind = "accepted"
      BY <3>3 DEF StoreReading
    <3>4. CASE result.kind \notin {"hard", "accepted"}
      BY <3>1, <3>4 DEF StoreReading
    <3> QED
      BY <3>2, <3>3, <3>4
  <2> QED
    BY <1>1, <2>1, <2>2 DEF CacheTypes
<1>6. TallyTypes' /\ CacheTypes'
  BY <1>1, <1>4, <1>5 DEF MeterInv, TallyTypes, CacheTypes, bound
<1> QED
  BY <1>1, <1>3, <1>6, LoopBeside

-----------------------------------------------------------------------------
(* Zero commands.                                                          *)

LEMMA StageGoes ==
  ASSUME ZeroTypes, NEW o \in Op, NEW l \in {"idle", "span", "reset", "read", "store"}, Goes(o, l)
  PROVE  /\ stage' \in [Op -> {"idle", "span", "reset", "read", "store"}]
         /\ stage'[o] = l /\ \A p \in Op \ {o} : stage'[p] = stage[p]
<1> QED
  BY DEF ZeroTypes, Goes

\* What a step of o leaves to the other commands
Untouched(o) ==
  \A p \in Op \ {o} : /\ stage'[p] = stage[p] /\ job'[p] = job[p]
                      /\ read'[p] = read[p] /\ hurt'[p] = hurt[p]

LEMMA AnswersEffect ==
  ASSUME ZeroTypes, NEW o \in Op, Answers(o)
  PROVE  /\ ZeroTypes' /\ Untouched(o)
         /\ stage'[o] = "idle" /\ job'[o] = NoJob /\ read'[o] = [s \in Side |-> {}] /\ ~hurt'[o]
<1>1. /\ stage' = [stage EXCEPT ![o] = "idle"]
      /\ job' = [job EXCEPT ![o] = NoJob]
      /\ left' = [left EXCEPT ![o] = {}]
      /\ read' = [read EXCEPT ![o] = [s \in Side |-> {}]]
      /\ hurt' = [hurt EXCEPT ![o] = FALSE]
  BY DEF Answers, Goes
<1>2. NoJob \in [on : SUBSET Side, top : BOOLEAN]
  BY DEF NoJob
<1>3. /\ stage' \in [Op -> {"idle", "span", "reset", "read", "store"}]
      /\ job' \in [Op -> [on : SUBSET Side, top : BOOLEAN]]
      /\ left' \in [Op -> SUBSET Side] /\ read' \in [Op -> [Side -> SUBSET Int]]
      /\ hurt' \in [Op -> BOOLEAN]
  BY <1>1, <1>2 DEF ZeroTypes
<1>4. ASSUME NEW p \in Op PROVE left'[p] \subseteq job'[p].on
  BY <1>1 DEF ZeroTypes
<1>5. ZeroTypes'
  BY <1>3, <1>4 DEF ZeroTypes
<1>6. /\ stage'[o] = "idle" /\ job'[o] = NoJob /\ read'[o] = [s \in Side |-> {}] /\ hurt'[o] = FALSE
      /\ Untouched(o)
  BY <1>1 DEF ZeroTypes, Untouched
<1> QED
  BY <1>5, <1>6

\* While o works, the others rest or are hurt, and no zero is known
LEMMA OthersOut ==
  ASSUME MeterInv, NEW o \in Op, stage[o] # "idle"
  PROVE  /\ \A p \in Op \ {o} : stage[p] = "idle" \/ hurt[p]
         /\ datum = {} /\ aim = {}
         /\ ~hurt[o] => \A p \in Op \ {o} : stage[p] = "idle"
<1>1. o \in Busy
  BY DEF Busy
<1>2. datum = {} /\ aim = {}
  BY <1>1 DEF MeterInv, DatumTrue, AimKnown
<1>3. \A p \in Op \ {o} : stage[p] = "idle" \/ hurt[p]
  BY <1>1 DEF MeterInv, ZeroInv, Alone
<1>4. ~hurt[o] => \A p \in Op \ {o} : stage[p] = "idle"
  BY DEF MeterInv, ZeroInv, Alone, Busy
<1> QED
  BY <1>2, <1>3, <1>4

\* A step of o that is still at work
LEMMA ZeroGoes ==
  ASSUME MeterInv, NEW o \in Op, stage[o] # "idle", stage'[o] # "idle", ZeroTypes', Untouched(o),
         job'[o] = job[o], hurt[o] => hurt'[o],
         job[o].top /\ ~hurt'[o] /\ stage'[o] # "span" =>
           Dist(home', Ground - depth') <= Tolerance + drift',
         \A s \in Side :
           /\ stage'[o] \in {"span", "reset"} => read'[o][s] = {}
           /\ stage'[o] \in {"read", "store"} /\ ~hurt'[o] => Fits(read[o][s], s, job[o].top)'
  PROVE  ZeroInv'
<1>1. /\ \A p \in Op \ {o} : stage[p] = "idle" \/ hurt[p]
      /\ ~hurt[o] => \A p \in Op \ {o} : stage[p] = "idle"
  BY OthersOut
<1>2. TopOn'
  <2>1. ASSUME NEW p \in Op, job'[p].top PROVE job'[p].on = Side /\ stage'[p] # "idle"
    BY <2>1 DEF MeterInv, ZeroInv, TopOn, Untouched
  <2> QED
    BY <2>1 DEF TopOn
<1>3. Alone'
  <2>1. ASSUME NEW p \in Op, stage'[p] # "idle", ~hurt'[p] PROVE p = o
    BY <1>1, <2>1 DEF Untouched
  <2>2. ~hurt'[o] => Busy' = {o}
    BY <1>1 DEF Busy, Untouched
  <2> QED
    BY <2>1, <2>2 DEF Alone
<1>4. SpanKnown'
  <2>1. ASSUME NEW p \in Op \ {o}, job'[p].top, ~hurt'[p] PROVE FALSE
    BY <1>1, <2>1 DEF Untouched, MeterInv, ZeroInv, TopOn
  <2> QED
    BY <2>1 DEF SpanKnown
<1>5. ReadTrue'
  <2>1. ASSUME NEW p \in Op, NEW s \in Side
        PROVE  /\ stage'[p] \in {"idle", "span", "reset"} => read'[p][s] = {}
               /\ stage'[p] \in {"read", "store"} /\ ~hurt'[p] => Fits(read[p][s], s, job[p].top)'
    <3>1. CASE p = o
      BY <3>1
    <3>2. CASE p # o
      <4>1. stage'[p] = stage[p] /\ read'[p] = read[p] /\ hurt'[p] = hurt[p]
        BY <3>2 DEF Untouched
      <4> QED
        BY <1>1, <3>2, <4>1 DEF MeterInv, ZeroInv, ReadTrue
    <3> QED
      BY <3>1, <3>2
  <2> QED
    BY <2>1 DEF ReadTrue
<1> QED
  BY <1>2, <1>3, <1>4, <1>5 DEF ZeroInv

\* A command of o ends
LEMMA ZeroEnds ==
  ASSUME MeterInv, NEW o \in Op, stage[o] # "idle", Answers(o)
  PROVE  ZeroInv'
<1>1. /\ ZeroTypes' /\ Untouched(o)
      /\ stage'[o] = "idle" /\ job'[o] = NoJob /\ read'[o] = [s \in Side |-> {}] /\ ~hurt'[o]
  BY AnswersEffect DEF MeterInv, ZeroInv
<1>2. \A p \in Op \ {o} : stage[p] = "idle" \/ hurt[p]
  BY OthersOut
<1>3. ~job'[o].top
  BY <1>1 DEF NoJob
<1>4. TopOn'
  BY <1>1, <1>3 DEF MeterInv, ZeroInv, TopOn, Untouched
<1>5. Alone'
  <2>1. ASSUME NEW p \in Op, stage'[p] # "idle" PROVE hurt'[p]
    BY <1>1, <1>2, <2>1 DEF Untouched
  <2> QED
    BY <2>1 DEF Alone
<1>6. SpanKnown'
  <2>1. ASSUME NEW p \in Op, job'[p].top, ~hurt'[p] PROVE FALSE
    BY <1>1, <1>2, <1>3, <2>1 DEF Untouched, MeterInv, ZeroInv, TopOn
  <2> QED
    BY <2>1 DEF SpanKnown
<1>7. ReadTrue'
  <2>1. ASSUME NEW p \in Op, NEW s \in Side
        PROVE  /\ stage'[p] \in {"idle", "span", "reset"} => read'[p][s] = {}
               /\ stage'[p] \in {"read", "store"} => hurt'[p]
    <3>1. CASE p = o
      BY <1>1, <3>1
    <3>2. CASE p # o
      <4>1. stage'[p] = stage[p] /\ read'[p] = read[p] /\ hurt'[p] = hurt[p]
        BY <1>1, <3>2 DEF Untouched
      <4> QED
        BY <1>2, <3>2, <4>1 DEF MeterInv, ZeroInv, ReadTrue
    <3> QED
      BY <3>1, <3>2
  <2> QED
    BY <2>1 DEF ReadTrue
<1> QED
  BY <1>1, <1>4, <1>5, <1>6, <1>7 DEF ZeroInv

\* Whatever a command does while it is at work, no zero is known
LEMMA ZeroBeside ==
  ASSUME MeterInv, NEW o \in Op, stage[o] # "idle", ZeroInv', DeviceTypes', TallyTypes',
         home' \in Nat, UNCHANGED <<store, loop, wall, aim, datum, drift>>
  PROVE  MeterInv'
<1>1. UNCHANGED <<cache, valid, suspect, phase, side, v1, prev, result, run>>
  BY DEF store, loop
<1>2. datum' = {} /\ aim' = {}
  BY OthersOut
<1>3. CacheTypes' /\ LoopTypes' /\ wall' \in Nat /\ drift' \in Nat
  BY <1>1 DEF MeterInv, CacheTypes, LoopTypes
<1>4. DatumTrue' /\ AimKnown' /\ GotoInside'
  BY <1>2 DEF DatumTrue, AimKnown, GotoInside
<1> QED
  BY <1>2, <1>3, <1>4 DEF MeterInv

LEMMA ZeroMetersStep ==
  ASSUME MeterInv, NEW o \in Op, NEW S \in SUBSET Side, NEW top \in BOOLEAN, ZeroMeters(o, S, top)
  PROVE  MeterInv'
<1>1. /\ stage[o] = "idle" /\ Command /\ (top => S = Side)
      /\ Goes(o, IF top THEN "span" ELSE "reset")
      /\ job' = [job EXCEPT ![o] = [on |-> S, top |-> top]]
      /\ left' = [left EXCEPT ![o] = S]
      /\ hurt' = [p \in Op |-> (p = o /\ Busy # {}) \/ p \in Busy]
      /\ datum' = {} /\ drift' = 0 /\ aim' = {}
      /\ UNCHANGED <<read, device, store, loop, home, wall>>
  BY DEF ZeroMeters
<1>2. /\ stage' \in [Op -> {"idle", "span", "reset", "read", "store"}]
      /\ stage'[o] = (IF top THEN "span" ELSE "reset") /\ \A p \in Op \ {o} : stage'[p] = stage[p]
  <2>1. (IF top THEN "span" ELSE "reset") \in {"idle", "span", "reset", "read", "store"}
    OBVIOUS
  <2> QED
    BY <1>1, <2>1, StageGoes DEF MeterInv, ZeroInv
<1>3. /\ job' \in [Op -> [on : SUBSET Side, top : BOOLEAN]] /\ left' \in [Op -> SUBSET Side]
      /\ job'[o].on = S /\ job'[o].top = top /\ left'[o] = S
      /\ \A p \in Op \ {o} : job'[p] = job[p] /\ left'[p] = left[p]
  BY <1>1 DEF MeterInv, ZeroInv, ZeroTypes
<1>4. hurt' \in [Op -> BOOLEAN] /\ \A p \in Busy : hurt'[p]
  <2>1. \A p \in Op : ((p = o /\ Busy # {}) \/ p \in Busy) \in BOOLEAN
    OBVIOUS
  <2>2. Busy \subseteq Op
    BY DEF Busy
  <2> QED
    BY <1>1, <2>1, <2>2
<1>5. ZeroTypes'
  <2>1. ASSUME NEW p \in Op PROVE left'[p] \subseteq job'[p].on
    <3>1. CASE p = o
      BY <1>3, <3>1
    <3>2. CASE p # o
      BY <1>3, <3>2 DEF MeterInv, ZeroInv, ZeroTypes
    <3> QED
      BY <3>1, <3>2
  <2> QED
    BY <1>1, <1>2, <1>3, <1>4, <2>1 DEF MeterInv, ZeroInv, ZeroTypes
<1>6. \A p \in Op \ {o} : stage[p] # "idle" => hurt'[p]
  BY <1>4 DEF Busy
<1>7. ~hurt'[o] => Busy = {}
  BY <1>1
<1>8. TopOn'
  <2>1. ASSUME NEW p \in Op, job'[p].top PROVE job'[p].on = Side /\ stage'[p] # "idle"
    <3>1. CASE p = o
      BY <1>1, <1>2, <1>3, <2>1, <3>1
    <3>2. CASE p # o
      BY <1>2, <1>3, <2>1, <3>2 DEF MeterInv, ZeroInv, TopOn
    <3> QED
      BY <3>1, <3>2
  <2> QED
    BY <2>1 DEF TopOn
<1>9. Alone'
  <2>1. ASSUME NEW p \in Op, stage'[p] # "idle", ~hurt'[p] PROVE p = o
    BY <1>2, <1>6, <2>1
  <2>2. Busy = {} => Busy' = {o}
    BY <1>2 DEF Busy
  <2> QED
    BY <1>7, <2>1, <2>2 DEF Alone
<1>10. SpanKnown'
  <2>1. ASSUME NEW p \in Op, job'[p].top, ~hurt'[p] PROVE stage'[p] = "span"
    <3>1. CASE p = o
      BY <1>2, <1>3, <2>1, <3>1
    <3>2. CASE p # o
      BY <1>2, <1>3, <1>6, <2>1, <3>2 DEF MeterInv, ZeroInv, TopOn
    <3> QED
      BY <3>1, <3>2
  <2> QED
    BY <2>1 DEF SpanKnown
<1>11. ReadTrue'
  <2>1. ASSUME NEW p \in Op, NEW s \in Side
        PROVE  /\ stage'[p] \in {"idle", "span", "reset"} => read'[p][s] = {}
               /\ stage'[p] \in {"read", "store"} => hurt'[p]
    <3>1. CASE p = o
      <4>1. read[o][s] = {}
        BY <1>1 DEF MeterInv, ZeroInv, ReadTrue
      <4> QED
        BY <1>1, <1>2, <3>1, <4>1
    <3>2. CASE p # o
      BY <1>1, <1>2, <1>6, <3>2 DEF MeterInv, ZeroInv, ReadTrue
    <3> QED
      BY <3>1, <3>2
  <2> QED
    BY <2>1 DEF ReadTrue
<1>12. UNCHANGED <<depth, origin, slipped, cache, valid, suspect, phase, side, v1, prev, result, run>>
  BY <1>1 DEF device, store, loop
<1>13. /\ DeviceTypes' /\ CacheTypes' /\ LoopTypes'
       /\ home' \in Nat /\ wall' \in Nat /\ datum' \subseteq Nat /\ drift' \in Nat
  BY <1>1, <1>12 DEF MeterInv, DeviceTypes, CacheTypes, LoopTypes
<1>14. TallyTypes'
  BY <1>1, TallyStep DEF MeterInv
<1>15. DatumTrue' /\ AimKnown' /\ GotoInside'
  BY <1>1 DEF DatumTrue, AimKnown, GotoInside
<1> QED
  BY <1>5, <1>8, <1>9, <1>10, <1>11, <1>13, <1>14, <1>15 DEF MeterInv, ZeroInv

\* A count's size is the way to the ground, but for what its origin is off
LEMMA SpanNumbers ==
  ASSUME NEW g \in Nat, NEW d \in 0..g, NEW c \in Int, NEW k \in Nat, c - g <= k, g - c <= k,
         NEW n \in Nat, (n = d - c /\ c <= d) \/ (n = c - d /\ d <= c)
  PROVE  n - (g - d) <= k /\ (g - d) - n <= k
<1> QED
  OBVIOUS

LEMMA SpanWay ==
  ASSUME DeviceTypes, Dist(origin[L], Ground) <= Tolerance
  PROVE  Dist(Dist(Count(L), 0), Ground - depth) <= Tolerance
<1> DEFINE c == origin[L]
           n == Dist(Count(L), 0)
<1>1. depth \in 0..Ground /\ depth \in Int /\ c \in Int
  BY MeterNumbers DEF DeviceTypes, Side
<1>2. Count(L) = depth - c
  BY DEF Count
<1>3. n \in Nat /\ ((n = depth - c /\ c <= depth) \/ (n = c - depth /\ depth <= c))
  BY <1>1, <1>2 DEF Dist
<1>4. c - Ground <= Tolerance /\ Ground - c <= Tolerance
  BY <1>1, MeterNumbers, DistNear
<1>5. Ground - depth \in Int
  BY <1>1, MeterNumbers
<1> HIDE DEF c, n
<1>6. n - (Ground - depth) <= Tolerance /\ (Ground - depth) - n <= Tolerance
  BY <1>1, <1>3, <1>4, MeterNumbers, SpanNumbers
<1>7. Dist(n, Ground - depth) <= Tolerance
  BY <1>3, <1>5, <1>6, MeterNumbers, DistNear
<1> QED
  BY <1>7 DEF n

LEMMA SpanStep ==
  ASSUME MeterInv, NEW o \in Op, NEW v \in Frames(L), Span(o, v)
  PROVE  MeterInv'
<1>1. /\ stage[o] = "span" /\ Reads(L, v) /\ stage[o] # "idle"
      /\ UNCHANGED <<device, store, loop, wall, aim, datum, drift>>
  BY DEF Span
<1>2. L \in Side
  BY DEF Side
<1>3. UNCHANGED <<depth, origin, slipped>>
  BY <1>1 DEF device
<1>4. DeviceTypes' /\ TallyTypes'
  BY <1>1, <1>3, ReadTally, TallyStep DEF MeterInv, DeviceTypes
<1>5. CASE v = {}
  <2>1. Answers(o) /\ UNCHANGED home
    BY <1>5 DEF Span
  <2>2. ZeroInv'
    BY <1>1, <2>1, ZeroEnds
  <2> QED
    BY <1>1, <1>4, <2>1, <2>2, ZeroBeside DEF MeterInv
<1>6. CASE v # {}
  <2>1. /\ home' = Dist(Said(v), 0) /\ Goes(o, "reset")
        /\ hurt' = [hurt EXCEPT ![o] = @ \/ ~Undamaged(L, v) \/ Dist(origin[L], Ground) > Tolerance]
        /\ UNCHANGED <<job, left, read>>
    BY <1>6 DEF Span
  <2>2. Said(v) \in Int /\ (Undamaged(L, v) => Said(v) = Count(L))
    BY <1>2, <1>6, FrameSays DEF MeterInv
  <2>3. home' \in Nat
    BY <2>1, <2>2 DEF Dist
  <2>4. /\ stage' \in [Op -> {"idle", "span", "reset", "read", "store"}]
        /\ stage'[o] = "reset" /\ \A p \in Op \ {o} : stage'[p] = stage[p]
    BY <2>1, StageGoes DEF MeterInv, ZeroInv
  <2>5. PICK b \in BOOLEAN :
          /\ hurt' = [hurt EXCEPT ![o] = b] /\ (hurt[o] => b)
          /\ ~b => Undamaged(L, v) /\ ~(Dist(origin[L], Ground) > Tolerance)
    BY <2>1
  <2>6. hurt' \in [Op -> BOOLEAN] /\ hurt'[o] = b /\ \A p \in Op \ {o} : hurt'[p] = hurt[p]
    BY <2>5 DEF MeterInv, ZeroInv, ZeroTypes
  <2>7. ZeroTypes' /\ Untouched(o)
    BY <2>1, <2>4, <2>6 DEF MeterInv, ZeroInv, ZeroTypes, Untouched
  <2>8. ~hurt'[o] => Dist(home', Ground - depth') <= Tolerance + drift'
    <3>1. origin[L] \in Int
      BY <1>2 DEF MeterInv, DeviceTypes
    <3>2. Dist(origin[L], Ground) \in Int
      BY <3>1, MeterNumbers DEF Dist
    <3>3. ~hurt'[o] => Dist(origin[L], Ground) <= Tolerance
      BY <2>5, <2>6, <3>2, MeterNumbers
    <3>4. ~hurt'[o] => Dist(Dist(Count(L), 0), Ground - depth) <= Tolerance
      BY <3>3, SpanWay DEF MeterInv
    <3>5. ~hurt'[o] => Dist(home', Ground - depth') <= Tolerance
      BY <1>3, <2>1, <2>2, <2>5, <2>6, <3>4
    <3>6. home' \in Int /\ Ground - depth' \in Int
      BY <1>4, <2>3, MeterNumbers DEF DeviceTypes
    <3>7. Dist(home', Ground - depth') \in Int
      BY <3>6 DEF Dist
    <3>8. drift' = drift /\ drift \in Nat
      BY <1>1 DEF MeterInv
    <3> QED
      BY <3>5, <3>7, <3>8, MeterNumbers
  <2>9. \A s \in Side : read'[o][s] = {}
    BY <1>1, <2>1 DEF MeterInv, ZeroInv, ReadTrue
  <2>10. hurt[o] => hurt'[o]
    BY <2>5, <2>6
  <2>11. ZeroInv'
    BY <1>1, <2>1, <2>4, <2>7, <2>8, <2>9, <2>10, ZeroGoes
  <2> QED
    BY <1>1, <1>4, <2>3, <2>11, ZeroBeside
<1> QED
  BY <1>5, <1>6

\* The next meter's turn, or the next part of the command
LEMMA NextMeterEffect ==
  ASSUME ZeroTypes, NEW o \in Op, stage[o] \in {"reset", "read"}, NEW after \in {"read", "store"},
         NextMeter(o, Left(o), after)
  PROVE  /\ stage' \in [Op -> {"idle", "span", "reset", "read", "store"}]
         /\ stage'[o] \in {stage[o], after} /\ \A p \in Op \ {o} : stage'[p] = stage[p]
         /\ left' \in [Op -> SUBSET Side] /\ job' = job
         /\ \A p \in Op : left'[p] \subseteq job'[p].on
<1>1. /\ left' = [left EXCEPT ![o] = IF left[o] = {Left(o)} THEN job[o].on ELSE left[o] \ {Left(o)}]
      /\ Goes(o, IF left[o] = {Left(o)} THEN after ELSE stage[o]) /\ job' = job
  BY DEF NextMeter, ZeroTypes
<1>2. (IF left[o] = {Left(o)} THEN after ELSE stage[o]) \in {"idle", "span", "reset", "read", "store"}
  BY DEF ZeroTypes
<1>3. /\ stage' \in [Op -> {"idle", "span", "reset", "read", "store"}]
      /\ stage'[o] \in {stage[o], after} /\ \A p \in Op \ {o} : stage'[p] = stage[p]
  BY <1>1, <1>2, StageGoes
<1>4. job[o].on \subseteq Side /\ left[o] \subseteq job[o].on
  BY DEF ZeroTypes
<1>5. PICK S \in SUBSET job[o].on : left' = [left EXCEPT ![o] = S]
  BY <1>1, <1>4
<1>6. left' \in [Op -> SUBSET Side]
  BY <1>4, <1>5 DEF ZeroTypes
<1>7. ASSUME NEW p \in Op PROVE left'[p] \subseteq job'[p].on
  BY <1>1, <1>4, <1>5 DEF ZeroTypes
<1> QED
  BY <1>1, <1>3, <1>6, <1>7

LEMMA LeftSide ==
  ASSUME NEW o \in Op
  PROVE  Left(o) \in Side
<1> QED
  BY DEF Left, Side

LEMMA ResetStep ==
  ASSUME MeterInv, NEW o \in Op, Reset(o)
  PROVE  MeterInv'
<1>1. /\ stage[o] = "reset" /\ stage[o] # "idle" /\ UNCHANGED <<depth, store, loop, home, wall, aim, datum, drift>>
      /\ ResetDone(Left(o)) \/ ResetNot
      /\ NoMishap \/ Mishap
      /\ (NextMeter(o, Left(o), "read") /\ UNCHANGED <<read, hurt>>) \/ Answers(o)
  BY DEF Reset, height
<1>2. TallyTypes' /\ home' \in Nat
  BY <1>1, TallyStep DEF MeterInv
<1>3. DeviceTypes'
  <2>1. depth \in 0..Ground /\ depth \in Int
    BY MeterNumbers DEF MeterInv, DeviceTypes
  <2>2. CASE ResetDone(Left(o))
    BY <1>1, <2>1, <2>2, LeftSide DEF ResetDone, MeterInv, DeviceTypes
  <2>3. CASE ResetNot
    BY <1>1, <2>3 DEF ResetNot, MeterInv, DeviceTypes
  <2> QED
    BY <1>1, <2>2, <2>3
<1>4. CASE Answers(o)
  <2>1. ZeroInv'
    BY <1>1, <1>4, ZeroEnds
  <2> QED
    BY <1>1, <1>2, <1>3, <2>1, ZeroBeside
<1>5. CASE NextMeter(o, Left(o), "read") /\ UNCHANGED <<read, hurt>>
  <2>1. /\ stage' \in [Op -> {"idle", "span", "reset", "read", "store"}]
        /\ stage'[o] \in {"reset", "read"} /\ \A p \in Op \ {o} : stage'[p] = stage[p]
        /\ left' \in [Op -> SUBSET Side] /\ job' = job
        /\ \A p \in Op : left'[p] \subseteq job'[p].on
    BY <1>1, <1>5, NextMeterEffect DEF MeterInv, ZeroInv
  <2>2. ZeroTypes' /\ Untouched(o)
    BY <1>5, <2>1 DEF MeterInv, ZeroInv, ZeroTypes, Untouched
  <2>3. \A s \in Side : read'[o][s] = {}
    BY <1>1, <1>5 DEF MeterInv, ZeroInv, ReadTrue
  <2>4. job[o].top /\ ~hurt'[o] => Dist(home', Ground - depth') <= Tolerance + drift'
    BY <1>1, <1>5 DEF MeterInv, ZeroInv, SpanKnown
  <2>5. stage'[o] # "idle" /\ job'[o] = job[o] /\ (hurt[o] => hurt'[o])
    BY <1>5, <2>1
  <2>6. \A s \in Side : Fits(read[o][s], s, job[o].top)'
    BY <2>3 DEF Fits
  <2>7. ZeroInv'
    BY <1>1, <2>2, <2>3, <2>4, <2>5, <2>6, ZeroGoes
  <2> QED
    BY <1>1, <1>2, <1>3, <2>7, ZeroBeside
<1> QED
  BY <1>1, <1>4, <1>5

LEMMA SameSum ==
  ASSUME NEW g \in Int, NEW d \in Int, NEW c \in Int, NEW h \in Int, NEW k \in Int,
         Dist(h, g - d) <= k
  PROVE  Dist((h + c) + (d - c), g) <= k
<1>1. g - d \in Int /\ (h + c) + (d - c) \in Int
  OBVIOUS
<1>2. h - (g - d) <= k /\ (g - d) - h <= k
  BY <1>1, DistNear
<1>3. ((h + c) + (d - c)) - g <= k /\ g - ((h + c) + (d - c)) <= k
  BY <1>2
<1> QED
  BY <1>1, <1>3, DistNear

\* What a counter says now fits
LEMMA CountFits ==
  ASSUME DeviceTypes, home \in Nat, drift \in Nat, NEW s \in Side, NEW top,
         top => Dist(home, Ground - depth) <= Tolerance + drift
  PROVE  Fits({Count(s)}, s, top)
<1> DEFINE c == origin[s]
<1>1. depth \in Int /\ c \in Int /\ Count(s) = depth - c /\ depth - c \in Int
  BY MeterNumbers DEF DeviceTypes, Count
<1> HIDE DEF c
<1>2. Dist(depth - c, depth - c) <= drift
  BY <1>1 DEF Dist
<1>3. top => Dist((home + c) + (depth - c), Ground) <= Tolerance + drift
  <2>1. Tolerance + drift \in Int /\ Ground \in Int /\ home \in Int
    BY MeterNumbers
  <2> QED
    BY <1>1, <2>1, SameSum
<1> QED
  BY <1>1, <1>2, <1>3 DEF Fits, c

LEMMA ReadBackStep ==
  ASSUME MeterInv, NEW o \in Op, NEW v \in Frames(Left(o)), ReadBack(o, v)
  PROVE  MeterInv'
<1>1. /\ stage[o] = "read" /\ stage[o] # "idle" /\ Reads(Left(o), v)
      /\ NextMeter(o, Left(o), "store")
      /\ UNCHANGED <<device, store, loop, home, wall, aim, datum, drift>>
  BY DEF ReadBack, height
<1>2. Left(o) \in Side /\ v \in SUBSET Int
  BY LeftSide, FrameSays DEF MeterInv
<1>3. UNCHANGED <<depth, origin, slipped>>
  BY <1>1 DEF device
<1>4. TallyTypes' /\ home' \in Nat /\ DeviceTypes'
  BY <1>1, <1>3, ReadTally, TallyStep DEF MeterInv, DeviceTypes
<1>5. /\ stage' \in [Op -> {"idle", "span", "reset", "read", "store"}]
      /\ stage'[o] \in {"read", "store"} /\ \A p \in Op \ {o} : stage'[p] = stage[p]
      /\ left' \in [Op -> SUBSET Side] /\ job' = job
      /\ \A p \in Op : left'[p] \subseteq job'[p].on
  BY <1>1, NextMeterEffect DEF MeterInv, ZeroInv
<1>6. /\ read' \in [Op -> [Side -> SUBSET Int]] /\ read'[o][Left(o)] = v
      /\ \A s \in Side \ {Left(o)} : read'[o][s] = read[o][s]
      /\ \A p \in Op \ {o} : read'[p] = read[p]
  <2>1. read' = [read EXCEPT ![o] = [read[o] EXCEPT ![Left(o)] = v]]
    BY DEF ReadBack
  <2>2. read \in [Op -> [Side -> SUBSET Int]] /\ read[o] \in [Side -> SUBSET Int]
    BY DEF MeterInv, ZeroInv, ZeroTypes
  <2>3. [read[o] EXCEPT ![Left(o)] = v] \in [Side -> SUBSET Int]
    BY <1>2, <2>2
  <2>4. read'[o] = [read[o] EXCEPT ![Left(o)] = v] /\ \A p \in Op \ {o} : read'[p] = read[p]
    BY <2>1, <2>2
  <2> QED
    BY <1>2, <2>1, <2>2, <2>3, <2>4
<1>7. PICK b \in BOOLEAN :
        /\ hurt' = [hurt EXCEPT ![o] = b] /\ (hurt[o] => b) /\ (~b => Undamaged(Left(o), v))
  BY DEF ReadBack
<1>8. hurt' \in [Op -> BOOLEAN] /\ hurt'[o] = b /\ \A p \in Op \ {o} : hurt'[p] = hurt[p]
  BY <1>7 DEF MeterInv, ZeroInv, ZeroTypes
<1>9. ZeroTypes' /\ Untouched(o)
  <2>1. job' \in [Op -> [on : SUBSET Side, top : BOOLEAN]]
    BY <1>5 DEF MeterInv, ZeroInv, ZeroTypes
  <2>2. ZeroTypes'
    BY <1>5, <1>6, <1>8, <2>1 DEF ZeroTypes
  <2>3. Untouched(o)
    BY <1>5, <1>6, <1>8 DEF Untouched
  <2> QED
    BY <2>2, <2>3
<1>10. ASSUME NEW s \in Side, ~hurt'[o] PROVE Fits(read[o][s], s, job[o].top)'
  <2>1. ~hurt[o] /\ Undamaged(Left(o), v)
    BY <1>7, <1>8, <1>10
  <2>2. UNCHANGED <<depth, origin, home, drift, job>>
    BY <1>1, <1>3, <1>5
  <2>3. CASE s = Left(o)
    <3>1. read'[o][s] = {Count(s)}
      BY <1>6, <2>1, <2>3 DEF Undamaged
    <3>2. job[o].top => Dist(home, Ground - depth) <= Tolerance + drift
      BY <1>1, <2>1 DEF MeterInv, ZeroInv, SpanKnown
    <3>3. Fits({Count(s)}, s, job[o].top)
      BY <3>2, CountFits DEF MeterInv
    <3> QED
      BY <2>2, <3>1, <3>3 DEF Fits, Count
  <2>4. CASE s # Left(o)
    <3>1. read'[o][s] = read[o][s] /\ Fits(read[o][s], s, job[o].top)
      BY <1>1, <1>6, <2>1, <2>4 DEF MeterInv, ZeroInv, ReadTrue
    <3> QED
      BY <2>2, <3>1 DEF Fits, Count
  <2> QED
    BY <2>3, <2>4
<1>11. job[o].top /\ ~hurt'[o] => Dist(home', Ground - depth') <= Tolerance + drift'
  BY <1>1, <1>3, <1>7, <1>8 DEF MeterInv, ZeroInv, SpanKnown
<1>12. stage'[o] # "idle" /\ job'[o] = job[o] /\ (hurt[o] => hurt'[o])
  BY <1>5, <1>7, <1>8
<1>13. ZeroInv'
  BY <1>1, <1>5, <1>9, <1>10, <1>11, <1>12, ZeroGoes
<1> QED
  BY <1>1, <1>4, <1>13, ZeroBeside

\* A count that is zero to the tolerance, read where the zero fits, makes up the slack
LEMMA SlackNumbers ==
  ASSUME NEW g \in Nat, NEW d \in Int, NEW c \in Int, NEW h \in Int, NEW k \in Nat, NEW w \in Nat,
         NEW q \in Int, Dist(q, 0) <= k,
         \/ Dist((h + c) + q, g) <= k + w
         \/ Dist(q, d - c) <= w /\ h = 0 /\ d = g
  PROVE  Dist(h + c, g) <= 2 * k + w
<1>1. q <= k /\ -q <= k
  <2>1. q - 0 <= k /\ 0 - q <= k
    BY DistNear
  <2> QED
    BY <2>1
<1>2. (h + c) - g <= 2 * k + w /\ g - (h + c) <= 2 * k + w
  <2>1. CASE Dist((h + c) + q, g) <= k + w
    <3>1. (h + c) + q \in Int /\ k + w \in Int
      OBVIOUS
    <3>2. ((h + c) + q) - g <= k + w /\ g - ((h + c) + q) <= k + w
      BY <2>1, <3>1, DistNear
    <3> QED
      BY <1>1, <3>2
  <2>2. CASE Dist(q, d - c) <= w /\ h = 0 /\ d = g
    <3>1. d - c \in Int
      OBVIOUS
    <3>2. q - (d - c) <= w /\ (d - c) - q <= w
      BY <2>2, <3>1, DistNear
    <3> QED
      BY <1>1, <2>2, <3>2
  <2> QED
    BY <2>1, <2>2
<1>3. h + c \in Int /\ 2 * k + w \in Int
  OBVIOUS
<1> QED
  BY <1>2, <1>3, DistNear

\* An unhurt zero command that finds its counters zero knows to the slack what to count from
LEMMA ZeroedNear ==
  ASSUME MeterInv, NEW o \in Op, stage[o] = "store", ~hurt[o], Zeroed(o), job[o].on = Side,
         job[o].top \/ depth = Ground, NEW s \in Side
  PROVE  Dist((IF job[o].top THEN home ELSE 0) + origin[s], Ground) <= Slack
<1> DEFINE c == origin[s]
           q == Said(read[o][s])
           h == IF job[o].top THEN home ELSE 0
<1>1. read[o][s] # {} /\ Dist(q, 0) <= Tolerance
  BY DEF Zeroed
<1>2. q \in read[o][s]
  BY <1>1 DEF Said
<1>3. q \in Int
  BY <1>2 DEF MeterInv, ZeroInv, ZeroTypes
<1>4. /\ Dist(q, depth - c) <= drift
      /\ job[o].top => Dist((home + c) + q, Ground) <= Tolerance + drift
  BY <1>2 DEF MeterInv, ZeroInv, ReadTrue, Fits, Count
<1>5. depth \in Int /\ c \in Int /\ h \in Int /\ Ground \in Nat /\ Tolerance \in Nat /\ drift \in Nat
  BY MeterNumbers DEF MeterInv, DeviceTypes
<1>6. \/ Dist((h + c) + q, Ground) <= Tolerance + drift
      \/ Dist(q, depth - c) <= drift /\ h = 0 /\ depth = Ground
  BY <1>4
<1> HIDE DEF c, q, h
<1>7. Dist(h + c, Ground) <= 2 * Tolerance + drift
  BY <1>1, <1>3, <1>5, <1>6, SlackNumbers
<1> QED
  BY <1>7 DEF h, c, Slack

\* After zero_meters top that is the span it has stored; at the ground it is 0
LEMMA StoreZeroStep ==
  ASSUME MeterInv, NEW o \in Op, StoreZero(o)
  PROVE  MeterInv'
<1>1. /\ stage[o] = "store" /\ stage[o] # "idle" /\ Answers(o)
      /\ datum' = IF Zeroed(o) /\ job[o].on = Side /\ ~hurt[o] /\ (job[o].top \/ depth = Ground)
                  THEN {IF job[o].top THEN home ELSE 0} ELSE {}
      /\ UNCHANGED <<suspect, device, loop, home, wall, aim, drift, bound>>
  BY DEF StoreZero
<1>2. UNCHANGED <<depth, origin, slipped, phase, side, v1, prev, result, run, mishaps, moves, commands>>
  BY <1>1 DEF device, loop, bound
<1>3. DeviceTypes' /\ LoopTypes' /\ TallyTypes' /\ home' \in Nat /\ wall' \in Nat /\ drift' \in Nat
  BY <1>1, <1>2 DEF MeterInv, DeviceTypes, LoopTypes, TallyTypes
<1>4. ZeroInv'
  BY <1>1, ZeroEnds
<1>5. CacheTypes'
  <2>1. \A s \in Side : read[o][s] \in SUBSET Int /\ cache[s] \in Int /\ valid[s] \in BOOLEAN
    BY DEF MeterInv, ZeroInv, ZeroTypes, CacheTypes
  <2>2. ASSUME NEW s \in Side
        PROVE  (IF read[o][s] # {} THEN Said(read[o][s]) ELSE cache[s]) \in Int
    <3>1. read[o][s] # {} => Said(read[o][s]) \in read[o][s]
      BY DEF Said
    <3> QED
      BY <2>1, <3>1
  <2>3. cache' = [s \in Side |-> IF read[o][s] # {} THEN Said(read[o][s]) ELSE cache[s]]
    BY DEF StoreZero
  <2>4. cache' \in [Side -> Int]
    BY <2>2, <2>3
  <2>5. valid' = [s \in Side |-> IF s \in job[o].on THEN read[o][s] # {} ELSE valid[s]]
    BY DEF StoreZero
  <2>6. valid' \in [Side -> BOOLEAN]
    BY <2>1, <2>5
  <2> QED
    BY <1>1, <2>4, <2>6 DEF MeterInv, CacheTypes
<1>6. datum' \subseteq Nat
  BY <1>1 DEF MeterInv
<1>7. AimKnown' /\ GotoInside'
  <2>1. aim' = {}
    BY <1>1, OthersOut
  <2> QED
    BY <2>1 DEF AimKnown, GotoInside
<1>8. DatumTrue'
  <2> SUFFICES ASSUME datum' # {}
               PROVE  /\ Busy' = {}
                      /\ \E h \in Nat : datum' = {h} /\ \A s \in Side : Dist(h + origin'[s], Ground) <= Slack'
    BY DEF DatumTrue
  <2> DEFINE h == IF job[o].top THEN home ELSE 0
  <2>1. Zeroed(o) /\ job[o].on = Side /\ ~hurt[o] /\ (job[o].top \/ depth = Ground) /\ datum' = {h}
    BY <1>1
  <2>2. Busy' = {}
    <3>1. stage'[o] = "idle" /\ Untouched(o)
      BY <1>1, AnswersEffect DEF MeterInv, ZeroInv
    <3>2. Busy = {o}
      BY <1>1, <2>1 DEF MeterInv, ZeroInv, Alone
    <3> QED
      BY <3>1, <3>2 DEF Busy, Untouched
  <2>3. h \in Nat
    BY DEF MeterInv
  <2>4. \A s \in Side : Dist(h + origin[s], Ground) <= Slack
    BY <1>1, <2>1, ZeroedNear
  <2>5. Slack' = Slack
    BY <1>1 DEF Slack
  <2> HIDE DEF h
  <2> QED
    BY <1>2, <2>1, <2>2, <2>3, <2>4, <2>5
<1> QED
  BY <1>3, <1>4, <1>5, <1>6, <1>7, <1>8 DEF MeterInv

-----------------------------------------------------------------------------
(* goto, the machine, and the whole.                                       *)

\* The rope whose meter holds bounds the height that goto goes by, whichever way it goes
LEMMA HereBounds ==
  ASSUME CacheTypes, home \in Nat, NEW s \in Side
  PROVE  Here(TRUE) \in Int /\ Here(FALSE) \in Int /\ Here(FALSE) <= Height(s) /\ Height(s) <= Here(TRUE)
<1>1. L \in Side /\ R \in Side /\ (s = L \/ s = R)
  BY DEF Side
<1>2. cache[L] \in Int /\ cache[R] \in Int
  BY <1>1 DEF CacheTypes
<1>3. Height(L) \in Int /\ Height(R) \in Int
  BY <1>2 DEF Height
<1>4. {Height(t) : t \in Side} = {Height(L), Height(R)}
  BY DEF Side
<1>5. Here(TRUE) = Max({Height(L), Height(R)}) /\ Here(FALSE) = Min({Height(L), Height(R)})
  BY <1>4 DEF Here
<1> DEFINE a == Height(L)
           b == Height(R)
<1>6. a \in Int /\ b \in Int
  BY <1>3
<1>7. Here(TRUE) = Max({a, b}) /\ Here(FALSE) = Min({a, b}) /\ (Height(s) = a \/ Height(s) = b)
  BY <1>1, <1>5
<1> HIDE DEF a, b
<1>8. /\ Max({a, b}) \in {a, b} /\ Max({a, b}) >= a /\ Max({a, b}) >= b
      /\ Min({a, b}) \in {a, b} /\ Min({a, b}) <= a /\ Min({a, b}) <= b
  BY <1>6, TwoBounds
<1> QED
  BY <1>6, <1>7, <1>8

LEMMA Between ==
  ASSUME NEW a \in Int, NEW b \in Int, NEW x \in Int, NEW y \in Int, NEW z \in Int,
         a <= x, x <= b, x <= y, z <= x
  PROVE  a <= y /\ z <= b
<1> QED
  OBVIOUS

\* With both meters zeroed and one that has not slipped, the cached heights lie about the true
\* one, but for the slack
LEMMA HeightBetween ==
  ASSUME MeterInv, datum = {home}, Current, Cardinality(slipped) <= 1
  PROVE  Here(FALSE) <= (Ground - depth) + Slack /\ (Ground - depth) - Slack <= Here(TRUE)
<1>1. PICK s \in Side : s \notin slipped
  BY OneHolds DEF MeterInv, DeviceTypes
<1> DEFINE c == origin[s]
           x == Height(s)
<1>2. Dist(home + c, Ground) <= Slack
  BY <1>1 DEF MeterInv, DatumTrue
<1>3. depth \in Int /\ c \in Int /\ home \in Int
  BY MeterNumbers DEF MeterInv, DeviceTypes
<1>4. x = home - (depth - c)
  BY DEF Current, Count, Height
<1>5. /\ Here(TRUE) \in Int /\ Here(FALSE) \in Int
      /\ Here(FALSE) <= x /\ x <= Here(TRUE)
  BY HereBounds DEF MeterInv
<1>9. Slack \in Nat
  BY SlackNat DEF MeterInv
<1> HIDE DEF c, x
<1>6. (home + c) - Ground <= Slack /\ Ground - (home + c) <= Slack
  <2>1. home + c \in Int
    BY <1>3
  <2> QED
    BY <1>2, <1>9, <2>1, MeterNumbers, DistNear
<1>7. x <= (Ground - depth) + Slack /\ (Ground - depth) - Slack <= x /\ x \in Int
  BY <1>3, <1>4, <1>6, <1>9, MeterNumbers
<1>8. (Ground - depth) + Slack \in Int /\ (Ground - depth) - Slack \in Int
  BY <1>3, <1>9, MeterNumbers
<1> QED
  BY <1>5, <1>7, <1>8, Between

LEMMA AimNumbers ==
  ASSUME NEW g \in Nat, NEW d \in 0..g, NEW k \in Nat, NEW span \in Nat, NEW h \in 0..span,
         NEW here \in Int, NEW m \in Int, m <= g - span, m <= 0,
         (h > here /\ here >= (g - d) - k) \/ (h < here /\ here <= (g - d) + k)
  PROVE  d - (h - here) \in (m - k)..(g + k)
<1> QED
  OBVIOUS

LEMMA AimInt ==
  ASSUME NEW d \in Int, NEW h \in Int, NEW here \in Int
  PROVE  d - (h - here) \in Int
<1> QED
  OBVIOUS

\* What an aim at a height inside the span comes to
LEMMA AimInside ==
  ASSUME MeterInv, NEW h \in 0..GotoSpan, NEW here \in Int,
         \/ h > here /\ here >= (Ground - depth) - Slack
         \/ h < here /\ here <= (Ground - depth) + Slack
  PROVE  depth - (h - here) \in Facade
<1> DEFINE e == Ground - GotoSpan
           m == Min({0, e})
<1>1. GotoSpan \in Nat /\ depth \in 0..Ground /\ Slack \in Nat
  BY SlackNat DEF MeterInv, DeviceTypes, GotoSpan
<1>2. e \in Int
  BY <1>1, MeterNumbers
<1>4. Facade = (m - Slack)..(Ground + Slack)
  BY DEF Facade, Outermost
<1> HIDE DEF e
<1>3. m \in Int /\ m <= e /\ m <= 0
  <2>1. 0 \in Int
    OBVIOUS
  <2>2. m \in {0, e} /\ m <= 0 /\ m <= e
    BY <1>2, <2>1, TwoBounds
  <2> QED
    BY <1>2, <2>2
<1>5. m <= Ground - GotoSpan
  BY <1>3 DEF e
<1> HIDE DEF m
<1>6. depth - (h - here) \in (m - Slack)..(Ground + Slack)
  BY <1>1, <1>3, <1>5, MeterNumbers, AimNumbers
<1> QED
  BY <1>4, <1>6

LEMMA GoToStep ==
  ASSUME MeterInv, NEW h \in Targets, GoTo(h)
  PROVE  MeterInv'
<1>1. UNCHANGED <<device, store, loop, zero, home, wall, datum, drift, bound>> /\ h \in 0..GotoSpan
  BY DEF GoTo
<1>2. UNCHANGED <<depth, origin, slipped, cache, valid, suspect, phase, side, v1, prev, result, run,
                  stage, job, left, read, hurt, home, wall, datum, drift, mishaps, moves, commands>>
  BY <1>1 DEF device, store, loop, zero, bound
<1>3. PICK up \in BOOLEAN :
        /\ IF up THEN h > Here(TRUE) ELSE h < Here(FALSE)
        /\ aim' = IF datum # {} /\ Current /\ Cardinality(slipped) <= 1
                  THEN {depth - (h - Here(up))} ELSE {}
  BY DEF GoTo
<1>4. Here(TRUE) \in Int /\ Here(FALSE) \in Int
  BY HereBounds DEF MeterInv, Side
<1>5. AimKnown'
  <2>1. depth \in Int /\ h \in Int
    BY <1>1, MeterNumbers DEF MeterInv, DeviceTypes
  <2>2. depth - (h - Here(TRUE)) \in Int /\ depth - (h - Here(FALSE)) \in Int
    BY <1>4, <2>1, AimInt
  <2>3. up = TRUE \/ up = FALSE
    OBVIOUS
  <2>4. depth - (h - Here(up)) \in Int
    BY <2>2, <2>3
  <2> QED
    BY <1>2, <1>3, <2>4 DEF AimKnown
<1>6. GotoInside'
  <2> SUFFICES ASSUME datum = {home} PROVE aim' \subseteq Facade
    BY <1>2 DEF GotoInside, Facade, Outermost, GotoSpan, Slack
  <2>1. CASE ~(Current /\ Cardinality(slipped) <= 1)
    BY <1>3, <2>1
  <2>2. CASE Current /\ Cardinality(slipped) <= 1
    <3>1. Here(FALSE) <= (Ground - depth) + Slack /\ (Ground - depth) - Slack <= Here(TRUE)
      BY <2>2, HeightBetween
    <3>2. (Ground - depth) - Slack \in Int
      BY MeterNumbers, SlackNat DEF MeterInv, DeviceTypes
    <3>3. depth - (h - Here(up)) \in Facade
      <4>1. CASE up
        <5>1. h > Here(TRUE) /\ up = TRUE
          BY <1>3, <4>1
        <5>2. Here(TRUE) >= (Ground - depth) - Slack
          BY <1>4, <3>1, <3>2
        <5>3. depth - (h - Here(TRUE)) \in Facade
          BY <1>1, <1>4, <5>1, <5>2, AimInside
        <5> QED
          BY <5>1, <5>3
      <4>2. CASE ~up
        <5>1. h < Here(FALSE) /\ up = FALSE
          BY <1>3, <4>2
        <5>2. depth - (h - Here(FALSE)) \in Facade
          BY <1>1, <1>4, <3>1, <5>1, AimInside
        <5> QED
          BY <5>1, <5>2
      <4> QED
        BY <4>1, <4>2
    <3> QED
      BY <1>3, <2>2, <3>3
  <2> QED
    BY <2>1, <2>2
<1>7. /\ DeviceTypes' /\ CacheTypes' /\ LoopTypes' /\ TallyTypes'
      /\ home' \in Nat /\ wall' \in Nat /\ datum' \subseteq Nat /\ drift' \in Nat
  BY <1>2 DEF MeterInv, DeviceTypes, CacheTypes, LoopTypes, TallyTypes
<1>8. ZeroInv'
  BY <1>2 DEF MeterInv, ZeroInv, ZeroTypes, TopOn, Alone, SpanKnown, ReadTrue, Fits, Busy, Count
<1>9. DatumTrue'
  BY <1>2 DEF MeterInv, DatumTrue, Busy, Slack
<1> QED
  BY <1>5, <1>6, <1>7, <1>8, <1>9 DEF MeterInv

\* set_home_ground hurts a zero_meters top and nothing else
LEMMA SetHomeGroundStep ==
  ASSUME MeterInv, NEW cm \in Homes, SetHomeGround(cm)
  PROVE  MeterInv'
<1>1. /\ Command /\ home' = cm /\ aim' = {}
      /\ hurt' = [o \in Op |-> hurt[o] \/ job[o].top]
      /\ UNCHANGED <<device, store, loop, stage, job, left, read, wall, datum, drift>>
  BY DEF SetHomeGround
<1>2. UNCHANGED <<depth, origin, slipped, cache, valid, suspect, phase, side, v1, prev, result, run>>
  BY <1>1 DEF device, store, loop
<1>3. /\ DeviceTypes' /\ CacheTypes' /\ LoopTypes' /\ TallyTypes'
      /\ home' \in Nat /\ wall' \in Nat /\ datum' \subseteq Nat /\ drift' \in Nat
  <2>1. cm \in Nat
    BY LengthAssumption
  <2> QED
    BY <1>1, <1>2, <2>1, TallyStep DEF MeterInv, DeviceTypes, CacheTypes, LoopTypes
<1>4. hurt' \in [Op -> BOOLEAN] /\ \A o \in Op : ~hurt'[o] => ~hurt[o] /\ ~job[o].top
  <2>1. \A o \in Op : (hurt[o] \/ job[o].top) \in BOOLEAN
    OBVIOUS
  <2> QED
    BY <1>1, <2>1
<1>5. ZeroTypes' /\ TopOn'
  BY <1>1, <1>4 DEF MeterInv, ZeroInv, ZeroTypes, TopOn
<1>6. Alone' /\ SpanKnown'
  BY <1>1, <1>4 DEF MeterInv, ZeroInv, Alone, SpanKnown, Busy
<1>7. ReadTrue'
  BY <1>1, <1>2, <1>4 DEF MeterInv, ZeroInv, ReadTrue, Fits, Count
<1>8. DatumTrue'
  BY <1>1, <1>2 DEF MeterInv, DatumTrue, Busy, Slack
<1>9. AimKnown' /\ GotoInside'
  BY <1>1 DEF AimKnown, GotoInside
<1> QED
  BY <1>3, <1>5, <1>6, <1>7, <1>8, <1>9 DEF MeterInv, ZeroInv

LEMMA SetWallHeightStep ==
  ASSUME MeterInv, NEW cm \in Walls, SetWallHeight(cm)
  PROVE  MeterInv'
<1>1. Command /\ wall' = cm /\ aim' = {} /\ UNCHANGED <<device, store, loop, zero, home, datum, drift>>
  BY DEF SetWallHeight
<1>2. UNCHANGED <<depth, origin, slipped, cache, valid, suspect, phase, side, v1, prev, result, run,
                  stage, job, left, read, hurt>>
  BY <1>1 DEF device, store, loop, zero
<1>3. /\ DeviceTypes' /\ CacheTypes' /\ LoopTypes' /\ TallyTypes'
      /\ home' \in Nat /\ wall' \in Nat /\ datum' \subseteq Nat /\ drift' \in Nat
  <2>1. cm \in Nat
    BY LengthAssumption
  <2> QED
    BY <1>1, <1>2, <2>1, TallyStep DEF MeterInv, DeviceTypes, CacheTypes, LoopTypes
<1>4. ZeroInv'
  BY <1>1, <1>2 DEF MeterInv, ZeroInv, ZeroTypes, TopOn, Alone, SpanKnown, ReadTrue, Fits, Busy, Count
<1>5. DatumTrue'
  BY <1>1, <1>2 DEF MeterInv, DatumTrue, Busy, Slack
<1>6. AimKnown' /\ GotoInside'
  BY <1>1 DEF AimKnown, GotoInside
<1> QED
  BY <1>3, <1>4, <1>5, <1>6 DEF MeterInv

\* How far the machine moves is as far as a span or a reading can come to be off
LEMMA Farther ==
  ASSUME NEW a \in Int, NEW b \in Int, NEW c \in Int, NEW k \in Int, Dist(a, b) <= k
  PROVE  Dist(a, c) <= k + Dist(b, c)
<1>1. a - b <= k /\ b - a <= k
  BY DistNear
<1> QED
  BY <1>1 DEF Dist

LEMMA Shifted ==
  ASSUME NEW a \in Int, NEW b \in Int, NEW g \in Int
  PROVE  Dist(g - a, g - b) = Dist(b, a) /\ Dist(a - g, b - g) = Dist(b, a)
<1> QED
  BY DEF Dist

LEMMA DistNat ==
  ASSUME NEW a \in Int, NEW b \in Int
  PROVE  Dist(a, b) \in Nat
<1> QED
  BY DEF Dist

LEMMA MovedSpan ==
  ASSUME NEW h \in Nat, NEW g \in Nat, NEW d \in Int, NEW e \in Int, NEW k \in Nat, NEW w \in Nat,
         Dist(h, g - d) <= k + w
  PROVE  Dist(h, g - e) <= k + (w + Dist(e, d))
<1>1. g - d \in Int /\ g - e \in Int /\ k + w \in Int /\ h \in Int /\ g \in Int
  OBVIOUS
<1>2. Dist(h, g - e) <= (k + w) + Dist(g - d, g - e)
  BY <1>1, Farther
<1>3. Dist(g - d, g - e) = Dist(e, d) /\ Dist(e, d) \in Int
  <2>1. Dist(e, d) \in Int
    BY DEF Dist
  <2> QED
    BY <1>1, <2>1, Shifted
<1>4. Dist(h, g - e) \in Int
  BY <1>1 DEF Dist
<1> QED
  BY <1>2, <1>3, <1>4

LEMMA MovedFits ==
  ASSUME DeviceTypes, depth' \in 0..Ground, home \in Nat, drift \in Nat, NEW o \in Op, NEW s \in Side,
         read[o][s] \subseteq Int, Fits(read[o][s], s, job[o].top),
         drift' = drift + Dist(depth', depth), origin'[s] = origin[s],
         UNCHANGED <<read, job, home>>
  PROVE  Fits(read[o][s], s, job[o].top)'
<1> SUFFICES ASSUME NEW q \in read[o][s]
             PROVE  /\ Dist(q, depth' - origin[s]) <= drift'
                    /\ job[o].top => Dist((home + origin[s]) + q, Ground) <= Tolerance + drift'
  BY DEF Fits, Count
<1> DEFINE c == origin[s]
           e == depth'
           m == Dist(e, depth)
<1>1. /\ Dist(q, depth - c) <= drift
      /\ job[o].top => Dist((home + c) + q, Ground) <= Tolerance + drift
  BY DEF Fits, Count
<1>2. depth \in Int /\ e \in Int /\ c \in Int /\ q \in Int /\ depth - c \in Int /\ e - c \in Int
  BY MeterNumbers DEF DeviceTypes
<1>3. m \in Nat
  BY <1>2, DistNat
<1>4. Dist(depth - c, e - c) = m
  BY <1>2, Shifted
<1>5. drift' = drift + m
  OBVIOUS
<1> HIDE DEF c, e, m
<1>6. Dist(q, e - c) <= drift + Dist(depth - c, e - c)
  BY <1>1, <1>2, Farther
<1>7. job[o].top => Dist((home + c) + q, Ground) <= Tolerance + (drift + m)
  <2>1. Dist((home + c) + q, Ground) \in Int
    BY <1>2, MeterNumbers DEF Dist
  <2> QED
    BY <1>1, <1>3, <2>1, MeterNumbers
<1> QED
  BY <1>4, <1>5, <1>6, <1>7 DEF c, e

LEMMA MoveStep ==
  ASSUME MeterInv, NEW d \in 0..Ground, NEW slips \in SUBSET Side, Move(d, slips)
  PROVE  MeterInv'
<1>1. /\ moves < MaxMoves /\ moves' = moves + 1
      /\ mishaps + Cardinality(slips) <= MaxMishaps
      /\ mishaps' = mishaps + Cardinality(slips)
      /\ depth' = d
      /\ origin' = [s \in Side |-> IF s \in slips THEN origin[s] + d - depth ELSE origin[s]]
      /\ slipped' = slipped \cup slips
      /\ aim' = {}
      /\ hurt' = [o \in Op |-> hurt[o] \/ (o \in Busy /\ slips # {})]
      /\ drift' = IF Busy = {} THEN drift ELSE drift + Dist(d, depth)
      /\ UNCHANGED <<commands, store, loop, stage, job, left, read, home, wall, datum>>
  BY DEF Move
<1>2. TallyTypes'
  <2>1. Cardinality(slips) \in Nat
    BY SlipCount
  <2>2. mishaps \in Nat /\ moves \in Nat
    BY MeterNumbers DEF MeterInv, TallyTypes
  <2>3. mishaps + Cardinality(slips) \in 0..MaxMishaps
    BY <1>1, <2>1, <2>2, MeterNumbers
  <2>4. moves + 1 \in 0..MaxMoves
    BY <1>1, <2>2, MeterNumbers
  <2> QED
    BY <1>1, <2>3, <2>4 DEF MeterInv, TallyTypes
<1>3. DeviceTypes'
  <2>1. d \in Int /\ depth \in Int
    BY MeterNumbers DEF MeterInv, DeviceTypes
  <2>2. ASSUME NEW s \in Side
        PROVE  (IF s \in slips THEN origin[s] + d - depth ELSE origin[s]) \in Int
    <3>1. origin[s] \in Int
      BY DEF MeterInv, DeviceTypes
    <3> QED
      BY <2>1, <3>1
  <2>3. origin' \in [Side -> Int]
    BY <1>1, <2>2
  <2> QED
    BY <1>1, <2>3 DEF MeterInv, DeviceTypes
<1>4. UNCHANGED <<cache, valid, suspect, phase, side, v1, prev, result, run>>
  BY <1>1 DEF store, loop
<1>12. depth \in Int /\ d \in Int /\ home \in Nat /\ drift \in Nat
  BY MeterNumbers DEF MeterInv, DeviceTypes
<1>13. drift' \in Nat /\ (Busy # {} => drift' = drift + Dist(d, depth))
  <2>1. Dist(d, depth) \in Nat
    BY <1>12 DEF Dist
  <2> QED
    BY <1>1, <1>12, <2>1
<1>5. /\ CacheTypes' /\ LoopTypes' /\ home' \in Nat /\ wall' \in Nat /\ datum' \subseteq Nat
      /\ AimKnown' /\ GotoInside'
  BY <1>1, <1>4 DEF MeterInv, CacheTypes, LoopTypes, AimKnown, GotoInside
<1>6. hurt' \in [Op -> BOOLEAN] /\ \A o \in Op : ~hurt'[o] => ~hurt[o] /\ (o \in Busy => slips = {})
  <2>1. \A o \in Op : (hurt[o] \/ (o \in Busy /\ slips # {})) \in BOOLEAN
    OBVIOUS
  <2> QED
    BY <1>1, <2>1
<1>7. ZeroTypes'
  BY <1>1, <1>6 DEF MeterInv, ZeroInv, ZeroTypes
<1>8. TopOn' /\ Alone'
  BY <1>1, <1>6 DEF MeterInv, ZeroInv, TopOn, Alone, Busy
<1>9. SpanKnown'
  <2>1. ASSUME NEW o \in Op, job[o].top, ~hurt'[o], stage[o] # "span"
        PROVE  Dist(home, Ground - d) <= Tolerance + drift'
    <3>1. Dist(home, Ground - depth) <= Tolerance + drift /\ Busy # {}
      BY <1>6, <2>1 DEF MeterInv, ZeroInv, SpanKnown, TopOn, Busy
    <3>2. drift' = drift + Dist(d, depth)
      BY <1>13, <3>1
    <3> QED
      BY <1>12, <3>1, <3>2, MeterNumbers, MovedSpan
  <2> QED
    BY <1>1, <2>1 DEF SpanKnown
<1>10. ReadTrue'
  <2>1. ASSUME NEW o \in Op, NEW s \in Side, stage[o] \in {"read", "store"}, ~hurt'[o]
        PROVE  Fits(read[o][s], s, job[o].top)'
    <3>1. Fits(read[o][s], s, job[o].top) /\ Busy # {} /\ slips = {}
      BY <1>6, <2>1 DEF MeterInv, ZeroInv, ReadTrue, Busy
    <3>2. drift' = drift + Dist(d, depth)
      BY <1>13, <3>1
    <3>3. origin'[s] = origin[s] /\ read[o][s] \subseteq Int
      BY <1>1, <3>1 DEF MeterInv, ZeroInv, ZeroTypes
    <3> QED
      BY <1>1, <3>1, <3>2, <3>3, MovedFits DEF MeterInv
  <2>2. ASSUME NEW o \in Op, NEW s \in Side, stage[o] \in {"idle", "span", "reset"}
        PROVE  read[o][s] = {}
    BY <2>2 DEF MeterInv, ZeroInv, ReadTrue
  <2> QED
    BY <1>1, <2>1, <2>2 DEF ReadTrue
<1>11. DatumTrue'
  <2> SUFFICES ASSUME datum # {}
               PROVE  /\ Busy' = {}
                      /\ \E h \in Nat : datum = {h} /\ \A s \in Side \ slipped' :
                                                         Dist(h + origin'[s], Ground) <= Slack'
    BY <1>1 DEF DatumTrue
  <2>1. Busy' = {}
    BY <1>1 DEF MeterInv, DatumTrue, Busy
  <2>4. Slack' = Slack
    BY <1>1 DEF MeterInv, DatumTrue, Slack
  <2>2. PICK h \in Nat : datum = {h} /\ \A s \in Side \ slipped : Dist(h + origin[s], Ground) <= Slack
    BY DEF MeterInv, DatumTrue
  <2>3. ASSUME NEW s \in Side \ slipped' PROVE Dist(h + origin'[s], Ground) <= Slack
    <3>1. s \notin slipped /\ s \notin slips
      BY <1>1
    <3>2. origin'[s] = origin[s]
      BY <1>1, <3>1
    <3> QED
      BY <2>2, <3>1, <3>2
  <2> QED
    BY <2>1, <2>2, <2>3, <2>4
<1> QED
  BY <1>2, <1>3, <1>5, <1>7, <1>8, <1>9, <1>10, <1>11, <1>13 DEF MeterInv, ZeroInv

\* The counters, and what they count from, are all that a restart keeps
LEMMA MeterRestartStep ==
  ASSUME MeterInv, MeterRestart
  PROVE  MeterInv'
<1>1. /\ Mishap
      /\ cache' = [s \in Side |-> 0]
      /\ valid' = [s \in Side |-> FALSE] /\ suspect' = [s \in Side |-> FALSE]
      /\ phase' = "v1" /\ side' = L /\ v1' = 0 /\ prev' = 0 /\ result' = None
      /\ run' = [s \in Side |-> NoRun]
      /\ stage' = [o \in Op |-> "idle"] /\ job' = [o \in Op |-> NoJob]
      /\ left' = [o \in Op |-> {}]
      /\ read' = [o \in Op |-> [s \in Side |-> {}]]
      /\ hurt' = [o \in Op |-> FALSE]
      /\ home' = 0 /\ wall' = 0 /\ aim' = {}
      /\ UNCHANGED <<device, datum, drift>>
  BY DEF MeterRestart
<1>2. UNCHANGED <<depth, origin, slipped, datum, drift>>
  BY <1>1 DEF device
<1>3. DeviceTypes' /\ TallyTypes' /\ home' \in Nat /\ wall' \in Nat /\ datum' \subseteq Nat /\ drift' \in Nat
  BY <1>1, <1>2, TallyStep DEF MeterInv, DeviceTypes
<1>4. CacheTypes'
  <2>1. cache' \in [Side -> Int]
    BY <1>1
  <2>2. valid' \in [Side -> BOOLEAN] /\ suspect' \in [Side -> BOOLEAN]
    BY <1>1
  <2> QED
    BY <2>1, <2>2 DEF CacheTypes
<1>5. LoopTypes'
  BY <1>1, NoRunOK DEF LoopTypes, None, Side
<1>6. ZeroTypes'
  <2>1. NoJob \in [on : SUBSET Side, top : BOOLEAN] /\ NoJob.on = {}
    BY DEF NoJob
  <2> QED
    BY <1>1, <2>1 DEF ZeroTypes
<1>7. TopOn' /\ Alone' /\ SpanKnown' /\ ReadTrue'
  BY <1>1 DEF TopOn, Alone, SpanKnown, ReadTrue, NoJob
<1>8. DatumTrue'
  BY <1>1, <1>2 DEF MeterInv, DatumTrue, Busy, Slack
<1>9. AimKnown' /\ GotoInside'
  BY <1>1 DEF AimKnown, GotoInside
<1> QED
  BY <1>3, <1>4, <1>5, <1>6, <1>7, <1>8, <1>9 DEF MeterInv, ZeroInv

LEMMA MeterStart ==
  ASSUME MeterInit
  PROVE  MeterInv
<1>1. DeviceTypes
  BY MeterNumbers, LengthAssumption DEF MeterInit, DeviceTypes
<1>2. CacheTypes
  <2>1. cache \in [Side -> Int]
    BY DEF MeterInit
  <2>2. valid \in [Side -> BOOLEAN] /\ suspect \in [Side -> BOOLEAN]
    BY DEF MeterInit
  <2> QED
    BY <2>1, <2>2 DEF CacheTypes
<1>9. home \in Nat /\ wall \in Nat /\ datum \subseteq Nat /\ drift \in Nat
  BY DEF MeterInit
<1>8. TallyTypes
  BY MeterNumbers DEF MeterInit, TallyTypes
<1>3. LoopTypes
  BY NoRunOK DEF MeterInit, LoopTypes, None, Side
<1>4. ZeroTypes
  <2>1. NoJob \in [on : SUBSET Side, top : BOOLEAN]
    BY DEF NoJob
  <2> QED
    BY <2>1 DEF MeterInit, ZeroTypes, NoJob
<1>5. TopOn /\ Alone /\ SpanKnown
  BY DEF MeterInit, TopOn, Alone, SpanKnown, NoJob
<1>6. ReadTrue
  BY DEF MeterInit, ReadTrue
<1>7. DatumTrue
  <2>1. 0 + Ground = Ground /\ Dist(Ground, Ground) <= Slack
    BY MeterNumbers, SlackNat DEF MeterInit, Dist
  <2> QED
    BY <2>1 DEF MeterInit, DatumTrue, Busy
<1>10. AimKnown /\ GotoInside
  BY DEF MeterInit, AimKnown, GotoInside
<1> QED
  BY <1>1, <1>2, <1>3, <1>4, <1>5, <1>6, <1>7, <1>8, <1>9, <1>10 DEF MeterInv, ZeroInv

LEMMA MeterRests ==
  ASSUME MeterInv, UNCHANGED meterVars
  PROVE  MeterInv'
<1>1. UNCHANGED <<device, store, loop, zero, height, bound>>
  BY DEF meterVars
<1>2. UNCHANGED <<mishaps, moves, commands, cache, valid, suspect, phase, side, v1, prev, result, run>>
  BY <1>1 DEF bound, store, loop
<1>3. CacheTypes' /\ LoopTypes' /\ TallyTypes'
  BY <1>2 DEF MeterInv, CacheTypes, LoopTypes, TallyTypes
<1> QED
  BY <1>1, <1>3, LoopBeside

LEMMA MeterStep ==
  ASSUME MeterInv, [MeterNext]_meterVars
  PROVE  MeterInv'
<1>1. CASE MeterLoop
  BY <1>1, ReadFirst, ReadSecond, LookStep, StoreReadingStep DEF MeterLoop
<1>2. ASSUME NEW o \in Op, Commands(o) PROVE MeterInv'
  BY <1>2, ZeroMetersStep, SpanStep, ReadBackStep, ResetStep, StoreZeroStep DEF Commands
<1>3. CASE \E target \in Targets : GoTo(target)
  BY <1>3, GoToStep
<1>4. CASE \E d \in 0..Ground, slips \in SUBSET Side : Move(d, slips)
  BY <1>4, MoveStep
<1>5. CASE (\E cm \in Homes : SetHomeGround(cm)) \/ (\E cm \in Walls : SetWallHeight(cm))
  BY <1>5, SetHomeGroundStep, SetWallHeightStep
<1>6. CASE UNCHANGED meterVars \/ MeterRestart
  BY <1>6, MeterRests, MeterRestartStep
<1> QED
  BY <1>1, <1>2, <1>3, <1>4, <1>5, <1>6 DEF MeterNext

\* The invariant that the meters' theorems rest on
THEOREM MeterInvariant == MeterSpec => []MeterInv
<1>1. MeterInit => MeterInv
  BY MeterStart
<1>2. MeterInv /\ [MeterNext]_meterVars => MeterInv'
  BY MeterStep
<1> QED
  BY <1>1, <1>2, PTL DEF MeterSpec

\* Every variable of the meters is of its type, and the filter's run of rejections stays below
\* the resync (meter_loop, cmd_zero_meters)
THEOREM MeterTypeCorrect == MeterSpec => []MeterTypeOK
<1>1. MeterInv => MeterTypeOK
  BY DEF MeterInv, DeviceTypes, CacheTypes, LoopTypes, ZeroInv, ZeroTypes, TallyTypes, AimKnown, MeterTypeOK
<1> QED
  BY <1>1, MeterInvariant, PTL

LEMMA HeightNumbers ==
  ASSUME NEW h \in Int, NEW c \in Int, NEW d \in Int, NEW g \in Int, NEW k \in Int, Dist(h + c, g) <= k
  PROVE  Dist(h - (d - c), g - d) <= k
<1>1. h + c \in Int /\ h - (d - c) \in Int /\ g - d \in Int
  OBVIOUS
<1>2. (h + c) - g <= k /\ g - (h + c) <= k
  BY <1>1, DistNear
<1>3. (h - (d - c)) - (g - d) <= k /\ (g - d) - (h - (d - c)) <= k
  BY <1>2
<1> QED
  BY <1>1, <1>3, DistNear

\* After a zero_meters that answered OK, top or at the ground, unhurt, the height that goto and the
\* page compute is the true one to twice the tolerance, under the home_ground_cm that goes with the
\* zero and as long as no meter slips, also after a restart that restores it (cmd_zero_meters,
\* 4393-4480, cmd_set_home_ground, 4305-4316)
THEOREM HeightCorrect == MeterSpec => []HeightTrue
<1>1. MeterInv => HeightTrue
  <2> SUFFICES ASSUME MeterInv, datum = {home}, slipped = {}, NEW s \in Side
               PROVE  Dist(home - Count(s), Ground - depth) <= Slack
    BY DEF HeightTrue
  <2>1. Dist(home + origin[s], Ground) <= Slack
    BY DEF MeterInv, DatumTrue
  <2> DEFINE c == origin[s]
  <2>2. depth \in Int /\ c \in Int /\ home \in Int /\ Count(s) = depth - c
    BY MeterNumbers DEF MeterInv, DeviceTypes, Count
  <2>3. Dist(home + c, Ground) <= Slack
    BY <2>1
  <2> HIDE DEF c
  <2>4. Dist(home - (depth - c), Ground - depth) <= Slack
    <3>1. Ground \in Int /\ Slack \in Int /\ depth \in Int /\ c \in Int /\ home \in Int
      BY <2>2, MeterNumbers, SlackNat DEF MeterInv
    <3> QED
      BY <2>3, <3>1, HeightNumbers
  <2> QED
    BY <2>2, <2>4
<1> QED
  BY <1>1, MeterInvariant, PTL

\* goto aims neither into the ground nor further above the top than the wall height that was set,
\* but for the slack, although one meter has slipped, whichever it is and however far (cmd_goto,
\* goto_span_cm_, 4333-4360)
THEOREM GotoCorrect == MeterSpec => []GotoInside
<1>1. MeterInv => GotoInside
  BY DEF MeterInv
<1> QED
  BY <1>1, MeterInvariant, PTL
=============================================================================
