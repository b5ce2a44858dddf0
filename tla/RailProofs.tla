----------------------------- MODULE RailProofs ------------------------------
(***************************************************************************)
(* Rail for any number of operators, commands and faults: its types with   *)
(* the ownership of motion_mtx_, and what a jog that nobody watches can    *)
(* come from.                                                              *)
(***************************************************************************)
EXTENDS Rail, TLAPS

-----------------------------------------------------------------------------
\* Whatever becomes of a frame, the drive does one of the four things it can do
LEMMA FrameTypes ==
  ASSUME TypeOK, NEW d \in Jogs \cup {Rest, ToTarget}, Answered(d) \/ Unanswered(d) \/ Lost
  PROVE  drive' \in {Rest, ToTarget} \cup Jogs /\ faults' \in 0..MaxFaults
<1>1. drive' \in {Rest, ToTarget} \cup Jogs
  BY DEF TypeOK, Answered, Unanswered, Lost, Order
<1>2. faults' \in 0..MaxFaults
  BY BoundAssumption DEF TypeOK, Answered, Unanswered, Lost, Fault, NoFault
<1> QED
  BY <1>1, <1>2

LEMMA JogStopTypes ==
  ASSUME TypeOK, JogStops
  PROVE  /\ drive' \in {Rest, ToTarget} \cup Jogs /\ faults' \in 0..MaxFaults
         /\ why' \in SUBSET {"stop_lost", "start_unanswered", "monitor_late"}
<1>1. why' \in SUBSET {"stop_lost", "start_unanswered", "monitor_late"}
  BY DEF TypeOK, JogStops
<1> QED
  BY <1>1, FrameTypes DEF JogStops

\* Every step leaves the variables of their types and motion_mtx_ with the thread
\* whose section it guards
LEMMA TypeStep == TypeOK /\ [Next]_vars => TypeOK'
<1> USE ThreadAssumption, BoundAssumption
    DEF TypeOK, Thread, Mover, Label, Locked, Jogs, Rest, ToTarget, Attempts, Goto, Fault,
        NoFault, JogPart, Command, TryLock, Unlock, motor, watch, sweep, local
<1> SUFFICES ASSUME TypeOK, [Next]_vars
             PROVE  TypeOK'
  OBVIOUS
<1>1. ASSUME NEW o \in Op, NEW d \in Jogs, Jog(o, d)
      PROVE  TypeOK'
  BY <1>1 DEF Jog
<1>2. ASSUME NEW o \in Op, JogStop(o)
      PROVE  TypeOK'
  BY <1>2 DEF JogStop
<1>3. ASSUME NEW o \in Op, RailMove(o)
      PROVE  TypeOK'
  BY <1>3 DEF RailMove
<1>4. ASSUME NEW o \in Op, SweepStart(o)
      PROVE  TypeOK'
  <2>1. TRUE \in BOOLEAN /\ FALSE \in BOOLEAN
    OBVIOUS
  <2>2. /\ pc' \in [Thread -> Label]
        /\ leg' \in [Mover -> 0..3]
        /\ pc'[Sweep] # "idle"
        /\ mtx # Free => pc'[mtx] \in Locked \cup {"stop"}
        /\ \A t \in Mover : pc'[t] \in Locked => mtx = t
        /\ \A t \in Mover : pc'[t] = "goto" => tries[t] > 0
        /\ commands' \in 0..MaxCommands
    BY <1>4 DEF SweepStart
  <2>3. sweeping' \in BOOLEAN /\ sweepStop' \in BOOLEAN /\ (sweeping' <=> pc'[Sweep] # "idle")
    BY <1>4, <2>1, <2>2, Zenon DEF SweepStart
  <2>4. \A u \in Op : pc'[u] \in JogPart => arg[u] \in Jogs
    BY <1>4 DEF SweepStart
  <2> QED
    BY <1>4, <2>2, <2>3, <2>4 DEF SweepStart
<1>5. ASSUME NEW o \in Op, SweepStopAsked(o)
      PROVE  TypeOK'
  BY <1>5 DEF SweepStopAsked
<1>6. ASSUME NEW o \in Op, Clean(o)
      PROVE  TypeOK'
  BY <1>6 DEF Clean
<1>7. ASSUME NEW o \in Op, NEW on \in BOOLEAN, RailEnable(o, on)
      PROVE  TypeOK'
  BY <1>7 DEF RailEnable
<1>8. ASSUME NEW o \in Op, RailZero(o)
      PROVE  TypeOK'
  <2>1. zeroed' \in BOOLEAN
    BY <1>8 DEF RailZero
  <2>2. commands' \in 0..MaxCommands /\ faults' \in 0..MaxFaults /\ UNCHANGED pc
    BY <1>8 DEF RailZero
  <2> QED
    BY <1>8, <2>1, <2>2 DEF RailZero
<1>9. ASSUME NEW o \in Op, RailCfg(o)
      PROVE  TypeOK'
  <2>1. enabled' \in BOOLEAN
    BY <1>9 DEF RailCfg
  <2>2. commands' \in 0..MaxCommands /\ UNCHANGED pc
    BY <1>9 DEF RailCfg
  <2> QED
    BY <1>9, <2>1, <2>2 DEF RailCfg
<1>10. ASSUME NEW o \in Op, JogLook(o)
       PROVE  TypeOK'
  BY <1>10 DEF JogLook
<1>11. ASSUME NEW o \in Op, JogLimit(o)
       PROVE  TypeOK'
  <2>1. CASE pc[o] = "limit" /\ JogStops /\ Goto(o, "limit_dir") /\ UNCHANGED <<dir, mtx>>
    BY <1>11, <2>1, JogStopTypes DEF JogLimit
  <2>2. CASE pc[o] = "limit_dir"
    <3>1. UNCHANGED <<drive, faults, why>> /\ mtx = o
      BY <1>11, <2>2 DEF JogLimit
    <3>2. dir' = 0 /\ pc' = [pc EXCEPT ![o] = "idle"] /\ mtx' = Free
      BY <1>11, <2>2, <3>1 DEF JogLimit
    <3> QED
      BY <1>11, <2>2, <3>1, <3>2 DEF JogLimit
  <2> QED
    BY <1>11, <2>1, <2>2 DEF JogLimit
<1>12. ASSUME NEW o \in Op, JogSpeed(o)
       PROVE  TypeOK'
  BY <1>12 DEF JogSpeed
<1>13. ASSUME NEW o \in Op, JogSend(o)
       PROVE  TypeOK'
  <2>1. drive' \in {Rest, ToTarget} \cup Jogs /\ faults' \in 0..MaxFaults
    BY <1>13, FrameTypes DEF JogSend
  <2>2. why' \in SUBSET {"stop_lost", "start_unanswered", "monitor_late"}
    BY <1>13 DEF JogSend
  <2>3. CASE Goto(o, "dir") /\ UNCHANGED mtx
    BY <1>13, <2>1, <2>2, <2>3 DEF JogSend
  <2>4. CASE Goto(o, "idle") /\ Unlock(o)
    BY <1>13, <2>1, <2>2, <2>4 DEF JogSend
  <2> QED
    BY <1>13, <2>3, <2>4 DEF JogSend
<1>14. ASSUME NEW o \in Op, JogWatches(o)
       PROVE  TypeOK'
  BY <1>14 DEF JogWatches
<1>15. ASSUME NEW o \in Op, JogStopSend(o)
       PROVE  TypeOK'
  BY <1>15, JogStopTypes DEF JogStopSend
<1>16. ASSUME NEW o \in Op, MoveEnds(o)
       PROVE  TypeOK'
  BY <1>16 DEF MoveEnds
<1>17. ASSUME NEW o \in Op, CleanLocks(o)
       PROVE  TypeOK'
  BY <1>17 DEF CleanLocks
<1>18. ASSUME NEW o \in Op, CleanFires(o)
       PROVE  TypeOK'
  BY <1>18, FrameTypes DEF CleanFires
<1>19. ASSUME NEW o \in Op, CleanEnds(o)
       PROVE  TypeOK'
  BY <1>19 DEF CleanEnds
<1>20. ASSUME NEW t \in Mover, GotoSend(t)
       PROVE  TypeOK'
  <2>1. drive' \in {Rest, ToTarget} \cup Jogs /\ faults' \in 0..MaxFaults
    BY <1>20, FrameTypes DEF GotoSend
  <2>2. why' \in SUBSET {"stop_lost", "start_unanswered", "monitor_late"}
    BY <1>20 DEF GotoSend
  <2>3. CASE Answered(ToTarget) /\ Goto(t, "wait") /\ UNCHANGED <<mtx, tries>>
    BY <1>20, <2>1, <2>2, <2>3 DEF GotoSend
  <2>4. CASE tries[t] = 1 /\ tries' = [tries EXCEPT ![t] = @ - 1] /\ Goto(t, "failed") /\ UNCHANGED mtx
    BY <1>20, <2>1, <2>2, <2>4 DEF GotoSend
  <2>5. CASE tries[t] # 1 /\ tries' = [tries EXCEPT ![t] = @ - 1] /\ Goto(t, "goto") /\ UNCHANGED mtx
    BY <1>20, <2>1, <2>2, <2>5 DEF GotoSend
  <2> QED
    BY <1>20, <2>3, <2>4, <2>5 DEF GotoSend
<1>21. ASSUME NEW t \in Mover, GotoWait(t)
       PROVE  TypeOK'
  BY <1>21 DEF GotoWait
<1>22. CASE MonLook
  BY <1>22 DEF MonLook
<1>23. CASE MonStop
  BY <1>23, JogStopTypes DEF MonStop
<1>24. CASE MonDir
  BY <1>24 DEF MonDir
<1>25. CASE SweepLeg
  BY <1>25 DEF SweepLeg
<1>26. CASE SweepLegEnds
  BY <1>26 DEF SweepLegEnds
<1>27. CASE SweepEnds
  <2>1. FALSE \in BOOLEAN /\ Sweep \in Thread
    OBVIOUS
  <2>2. /\ pc' \in [Thread -> Label]
        /\ leg' \in [Mover -> 0..3] /\ tries' \in [Mover -> 0..Attempts]
        /\ pc'[Sweep] = "idle"
        /\ mtx # Free => pc'[mtx] \in Locked \cup {"stop"}
        /\ \A t \in Mover : pc'[t] \in Locked => mtx = t
        /\ \A t \in Mover : pc'[t] = "goto" => tries'[t] > 0
    BY <1>27 DEF SweepEnds
  <2>3. sweeping' \in BOOLEAN /\ (sweeping' <=> pc'[Sweep] # "idle")
    BY <1>27, <2>1, <2>2, Zenon DEF SweepEnds
  <2>4. \A u \in Op : pc'[u] \in JogPart => arg[u] \in Jogs
    BY <1>27 DEF SweepEnds
  <2> QED
    BY <1>27, <2>2, <2>3, <2>4 DEF SweepEnds
<1>28. CASE RailRuns
  BY <1>28 DEF RailRuns, Jogging
<1>29. CASE TimePasses
  BY <1>29 DEF TimePasses
<1>30. CASE UNCHANGED vars
  BY <1>30 DEF vars
<1> QED
  <2>1. ASSUME NEW o \in Op, Commands(o)
        PROVE  TypeOK'
    BY <2>1, <1>1, <1>2, <1>3, <1>4, <1>5, <1>6, <1>7, <1>8, <1>9 DEF Commands
  <2>2. ASSUME NEW o \in Op, JogSteps(o) \/ CleanSteps(o)
        PROVE  TypeOK'
    BY <2>2, <1>10, <1>11, <1>12, <1>13, <1>14, <1>15, <1>17, <1>18, <1>19
       DEF JogSteps, CleanSteps
  <2> QED
    BY <2>1, <2>2, <1>16, <1>20, <1>21, <1>22, <1>23, <1>24, <1>25, <1>26, <1>27, <1>28,
       <1>29, <1>30
       DEF Next, MoveSteps, Monitor, SweepStep

\* Every variable of the rail stays within its type, and motion_mtx_ belongs to the
\* thread that is inside a section of its own
THEOREM TypeCorrect == Spec => []TypeOK
<1>1. Init => TypeOK
  <2> SUFFICES ASSUME Init
               PROVE  TypeOK
    OBVIOUS
  <2>1. TRUE \in BOOLEAN /\ FALSE \in BOOLEAN
    OBVIOUS
  <2>2. commands \in 0..MaxCommands /\ faults \in 0..MaxFaults
    BY BoundAssumption DEF Init
  <2>3. /\ drive \in {Rest, ToTarget} \cup Jogs
        /\ arg \in [Op -> {-1, 0, 1}]
        /\ leg \in [Mover -> 0..3] /\ tries \in [Mover -> 0..Attempts]
        /\ edge \in {-1, 0, 1} /\ dir \in {-1, 0, 1}
    BY DEF Init, Attempts
  <2>4. /\ pc \in [Thread -> Label]
        /\ \A t \in Thread : pc[t] = "idle"
        /\ Sweep \in Thread /\ Mover \subseteq Thread /\ Op \subseteq Thread
    BY DEF Init, Label, Thread, Mover
  <2>5. "idle" \notin Locked /\ "idle" \notin JogPart
    BY DEF Locked, JogPart
  <2> QED
    BY <2>1, <2>2, <2>3, <2>4, <2>5 DEF Init, TypeOK
<1> QED
  BY <1>1, TypeStep, PTL DEF Spec

-----------------------------------------------------------------------------
\* Between the stop at an end and the store that follows it nobody starts a jog: the
\* thread still owns motion_mtx_, which every start needs
StoppedStays ==
  \A o \in Op : pc[o] = "limit_dir" /\ Jogging => why # {}

RailInv == StoppedStays /\ UnwatchedExplained

\* After a stop the rail is not jogging, or the frame was lost; why grows only by that
LEMMA JogStopped ==
  ASSUME TypeOK, JogStops
  PROVE  Jogging' => why' # {}
<1>1. CASE Answered(Rest) \/ Unanswered(Rest)
  BY <1>1 DEF Answered, Unanswered, Order, Jogging, Jogs, Rest
<1>2. CASE Lost /\ why' = IF Jogging THEN why \cup {"stop_lost"} ELSE why
  <2>1. CASE Jogging
    BY <1>2, <2>1
  <2>2. CASE ~Jogging
    BY <1>2, <2>2 DEF Lost, Jogging
  <2> QED
    BY <2>1, <2>2
<1> QED
  BY <1>1, <1>2 DEF JogStops

\* A frame of a move never makes the rail jog
LEMMA MoveFrame ==
  ASSUME Answered(ToTarget) \/ Unanswered(ToTarget) \/ Lost
  PROVE  Jogging' => Jogging /\ drive' = drive
BY DEF Answered, Unanswered, Lost, Order, Jogging, Jogs, Rest, ToTarget

\* A step that starts no jog, leaves the stop to come and the jog's direction, and
\* forgets no cause changes nothing about it
LEMMA Harmless ==
  ASSUME RailInv, TypeOK,
         Jogging' => Jogging /\ (why # {} => why' # {}),
         UNCHANGED dir,
         \A t \in Thread : pc[t] \in {"stop", "limit"} => pc'[t] \in {"stop", "limit"},
         \A o \in Op : pc[o] = "dir" => pc'[o] = "dir",
         \A o \in Op : pc'[o] = "limit_dir" => pc[o] = "limit_dir"
  PROVE  RailInv'
BY DEF RailInv, StoppedStays, UnwatchedExplained, Stopping, Starting

LEMMA RailStep == TypeOK /\ RailInv /\ [Next]_vars => RailInv'
<1> SUFFICES ASSUME TypeOK, RailInv, [Next]_vars
             PROVE  RailInv'
  OBVIOUS
<1> USE ThreadAssumption DEF TypeOK, Thread, Mover, Goto, Command
<1>1. ASSUME NEW o \in Op, NEW d \in Jogs, Jog(o, d)
      PROVE  RailInv'
  BY <1>1, Harmless DEF Jog, watch, Jogging
<1>2. ASSUME NEW o \in Op, JogStop(o)
      PROVE  RailInv'
  <2>1. pc'[o] = "stop" /\ UNCHANGED <<drive, why>>
    BY <1>2 DEF JogStop
  <2>2. \A u \in Op : pc'[u] = "limit_dir" => pc[u] = "limit_dir"
    BY <1>2 DEF JogStop
  <2> QED
    BY <2>1, <2>2 DEF RailInv, StoppedStays, UnwatchedExplained, Stopping, Jogging
<1>3. ASSUME NEW o \in Op, RailMove(o) \/ Clean(o)
      PROVE  RailInv'
  BY <1>3, Harmless DEF RailMove, Clean, watch, Jogging
<1>4. ASSUME NEW o \in Op, SweepStart(o) \/ SweepStopAsked(o)
      PROVE  RailInv'
  BY <1>4, Harmless DEF SweepStart, SweepStopAsked, watch, Jogging
<1>5. ASSUME NEW o \in Op, NEW on \in BOOLEAN, RailEnable(o, on)
      PROVE  RailInv'
  <2>1. Jogging' => Jogging /\ UNCHANGED why
    BY <1>5 DEF RailEnable, Jogging, Jogs, Rest
  <2>2. UNCHANGED <<dir, pc>>
    BY <1>5 DEF RailEnable, watch
  <2> QED
    BY <2>1, <2>2, Harmless
<1>6. ASSUME NEW o \in Op, RailZero(o) \/ RailCfg(o)
      PROVE  RailInv'
  BY <1>6, Harmless DEF RailZero, RailCfg, watch, Jogging
<1>7. ASSUME NEW o \in Op, JogLook(o)
      PROVE  RailInv'
  BY <1>7, Harmless DEF JogLook, watch, Jogging
<1>8. ASSUME NEW o \in Op, JogLimit(o)
      PROVE  RailInv'
  <2>1. CASE pc[o] = "limit" /\ JogStops
    <3>1. Jogging' => why' # {}
      BY <2>1, JogStopped
    <3> QED
      BY <3>1 DEF RailInv, StoppedStays, UnwatchedExplained
  <2>2. CASE pc[o] = "limit_dir" /\ UNCHANGED <<drive, why>> /\ pc' = [pc EXCEPT ![o] = "idle"]
    BY <2>2 DEF RailInv, StoppedStays, UnwatchedExplained, Jogging
  <2> QED
    BY <1>8, <2>1, <2>2 DEF JogLimit
<1>9. ASSUME NEW o \in Op, JogSpeed(o)
      PROVE  RailInv'
  BY <1>9, Harmless DEF JogSpeed, watch, Jogging
<1>10. ASSUME NEW o \in Op, JogSend(o)
       PROVE  RailInv'
  <2>1. \A u \in Op : pc[u] = "limit_dir" => u # o /\ mtx = u /\ mtx = o
    BY <1>10 DEF JogSend, Locked
  <2>2. UNCHANGED dir /\ \A u \in Thread \ {o} : pc'[u] = pc[u]
    BY <1>10 DEF JogSend, watch
  <2>3. \A u \in Op : pc'[u] # "limit_dir"
    BY <1>10, <2>1, <2>2 DEF JogSend
  <2>4. CASE Answered(arg[o]) /\ Goto(o, "dir")
    BY <2>3, <2>4 DEF RailInv, StoppedStays, UnwatchedExplained, Starting
  <2>5. CASE Lost /\ UNCHANGED why
    <3>1. UNCHANGED drive /\ Stopping' = Stopping
      BY <1>10, <2>2, <2>5 DEF JogSend, Lost, Stopping
    <3>2. Starting => Starting'
      BY <1>10, <2>2 DEF JogSend, Starting
    <3> QED
      BY <2>2, <2>3, <2>5, <3>1, <3>2 DEF RailInv, StoppedStays, UnwatchedExplained, Jogging
  <2>6. CASE why' = IF dir = 0 THEN why \cup {"start_unanswered"} ELSE why
    <3>1. dir' = 0 => why' # {}
      BY <2>2, <2>6
    <3> QED
      BY <2>3, <3>1 DEF RailInv, StoppedStays, UnwatchedExplained
  <2> QED
    BY <1>10, <2>4, <2>5, <2>6 DEF JogSend
<1>11. ASSUME NEW o \in Op, JogWatches(o)
       PROVE  RailInv'
  <2>1. UNCHANGED <<drive, why>> /\ \A u \in Op : pc'[u] = "limit_dir" => pc[u] = "limit_dir"
    BY <1>11 DEF JogWatches
  <2>2. CASE pc[o] = "dir" /\ dir' = arg[o]
    BY <2>1, <2>2 DEF RailInv, StoppedStays, UnwatchedExplained, Jogging, JogPart, Jogs
  <2>3. CASE pc[o] = "beat" /\ Goto(o, "idle") /\ UNCHANGED dir
    BY <2>1, <2>3, Harmless DEF Jogging
  <2> QED
    BY <1>11, <2>2, <2>3 DEF JogWatches
<1>12. ASSUME NEW o \in Op, JogStopSend(o)
       PROVE  RailInv'
  <2>1. Jogging' => why' # {}
    BY <1>12, JogStopped DEF JogStopSend
  <2> QED
    BY <2>1 DEF RailInv, StoppedStays, UnwatchedExplained
<1>13. ASSUME NEW o \in Op, MoveEnds(o) \/ CleanLocks(o) \/ CleanEnds(o)
       PROVE  RailInv'
  BY <1>13, Harmless DEF MoveEnds, CleanLocks, CleanEnds, watch, Jogging
<1>14. ASSUME NEW o \in Op, CleanFires(o)
       PROVE  RailInv'
  <2>1. Jogging' => Jogging /\ drive' = drive
    BY <1>14, MoveFrame DEF CleanFires
  <2>2. Jogging' => UNCHANGED why
    BY <1>14, <2>1 DEF CleanFires, Jogging, Jogs, ToTarget
  <2> QED
    BY <1>14, <2>1, <2>2, Harmless DEF CleanFires, watch
<1>15. ASSUME NEW t \in Mover, GotoSend(t)
       PROVE  RailInv'
  <2>1. Jogging' => Jogging /\ drive' = drive
    BY <1>15, MoveFrame DEF GotoSend
  <2>2. Jogging' => UNCHANGED why
    BY <1>15, <2>1 DEF GotoSend, Answered, Order, Jogging, Jogs, ToTarget, Rest
  <2>3. /\ UNCHANGED dir
        /\ \A u \in Thread : u # t => pc'[u] = pc[u]
        /\ pc[t] = "goto" /\ pc'[t] \in {"wait", "failed", "goto"}
    BY <1>15 DEF GotoSend, watch
  <2> QED
    BY <2>1, <2>2, <2>3, Harmless
<1>16. ASSUME NEW t \in Mover, GotoWait(t)
       PROVE  RailInv'
  BY <1>16, Harmless DEF GotoWait, watch, Jogging
<1>17. CASE MonLook
  BY <1>17, Harmless DEF MonLook, watch, Jogging
<1>18. CASE MonStop
  <2>1. Jogging' => why' # {}
    BY <1>18, JogStopped DEF MonStop
  <2> QED
    BY <2>1 DEF RailInv, StoppedStays, UnwatchedExplained
<1>19. CASE MonDir
  <2>1. UNCHANGED drive
    BY <1>19 DEF MonDir
  <2>2. Jogging' => why' # {}
    BY <1>19, <2>1 DEF MonDir, Jogging
  <2> QED
    BY <2>2 DEF RailInv, StoppedStays, UnwatchedExplained
<1>20. CASE SweepStep
  BY <1>20, Harmless DEF SweepStep, SweepLeg, SweepLegEnds, SweepEnds, watch, Jogging
<1>21. CASE RailRuns
  <2>1. Jogging' => Jogging /\ UNCHANGED why
    BY <1>21 DEF RailRuns, Jogging, Jogs, Rest
  <2>2. UNCHANGED <<dir, pc>>
    BY <1>21 DEF RailRuns, watch
  <2> QED
    BY <2>1, <2>2, Harmless
<1>22. CASE TimePasses
  BY <1>22, Harmless DEF TimePasses, Jogging
<1>23. CASE UNCHANGED vars
  BY <1>23, Harmless DEF vars, watch, Jogging
<1> QED
  <2>1. ASSUME NEW o \in Op, Commands(o)
        PROVE  RailInv'
    BY <2>1, <1>1, <1>2, <1>3, <1>4, <1>5, <1>6 DEF Commands
  <2>2. ASSUME NEW o \in Op, JogSteps(o) \/ CleanSteps(o)
        PROVE  RailInv'
    BY <2>2, <1>7, <1>8, <1>9, <1>10, <1>11, <1>12, <1>13, <1>14 DEF JogSteps, CleanSteps
  <2> QED
    BY <2>1, <2>2, <1>13, <1>15, <1>16, <1>17, <1>18, <1>19, <1>20, <1>21, <1>22, <1>23
       DEF Next, MoveSteps, Monitor

\* A rail that jogs with nobody to watch it lost a stop frame, was started without an
\* answer, or was started behind the monitor's back, whatever else the commands, the
\* sweep and the monitor do
THEOREM UnwatchedCorrect == Spec => []UnwatchedExplained
<1>1. Init => RailInv
  BY DEF Init, RailInv, StoppedStays, UnwatchedExplained, Jogging, Jogs, Rest
<1>2. RailInv => UnwatchedExplained
  BY DEF RailInv
<1> QED
  BY <1>1, <1>2, RailStep, TypeCorrect, PTL DEF Spec
=============================================================================
